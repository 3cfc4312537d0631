--------------------------- MODULE ServicesProofs ---------------------------
(***************************************************************************)
(* The notification queue, for every set of notices, scopes and workers    *)
(* and all clock readings of its callers; and the services side by side:   *)
(* the queue, the publication and the investigation share no state, so     *)
(* what is proved of each alone (PublicationProofs, InvestigationProofs)   *)
(* holds beside the others.                                                *)
(***************************************************************************)
EXTENDS MCServices, WellFoundedInduction, TLAPS

----------------------------------------------------------------------------
(* The claimed notice. *)

\* A non-empty set of naturals has a least element.
LEMMA LeastNatural ==
  ASSUME NEW T \in SUBSET Nat, T # {}
  PROVE  \E x \in T : \A y \in T : x <= y
<1> DEFINE Less == {p \in Nat \X Nat : p[1] < p[2]}
<1>1. IsWellFoundedOn(Less, Nat)
  BY NatLessThanWellFounded DEF OpToRel
<1>2. PICK x \in T : \A y \in T : ~ (<<y, x>> \in Less)
  <2> HIDE DEF Less
  <2> QED BY <1>1, WFMin
<1>3. ASSUME NEW y \in T, y < x PROVE FALSE
  <2>1. <<y, x>> \in Nat \X Nat /\ <<y, x>>[1] < <<y, x>>[2]
    BY <1>3
  <2> QED BY <2>1, <1>2
<1> HIDE DEF Less
<1> QED BY <1>3, SMT

\* The notice a claim picks is one of the candidates.
LEMMA ChosenIsCandidate ==
  ASSUME NEW s, NEW at, Candidates(s, at) # {}
  PROVE  Chosen(s, at) \in Candidates(s, at)
<1> DEFINE C == Candidates(s, at)
           Starts == {AvailableAt[n] : n \in C}
<1>1. C \subseteq Notices /\ C # {}
  BY DEF Candidates
<1>2. \A n \in Notices : n \in Nat /\ AvailableAt[n] \in Nat
  BY QueueAssumption DEF Notices
<1>3. Starts \in SUBSET Nat /\ Starts # {}
  BY <1>1, <1>2
<1>4. PICK start \in Starts : \A other \in Starts : start <= other
  <2> HIDE DEF Starts
  <2> QED BY <1>3, LeastNatural
<1> DEFINE Earliest == {n \in C : AvailableAt[n] = start}
<1>5. Earliest \in SUBSET Nat /\ Earliest # {}
  BY <1>1, <1>2, <1>4
<1>6. PICK n \in Earliest : \A m \in Earliest : n <= m
  <2> HIDE DEF Earliest
  <2> QED BY <1>5, LeastNatural
<1>7. \A m \in C : \/ AvailableAt[n] < AvailableAt[m]
                   \/ AvailableAt[n] = AvailableAt[m] /\ n <= m
  <2> TAKE m \in C
  <2>1. AvailableAt[n] = start /\ start <= AvailableAt[m]
    BY <1>4, <1>6
  <2>2. AvailableAt[m] \in Nat /\ start \in Nat
    BY <1>1, <1>2, <1>3, <1>4
  <2>3. CASE AvailableAt[m] = start
    BY <2>1, <2>3, <1>6
  <2>4. CASE AvailableAt[m] # start
    BY <2>1, <2>2, <2>4
  <2> QED BY <2>3, <2>4
<1>8. n \in C
  BY <1>6
<1> HIDE DEF C
<1>9. \E x \in C : \A m \in C : \/ AvailableAt[x] < AvailableAt[m]
                                \/ AvailableAt[x] = AvailableAt[m] /\ x <= m
  BY <1>7, <1>8
<1> QED BY <1>9 DEF Chosen, C

----------------------------------------------------------------------------
(* The inductive invariant. *)

\* No lease is for a delivery the record has not counted.
DeliveryCounted == \A l \in granted : l.delivery <= items[l.notice].delivery

\* The record of a queued notice remembers the latest expiry of its leases.
ExpiryRemembered ==
    \A l \in granted : items[l.notice].status = "queued" => l.expires <= items[l.notice].expires

\* Only queued notices are delivered, and only acknowledged ones settled.
DeliveredIsPresent == \A l \in granted : items[l.notice].status # "absent"
AcknowledgedStays == \A l \in acks : items[l.notice].status = "acknowledged"

QueueInv ==
    /\ TypeOK
    /\ DeliveryCounted
    /\ ExpiryRemembered
    /\ DeliveredIsPresent
    /\ AcknowledgedStays
    /\ DeliveriesDisjoint
    /\ AcknowledgedIsLast

\* The queue starts with no notice and no lease.
LEMMA InitQueueInv == Init => QueueInv
<1> SUFFICES ASSUME Init PROVE QueueInv
  OBVIOUS
<1>1. Absent \in Item
  BY QueueAssumption DEF Absent, Item
<1>2. TypeOK
  BY <1>1 DEF Init, TypeOK
<1> QED
  BY <1>2 DEF Init, QueueInv, DeliveryCounted, ExpiryRemembered, DeliveredIsPresent,
              AcknowledgedStays, DeliveriesDisjoint, AcknowledgedIsLast

\* Enqueueing touches only a notice that was never delivered.
LEMMA EnqueueQueueInv ==
  ASSUME QueueInv, NEW n \in Notices, Enqueue(n)
  PROVE  QueueInv'
<1>1. TypeOK'
  BY DEF QueueInv, TypeOK, Enqueue, Item
<1>2. \A l \in granted : l.notice # n
  BY DEF QueueInv, DeliveredIsPresent, Enqueue
<1>3. \A l \in granted : l.notice \in Notices /\ items'[l.notice] = items[l.notice]
  BY <1>2 DEF QueueInv, TypeOK, Enqueue, Lease
<1>4. acks \subseteq granted /\ granted' = granted /\ acks' = acks
  BY DEF QueueInv, TypeOK, Enqueue
<1> QED
  BY <1>1, <1>3, <1>4
  DEF QueueInv, DeliveryCounted, ExpiryRemembered, DeliveredIsPresent,
      AcknowledgedStays, DeliveriesDisjoint, AcknowledgedIsLast

\* A delivery of a claimable notice comes after every earlier one.
LEMMA DeliverQueueInv ==
  ASSUME QueueInv,
         NEW w \in Workers, NEW n \in Notices, NEW at \in Times, NEW d \in Durations,
         Claimable(n, at), Deliver(w, n, at, d),
         wake' \in BOOLEAN, polls' \in [Workers -> Scopes \cup {None}], acks' = acks
  PROVE  QueueInv'
<1> DEFINE lease == [notice |-> n, worker |-> w, delivery |-> items[n].delivery + 1,
                     leasedAt |-> at, expires |-> at + d]
<1>1. /\ at \in Nat /\ d \in Nat /\ MaxDeliveries \in Nat
      /\ items[n] \in Item /\ items[n].delivery \in Nat /\ items[n].expires \in Nat
  BY QueueAssumption DEF QueueInv, TypeOK, Item
<1>2. /\ items[n].status = "queued" /\ items[n].delivery < MaxDeliveries
      /\ items[n].expires <= at
  BY DEF Claimable
<1>3. lease \in Lease
  BY <1>1 DEF Lease
<1>4. granted' = granted \cup {lease}
  BY DEF Deliver
<1>5. items' = [items EXCEPT ![n].delivery = @ + 1, ![n].worker = w, ![n].expires = at + d]
  BY DEF Deliver
<1>6. /\ items'[n].status = "queued"
      /\ items'[n].delivery = items[n].delivery + 1
      /\ items'[n].expires = at + d
      /\ items'[n].worker = w
  BY <1>1, <1>2, <1>5 DEF QueueInv, TypeOK, Item
<1>7. \A m \in Notices : m # n => items'[m] = items[m]
  BY <1>5 DEF QueueInv, TypeOK
<1>8. \A l \in granted : l \in Lease /\ l.notice \in Notices /\ l.delivery \in Nat /\ l.expires \in Nat
                         /\ l.leasedAt \in Nat
  BY DEF QueueInv, TypeOK, Lease
<1>9. \A l \in granted : l.notice = n => l.delivery <= items[n].delivery /\ l.expires <= at
  BY <1>1, <1>2, <1>8 DEF QueueInv, DeliveryCounted, ExpiryRemembered
<1>10. \A l \in acks : l.notice # n
  BY <1>2 DEF QueueInv, AcknowledgedStays
<1>11. TypeOK'
  <2>1. items' \in [Notices -> Item]
    <3>1. items'[n] = [items[n] EXCEPT !.delivery = @ + 1, !.worker = w, !.expires = at + d]
      BY <1>5 DEF QueueInv, TypeOK
    <3>2. items[n].delivery + 1 \in 0 .. MaxDeliveries /\ at + d \in Nat
      BY <1>1, <1>2
    <3>3. items'[n] \in Item
      BY <1>1, <3>1, <3>2 DEF Item
    <3> QED BY <3>3, <1>5, <1>7 DEF QueueInv, TypeOK
  <2> QED BY <2>1, <1>3, <1>4 DEF QueueInv, TypeOK
<1> HIDE DEF lease
<1>12. /\ lease.notice = n /\ lease.delivery = items[n].delivery + 1
       /\ lease.leasedAt = at /\ lease.expires = at + d
  BY DEF lease
<1>13. DeliveryCounted'
  BY <1>1, <1>4, <1>6, <1>7, <1>8, <1>9, <1>12 DEF QueueInv, DeliveryCounted
<1>14. ExpiryRemembered'
  BY <1>1, <1>4, <1>6, <1>7, <1>8, <1>9, <1>12 DEF QueueInv, ExpiryRemembered
<1>15. DeliveredIsPresent'
  BY <1>4, <1>6, <1>7, <1>8, <1>12 DEF QueueInv, DeliveredIsPresent
<1>16. AcknowledgedStays'
  BY <1>7, <1>8, <1>10 DEF QueueInv, TypeOK, AcknowledgedStays
<1>17. DeliveriesDisjoint'
  <2> SUFFICES ASSUME NEW l \in granted', NEW m \in granted', l.notice = m.notice
               PROVE  \/ l = m
                      \/ l.delivery < m.delivery /\ l.expires <= m.leasedAt
                      \/ m.delivery < l.delivery /\ m.expires <= l.leasedAt
    BY DEF DeliveriesDisjoint
  <2>1. CASE l \in granted /\ m \in granted
    BY <2>1 DEF QueueInv, DeliveriesDisjoint
  <2>2. CASE l \in granted /\ m = lease
    <3>1. l.delivery <= items[n].delivery /\ l.expires <= at
      BY <2>2, <1>9, <1>12
    <3> QED BY <2>2, <3>1, <1>1, <1>8, <1>12
  <2>3. CASE l = lease /\ m \in granted
    <3>1. m.delivery <= items[n].delivery /\ m.expires <= at
      BY <2>3, <1>9, <1>12
    <3> QED BY <2>3, <3>1, <1>1, <1>8, <1>12
  <2> QED BY <2>1, <2>2, <2>3, <1>4
<1>18. AcknowledgedIsLast'
  BY <1>4, <1>10, <1>12 DEF QueueInv, AcknowledgedIsLast
<1> QED BY <1>11, <1>13, <1>14, <1>15, <1>16, <1>17, <1>18 DEF QueueInv

\* A step that leaves records and leases alone keeps the invariant.
LEMMA QuietQueueInv ==
  ASSUME QueueInv, UNCHANGED <<items, granted, acks>>,
         wake' \in BOOLEAN, polls' \in [Workers -> Scopes \cup {None}]
  PROVE  QueueInv'
BY DEF QueueInv, TypeOK, DeliveryCounted, ExpiryRemembered, DeliveredIsPresent,
       AcknowledgedStays, DeliveriesDisjoint, AcknowledgedIsLast

\* A claim delivers a candidate or changes nothing.
LEMMA ClaimQueueInv ==
  ASSUME QueueInv,
         NEW w \in Workers, NEW s, NEW at \in Times, NEW d \in Durations,
         Claim(w, s, at, d),
         wake' \in BOOLEAN, polls' \in [Workers -> Scopes \cup {None}], acks' = acks
  PROVE  QueueInv'
<1>1. CASE Candidates(s, at) # {}
  <2>1. Chosen(s, at) \in Candidates(s, at)
    BY <1>1, ChosenIsCandidate
  <2>2. Chosen(s, at) \in Notices /\ Claimable(Chosen(s, at), at)
    BY <2>1 DEF Candidates
  <2>3. Deliver(w, Chosen(s, at), at, d)
    BY <1>1 DEF Claim
  <2> QED BY <2>2, <2>3, DeliverQueueInv
<1>2. CASE Candidates(s, at) = {}
  BY <1>2, QuietQueueInv DEF Claim
<1> QED BY <1>1, <1>2

\* The acknowledged lease is the one the record holds.
LEMMA AcknowledgeQueueInv ==
  ASSUME QueueInv, NEW l \in granted, NEW at \in Times, Acknowledge(l, at)
  PROVE  QueueInv'
<1>1. l \in Lease /\ l.notice \in Notices
  BY DEF QueueInv, TypeOK, Lease
<1>2. items[l.notice].status = "queued" /\ items[l.notice].delivery = l.delivery
  BY DEF Acknowledge, HoldsDelivery
<1>3. /\ items' = [items EXCEPT ![l.notice].status = "acknowledged",
                                ![l.notice].worker = None, ![l.notice].expires = 0]
      /\ acks' = acks \cup {l} /\ granted' = granted /\ wake' = wake /\ polls' = polls
  BY DEF Acknowledge
<1>4. /\ items'[l.notice].status = "acknowledged"
      /\ items'[l.notice].delivery = items[l.notice].delivery
  BY <1>1, <1>3 DEF QueueInv, TypeOK, Item
<1>5. \A m \in Notices : m # l.notice => items'[m] = items[m]
  BY <1>3 DEF QueueInv, TypeOK
<1>6. \A m \in granted : m.notice \in Notices
  BY DEF QueueInv, TypeOK, Lease
<1>7. TypeOK'
  <2>1. items' \in [Notices -> Item]
    BY <1>1, <1>3 DEF QueueInv, TypeOK, Item
  <2> QED BY <2>1, <1>3 DEF QueueInv, TypeOK
<1>8. DeliveryCounted' /\ ExpiryRemembered' /\ DeliveredIsPresent'
  BY <1>3, <1>4, <1>5, <1>6 DEF QueueInv, DeliveryCounted, ExpiryRemembered, DeliveredIsPresent
<1>9. AcknowledgedStays'
  BY <1>3, <1>4, <1>5, <1>6 DEF QueueInv, TypeOK, AcknowledgedStays
<1>10. DeliveriesDisjoint'
  BY <1>3 DEF QueueInv, DeliveriesDisjoint
<1>11. AcknowledgedIsLast'
  BY <1>2, <1>3 DEF QueueInv, DeliveryCounted, AcknowledgedIsLast
<1> QED BY <1>7, <1>8, <1>9, <1>10, <1>11 DEF QueueInv

\* Every step of the queue keeps the invariant.
LEMMA NextQueueInv == QueueInv /\ [Next]_vars => QueueInv'
<1> SUFFICES ASSUME QueueInv, [Next]_vars PROVE QueueInv'
  OBVIOUS
<1> USE DEF QueueInv
<1>0. wake \in BOOLEAN /\ polls \in [Workers -> Scopes \cup {None}]
  BY DEF TypeOK
<1> HIDE DEF QueueInv
<1>1. ASSUME NEW n \in Notices, Enqueue(n) PROVE QueueInv'
  BY <1>1, EnqueueQueueInv
<1>2. ASSUME NEW w \in Workers, NEW at \in Times, NEW d \in Durations,
             NEW s \in Scopes, Poll(w, s, at, d)
      PROVE  QueueInv'
  <2>1. polls' \in [Workers -> Scopes \cup {None}] /\ wake' \in BOOLEAN
    BY <1>0, <1>2 DEF Poll
  <2> QED BY <2>1, <1>2, ClaimQueueInv DEF Poll
<1>3. ASSUME NEW w \in Workers, NEW at \in Times, NEW d \in Durations, PollAgain(w, at, d)
      PROVE  QueueInv'
  <2>1. polls' \in [Workers -> Scopes \cup {None}] /\ wake' \in BOOLEAN
    BY <1>0, <1>3 DEF PollAgain
  <2> QED BY <2>1, <1>3, ClaimQueueInv DEF PollAgain
<1>4. ASSUME NEW w \in Workers, PollEnds(w) PROVE QueueInv'
  <2>1. polls' \in [Workers -> Scopes \cup {None}] /\ wake' \in BOOLEAN
    BY <1>0, <1>4 DEF PollEnds
  <2> QED BY <2>1, <1>4, QuietQueueInv DEF PollEnds
<1>5. CASE SupervisorWoken
  BY <1>0, <1>5, QuietQueueInv DEF SupervisorWoken
<1>6. ASSUME NEW l \in granted, NEW at \in Times, Acknowledge(l, at) PROVE QueueInv'
  BY <1>6, AcknowledgeQueueInv
<1>7. CASE UNCHANGED vars
  BY <1>0, <1>7, QuietQueueInv DEF vars
<1> QED BY <1>1, <1>2, <1>3, <1>4, <1>5, <1>6, <1>7 DEF Next

\* The invariant holds throughout.
THEOREM QueueInvariant == Spec => []QueueInv
BY InitQueueInv, NextQueueInv, PTL DEF Spec

(***************************************************************************)
(* "An active delivery cannot be replaced before expiry": for every number *)
(* of workers and whatever clocks the claims were made with, the delivery  *)
(* leases of a notice are numbered one by one and never overlap.           *)
(***************************************************************************)
THEOREM QueueDeliveriesDisjoint == Spec => []DeliveriesDisjoint
<1>1. QueueInv => DeliveriesDisjoint
  BY DEF QueueInv
<1> QED BY <1>1, QueueInvariant, PTL

(***************************************************************************)
(* "A stale worker cannot acknowledge a newer delivery": an acknowledged   *)
(* delivery is and stays the last one of its notice.                       *)
(***************************************************************************)
THEOREM QueueAcknowledgedIsLast == Spec => []AcknowledgedIsLast
<1>1. QueueInv => AcknowledgedIsLast
  BY DEF QueueInv
<1> QED BY <1>1, QueueInvariant, PTL

\* Records, leases and acknowledgements keep their types; in particular no
\* notice is delivered more often than MaxDeliveries times.
THEOREM QueueTypes == Spec => []TypeOK
<1>1. QueueInv => TypeOK
  BY DEF QueueInv
<1> QED BY <1>1, QueueInvariant, PTL

----------------------------------------------------------------------------
(* The services side by side. *)

\* Every step of the services is a step of publication or leaves it alone.
LEMMA ServicesPublish == MCSpec => Publishing!Spec
<1>1. MCInit => Publishing!Init
  BY DEF MCInit
<1>2. [MCNext]_allVars => [Publishing!Next]_(Publishing!vars)
  BY DEF MCNext, allVars, OfInvestigation, Publishing!vars, publicationVars
<1> QED
  BY <1>1, <1>2, PTL DEF MCSpec, Publishing!Spec

\* The same for the investigation.
LEMMA ServicesInvestigate ==
    MCSpec => Investigating!Init /\ [][Investigating!Next]_(Investigating!vars)
<1>1. MCInit => Investigating!Init
  BY DEF MCInit
<1>2. [MCNext]_allVars => [Investigating!Next]_(Investigating!vars)
  BY DEF MCNext, allVars, OfInvestigation, Investigating!vars, Investigating!owned,
         Investigating!world, investigationVars
<1> QED
  BY <1>1, <1>2, PTL DEF MCSpec

\* A publication plan has one claim and one owner (ClaimPublication), for any
\* number of executions, authorizations, conflicts and lost commits.
THEOREM ServicesHaveOneOwner == MCSpec => []OneOwner
<1>1. Publishing!OneOwner => OneOwner
  BY DEF OneOwner
<1> QED
  BY <1>1, ServicesPublish, Publishing!PublicationHasOneOwner, PTL

\* The pull request never gets the review twice (ClaimPublicationAttempt),
\* whatever is retried, lost or applied after its caller gave up.
THEOREM ServicesReviewOnce == MCSpec => []ReviewedOnce
<1>1. Publishing!ReviewedOnce => ReviewedOnce
  BY DEF ReviewedOnce
<1> QED
  BY <1>1, ServicesPublish, Publishing!PublicationReviewsOnce, PTL

\* Every POST follows the recorded authorization, claim and current head of
\* its own attempt (Execute).
THEOREM ServicesSendUnderGate == MCSpec => []SentUnderGate
<1>1. Publishing!SentUnderGate => SentUnderGate
  BY DEF SentUnderGate
<1> QED
  BY <1>1, ServicesPublish, Publishing!PublicationSendsUnderGate, PTL

\* A success that is recorded or reported is that of an applied review
\* (RecordPublicationResult).
THEOREM ServicesReportTruth == MCSpec => []ReportedHappened
<1>1. Publishing!ReportedHappened => ReportedHappened
  BY DEF ReportedHappened
<1> QED
  BY <1>1, ServicesPublish, Publishing!PublicationReportsTruth, PTL

\* Only the last model call of an investigation can be in doubt
\* (InvestigationRouteOwner.Dispatch), for any limits, costs and faults.
THEOREM ServicesStopAfterDoubt ==
    ASSUME Investigating!Amounts
    PROVE  MCSpec => []StopsAfterDoubt
<1>1. Investigating!StopsAfterDoubt => StopsAfterDoubt
  BY DEF StopsAfterDoubt
<1> QED
  BY <1>1, ServicesInvestigate, Investigating!InvestigationStopsAfterDoubt, PTL

\* A model call is made only with room for its reservation beside what the
\* calls before it really cost (InvestigationRouteOwner.Dispatch).
THEOREM ServicesStayWithinBudget ==
    ASSUME Investigating!Amounts
    PROVE  MCSpec => []AdmittedWithinBudget
<1>1. Investigating!AdmittedWithinBudget => AdmittedWithinBudget
  BY DEF AdmittedWithinBudget
<1> QED
  BY <1>1, ServicesInvestigate, Investigating!InvestigationWithinBudget, PTL

\* A success that was read back accounts for every model call (view).
THEOREM ServicesAccountForSuccess ==
    ASSUME Investigating!Amounts
    PROVE  MCSpec => []SuccessIsAccounted
<1>1. Investigating!SuccessIsAccounted => SuccessIsAccounted
  BY DEF SuccessIsAccounted
<1> QED
  BY <1>1, ServicesInvestigate, Investigating!InvestigationSuccessAccounted, PTL

\* Close releases nothing that an operation uses (Close), however many
\* closers there are.
THEOREM ServicesReleaseAfterUse ==
    ASSUME Investigating!Amounts
    PROVE  MCSpec => []ReleasedAfterUse
<1>1. Investigating!ReleasedAfterUse => ReleasedAfterUse
  BY DEF ReleasedAfterUse
<1> QED
  BY <1>1, ServicesInvestigate, Investigating!InvestigationReleasedAfterUse, PTL
=============================================================================
