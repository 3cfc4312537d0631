-------------------------- MODULE PublicationProofs --------------------------
(***************************************************************************)
(* Publication keeps its promises for any number of executions,            *)
(* authorizations, attempts, conflicts and faults.                         *)
(*                                                                         *)
(* The ledger and the guard's rows only grow, so what an execution found   *)
(* in them stays true.  LedgerOK says how the events of the ledger refer   *)
(* to each other, GuardOK that the operation key has one row and nothing   *)
(* was sent without it, and ExecutionOK what an execution has behind it at *)
(* each place: above all that the prefix it inspected has no event that    *)
(* competes with the one it is about to append.                            *)
(***************************************************************************)
EXTENDS Publication, FiniteSetTheorems, TLAPS

Early == {"idle", "authorized", "claimed"} \cup Prerequisites
Late == {"resolve", "reconcile", "head", "dispatch", "guard", "token", "post",
         "complete", "completed", "retry", "published"}
PastGate == {"dispatch", "guard", "token", "post"}

Places == Early \cup Late \cup Final \cup {"receipt"}
Values == Heads \cup {"unavailable"} \cup Results
Numbered == [kind : Recording, auth : SUBSET Authorizations, attempt : Nat \X Nat, value : Values]

Executing ==
    [at : Places,
     phase : {"inspect", "append"}, seen : Nat, tries : Nat,
     auth : SUBSET Authorizations, claim : Nat, number : Nat,
     observed : Heads \cup {"unavailable"}, result : Results,
     flags : SUBSET {"aged", "expired"}]

Types ==
    /\ ledger \in Seq(Numbered)
    /\ exec \in [Executions -> Executing]
    /\ guard \subseteq [attempt : Nat \X Nat, status : {"claimed", "completed"}, result : Results]
    /\ head \in Heads

\* The attempt and the event of an execution, from its record alone.
AttemptOf(x) == <<x.claim, x.number>>
EventOf(x) ==
    [kind |-> x.at,
     auth |-> IF x.at \in Prerequisites THEN {} ELSE x.auth,
     attempt |-> IF x.at \in OfAttempt THEN AttemptOf(x) ELSE NoAttempt,
     value |-> CASE x.at = "head" -> x.observed
                 [] x.at = "completed" -> x.result
                 [] OTHER -> "none"]
Rivals(v, x) ==
    /\ v.kind = x.at
    /\ v.kind = "claimed" \/ (v.kind \in OfAttempt /\ v.attempt = AttemptOf(x) /\ v # EventOf(x))

\* What a ledger says: who authorized, what was recorded of an attempt.
AuthorizedBefore(led, auth, n) ==
    \E i \in DOMAIN led : i < n /\ led[i].kind = "authorized" /\ led[i].auth = auth
HeadRecorded(led, a) ==
    \E k \in DOMAIN led : led[k].kind = "head" /\ led[k].attempt = a /\ led[k].value = "current"
SuccessRecorded(led, a) ==
    \E k \in DOMAIN led : led[k].kind = "completed" /\ led[k].attempt = a /\ led[k].value = "success"

LedgerIs(led, applied) ==
    /\ \A i, j \in DOMAIN led : led[i].kind = "claimed" /\ led[j].kind = "claimed" => i = j
    /\ \A j \in DOMAIN led : led[j].kind = "claimed" => AuthorizedBefore(led, led[j].auth, j)
    /\ \A k \in DOMAIN led : led[k].kind \in OfAttempt =>
          /\ led[k].attempt[1] \in DOMAIN led /\ led[k].attempt[1] < k
          /\ led[led[k].attempt[1]].kind = "claimed"
    /\ \A i, j \in DOMAIN led :
          led[i].kind = "completed" /\ led[j].kind = "completed" /\ led[i].attempt = led[j].attempt
              => i = j
    /\ \A k \in DOMAIN led : led[k].kind = "completed" /\ led[k].value = "success" => led[k].attempt \in applied
LedgerOK == LedgerIs(ledger, reviews)

RowAttempts(rows) == {g.attempt : g \in rows}
Sent == wire \cup reviews \cup refused
GuardOK ==
    /\ \A g, h \in guard : g = h
    /\ Sent \subseteq RowAttempts(guard)
    /\ \A a \in Sent : HeadRecorded(ledger, a) /\ a \in Nat \X Nat

\* What execution record x has behind it, given the ledger, the attempts
\* with a row in the guard and the applied reviews.
ExecutionIs(x, led, rows, applied) ==
    /\ x.at \in Early => x.claim = 0 /\ x.result = "none"
    /\ x.at = "claimed" => AuthorizedBefore(led, x.auth, Len(led) + 1)
    /\ x.at \in Late => x.claim # 0
    /\ x.claim # 0 => /\ x.claim \in DOMAIN led /\ led[x.claim].kind = "claimed"
                      /\ led[x.claim].auth = x.auth
    /\ x.at \in PastGate => HeadRecorded(led, AttemptOf(x))
    /\ x.at \in {"token", "post"} => AttemptOf(x) \in rows
    /\ x.at = "retry" => x.result # "success"
    /\ x.result = "success" => AttemptOf(x) \in applied
    /\ x.at = "receipt" /\ x.result = "success" => SuccessRecorded(led, AttemptOf(x))
    /\ x.at = "published" => SuccessRecorded(led, AttemptOf(x))
    /\ x.phase = "append" =>
          /\ x.at \in Recording /\ x.seen <= Len(led)
          /\ \A i \in 1 .. x.seen : led[i] # EventOf(x) /\ ~Rivals(led[i], x)
ExecutionOK(e) == ExecutionIs(exec[e], ledger, RowAttempts(guard), reviews)

OwnersOK == \A d, e \in Executions : exec[d].claim # 0 /\ exec[e].claim # 0 => d = e
FirstToSend == \A e \in Executions : exec[e].at = "token" => Sent = {}

PublicationInv ==
    /\ Types /\ LedgerOK /\ GuardOK /\ OwnersOK /\ FirstToSend
    /\ \A e \in Executions : ExecutionOK(e)

----------------------------------------------------------------------------
(* Executions as records. *)

\* Goes sets the place and forgets the inspection.
LEMMA GoesOK ==
    ASSUME NEW x \in Executing, NEW place \in Places
    PROVE  /\ Goes(x, place) \in Executing
           /\ Goes(x, place).at = place /\ Goes(x, place).phase = "inspect"
           /\ Goes(x, place).auth = x.auth /\ Goes(x, place).claim = x.claim
           /\ Goes(x, place).number = x.number /\ Goes(x, place).result = x.result
           /\ Goes(x, place).observed = x.observed /\ Goes(x, place).flags = x.flags
           /\ AttemptOf(Goes(x, place)) = AttemptOf(x)
BY DEF Goes, Executing, AttemptOf

\* The event of an execution is one of the ledger's kind.
LEMMA EventOK ==
    ASSUME NEW x \in Executing, x.at \in Recording
    PROVE  EventOf(x) \in Numbered
BY DEF EventOf, Executing, Recording, OfAttempt, Prerequisites, Numbered, Values, Heads, Results,
       AttemptOf, NoAttempt

\* Growth of the ledger, the guard and the reviews takes nothing away.
LEMMA Grows ==
    ASSUME NEW x \in Executing, NEW led \in Seq(Numbered), NEW v \in Numbered,
           NEW rows, NEW rows2, NEW applied, NEW applied2,
           rows \subseteq rows2, applied \subseteq applied2,
           ExecutionIs(x, led, rows, applied)
    PROVE  /\ ExecutionIs(x, led, rows2, applied2)
           /\ ExecutionIs(x, Append(led, v), rows2, applied2)
<1>1. ExecutionIs(x, led, rows2, applied2)
  BY DEF ExecutionIs
<1> DEFINE more == Append(led, v)
<1>2. /\ Len(more) = Len(led) + 1
      /\ DOMAIN led = 1 .. Len(led) /\ DOMAIN more = 1 .. Len(led) + 1
      /\ \A i \in DOMAIN led : i \in DOMAIN more /\ more[i] = led[i] /\ i <= Len(led)
      /\ Len(led) \in Nat
  OBVIOUS
<1> HIDE DEF more
<1>3. \A a : HeadRecorded(led, a) => HeadRecorded(more, a)
  BY <1>2 DEF HeadRecorded
<1>4. \A a : SuccessRecorded(led, a) => SuccessRecorded(more, a)
  BY <1>2 DEF SuccessRecorded
<1>5. \A a : AuthorizedBefore(led, a, Len(led) + 1) => AuthorizedBefore(more, a, Len(more) + 1)
  BY <1>2 DEF AuthorizedBefore
<1>6. x.phase = "append" =>
          /\ x.at \in Recording /\ x.seen <= Len(more)
          /\ \A i \in 1 .. x.seen : more[i] # EventOf(x) /\ ~Rivals(more[i], x)
  BY <1>1, <1>2 DEF ExecutionIs, Executing
<1>7. ExecutionIs(x, more, rows2, applied2)
  BY <1>1, <1>2, <1>3, <1>4, <1>5, <1>6 DEF ExecutionIs
<1> QED
  BY <1>1, <1>7 DEF more

(***************************************************************************)
(* What an execution has behind it after its event is in the ledger.       *)
(***************************************************************************)
LEMMA RecordedOK ==
    ASSUME NEW x \in Executing, NEW led \in Seq(Numbered), NEW rows, NEW applied, NEW n \in Nat,
           x.at \in Recording,
           ExecutionIs(x, led, rows, applied),
           NEW k \in DOMAIN led, led[k] = EventOf(x), x.at = "claimed" => n = k
    PROVE  /\ Recorded(x, n) \in Executing
           /\ Recorded(x, n).at # "token"
           /\ Recorded(x, n).claim = IF x.at = "claimed" THEN n ELSE x.claim
           /\ ExecutionIs(Recorded(x, n), led, rows, applied)
<1> USE DEF Places, Early, Late, Final, Prerequisites
<1>e. /\ k <= Len(led) /\ k \in Nat /\ Len(led) \in Nat
      /\ DOMAIN led = 1 .. Len(led)
  OBVIOUS
<1>1. CASE x.at \in {"source", "context", "readiness"}
  <2> DEFINE y == Recorded(x, n)
  <2>1. \E place \in {"context", "readiness", "authorized"} : y = Goes(x, place)
    BY <1>1 DEF Recorded
  <2>2. PICK place \in {"context", "readiness", "authorized"} : y = Goes(x, place)
    BY <2>1
  <2> HIDE DEF y
  <2>3. /\ y \in Executing /\ y.at = place /\ y.phase = "inspect" /\ y.claim = x.claim
        /\ y.result = x.result
    BY <2>2, GoesOK
  <2>4. x.claim = 0 /\ x.result = "none"
    BY <1>1 DEF ExecutionIs
  <2>5. ExecutionIs(y, led, rows, applied)
    BY <2>3, <2>4 DEF ExecutionIs, PastGate
  <2> QED
    BY <2>3, <2>5, <1>1 DEF y
<1>2. CASE x.at = "authorized"
  <2> DEFINE y == Goes(x, "claimed")
  <2>1. Recorded(x, n) = y
    BY <1>2 DEF Recorded
  <2>2. /\ y \in Executing /\ y.at = "claimed" /\ y.phase = "inspect" /\ y.claim = x.claim
        /\ y.result = x.result /\ y.auth = x.auth
    BY GoesOK
  <2> HIDE DEF y
  <2>3. x.claim = 0 /\ x.result = "none"
    BY <1>2 DEF ExecutionIs
  <2>4. led[k].kind = "authorized" /\ led[k].auth = x.auth
    BY <1>2 DEF EventOf
  <2>5. AuthorizedBefore(led, y.auth, Len(led) + 1)
    BY <2>4, <2>2, <1>e DEF AuthorizedBefore
  <2>6. ExecutionIs(y, led, rows, applied)
    BY <2>2, <2>3, <2>5 DEF ExecutionIs, PastGate
  <2> QED
    BY <2>1, <2>2, <2>6, <1>2
<1>3. CASE x.at = "claimed"
  <2> DEFINE z == [x EXCEPT !.claim = n]
             y == Goes(z, "resolve")
  <2>1. Recorded(x, n) = y
    BY <1>3 DEF Recorded
  <2>2. z \in Executing /\ z.claim = n /\ z.auth = x.auth /\ z.result = x.result
    BY DEF Executing
  <2> HIDE DEF z
  <2>3. /\ y \in Executing /\ y.at = "resolve" /\ y.phase = "inspect" /\ y.claim = n
        /\ y.result = x.result /\ y.auth = x.auth
    BY <2>2, GoesOK
  <2> HIDE DEF y
  <2>4. x.result = "none"
    BY <1>3 DEF ExecutionIs
  <2>5. n \in DOMAIN led /\ led[n].kind = "claimed" /\ led[n].auth = x.auth /\ n # 0
    BY <1>3, <1>e DEF EventOf
  <2>6. ExecutionIs(y, led, rows, applied)
    BY <2>3, <2>4, <2>5 DEF ExecutionIs, PastGate
  <2> QED
    BY <2>1, <2>3, <2>6, <1>3
<1>4. CASE x.at = "head"
  <2>1. x.claim # 0
    BY <1>4 DEF ExecutionIs
  <2>2. CASE GateOpen(x)
    <3> DEFINE y == Goes(x, "dispatch")
    <3>1. Recorded(x, n) = y
      BY <1>4, <2>2 DEF Recorded
    <3>2. /\ y \in Executing /\ y.at = "dispatch" /\ y.phase = "inspect" /\ y.claim = x.claim
          /\ y.result = x.result /\ y.auth = x.auth /\ AttemptOf(y) = AttemptOf(x)
      BY GoesOK
    <3> HIDE DEF y
    <3>3. led[k].kind = "head" /\ led[k].attempt = AttemptOf(x) /\ led[k].value = "current"
      BY <1>4, <2>2 DEF EventOf, OfAttempt, GateOpen
    <3>4. HeadRecorded(led, AttemptOf(y))
      BY <3>2, <3>3 DEF HeadRecorded
    <3>5. ExecutionIs(y, led, rows, applied)
      BY <2>1, <3>2, <3>4 DEF ExecutionIs, PastGate
    <3> QED
      BY <3>1, <3>2, <3>5, <1>4
  <2>3. CASE ~GateOpen(x)
    <3> DEFINE y == Goes(x, "failed")
    <3>1. Recorded(x, n) = y
      BY <1>4, <2>3 DEF Recorded, Fails
    <3>2. /\ y \in Executing /\ y.at = "failed" /\ y.phase = "inspect" /\ y.claim = x.claim
          /\ y.result = x.result /\ y.auth = x.auth /\ AttemptOf(y) = AttemptOf(x)
      BY GoesOK
    <3> HIDE DEF y
    <3>3. ExecutionIs(y, led, rows, applied)
      BY <2>1, <3>2 DEF ExecutionIs, PastGate
    <3> QED
      BY <3>1, <3>2, <3>3, <1>4
  <2> QED
    BY <2>2, <2>3
<1>5. CASE x.at = "completed"
  <2>1. x.claim # 0
    BY <1>5 DEF ExecutionIs
  <2>2. PICK place \in {"receipt", "retry", "failed"} :
          /\ Recorded(x, n) = Goes(x, place)
          /\ place = "receipt" => x.result = "success"
          /\ place = "retry" => x.result # "success"
    BY <1>5 DEF Recorded, Fails
  <2> DEFINE y == Goes(x, place)
  <2>3. /\ y \in Executing /\ y.at = place /\ y.phase = "inspect" /\ y.claim = x.claim
        /\ y.result = x.result /\ y.auth = x.auth /\ AttemptOf(y) = AttemptOf(x)
    BY GoesOK
  <2> HIDE DEF y
  <2>4. led[k].kind = "completed" /\ led[k].attempt = AttemptOf(x) /\ led[k].value = x.result
    BY <1>5 DEF EventOf, OfAttempt
  <2>5. place = "receipt" => SuccessRecorded(led, AttemptOf(y))
    BY <2>2, <2>3, <2>4 DEF SuccessRecorded
  <2>6. ExecutionIs(y, led, rows, applied)
    BY <2>1, <2>2, <2>3, <2>5 DEF ExecutionIs, PastGate
  <2> QED
    BY <2>2, <2>3, <2>6, <1>5 DEF y
<1>6. CASE x.at = "retry"
  <2> DEFINE z == [x EXCEPT !.number = x.number + 1, !.flags = x.flags \ {"aged"}]
             y == Goes(z, "resolve")
  <2>1. Recorded(x, n) = y
    BY <1>6 DEF Recorded
  <2>0. x.number + 1 \in Nat /\ x.flags \ {"aged"} \in SUBSET {"aged", "expired"}
    BY DEF Executing
  <2>2. z \in Executing /\ z.claim = x.claim /\ z.auth = x.auth /\ z.result = x.result
    BY <2>0 DEF Executing
  <2> HIDE DEF z
  <2>3. /\ y \in Executing /\ y.at = "resolve" /\ y.phase = "inspect" /\ y.claim = x.claim
        /\ y.result = x.result /\ y.auth = x.auth
    BY <2>2, GoesOK
  <2> HIDE DEF y
  <2>4. x.claim # 0 /\ x.result # "success"
    BY <1>6 DEF ExecutionIs
  <2>5. ExecutionIs(y, led, rows, applied)
    BY <2>3, <2>4 DEF ExecutionIs, PastGate
  <2> QED
    BY <2>1, <2>3, <2>5, <1>6
<1> QED
  BY <1>1, <1>2, <1>3, <1>4, <1>5, <1>6 DEF Recording, OfAttempt

----------------------------------------------------------------------------
(* Steps of one execution. *)

\* The model's attempt, event and rivals of e are those of its record.
LEMMA OfRecord ==
    ASSUME NEW e
    PROVE  /\ Attempt(e) = AttemptOf(exec[e])
           /\ Event(e) = EventOf(exec[e])
           /\ Competing(e) <=> \E i \in DOMAIN ledger : Rivals(ledger[i], exec[e])
           /\ Event(e) \in Logged <=> \E i \in DOMAIN ledger : ledger[i] = EventOf(exec[e])
<1>1. Attempt(e) = AttemptOf(exec[e])
  BY DEF Attempt, AttemptOf
<1>2. Event(e) = EventOf(exec[e])
  BY <1>1 DEF Event, EventOf
<1>3. Competing(e) <=> \E i \in DOMAIN ledger : Rivals(ledger[i], exec[e])
  BY <1>1, <1>2 DEF Competing, Rivals, Logged
<1>4. Event(e) \in Logged <=> \E i \in DOMAIN ledger : ledger[i] = EventOf(exec[e])
  BY <1>2 DEF Logged
<1> QED
  BY <1>1, <1>2, <1>3, <1>4

\* One execution moves, the durable state grows: the others keep what they have.
LEMMA OneMoves ==
    ASSUME PublicationInv, NEW e \in Executions, NEW y \in Executing, Becomes(e, y),
           ledger' = ledger \/ (\E v \in Numbered : ledger' = Append(ledger, v)),
           RowAttempts(guard) \subseteq RowAttempts(guard'), reviews \subseteq reviews',
           ExecutionIs(y, ledger', RowAttempts(guard'), reviews')
    PROVE  /\ exec' \in [Executions -> Executing] /\ exec'[e] = y
           /\ \A d \in Executions : d # e => exec'[d] = exec[d]
           /\ \A d \in Executions : ExecutionOK(d)'
<1>1. /\ exec' \in [Executions -> Executing] /\ exec'[e] = y
      /\ \A d \in Executions : d # e => exec'[d] = exec[d]
  BY DEF PublicationInv, Types, Becomes
<1>2. ASSUME NEW d \in Executions, d # e
      PROVE  ExecutionIs(exec[d], ledger', RowAttempts(guard'), reviews')
  <2>1. /\ exec[d] \in Executing /\ ledger \in Seq(Numbered)
        /\ ExecutionIs(exec[d], ledger, RowAttempts(guard), reviews)
    BY DEF PublicationInv, Types, ExecutionOK
  <2>2. CASE ledger' = ledger
    <3>1. ExecutionIs(exec[d], ledger, RowAttempts(guard'), reviews')
      BY <2>1 DEF ExecutionIs
    <3> QED
      BY <3>1, <2>2
  <2>3. CASE \E v \in Numbered : ledger' = Append(ledger, v)
    <3>1. PICK v \in Numbered : ledger' = Append(ledger, v)
      BY <2>3
    <3>2. ExecutionIs(exec[d], Append(ledger, v), RowAttempts(guard'), reviews')
      BY <2>1, Grows
    <3> QED
      BY <3>1, <3>2
  <2> QED
    BY <2>2, <2>3
<1>3. \A d \in Executions : ExecutionOK(d)'
  BY <1>1, <1>2 DEF ExecutionOK
<1> QED
  BY <1>1, <1>3

\* A step that only moves an execution, which neither gains a claim nor may
\* send without having been able to.
LEMMA QuietStep ==
    ASSUME PublicationInv, NEW e \in Executions, NEW y \in Executing, Becomes(e, y),
           UNCHANGED <<ledger, guard, wire, reviews, refused, head>>,
           y.claim = exec[e].claim, y.at = "token" => exec[e].at = "token",
           ExecutionIs(y, ledger, RowAttempts(guard), reviews)
    PROVE  PublicationInv'
<1>1. /\ exec' \in [Executions -> Executing] /\ exec'[e] = y
      /\ \A d \in Executions : d # e => exec'[d] = exec[d]
      /\ \A d \in Executions : ExecutionOK(d)'
  BY OneMoves
<1>2. Types'
  BY <1>1 DEF PublicationInv, Types
<1>3. LedgerOK'
  BY DEF PublicationInv, LedgerOK
<1>4. GuardOK'
  BY DEF PublicationInv, GuardOK, Sent
<1>5. OwnersOK'
  BY <1>1 DEF PublicationInv, OwnersOK
<1>6. FirstToSend'
  BY <1>1 DEF PublicationInv, FirstToSend, Sent
<1> QED
  BY <1>1, <1>2, <1>3, <1>4, <1>5, <1>6 DEF PublicationInv

\* What is known of the execution that takes a step.
LEMMA Mover ==
    ASSUME PublicationInv, NEW e \in Executions
    PROVE  /\ exec[e] \in Executing /\ ledger \in Seq(Numbered)
           /\ ExecutionIs(exec[e], ledger, RowAttempts(guard), reviews)
BY DEF PublicationInv, Types, ExecutionOK

\* Giving up keeps the claim and the result, and needs nothing.
LEMMA FailsOK ==
    ASSUME NEW x \in Executing, NEW led, NEW rows, NEW applied,
           ExecutionIs(x, led, rows, applied)
    PROVE  /\ Fails(x) \in Executing /\ Fails(x).at = "failed" /\ Fails(x).claim = x.claim
           /\ ExecutionIs(Fails(x), led, rows, applied)
<1> DEFINE y == Goes(x, "failed")
<1>1. /\ y \in Executing /\ y.at = "failed" /\ y.phase = "inspect" /\ y.claim = x.claim
      /\ y.result = x.result /\ y.auth = x.auth /\ AttemptOf(y) = AttemptOf(x)
  BY GoesOK DEF Places, Final
<1> HIDE DEF y
<1>2. ExecutionIs(y, led, rows, applied)
  BY <1>1 DEF ExecutionIs, PastGate, Early, Late, Prerequisites
<1> QED
  BY <1>1, <1>2 DEF y, Fails

LEMMA StartStep ==
    ASSUME PublicationInv, NEW e \in Executions, NEW a \in Authorizations, Start(e, a)
    PROVE  PublicationInv'
<1>1. PICK place \in {"source", "receipt", "failed"} :
          Becomes(e, Goes([exec[e] EXCEPT !.auth = {a}], place))
  BY DEF Start
<1> DEFINE x == exec[e]
           z == [x EXCEPT !.auth = {a}]
           y == Goes(z, place)
<1>2. x \in Executing /\ ExecutionIs(x, ledger, RowAttempts(guard), reviews)
  BY Mover
<1>3. x.at = "idle" /\ x.claim = 0 /\ x.result = "none"
  BY <1>2 DEF Start, At, ExecutionIs, Early
<1>4. z \in Executing /\ z.claim = 0 /\ z.result = "none"
  BY <1>2, <1>3 DEF Executing
<1> HIDE DEF x, z
<1>5. /\ y \in Executing /\ y.at = place /\ y.phase = "inspect" /\ y.claim = 0 /\ y.result = "none"
  BY <1>4, GoesOK DEF Places, Early, Final, Prerequisites
<1> HIDE DEF y
<1>6. ExecutionIs(y, ledger, RowAttempts(guard), reviews)
  BY <1>5 DEF ExecutionIs, PastGate, Early, Late, Prerequisites
<1>7. Becomes(e, y) /\ UNCHANGED <<ledger, guard, wire, reviews, refused, head>>
  BY <1>1 DEF Start, github, x, y, z
<1> QED
  BY <1>3, <1>5, <1>6, <1>7, QuietStep DEF x

(***************************************************************************)
(* An inspection that finds neither a rival nor the event itself covers    *)
(* the whole ledger.                                                       *)
(***************************************************************************)
LEMMA InspectStep ==
    ASSUME PublicationInv, NEW e \in Executions, Inspect(e)
    PROVE  PublicationInv'
<1> DEFINE x == exec[e]
<1>1. x \in Executing /\ ledger \in Seq(Numbered)
      /\ ExecutionIs(x, ledger, RowAttempts(guard), reviews)
  BY Mover
<1>2. x.at \in Recording /\ UNCHANGED <<ledger, guard, wire, reviews, refused, head>>
  BY DEF Inspect, github
<1>3. x.at # "token"
  BY <1>2 DEF Recording, Prerequisites, OfAttempt
<1>4. CASE Competing(e)
  <2>1. Becomes(e, Fails(x))
    BY <1>4 DEF Inspect
  <2> QED
    BY <1>1, <1>2, <2>1, FailsOK, QuietStep
<1>5. CASE ~Competing(e) /\ Event(e) \in Logged
  <2>1. Becomes(e, Recorded(x, 0))
    BY <1>5 DEF Inspect
  <2>2. PICK k \in DOMAIN ledger : ledger[k] = EventOf(x)
    BY <1>5, OfRecord
  <2>3. x.at # "claimed"
    <3>1. SUFFICES ASSUME x.at = "claimed" PROVE FALSE
      OBVIOUS
    <3>3. Rivals(ledger[k], x)
      BY <3>1, <2>2 DEF Rivals, EventOf
    <3> QED
      BY <3>3, <1>5, OfRecord
  <2> HIDE DEF x
  <2>4. /\ Recorded(x, 0) \in Executing /\ Recorded(x, 0).at # "token"
        /\ Recorded(x, 0).claim = x.claim
        /\ ExecutionIs(Recorded(x, 0), ledger, RowAttempts(guard), reviews)
    BY <1>1, <1>2, <2>2, <2>3, RecordedOK
  <2> QED
    BY <1>2, <2>1, <2>4, QuietStep DEF x
<1>6. CASE ~Competing(e) /\ Event(e) \notin Logged
  <2> DEFINE y == [x EXCEPT !.phase = "append", !.seen = Len(ledger)]
  <2>1. Becomes(e, y)
    BY <1>6 DEF Inspect
  <2>2. Len(ledger) \in Nat /\ DOMAIN ledger = 1 .. Len(ledger)
    BY <1>1
  <2>3. \A i \in 1 .. Len(ledger) : ledger[i] # EventOf(x) /\ ~Rivals(ledger[i], x)
    BY <1>6, <2>2, OfRecord
  <2> HIDE DEF x
  <2>4. /\ y \in Executing /\ y.at = x.at /\ y.claim = x.claim /\ y.result = x.result /\ y.auth = x.auth
        /\ y.phase = "append" /\ y.seen = Len(ledger) /\ y.number = x.number /\ y.observed = x.observed
    BY <1>1, <2>2 DEF Executing
  <2> HIDE DEF y
  <2>5. AttemptOf(y) = AttemptOf(x) /\ EventOf(y) = EventOf(x)
    BY <2>4 DEF AttemptOf, EventOf
  <2>6. \A i \in 1 .. y.seen : ledger[i] # EventOf(y) /\ ~Rivals(ledger[i], y)
    BY <2>3, <2>4, <2>5 DEF Rivals
  <2>7. ExecutionIs(y, ledger, RowAttempts(guard), reviews)
    BY <1>1, <1>2, <2>2, <2>4, <2>5, <2>6 DEF ExecutionIs
  <2> QED
    BY <1>2, <1>3, <2>1, <2>4, <2>7, QuietStep DEF x
<1> QED
  BY <1>4, <1>5, <1>6

\* The ledger gets the event of an execution whose inspection was complete.
LEMMA AppendedLedger ==
    ASSUME PublicationInv, NEW e \in Executions,
           exec[e].at \in Recording, exec[e].phase = "append", ~HeadMoved(e),
           ledger' = Append(ledger, Event(e)), UNCHANGED <<guard, wire, reviews, refused, head>>
    PROVE  /\ ledger' \in Seq(Numbered) /\ LedgerOK' /\ GuardOK'
           /\ EventOf(exec[e]) \in Numbered
           /\ ledger' = Append(ledger, EventOf(exec[e]))
           /\ Len(ledger) + 1 \in DOMAIN ledger' /\ ledger'[Len(ledger) + 1] = EventOf(exec[e])
           /\ exec[e].at = "claimed" => \A d \in Executions : exec[d].claim = 0
<1> DEFINE x == exec[e]
           v == EventOf(x)
           n == Len(ledger)
<1>1. x \in Executing /\ ledger \in Seq(Numbered)
      /\ ExecutionIs(x, ledger, RowAttempts(guard), reviews)
  BY Mover
<1>2. v \in Numbered /\ ledger' = Append(ledger, v)
  BY <1>1, EventOK, OfRecord
<1>3. n \in Nat /\ DOMAIN ledger = 1 .. n /\ x.seen = n
  BY <1>1 DEF HeadMoved
<1>4. \A i \in 1 .. n : ledger[i] # v /\ ~Rivals(ledger[i], x)
  BY <1>1, <1>3 DEF ExecutionIs
<1>5. /\ ledger' \in Seq(Numbered) /\ DOMAIN ledger' = 1 .. n + 1
      /\ \A i \in 1 .. n : ledger'[i] = ledger[i]
      /\ ledger'[n + 1] = v
  BY <1>1, <1>2, <1>3
<1>6. /\ v.kind = x.at
      /\ x.at = "claimed" => v.auth = x.auth
      /\ x.at \in OfAttempt => v.attempt = AttemptOf(x)
      /\ x.at = "completed" => v.value = x.result
  BY DEF EventOf, Prerequisites, OfAttempt
<1>7. \A i \in 1 .. n : ~(ledger[i].kind = "claimed" /\ v.kind = "claimed")
  BY <1>4, <1>6 DEF Rivals
<1>8. \A i \in 1 .. n : ~(/\ ledger[i].kind = "completed" /\ v.kind = "completed"
                          /\ ledger[i].attempt = v.attempt)
  BY <1>4, <1>6 DEF Rivals, OfAttempt
<1>9. v.kind = "claimed" => AuthorizedBefore(ledger, v.auth, n + 1)
  BY <1>1, <1>6 DEF ExecutionIs
<1>10. v.kind \in OfAttempt =>
          /\ v.attempt[1] \in 1 .. n /\ ledger[v.attempt[1]].kind = "claimed"
  BY <1>1, <1>3, <1>6 DEF ExecutionIs, OfAttempt, Late, AttemptOf
<1>11. v.kind = "completed" /\ v.value = "success" => v.attempt \in reviews
  BY <1>1, <1>6 DEF ExecutionIs, OfAttempt
<1>12. x.at = "claimed" => \A d \in Executions : exec[d].claim = 0
  <2>1. SUFFICES ASSUME x.at = "claimed", NEW d \in Executions, exec[d].claim # 0 PROVE FALSE
    OBVIOUS
  <2>2. exec[d].claim \in 1 .. n /\ ledger[exec[d].claim].kind = "claimed"
    BY <2>1, <1>3, Mover DEF ExecutionIs
  <2> QED
    BY <2>1, <2>2, <1>6, <1>7
<1> HIDE DEF v, n, x
<1>13. LedgerIs(ledger, reviews)
  BY DEF PublicationInv, LedgerOK
<1>14. /\ \A i, j \in 1 .. n + 1 : ledger'[i].kind = "claimed" /\ ledger'[j].kind = "claimed" => i = j
       /\ \A i, j \in 1 .. n + 1 :
            (/\ ledger'[i].kind = "completed" /\ ledger'[j].kind = "completed"
             /\ ledger'[i].attempt = ledger'[j].attempt) => i = j
  BY <1>3, <1>5, <1>7, <1>8, <1>13 DEF LedgerIs
<1>15. \A j \in 1 .. n + 1 : ledger'[j].kind = "claimed" => AuthorizedBefore(ledger', ledger'[j].auth, j)
  <2>1. SUFFICES ASSUME NEW j \in 1 .. n + 1, ledger'[j].kind = "claimed"
                 PROVE  AuthorizedBefore(ledger', ledger'[j].auth, j)
    OBVIOUS
  <2>2. AuthorizedBefore(ledger, ledger'[j].auth, j)
    BY <2>1, <1>3, <1>5, <1>9, <1>13 DEF LedgerIs
  <2> QED
    BY <2>2, <1>3, <1>5 DEF AuthorizedBefore
<1>16. \A k \in 1 .. n + 1 : ledger'[k].kind \in OfAttempt =>
          /\ ledger'[k].attempt[1] \in 1 .. n + 1 /\ ledger'[k].attempt[1] < k
          /\ ledger'[ledger'[k].attempt[1]].kind = "claimed"
  <2>1. SUFFICES ASSUME NEW k \in 1 .. n + 1, ledger'[k].kind \in OfAttempt
                 PROVE  /\ ledger'[k].attempt[1] \in 1 .. n /\ ledger'[k].attempt[1] < k
                        /\ ledger[ledger'[k].attempt[1]].kind = "claimed"
    BY <1>3, <1>5
  <2>2. CASE k = n + 1
    BY <2>1, <2>2, <1>3, <1>5, <1>10
  <2>3. CASE k \in 1 .. n
    BY <2>1, <2>3, <1>3, <1>5, <1>13 DEF LedgerIs
  <2> QED
    BY <2>2, <2>3, <1>3
<1>17. \A k \in 1 .. n + 1 : ledger'[k].kind = "completed" /\ ledger'[k].value = "success"
          => ledger'[k].attempt \in reviews
  BY <1>3, <1>5, <1>11, <1>13 DEF LedgerIs
<1>18. LedgerOK'
  <2>1. LedgerIs(ledger', reviews)
    <3>1. PICK led : led = ledger'
      OBVIOUS
    <3>2. ASSUME NEW i \in DOMAIN led, NEW j \in DOMAIN led,
                 led[i].kind = "claimed", led[j].kind = "claimed"
          PROVE  i = j
      BY <3>1, <3>2, <1>5, <1>14
    <3>6. ASSUME NEW i \in DOMAIN led, NEW j \in DOMAIN led,
                 led[i].kind = "completed", led[j].kind = "completed", led[i].attempt = led[j].attempt
          PROVE  i = j
      BY <3>1, <3>6, <1>5, <1>14
    <3>3. \A j \in DOMAIN led : led[j].kind = "claimed" => AuthorizedBefore(led, led[j].auth, j)
      BY <3>1, <1>5, <1>15
    <3>4. \A k \in DOMAIN led : led[k].kind \in OfAttempt =>
            /\ led[k].attempt[1] \in DOMAIN led /\ led[k].attempt[1] < k
            /\ led[led[k].attempt[1]].kind = "claimed"
      BY <3>1, <1>5, <1>16
    <3>5. \A k \in DOMAIN led : led[k].kind = "completed" /\ led[k].value = "success"
            => led[k].attempt \in reviews
      BY <3>1, <1>5, <1>17
    <3> QED
      BY <3>1, <3>2, <3>3, <3>4, <3>5, <3>6 DEF LedgerIs
  <2> QED
    BY <2>1 DEF LedgerOK
<1>19. \A a : HeadRecorded(ledger, a) => HeadRecorded(ledger', a)
  BY <1>3, <1>5 DEF HeadRecorded
<1>20. GuardOK'
  BY <1>19 DEF PublicationInv, GuardOK, Sent
<1> QED
  BY <1>2, <1>3, <1>5, <1>12, <1>18, <1>20 DEF x, v, n

LEMMA AppendStep ==
    ASSUME PublicationInv, NEW e \in Executions, AppendEvent(e) \/ AppendInDoubt(e)
    PROVE  PublicationInv'
<1> DEFINE x == exec[e]
<1>1. x \in Executing /\ ledger \in Seq(Numbered)
      /\ ExecutionIs(x, ledger, RowAttempts(guard), reviews)
  BY Mover
<1>2. x.at \in Recording /\ x.phase = "append" /\ UNCHANGED <<guard, wire, reviews, refused, head>>
  BY DEF AppendEvent, AppendInDoubt, github
<1>3. x.at # "token"
  BY <1>2 DEF Recording, Prerequisites, OfAttempt
<1>4. CASE HeadMoved(e)
  <2>0. AppendEvent(e)
    BY <1>4 DEF AppendInDoubt
  <2>1. CASE LastTry(x)
    <3>1. Becomes(e, Fails(x)) /\ UNCHANGED ledger
      BY <1>4, <2>0, <2>1 DEF AppendEvent
    <3> QED
      BY <1>1, <1>2, <3>1, FailsOK, QuietStep
  <2>2. CASE ~LastTry(x)
    <3> DEFINE y == [x EXCEPT !.phase = "inspect", !.seen = 0, !.tries = x.tries + 1]
    <3>1. Becomes(e, y) /\ UNCHANGED ledger
      BY <1>4, <2>0, <2>2 DEF AppendEvent
    <3> HIDE DEF x
    <3>2. x.tries + 1 \in Nat
      BY <1>1 DEF Executing
    <3>3. /\ y \in Executing /\ y.at = x.at /\ y.claim = x.claim /\ y.result = x.result
          /\ y.auth = x.auth /\ y.phase = "inspect" /\ y.number = x.number
      BY <1>1, <3>2 DEF Executing
    <3> HIDE DEF y
    <3>4. AttemptOf(y) = AttemptOf(x)
      BY <3>3 DEF AttemptOf
    <3>5. ExecutionIs(y, ledger, RowAttempts(guard), reviews)
      BY <1>1, <3>3, <3>4 DEF ExecutionIs
    <3> QED
      BY <1>2, <1>3, <3>1, <3>3, <3>5, QuietStep DEF x
  <2> QED
    BY <2>1, <2>2
<1>5. CASE ~HeadMoved(e)
  <2> DEFINE n == Len(ledger) + 1
  <2>1. ledger' = Append(ledger, Event(e)) /\ (Becomes(e, Recorded(x, n)) \/ Becomes(e, Fails(x)))
    BY <1>5 DEF AppendEvent, AppendInDoubt
  <2>2. /\ ledger' \in Seq(Numbered) /\ LedgerOK' /\ GuardOK'
        /\ EventOf(x) \in Numbered /\ ledger' = Append(ledger, EventOf(x))
        /\ n \in DOMAIN ledger' /\ ledger'[n] = EventOf(x) /\ n \in Nat
        /\ x.at = "claimed" => \A d \in Executions : exec[d].claim = 0
    BY <1>1, <1>2, <1>5, <2>1, AppendedLedger
  <2>3. ExecutionIs(x, ledger', RowAttempts(guard), reviews)
    BY <1>1, <2>2, Grows
  <2> HIDE DEF x, n
  <2>4. /\ Recorded(x, n) \in Executing /\ Recorded(x, n).at # "token"
        /\ Recorded(x, n).claim = IF x.at = "claimed" THEN n ELSE x.claim
        /\ ExecutionIs(Recorded(x, n), ledger', RowAttempts(guard), reviews)
    <3>1. PICK led \in Seq(Numbered) : led = ledger'
      BY <2>2
    <3>2. /\ ExecutionIs(x, led, RowAttempts(guard), reviews)
          /\ n \in DOMAIN led /\ led[n] = EventOf(x) /\ n \in Nat
      BY <2>2, <2>3, <3>1
    <3>3. /\ Recorded(x, n) \in Executing /\ Recorded(x, n).at # "token"
          /\ Recorded(x, n).claim = IF x.at = "claimed" THEN n ELSE x.claim
          /\ ExecutionIs(Recorded(x, n), led, RowAttempts(guard), reviews)
      BY <1>1, <1>2, <3>2, RecordedOK
    <3> QED
      BY <3>1, <3>3
  <2>5. /\ Fails(x) \in Executing /\ Fails(x).at # "token" /\ Fails(x).claim = x.claim
        /\ ExecutionIs(Fails(x), ledger', RowAttempts(guard), reviews)
    BY <1>1, <2>3, FailsOK
  <2>6. PICK y \in {Recorded(x, n), Fails(x)} : Becomes(e, y)
    BY <2>1
  <2>7. /\ y \in Executing /\ y.at # "token" /\ (x.at = "claimed" \/ y.claim = x.claim)
        /\ ExecutionIs(y, ledger', RowAttempts(guard), reviews)
    BY <2>4, <2>5, <2>6
  <2>8. /\ exec' \in [Executions -> Executing] /\ exec'[e] = y
        /\ \A d \in Executions : d # e => exec'[d] = exec[d]
        /\ \A d \in Executions : ExecutionOK(d)'
    BY <1>2, <2>2, <2>6, <2>7, OneMoves
  <2>9. Types'
    BY <1>2, <2>2, <2>8 DEF PublicationInv, Types
  <2>10. OwnersOK'
    BY <2>2, <2>7, <2>8 DEF PublicationInv, OwnersOK, x
  <2>11. FirstToSend'
    BY <1>2, <2>7, <2>8 DEF PublicationInv, FirstToSend, Sent
  <2> QED
    BY <2>2, <2>8, <2>9, <2>10, <2>11 DEF PublicationInv
<1> QED
  BY <1>4, <1>5

\* Going on to a place past the claim, with what the place asks for.
LEMMA GoesOn ==
    ASSUME NEW x \in Executing, NEW z \in Executing, NEW place \in Places,
           NEW led, NEW rows, NEW applied, ExecutionIs(x, led, rows, applied),
           z.claim = x.claim, z.auth = x.auth, z.number = x.number,
           place \notin Early, place # "retry",
           place \in Late => x.claim # 0,
           place \in PastGate => HeadRecorded(led, AttemptOf(x)),
           place \in {"token", "post"} => AttemptOf(x) \in rows,
           z.result = "success" => AttemptOf(x) \in applied,
           place = "receipt" /\ z.result = "success" => SuccessRecorded(led, AttemptOf(x)),
           place = "published" => SuccessRecorded(led, AttemptOf(x))
    PROVE  /\ Goes(z, place) \in Executing /\ Goes(z, place).at = place
           /\ Goes(z, place).claim = x.claim
           /\ ExecutionIs(Goes(z, place), led, rows, applied)
<1> DEFINE y == Goes(z, place)
<1>1. /\ y \in Executing /\ y.at = place /\ y.phase = "inspect" /\ y.claim = x.claim
      /\ y.result = z.result /\ y.auth = x.auth /\ AttemptOf(y) = AttemptOf(x)
  BY GoesOK DEF AttemptOf
<1> HIDE DEF y
<1>2. ExecutionIs(y, led, rows, applied)
  BY <1>1 DEF ExecutionIs, Early
<1> QED
  BY <1>1, <1>2 DEF y

LEMMA GateStep ==
    ASSUME PublicationInv, NEW e \in Executions, Resolve(e) \/ Reconcile(e) \/ Dispatch(e)
    PROVE  PublicationInv'
<1> DEFINE x == exec[e]
<1> USE DEF Places, Early, Late, Final, Prerequisites, PastGate
<1>1. x \in Executing /\ ExecutionIs(x, ledger, RowAttempts(guard), reviews)
  BY Mover
<1>2. x.at \in {"resolve", "reconcile", "dispatch"}
      /\ UNCHANGED <<ledger, guard, wire, reviews, refused, head>>
  BY DEF Resolve, Reconcile, Dispatch, github, At
<1>3. x.claim # 0 /\ (x.result = "success" => AttemptOf(x) \in reviews)
      /\ (x.at = "dispatch" => HeadRecorded(ledger, AttemptOf(x)))
  BY <1>1, <1>2 DEF ExecutionIs
<1>4. CASE Resolve(e)
  <2>1. PICK h \in {head, "unavailable"} : Becomes(e, Goes([x EXCEPT !.observed = h], "reconcile"))
    BY <1>4 DEF Resolve
  <2> DEFINE z == [x EXCEPT !.observed = h]
  <2>2. h \in Heads \cup {"unavailable"}
    BY <2>1 DEF PublicationInv, Types
  <2>3. z \in Executing /\ z.claim = x.claim /\ z.auth = x.auth /\ z.number = x.number
        /\ z.result = x.result
    BY <1>1, <2>2 DEF Executing
  <2> HIDE DEF z, x
  <2>4. /\ Goes(z, "reconcile") \in Executing /\ Goes(z, "reconcile").at = "reconcile"
        /\ Goes(z, "reconcile").claim = x.claim
        /\ ExecutionIs(Goes(z, "reconcile"), ledger, RowAttempts(guard), reviews)
    BY <1>1, <1>3, <2>3, GoesOn
  <2> QED
    BY <1>2, <2>1, <2>4, QuietStep DEF z, x
<1>5. CASE Reconcile(e) \/ Dispatch(e)
  <2>1. PICK place \in {"head", "guard"} :
          /\ Becomes(e, Goes(x, place)) \/ Becomes(e, Fails(x))
          /\ place = "guard" => x.at = "dispatch"
    BY <1>5 DEF Reconcile, Dispatch, At
  <2>2. CASE Becomes(e, Fails(x))
    BY <1>1, <1>2, <2>2, FailsOK, QuietStep
  <2>3. CASE Becomes(e, Goes(x, place))
    <3> HIDE DEF x
    <3>1. /\ Goes(x, place) \in Executing /\ Goes(x, place).at = place
          /\ Goes(x, place).claim = x.claim
          /\ ExecutionIs(Goes(x, place), ledger, RowAttempts(guard), reviews)
      BY <1>1, <1>3, <2>1, GoesOn
    <3> QED
      BY <1>2, <2>3, <3>1, QuietStep DEF x
  <2> QED
    BY <2>1, <2>2, <2>3
<1> QED
  BY <1>4, <1>5

\* A dispatch that ends with result r, which is not a success.
LEMMA ReturnsOK ==
    ASSUME NEW x \in Executing, NEW led, NEW rows, NEW applied, ExecutionIs(x, led, rows, applied),
           x.claim # 0, NEW r \in Results, r = "success" => AttemptOf(x) \in applied,
           NEW place \in {"complete", "completed"}
    PROVE  LET y == Goes([x EXCEPT !.result = r], place)
           IN  /\ y \in Executing /\ y.at = place /\ y.claim = x.claim
               /\ ExecutionIs(y, led, rows, applied)
<1> DEFINE z == [x EXCEPT !.result = r]
<1>1. z \in Executing /\ z.claim = x.claim /\ z.auth = x.auth /\ z.number = x.number /\ z.result = r
  BY DEF Executing
<1> HIDE DEF z
<1>2. /\ Goes(z, place) \in Executing /\ Goes(z, place).at = place /\ Goes(z, place).claim = x.claim
      /\ ExecutionIs(Goes(z, place), led, rows, applied)
  BY <1>1, GoesOn DEF Places, Early, Late, Final, Prerequisites, PastGate
<1> QED
  BY <1>2 DEF z

LEMMA ReturnStep ==
    ASSUME PublicationInv, NEW e \in Executions, NEW r \in Results,
           exec[e].at \in {"guard", "token", "post"},
           r = "success" => AttemptOf(exec[e]) \in reviews,
           Becomes(e, Returns(exec[e], r)) \/ Becomes(e, ReturnsCompleting(exec[e], r)),
           UNCHANGED <<ledger, guard, wire, reviews, refused, head>>
    PROVE  PublicationInv'
<1> DEFINE x == exec[e]
<1>1. x \in Executing /\ ExecutionIs(x, ledger, RowAttempts(guard), reviews)
  BY Mover
<1>2. x.claim # 0
  BY <1>1 DEF ExecutionIs, Late
<1>3. PICK place \in {"complete", "completed"} : Becomes(e, Goes([x EXCEPT !.result = r], place))
  BY DEF Returns, ReturnsCompleting
<1> DEFINE y == Goes([x EXCEPT !.result = r], place)
<1>4. y \in Executing /\ y.at = place /\ y.claim = x.claim
      /\ ExecutionIs(y, ledger, RowAttempts(guard), reviews)
  BY <1>1, <1>2, ReturnsOK
<1>5. Becomes(e, y)
  BY <1>3
<1> HIDE DEF y
<1> QED
  BY <1>4, <1>5, QuietStep

(***************************************************************************)
(* The row of an attempt is inserted when the operation key has none, so   *)
(* nothing was sent before, by this attempt or by another.                 *)
(***************************************************************************)
LEMMA RowStep ==
    ASSUME PublicationInv, NEW e \in Executions, exec[e].at = "guard", guard = {},
           guard' = {Row(e)}, UNCHANGED <<ledger, wire, reviews, refused, head>>,
           \/ Becomes(e, Goes(exec[e], "token"))
           \/ Becomes(e, Returns(exec[e], "transient"))
    PROVE  PublicationInv'
<1> DEFINE x == exec[e]
<1> USE DEF Places, Early, Late, Final, Prerequisites, PastGate
<1>1. x \in Executing /\ ExecutionIs(x, ledger, RowAttempts(guard), reviews)
  BY Mover
<1>2. x.claim # 0 /\ HeadRecorded(ledger, AttemptOf(x)) /\ (x.result = "success" => AttemptOf(x) \in reviews)
  BY <1>1 DEF ExecutionIs
<1>3. RowAttempts(guard') = {AttemptOf(x)} /\ RowAttempts(guard) = {}
  BY DEF RowAttempts, Row, Attempt, AttemptOf
<1>4. Sent = {} /\ Sent' = {}
  BY <1>3 DEF PublicationInv, GuardOK, Sent
<1>5. guard' \subseteq [attempt : Nat \X Nat, status : {"claimed", "completed"}, result : Results]
  BY <1>1 DEF Row, Attempt, Executing, Results
<1>6. ExecutionIs(x, ledger, RowAttempts(guard'), reviews)
  BY <1>1, <1>3 DEF ExecutionIs
<1> HIDE DEF x
<1>7. PICK y \in Executing : /\ Becomes(e, y) /\ y.claim = x.claim
                             /\ ExecutionIs(y, ledger, RowAttempts(guard'), reviews)
  <2>1. CASE Becomes(e, Goes(x, "token"))
    <3>1. /\ Goes(x, "token") \in Executing /\ Goes(x, "token").claim = x.claim
          /\ ExecutionIs(Goes(x, "token"), ledger, RowAttempts(guard'), reviews)
      <4>1. PICK rows : rows = RowAttempts(guard')
        OBVIOUS
      <4>2. AttemptOf(x) \in rows /\ ExecutionIs(x, ledger, rows, reviews)
        BY <1>3, <1>6, <4>1
      <4>3. ExecutionIs(Goes(x, "token"), ledger, rows, reviews)
            /\ Goes(x, "token") \in Executing /\ Goes(x, "token").claim = x.claim
        BY <1>1, <1>2, <4>2, GoesOn
      <4> QED
        BY <4>1, <4>3
    <3> QED
      BY <2>1, <3>1
  <2>2. CASE Becomes(e, Returns(x, "transient"))
    <3> DEFINE y == Goes([x EXCEPT !.result = "transient"], "completed")
    <3>1. y \in Executing /\ y.claim = x.claim /\ ExecutionIs(y, ledger, RowAttempts(guard'), reviews)
      BY <1>1, <1>2, <1>6, ReturnsOK DEF Results, Failures
    <3>2. Becomes(e, y)
      BY <2>2 DEF Returns
    <3> HIDE DEF y
    <3> QED
      BY <3>1, <3>2
  <2> QED
    BY <2>1, <2>2 DEF x
<1>8. ExecutionIs(y, ledger', RowAttempts(guard'), reviews')
  BY <1>7
<1>9. /\ exec' \in [Executions -> Executing] /\ exec'[e] = y
      /\ \A d \in Executions : d # e => exec'[d] = exec[d]
      /\ \A d \in Executions : ExecutionOK(d)'
  BY <1>3, <1>7, <1>8, OneMoves
<1>10. Types' /\ LedgerOK'
  BY <1>5, <1>9 DEF PublicationInv, Types, LedgerOK
<1>11. GuardOK'
  BY <1>4 DEF GuardOK
<1>12. OwnersOK'
  BY <1>7, <1>9 DEF PublicationInv, OwnersOK, x
<1>13. FirstToSend'
  BY <1>4 DEF FirstToSend
<1> QED
  BY <1>9, <1>10, <1>11, <1>12, <1>13 DEF PublicationInv

LEMMA ClaimStep ==
    ASSUME PublicationInv, NEW e \in Executions, ClaimPublicationAttempt(e) \/ ClaimInDoubt(e)
    PROVE  PublicationInv'
<1>1. exec[e].at = "guard" /\ UNCHANGED <<ledger, wire, reviews, refused, head>>
  BY DEF ClaimPublicationAttempt, ClaimInDoubt, At, github
<1>2. CASE guard = {} /\ guard' = {Row(e)}
  <2>1. \/ Becomes(e, Goes(exec[e], "token"))
        \/ Becomes(e, Returns(exec[e], "transient"))
    BY <1>2 DEF ClaimPublicationAttempt, ClaimInDoubt, RowsOfOperation
  <2> QED
    BY <1>1, <1>2, <2>1, RowStep
<1>3. CASE ~(guard = {} /\ guard' = {Row(e)})
  <2>1. UNCHANGED guard
    BY <1>3 DEF ClaimPublicationAttempt, ClaimInDoubt, RowsOfOperation
  <2>2. PICK r \in {"transient", "rejected"} : Becomes(e, Returns(exec[e], r))
    BY <1>3 DEF ClaimPublicationAttempt, ClaimInDoubt, RowsOfOperation
  <2> QED
    BY <1>1, <2>1, <2>2, ReturnStep DEF Results, Failures
<1> QED
  BY <1>2, <1>3

\* Who sends has the only row, and OwnersOK makes it the only one with it.
LEMMA SendStep ==
    ASSUME PublicationInv, NEW e \in Executions, Send(e)
    PROVE  PublicationInv'
<1> DEFINE x == exec[e]
<1> USE DEF Places, Early, Late, Final, Prerequisites, PastGate
<1>1. x \in Executing /\ ExecutionIs(x, ledger, RowAttempts(guard), reviews)
  BY Mover
<1>2. /\ x.at = "token" /\ Becomes(e, Goes(x, "post")) /\ wire' = wire \cup {AttemptOf(x)}
      /\ UNCHANGED <<ledger, guard, reviews, refused, head>>
  BY DEF Send, At, Attempt, AttemptOf
<1>3. /\ x.claim # 0 /\ HeadRecorded(ledger, AttemptOf(x)) /\ AttemptOf(x) \in RowAttempts(guard)
      /\ (x.result = "success" => AttemptOf(x) \in reviews)
  BY <1>1, <1>2 DEF ExecutionIs
<1>4. AttemptOf(x) \in Nat \X Nat
  BY <1>1 DEF AttemptOf, Executing
<1> HIDE DEF x
<1> DEFINE y == Goes(x, "post")
<1>5. y \in Executing /\ y.at = "post" /\ y.claim = x.claim
      /\ ExecutionIs(y, ledger, RowAttempts(guard), reviews)
  BY <1>1, <1>3, GoesOn
<1> HIDE DEF y
<1>6. /\ exec' \in [Executions -> Executing] /\ exec'[e] = y
      /\ \A d \in Executions : d # e => exec'[d] = exec[d]
      /\ \A d \in Executions : ExecutionOK(d)'
  BY <1>2, <1>5, OneMoves DEF y
<1>7. Types' /\ LedgerOK'
  BY <1>2, <1>6 DEF PublicationInv, Types, LedgerOK
<1>8. GuardOK'
  BY <1>2, <1>3, <1>4 DEF PublicationInv, GuardOK, Sent
<1>9. OwnersOK'
  BY <1>5, <1>6 DEF PublicationInv, OwnersOK, x
<1>10. FirstToSend'
  <2>1. SUFFICES ASSUME NEW d \in Executions, exec'[d].at = "token" PROVE FALSE
    BY DEF FirstToSend
  <2>2. d # e /\ exec[d].at = "token"
    BY <2>1, <1>5, <1>6
  <2>3. exec[d].claim # 0
    BY <2>2, Mover DEF ExecutionIs
  <2> QED
    BY <2>2, <2>3, <1>3 DEF PublicationInv, OwnersOK, x
<1> QED
  BY <1>6, <1>7, <1>8, <1>9, <1>10 DEF PublicationInv

LEMMA AnswerStep ==
    ASSUME PublicationInv, NEW e \in Executions, NotSent(e) \/ Response(e)
    PROVE  PublicationInv'
<1>1. exec[e].at \in {"token", "post"} /\ UNCHANGED <<ledger, guard, wire, reviews, refused, head>>
  BY DEF NotSent, Response, At, github
<1>2. PICK r \in Results : /\ Becomes(e, ReturnsCompleting(exec[e], r))
                           /\ r = "success" => AttemptOf(exec[e]) \in reviews
  BY OfRecord DEF NotSent, Response, Outcomes, Results, Failures
<1> QED
  BY <1>1, <1>2, ReturnStep

\* The guard's completion changes its row's status, not its attempt.
LEMMA CompleteStep ==
    ASSUME PublicationInv, NEW e \in Executions, CompletePublicationAttempt(e)
    PROVE  PublicationInv'
<1> DEFINE x == exec[e]
           After(g) == IF g.attempt = Attempt(e)
                       THEN [g EXCEPT !.status = "completed", !.result = x.result] ELSE g
<1> USE DEF Places, Early, Late, Final, Prerequisites, PastGate
<1>1. x \in Executing /\ ExecutionIs(x, ledger, RowAttempts(guard), reviews)
  BY Mover
<1>2. /\ x.at = "complete" /\ Becomes(e, Goes(x, "completed"))
      /\ UNCHANGED <<ledger, wire, reviews, refused, head>>
      /\ guard' = guard \/ guard' = {After(g) : g \in guard}
  BY DEF CompletePublicationAttempt, At, github
<1>3. x.claim # 0 /\ (x.result = "success" => AttemptOf(x) \in reviews) /\ x.result \in Results
  BY <1>1, <1>2 DEF ExecutionIs, Executing
<1>4. \A g \in guard : /\ After(g).attempt = g.attempt
                       /\ After(g) \in [attempt : Nat \X Nat, status : {"claimed", "completed"}, result : Results]
  BY <1>3 DEF PublicationInv, Types
<1> HIDE DEF x, After
<1>5. /\ RowAttempts(guard') = RowAttempts(guard)
      /\ guard' \subseteq [attempt : Nat \X Nat, status : {"claimed", "completed"}, result : Results]
      /\ \A g, h \in guard' : g = h
  BY <1>2, <1>4 DEF PublicationInv, Types, GuardOK, RowAttempts
<1> DEFINE y == Goes(x, "completed")
<1>6. y \in Executing /\ y.at = "completed" /\ y.claim = x.claim
      /\ ExecutionIs(y, ledger, RowAttempts(guard), reviews)
  BY <1>1, <1>3, GoesOn
<1> HIDE DEF y
<1>7. ExecutionIs(y, ledger', RowAttempts(guard'), reviews')
  BY <1>2, <1>5, <1>6
<1>8. /\ exec' \in [Executions -> Executing] /\ exec'[e] = y
      /\ \A d \in Executions : d # e => exec'[d] = exec[d]
      /\ \A d \in Executions : ExecutionOK(d)'
  BY <1>2, <1>5, <1>6, <1>7, OneMoves DEF y
<1>9. Types' /\ LedgerOK'
  BY <1>2, <1>5, <1>8 DEF PublicationInv, Types, LedgerOK
<1>10. GuardOK'
  BY <1>2, <1>5 DEF PublicationInv, GuardOK, Sent
<1>11. OwnersOK'
  BY <1>6, <1>8 DEF PublicationInv, OwnersOK, x
<1>12. FirstToSend'
  BY <1>2, <1>6, <1>8 DEF PublicationInv, FirstToSend, Sent
<1> QED
  BY <1>8, <1>9, <1>10, <1>11, <1>12 DEF PublicationInv

LEMMA ReceiptStep ==
    ASSUME PublicationInv, NEW e \in Executions, PersistReceipt(e)
    PROVE  PublicationInv'
<1> DEFINE x == exec[e]
<1> USE DEF Places, Early, Late, Final, Prerequisites, PastGate
<1>1. x \in Executing /\ ExecutionIs(x, ledger, RowAttempts(guard), reviews)
  BY Mover
<1>2. PICK place \in {"published", "not_required"} :
          /\ x.at = "receipt" /\ Becomes(e, Goes(x, place))
          /\ place = "published" => x.result = "success"
  BY DEF PersistReceipt, At
<1>3. UNCHANGED <<ledger, guard, wire, reviews, refused, head>>
  BY DEF PersistReceipt, github
<1>4. /\ x.result = "success" => AttemptOf(x) \in reviews
      /\ place = "published" => SuccessRecorded(ledger, AttemptOf(x))
  BY <1>1, <1>2 DEF ExecutionIs
<1>5. SuccessRecorded(ledger, AttemptOf(x)) /\ place = "published" => x.claim # 0
  <2>1. SUFFICES ASSUME SuccessRecorded(ledger, AttemptOf(x)) PROVE x.claim # 0
    OBVIOUS
  <2>2. PICK k \in DOMAIN ledger : ledger[k].kind = "completed" /\ ledger[k].attempt = AttemptOf(x)
    BY <2>1 DEF SuccessRecorded
  <2>3. ledger[k].attempt[1] \in DOMAIN ledger
    BY <2>2 DEF PublicationInv, LedgerOK, LedgerIs, OfAttempt
  <2> QED
    BY <2>2, <2>3 DEF PublicationInv, Types, AttemptOf
<1> HIDE DEF x
<1>6. /\ Goes(x, place) \in Executing /\ Goes(x, place).at = place /\ Goes(x, place).claim = x.claim
      /\ ExecutionIs(Goes(x, place), ledger, RowAttempts(guard), reviews)
  BY <1>1, <1>2, <1>4, <1>5, GoesOn
<1> QED
  BY <1>2, <1>3, <1>6, QuietStep DEF x

----------------------------------------------------------------------------
(* GitHub, time and faults. *)

\* An answer takes an attempt off the wire; what was sent stays sent.
LEMMA GitHubStep ==
    ASSUME PublicationInv, NEW a \in wire, Apply(a) \/ Refuse(a)
    PROVE  PublicationInv'
<1>1. /\ UNCHANGED <<ledger, guard, head, exec>> /\ reviews \subseteq reviews'
      /\ Sent' = Sent
  BY DEF Apply, Refuse, Sent
<1>2. Types' /\ OwnersOK'
  BY <1>1 DEF PublicationInv, Types, OwnersOK
<1>3. LedgerOK'
  <2>1. LedgerIs(ledger, reviews')
    BY <1>1 DEF PublicationInv, LedgerOK, LedgerIs
  <2> QED
    BY <1>1, <2>1 DEF LedgerOK
<1>4. GuardOK' /\ FirstToSend'
  BY <1>1 DEF PublicationInv, GuardOK, FirstToSend
<1>5. ASSUME NEW e \in Executions PROVE ExecutionOK(e)'
  <2>1. ExecutionIs(exec[e], ledger, RowAttempts(guard), reviews')
    BY <1>1, Mover DEF ExecutionIs
  <2> QED
    BY <1>1, <2>1 DEF ExecutionOK
<1> QED
  BY <1>2, <1>3, <1>4, <1>5 DEF PublicationInv

LEMMA HeadStep ==
    ASSUME PublicationInv, HeadMoves
    PROVE  PublicationInv'
BY DEF PublicationInv, Types, LedgerOK, GuardOK, Sent, OwnersOK, FirstToSend, ExecutionOK, HeadMoves

LEMMA FaultStep ==
    ASSUME PublicationInv, NEW e \in Executions, TimePasses(e) \/ Stop(e)
    PROVE  PublicationInv'
<1> DEFINE x == exec[e]
<1>1. x \in Executing /\ ExecutionIs(x, ledger, RowAttempts(guard), reviews)
  BY Mover
<1>2. UNCHANGED <<ledger, guard, wire, reviews, refused, head>>
  BY DEF TimePasses, Stop, github
<1>3. CASE Stop(e)
  <2>1. Becomes(e, Fails(x))
    BY <1>3 DEF Stop
  <2> QED
    BY <1>1, <1>2, <2>1, FailsOK, QuietStep
<1>4. CASE TimePasses(e)
  <2>1. PICK f \in SUBSET {"aged", "expired"} : Becomes(e, [x EXCEPT !.flags = f])
    BY <1>4 DEF TimePasses
  <2> DEFINE y == [x EXCEPT !.flags = f]
  <2>2. Becomes(e, y)
    BY <2>1
  <2> HIDE DEF x
  <2>3. /\ y \in Executing /\ y.at = x.at /\ y.phase = x.phase /\ y.seen = x.seen /\ y.auth = x.auth
        /\ y.claim = x.claim /\ y.number = x.number /\ y.observed = x.observed /\ y.result = x.result
    BY <1>1 DEF Executing
  <2> HIDE DEF y
  <2>4. AttemptOf(y) = AttemptOf(x) /\ EventOf(y) = EventOf(x)
    BY <2>3 DEF AttemptOf, EventOf
  <2>5. \A v : Rivals(v, y) <=> Rivals(v, x)
    BY <2>3, <2>4 DEF Rivals
  <2>6. ExecutionIs(y, ledger, RowAttempts(guard), reviews)
    BY <1>1, <2>3, <2>4, <2>5 DEF ExecutionIs
  <2> QED
    BY <1>2, <2>2, <2>3, <2>6, QuietStep DEF x
<1> QED
  BY <1>3, <1>4

----------------------------------------------------------------------------
(* The theorems. *)

LEMMA InitPublication == Init => PublicationInv
<1> SUFFICES ASSUME Init PROVE PublicationInv
  OBVIOUS
<1>1. Types
  BY DEF Init, Types, Executing, Places, Early, Late, Final, Heads, Results
<1>2. LedgerOK /\ GuardOK /\ OwnersOK /\ FirstToSend
  BY DEF Init, LedgerOK, LedgerIs, GuardOK, Sent, OwnersOK, FirstToSend
<1>3. \A e \in Executions : ExecutionOK(e)
  BY DEF Init, ExecutionOK, ExecutionIs, Early, Late, PastGate, Prerequisites
<1> QED
  BY <1>1, <1>2, <1>3 DEF PublicationInv

LEMMA NextPublication == PublicationInv /\ [Next]_vars => PublicationInv'
<1> SUFFICES ASSUME PublicationInv, [Next]_vars PROVE PublicationInv'
  OBVIOUS
<1>1. ASSUME NEW e \in Executions, NEW a \in Authorizations, Start(e, a) PROVE PublicationInv'
  BY <1>1, StartStep
<1>2. ASSUME NEW e \in Executions, Step(e) PROVE PublicationInv'
  BY <1>2, InspectStep, AppendStep, GateStep, ClaimStep, SendStep, AnswerStep, CompleteStep, ReceiptStep
     DEF Step
<1>3. ASSUME NEW e \in Executions, AppendInDoubt(e) \/ ClaimInDoubt(e) \/ TimePasses(e) \/ Stop(e)
      PROVE  PublicationInv'
  BY <1>3, AppendStep, ClaimStep, FaultStep
<1>4. ASSUME NEW a \in wire, Apply(a) \/ Refuse(a) PROVE PublicationInv'
  BY <1>4, GitHubStep
<1>5. CASE HeadMoves
  BY <1>5, HeadStep
<1>6. CASE Over \/ UNCHANGED vars
  BY <1>6 DEF Over, vars, PublicationInv, Types, LedgerOK, GuardOK, Sent, OwnersOK, FirstToSend, ExecutionOK
<1> QED
  BY <1>1, <1>2, <1>3, <1>4, <1>5, <1>6 DEF Next

\* The inductive invariant holds in every reachable state of publication.
THEOREM PublicationInvariant == Spec => []PublicationInv
BY InitPublication, NextPublication, PTL DEF Spec

\* A set all of whose elements are equal has at most one.
LEMMA AtMostOne ==
    ASSUME NEW S, \A a, b \in S : a = b
    PROVE  Cardinality(S) <= 1
<1>1. CASE S = {}
  BY <1>1, FS_EmptySet
<1>2. CASE S # {}
  <2>1. PICK a : S = {a}
    BY <1>2
  <2>2. Cardinality(S) = 1
    BY <2>1, FS_Singleton
  <2> QED
    BY <2>2
<1> QED
  BY <1>1, <1>2

(***************************************************************************)
(* ClaimPublication grants one caller ownership of the plan, for any       *)
(* number of executions and whatever commits lose their reply.             *)
(***************************************************************************)
THEOREM PublicationHasOneOwner == Spec => []OneOwner
<1>1. PublicationInv => OneOwner
  <2> SUFFICES ASSUME PublicationInv PROVE OneOwner
    OBVIOUS
  <2>1. Cardinality({i \in DOMAIN ledger : ledger[i].kind = "claimed"}) <= 1
    BY AtMostOne DEF PublicationInv, LedgerOK, LedgerIs
  <2> QED
    BY <2>1 DEF PublicationInv, OwnersOK, OneOwner
<1> QED
  BY <1>1, PublicationInvariant, PTL

(***************************************************************************)
(* The pull request gets at most one review, and nothing is sent after the *)
(* first POST, for any number of executions, attempts and faults.          *)
(***************************************************************************)
THEOREM PublicationReviewsOnce == Spec => []ReviewedOnce
<1>1. PublicationInv => ReviewedOnce
  <2> SUFFICES ASSUME PublicationInv PROVE ReviewedOnce
    OBVIOUS
  <2>1. \A a, b \in reviews \cup wire : a = b
    BY DEF PublicationInv, GuardOK, Sent, RowAttempts
  <2>2. Cardinality(reviews \cup wire) <= 1
    BY <2>1, AtMostOne
  <2> QED
    BY <2>2 DEF PublicationInv, FirstToSend, Sent, ReviewedOnce, At
<1> QED
  BY <1>1, PublicationInvariant, PTL

(***************************************************************************)
(* Every POST has its authorization, claim and current head on record, in  *)
(* this order (AuthorizesPublication and the claim it is given).           *)
(***************************************************************************)
THEOREM PublicationSendsUnderGate == Spec => []SentUnderGate
<1>1. PublicationInv => SentUnderGate
  <2> SUFFICES ASSUME PublicationInv, NEW a \in Sent
               PROVE  \E i, j, k \in DOMAIN ledger :
                        /\ i < j /\ j < k
                        /\ ledger[i].kind = "authorized"
                        /\ j = a[1] /\ ledger[j].kind = "claimed" /\ ledger[j].auth = ledger[i].auth
                        /\ ledger[k].kind = "head" /\ ledger[k].attempt = a /\ ledger[k].value = "current"
    BY DEF SentUnderGate, Sent
  <2>1. PICK k \in DOMAIN ledger :
          ledger[k].kind = "head" /\ ledger[k].attempt = a /\ ledger[k].value = "current"
    BY DEF PublicationInv, GuardOK, HeadRecorded
  <2>2. a[1] \in DOMAIN ledger /\ a[1] < k /\ ledger[a[1]].kind = "claimed"
    BY <2>1 DEF PublicationInv, LedgerOK, LedgerIs, OfAttempt
  <2>3. PICK i \in DOMAIN ledger : i < a[1] /\ ledger[i].kind = "authorized" /\ ledger[i].auth = ledger[a[1]].auth
    BY <2>2 DEF PublicationInv, LedgerOK, LedgerIs, AuthorizedBefore
  <2> QED
    BY <2>1, <2>2, <2>3
<1> QED
  BY <1>1, PublicationInvariant, PTL

(***************************************************************************)
(* What the ledger records and the task reports happened on GitHub         *)
(* (classifyPublicationStatus and the recorded completion).                *)
(***************************************************************************)
THEOREM PublicationReportsTruth == Spec => []ReportedHappened
<1>1. PublicationInv => ReportedHappened
  <2> SUFFICES ASSUME PublicationInv PROVE ReportedHappened
    OBVIOUS
  <2>1. \A v \in Logged : v.kind = "completed" /\ v.value = "success" => v.attempt \in reviews
    BY DEF PublicationInv, LedgerOK, LedgerIs, Logged
  <2>2. \A v, w \in Logged : v.kind = "completed" /\ w.kind = "completed" /\ v.attempt = w.attempt => v = w
    BY DEF PublicationInv, LedgerOK, LedgerIs, Logged
  <2>3. ASSUME NEW e \in Executions, At(e, "published")
        PROVE  \E v \in Logged : v.kind = "completed" /\ v.attempt = Attempt(e) /\ v.value = "success"
    <3>1. SuccessRecorded(ledger, AttemptOf(exec[e]))
      BY <2>3, Mover DEF ExecutionIs, At
    <3> QED
      BY <3>1, OfRecord DEF SuccessRecorded, Logged
  <2> QED
    BY <2>1, <2>2, <2>3 DEF ReportedHappened
<1> QED
  BY <1>1, PublicationInvariant, PTL
==============================================================================
