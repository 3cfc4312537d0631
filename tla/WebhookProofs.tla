---------------------------- MODULE WebhookProofs ----------------------------
(***************************************************************************)
(* Webhook ingress implements Intake, and a run never exists without its   *)
(* inputs: for any number of daemons, requests, deliveries and faults.     *)
(*                                                                         *)
(* The two facts need the same inductive invariant.  Contents: a key has   *)
(* one body at most, acknowledgments and plans agree with it, an opened    *)
(* run has a plan and inputs.  Supervised: what a daemon is about to do    *)
(* was prepared by its earlier steps, whatever the others did since.       *)
(***************************************************************************)
EXTENDS Webhook, TLAPS

Contents ==
    /\ \A k \in Keys : inbox[k] = {} \/ \E b \in Bodies : inbox[k] = {b}
    /\ \A k \in Keys : acked[k] \subseteq inbox[k]
    /\ \A k \in Keys : plans[k] \in {{}, inbox[k]}
    /\ \A k \in opened : plans[k] # {}

Working == {"resume", "inputs", "save", "open", "advance"}

StoredKeys == {k \in Keys : inbox[k] # {}}
PlannedKeys == {k \in Keys : plans[k] # {}}

SupervisedIn(d, stored, prepared, planned) ==
    /\ d.page \subseteq stored
    /\ d.at \in {"list", "next"} => d.op = "reconcile"
    /\ d.at = "get" => d.key \in Keys
    /\ d.at \in Working => d.key \in stored
    /\ d.at \in {"save", "open"} => d.key \in prepared
    /\ d.at = "open" => d.key \in planned

SupervisedOne(d) == SupervisedIn(d, StoredKeys, inputs, PlannedKeys)

Supervised == \A m \in Daemons : SupervisedOne(daemon[m])

DurableOK ==
    /\ inbox \in [Keys -> SUBSET Bodies] /\ acked \in [Keys -> SUBSET Bodies]
    /\ plans \in [Keys -> SUBSET Bodies] /\ expired \subseteq Keys
    /\ inputs \subseteq Keys /\ opened \subseteq Keys /\ advanced \subseteq Keys
    /\ Contents /\ RunHasInputs

Ind == TypeOK /\ Contents /\ Supervised /\ RunHasInputs

DaemonOK(d) == d \in Daemon /\ Len(d.notices) <= QueueCapacity

----------------------------------------------------------------------------
(* Where the loop may go. *)

\* A supervisor between operations has the type of one and nothing to keep.
LEMMA IdleOK ==
  ASSUME NEW place \in {"list", "down", "select"}, NEW notices \in Seq(Keys),
         Len(notices) <= QueueCapacity, NEW flags \in SUBSET {"overflow", "wake", "more"}
  PROVE  DaemonOK(Idle(place, notices, flags)) /\ SupervisedOne(Idle(place, notices, flags))
<1>1. 0 \in 0 .. MaxDeliveries /\ 0 \in 0 .. MaximumRetries - 1
  BY WebhookAssumption
<1>2. DaemonOK(Idle(place, notices, flags))
  BY <1>1 DEF DaemonOK, Idle, Daemon
<1>3. SupervisedOne(Idle(place, notices, flags))
  BY DEF SupervisedOne, SupervisedIn, Idle, Working
<1> QED BY <1>2, <1>3

\* The states outside of any operation, and at the start of one.
LEMMA RestartOK ==
  ASSUME NEW d, DaemonOK(d)
  PROVE  /\ DaemonOK(Waits(d)) /\ SupervisedOne(Waits(d))
         /\ DaemonOK(Reconcile(d)) /\ SupervisedOne(Reconcile(d))
         /\ DaemonOK(NewDaemon) /\ SupervisedOne(NewDaemon)
         /\ DaemonOK(Down) /\ SupervisedOne(Down)
<1>1. d.notices \in Seq(Keys) /\ Len(d.notices) <= QueueCapacity
      /\ d.flags \ {"more"} \in SUBSET {"overflow", "wake", "more"}
  BY DEF DaemonOK, Daemon
<1>2. <<>> \in Seq(Keys) /\ Len(<<>>) <= QueueCapacity
  BY WebhookAssumption
<1> QED BY <1>1, <1>2, IdleOK DEF Waits, Reconcile, NewDaemon, Down

\* A failed operation is repeated or ends the loop.
LEMMA FailedOK ==
  ASSUME NEW d, DaemonOK(d), SupervisedOne(d), d.op = "notice" => d.key \in Keys
  PROVE  DaemonOK(Failed(d)) /\ SupervisedOne(Failed(d))
<1>1. CASE d.attempts + 1 = MaximumRetries
  BY <1>1, RestartOK DEF Failed
<1>2. ASSUME d.attempts + 1 # MaximumRetries
      PROVE  d.attempts + 1 \in 0 .. MaximumRetries - 1
  BY <1>2, WebhookAssumption DEF DaemonOK, Daemon
<1>3. CASE d.attempts + 1 # MaximumRetries /\ d.op = "notice"
  BY <1>2, <1>3 DEF Failed, DaemonOK, Daemon, SupervisedOne, SupervisedIn, StoredKeys, Working
<1>4. CASE d.attempts + 1 # MaximumRetries /\ d.op # "notice"
  <2> DEFINE e == Reconcile(d)
  <2>1. DaemonOK(e) /\ SupervisedOne(e)
    BY RestartOK
  <2>2. e.at = "list"
    BY DEF Reconcile, Idle
  <2>3. Failed(d) = [e EXCEPT !.attempts = d.attempts + 1]
    BY <1>4 DEF Failed
  <2> HIDE DEF e
  <2> QED BY <1>2, <1>4, <2>1, <2>2, <2>3 DEF DaemonOK, Daemon, SupervisedOne, SupervisedIn, StoredKeys, Working
<1> QED BY <1>1, <1>3, <1>4

\* After a delivery the loop goes on with the page or the overflow flag.
LEMMA ProcessedOK ==
  ASSUME NEW d, DaemonOK(d), SupervisedOne(d)
  PROVE  DaemonOK(Processed(d)) /\ SupervisedOne(Processed(d))
BY DEF Processed, DaemonOK, Daemon, SupervisedOne, SupervisedIn, StoredKeys, Working

\* What a daemon relies on is never taken back.
LEMMA SupervisedGrows ==
  ASSUME NEW d, NEW S, NEW I, NEW P, NEW S1, NEW I1, NEW P1,
         SupervisedIn(d, S, I, P), S \subseteq S1, I \subseteq I1, P \subseteq P1
  PROVE  SupervisedIn(d, S1, I1, P1)
BY DEF SupervisedIn

\* One supervisor moves and the durable state at most grows.
LEMMA OneDaemonMoves ==
  ASSUME Ind, NEW m \in Daemons, NEW d, DaemonOK(d),
         daemon' = [daemon EXCEPT ![m] = d],
         StoredKeys \subseteq StoredKeys', inputs \subseteq inputs', PlannedKeys \subseteq PlannedKeys',
         SupervisedIn(d, StoredKeys', inputs', PlannedKeys')
  PROVE  /\ daemon' \in [Daemons -> Daemon]
         /\ \A n \in Daemons : Len(daemon'[n].notices) <= QueueCapacity
         /\ Supervised'
<1>1. /\ daemon \in [Daemons -> Daemon]
      /\ \A n \in Daemons : Len(daemon[n].notices) <= QueueCapacity
      /\ \A n \in Daemons : SupervisedIn(daemon[n], StoredKeys, inputs, PlannedKeys)
  BY DEF Ind, TypeOK, Supervised, SupervisedOne
<1>2. \A n \in Daemons : daemon'[n] = IF n = m THEN d ELSE daemon[n]
  BY <1>1
<1>3. \A n \in Daemons : SupervisedIn(daemon'[n], StoredKeys', inputs', PlannedKeys')
  <2> TAKE n \in Daemons
  <2>1. CASE n = m
    BY <1>2, <2>1
  <2>2. CASE n # m
    <3>1. SupervisedIn(daemon[n], StoredKeys', inputs', PlannedKeys')
      BY <1>1, SupervisedGrows
    <3> QED BY <1>2, <2>2, <3>1
  <2> QED BY <2>1, <2>2
<1> QED BY <1>1, <1>2, <1>3 DEF Supervised, SupervisedOne, DaemonOK

\* Nothing but the durable state moves, and it grows.
LEMMA NoDaemonMoves ==
  ASSUME Ind, daemon' = daemon,
         StoredKeys \subseteq StoredKeys', inputs \subseteq inputs', PlannedKeys \subseteq PlannedKeys'
  PROVE  /\ daemon' \in [Daemons -> Daemon]
         /\ \A n \in Daemons : Len(daemon'[n].notices) <= QueueCapacity
         /\ Supervised'
<1>1. /\ daemon \in [Daemons -> Daemon]
      /\ \A n \in Daemons : Len(daemon[n].notices) <= QueueCapacity
      /\ \A n \in Daemons : SupervisedIn(daemon[n], StoredKeys, inputs, PlannedKeys)
  BY DEF Ind, TypeOK, Supervised, SupervisedOne
<1>2. \A n \in Daemons : SupervisedIn(daemon[n], StoredKeys', inputs', PlannedKeys')
  BY <1>1, SupervisedGrows
<1> QED BY <1>1, <1>2 DEF Supervised, SupervisedOne

----------------------------------------------------------------------------
(* The steps. *)

\* The parts of the invariant, one per group of variables.
LEMMA IndParts ==
  Ind <=> /\ DurableOK
          /\ requests \in [Requests -> Request]
          /\ budget \in Nat
          /\ daemon \in [Daemons -> Daemon]
          /\ \A m \in Daemons : Len(daemon[m].notices) <= QueueCapacity
          /\ Supervised
BY DEF Ind, TypeOK, DurableOK

\* A step that leaves the durable state alone keeps what is said of it.
LEMMA DurableUnchanged ==
  ASSUME Ind, UNCHANGED durable
  PROVE  /\ DurableOK'
         /\ StoredKeys' = StoredKeys /\ PlannedKeys' = PlannedKeys /\ inputs' = inputs
BY DEF Ind, TypeOK, durable, DurableOK, Contents, RunHasInputs, StoredKeys, PlannedKeys

\* A supervisor's move that touches nothing durable.
LEMMA LoopMoves ==
  ASSUME Ind, NEW m \in Daemons, NEW d, DaemonOK(d), SupervisedOne(d),
         Becomes(m, d), UNCHANGED durable, requests' \in [Requests -> Request],
         budget' \in Nat
  PROVE  Ind'
<1>1. DurableOK' /\ StoredKeys' = StoredKeys /\ PlannedKeys' = PlannedKeys /\ inputs' = inputs
  BY DurableUnchanged
<1>2. SupervisedIn(d, StoredKeys', inputs', PlannedKeys')
  BY <1>1 DEF SupervisedOne
<1>3. /\ daemon' \in [Daemons -> Daemon]
      /\ \A n \in Daemons : Len(daemon'[n].notices) <= QueueCapacity
      /\ Supervised'
  BY <1>1, <1>2, OneDaemonMoves DEF Becomes
<1> QED BY <1>1, <1>3 DEF Ind, TypeOK, DurableOK

\* A handler moves.
LEMMA MovesOK ==
  ASSUME requests \in [Requests -> Request], NEW r \in Requests,
         NEW place \in {"lookup", "insert", "notify", "flag", "wake", "done"},
         Moves(r, place)
  PROVE  requests' \in [Requests -> Request]
BY DEF Moves, Request

\* The inbox steps keep the contents of a key.
LEMMA InboxSteps ==
  ASSUME Ind, NEW r \in Requests, Lookup(r) \/ Insert(r) \/ PutFails(r)
  PROVE  Ind'
<1> DEFINE k == requests[r].key
           b == requests[r].body
<1>1. /\ DurableOK /\ requests \in [Requests -> Request] /\ budget \in Nat
      /\ k \in Keys /\ b \in Bodies
  BY IndParts DEF Request
<1>2. /\ \/ inbox' = inbox
         \/ inbox[k] = {} /\ inbox' = [inbox EXCEPT ![k] = {b}]
      /\ \/ acked' = acked
         \/ acked' = [acked EXCEPT ![k] = @ \cup {b}] /\ b \in inbox'[k]
      /\ UNCHANGED <<expired, inputs, plans, opened, advanced, daemon>>
      /\ budget' \in Nat
      /\ \E place \in {"insert", "notify", "done"} : Moves(r, place)
  <2>1. CASE Lookup(r)
    BY <1>1, <2>1 DEF Lookup, AnswerStored, Stored, Elsewhere
  <2>2. CASE Insert(r)
    <3>1. ASSUME inbox' = [inbox EXCEPT ![k] = {b}] PROVE b \in inbox'[k]
      BY <1>1, <3>1 DEF DurableOK
    <3> QED BY <1>1, <2>2, <3>1 DEF Insert, AnswerStored, InsertNew, Insertion, Stored, Elsewhere
  <2>3. CASE PutFails(r)
    BY <1>1, <2>3 DEF PutFails, Insertion, Stored
  <2> QED BY <2>1, <2>2, <2>3
<1>3. requests' \in [Requests -> Request]
  BY <1>1, <1>2, MovesOK
<1>4. inbox' \in [Keys -> SUBSET Bodies] /\ acked' \in [Keys -> SUBSET Bodies]
  BY <1>1, <1>2 DEF DurableOK
<1>5. \A j \in Keys : inbox'[j] = inbox[j] \/ (inbox[j] = {} /\ j = k /\ inbox'[j] = {b})
  BY <1>1, <1>2 DEF DurableOK
<1>6. \A j \in Keys : acked'[j] = acked[j] \/ (j = k /\ acked'[j] = acked[j] \cup {b} /\ b \in inbox'[j])
  BY <1>1, <1>2 DEF DurableOK
<1>7. Contents'
  BY <1>1, <1>2, <1>5, <1>6 DEF DurableOK, Contents
<1>8. DurableOK'
  BY <1>1, <1>2, <1>4, <1>7 DEF DurableOK, RunHasInputs
<1>9. StoredKeys \subseteq StoredKeys' /\ PlannedKeys' = PlannedKeys
  BY <1>2, <1>5 DEF StoredKeys, PlannedKeys
<1>10. /\ daemon' \in [Daemons -> Daemon]
       /\ \A n \in Daemons : Len(daemon'[n].notices) <= QueueCapacity
       /\ Supervised'
  BY <1>2, <1>9, NoDaemonMoves
<1> QED BY <1>2, <1>3, <1>8, <1>10 DEF Ind, TypeOK, DurableOK

\* The notice reaches the channel, or the flag and the token.
LEMMA NotifySteps ==
  ASSUME Ind, NEW r \in Requests,
         Receive(r) \/ Notify(r) \/ NotifyFlag(r) \/ NotifyWake(r)
  PROVE  Ind'
<1> DEFINE m == requests[r].daemon
           d == daemon[m]
<1>1. /\ requests \in [Requests -> Request] /\ budget \in Nat
      /\ m \in Daemons /\ requests[r].key \in Keys
      /\ daemon \in [Daemons -> Daemon] /\ DaemonOK(d) /\ SupervisedOne(d)
  BY IndParts DEF Request, DaemonOK, Supervised
<1>2. CASE Receive(r)
  <2>1. DurableOK' /\ StoredKeys' = StoredKeys /\ PlannedKeys' = PlannedKeys /\ inputs' = inputs
    BY <1>2, DurableUnchanged DEF Receive
  <2>2. requests' \in [Requests -> Request]
    BY <1>1, <1>2, MovesOK DEF Receive
  <2>3. /\ daemon' \in [Daemons -> Daemon]
        /\ \A n \in Daemons : Len(daemon'[n].notices) <= QueueCapacity
        /\ Supervised'
    BY <1>2, <2>1, NoDaemonMoves DEF Receive
  <2> QED BY <1>1, <1>2, <2>1, <2>2, <2>3 DEF Receive, Ind, TypeOK, DurableOK
<1>3. CASE Notify(r) /\ Len(d.notices) < QueueCapacity
  <2> DEFINE e == [d EXCEPT !.notices = Append(@, requests[r].key)]
  <2>1. Becomes(m, e)
    BY <1>1, <1>3 DEF Notify, Becomes
  <2>2. Append(d.notices, requests[r].key) \in Seq(Keys)
        /\ Len(Append(d.notices, requests[r].key)) <= QueueCapacity
    BY <1>1, <1>3, WebhookAssumption DEF DaemonOK, Daemon
  <2>3. DaemonOK(e) /\ SupervisedOne(e)
    BY <1>1, <2>2 DEF DaemonOK, Daemon, SupervisedOne, SupervisedIn
  <2>4. requests' \in [Requests -> Request]
    BY <1>1, <1>3, MovesOK DEF Notify
  <2> HIDE DEF e
  <2> QED BY <1>1, <1>3, <2>1, <2>3, <2>4, LoopMoves DEF Notify
<1>4. CASE Notify(r) /\ ~(Len(d.notices) < QueueCapacity)
  <2>1. DurableOK' /\ StoredKeys' = StoredKeys /\ PlannedKeys' = PlannedKeys /\ inputs' = inputs
    BY <1>4, DurableUnchanged DEF Notify
  <2>2. requests' \in [Requests -> Request]
    BY <1>1, <1>4, MovesOK DEF Notify
  <2>3. /\ daemon' \in [Daemons -> Daemon]
        /\ \A n \in Daemons : Len(daemon'[n].notices) <= QueueCapacity
        /\ Supervised'
    BY <1>4, <2>1, NoDaemonMoves DEF Notify
  <2> QED BY <1>1, <1>4, <2>1, <2>2, <2>3 DEF Notify, Ind, TypeOK, DurableOK
<1>5. ASSUME NEW f \in {"overflow", "wake"},
             daemon' = [daemon EXCEPT ![m].flags = @ \cup {f}],
             UNCHANGED <<durable, budget>>, requests' \in [Requests -> Request]
      PROVE  Ind'
  <2> DEFINE e == [d EXCEPT !.flags = @ \cup {f}]
  <2>1. Becomes(m, e)
    BY <1>1, <1>5 DEF Becomes
  <2>2. DaemonOK(e) /\ SupervisedOne(e)
    BY <1>1, <1>5 DEF DaemonOK, Daemon, SupervisedOne, SupervisedIn
  <2> HIDE DEF e
  <2> QED BY <1>1, <1>5, <2>1, <2>2, LoopMoves
<1>6. CASE NotifyFlag(r)
  <2>1. requests' \in [Requests -> Request]
    BY <1>1, <1>6, MovesOK DEF NotifyFlag
  <2> QED BY <1>5, <1>6, <2>1 DEF NotifyFlag
<1>7. CASE NotifyWake(r)
  <2>1. requests' \in [Requests -> Request]
    BY <1>1, <1>7, MovesOK DEF NotifyWake
  <2> QED BY <1>5, <1>7, <2>1 DEF NotifyWake
<1> QED BY <1>2, <1>3, <1>4, <1>6, <1>7

\* The supervisor's own steps between two deliveries.
LEMMA SelectSteps ==
  ASSUME Ind, NEW m \in Daemons,
         \/ SelectNotice(m) \/ SelectWake(m) \/ ClearOverflow(m) \/ Swap(m)
         \/ List(m) \/ NextOfPage(m) \/ EndOfPage(m) \/ GetNotice(m) \/ Resume(m)
         \/ OperationFails(m)
  PROVE  Ind'
<1> DEFINE d == daemon[m]
<1>1. DaemonOK(d) /\ SupervisedOne(d) /\ requests \in [Requests -> Request] /\ budget \in Nat
  BY IndParts DEF DaemonOK, Supervised
<1>2. ASSUME NEW e, DaemonOK(e), SupervisedOne(e), Becomes(m, e),
             UNCHANGED <<durable, requests>>, budget' \in Nat
      PROVE  Ind'
  BY <1>1, <1>2, LoopMoves
<1>3. \A k \in StoredKeys : k \in Keys
  BY DEF StoredKeys
<1>4. CASE SelectNotice(m)
  <2> DEFINE e == [d EXCEPT !.at = "get", !.op = "notice", !.attempts = 0,
                            !.key = Head(d.notices), !.notices = Tail(@)]
  <2>1. /\ Head(d.notices) \in Keys /\ Tail(d.notices) \in Seq(Keys)
        /\ Len(Tail(d.notices)) <= QueueCapacity /\ 0 \in 0 .. MaximumRetries - 1
    BY <1>1, <1>4, WebhookAssumption DEF SelectNotice, DaemonOK, Daemon
  <2>2. DaemonOK(e) /\ SupervisedOne(e)
    BY <1>1, <2>1 DEF DaemonOK, Daemon, SupervisedOne, SupervisedIn, Working
  <2>3. Becomes(m, e)
    BY <1>4 DEF SelectNotice
  <2> HIDE DEF e
  <2> QED BY <1>1, <1>2, <1>4, <2>2, <2>3 DEF SelectNotice
<1>5. CASE SelectWake(m)
  <2> DEFINE e == [d EXCEPT !.at = "clear", !.flags = @ \ {"wake"}]
  <2>1. DaemonOK(e) /\ SupervisedOne(e)
    BY <1>1 DEF DaemonOK, Daemon, SupervisedOne, SupervisedIn, Working
  <2>2. Becomes(m, e)
    BY <1>5 DEF SelectWake
  <2> HIDE DEF e
  <2> QED BY <1>1, <1>2, <1>5, <2>1, <2>2 DEF SelectWake
<1>6. DaemonOK([d EXCEPT !.flags = @ \ {"overflow"}])
  BY <1>1 DEF DaemonOK, Daemon
<1>7. CASE ClearOverflow(m)
  BY <1>1, <1>2, <1>6, <1>7, RestartOK DEF ClearOverflow
<1>8. CASE Swap(m)
  BY <1>1, <1>2, <1>6, <1>8, RestartOK DEF Swap
<1>9. CASE List(m)
  <2>1. PICK last \in Keys \cup {0}, page \in SUBSET StoredKeys,
             flags \in SUBSET {"overflow", "wake", "more"} :
               Becomes(m, [d EXCEPT !.at = "next", !.page = page, !.cursor = last, !.flags = flags])
    <3>1. FirstKeys({k \in Keys : Stored(k) /\ ~Gone(k) /\ k > d.cursor}) \in SUBSET StoredKeys
      BY DEF FirstKeys, StoredKeys, Stored
    <3>2. /\ d.flags \cup {"more"} \in SUBSET {"overflow", "wake", "more"}
          /\ d.flags \ {"more"} \in SUBSET {"overflow", "wake", "more"}
      BY <1>1 DEF DaemonOK, Daemon
    <3> QED BY <1>9, <3>1, <3>2 DEF List
  <2> DEFINE e == [d EXCEPT !.at = "next", !.page = page, !.cursor = last, !.flags = flags]
  <2>2. d.at = "list"
    BY <1>9 DEF List
  <2>3. page \in SUBSET Keys
    BY <1>3
  <2>4. DaemonOK(e) /\ SupervisedOne(e)
    BY <1>1, <2>2, <2>3 DEF DaemonOK, Daemon, SupervisedOne, SupervisedIn, Working
  <2> HIDE DEF e
  <2> QED BY <1>1, <1>2, <1>9, <2>1, <2>4 DEF List, e
<1>10. CASE NextOfPage(m)
  <2>1. PICK k \in d.page : Becomes(m, IF d.total >= MaxDeliveries THEN Failed(d)
                 ELSE [d EXCEPT !.at = "resume", !.key = k, !.page = @ \ {k}, !.total = @ + 1])
    BY <1>10 DEF NextOfPage
  <2>2. d.at = "next" /\ d.op = "reconcile"
    BY <1>1, <1>10 DEF NextOfPage, SupervisedOne, SupervisedIn
  <2>3. CASE d.total >= MaxDeliveries
    BY <1>1, <1>2, <1>10, <2>1, <2>2, <2>3, FailedOK DEF NextOfPage
  <2>4. CASE ~(d.total >= MaxDeliveries)
    <3> DEFINE e == [d EXCEPT !.at = "resume", !.key = k, !.page = @ \ {k}, !.total = @ + 1]
    <3>1. d.total + 1 \in 0 .. MaxDeliveries
      BY <1>1, <2>4, WebhookAssumption DEF DaemonOK, Daemon
    <3>2. DaemonOK(e) /\ SupervisedOne(e)
      BY <1>1, <1>3, <3>1 DEF DaemonOK, Daemon, SupervisedOne, SupervisedIn, Working
    <3>3. Becomes(m, e)
      BY <2>1, <2>4
    <3> HIDE DEF e
    <3> QED BY <1>1, <1>2, <1>10, <3>2, <3>3 DEF NextOfPage
  <2> QED BY <2>3, <2>4
<1>11. CASE EndOfPage(m)
  <2>1. DaemonOK([d EXCEPT !.at = "list"]) /\ SupervisedOne([d EXCEPT !.at = "list"])
    BY <1>1, <1>11 DEF EndOfPage, DaemonOK, Daemon, SupervisedOne, SupervisedIn, Working
  <2> QED BY <1>1, <1>2, <1>11, <2>1, RestartOK DEF EndOfPage
<1>12. CASE GetNotice(m)
  <2>1. Stored(d.key) => /\ DaemonOK([d EXCEPT !.at = "resume"])
                         /\ SupervisedOne([d EXCEPT !.at = "resume"])
    BY <1>1, <1>12 DEF GetNotice, DaemonOK, Daemon, SupervisedOne, SupervisedIn, Working,
                       Stored, StoredKeys
  <2> QED BY <1>1, <1>2, <1>12, <2>1, ProcessedOK DEF GetNotice
<1>13. d.at \in Working \cup {"get", "list"} => (d.op = "notice" => d.key \in Keys)
  BY <1>1, <1>3 DEF SupervisedOne, SupervisedIn
<1>14. CASE Resume(m)
  <2>1. d.at = "resume"
    BY <1>14 DEF Resume
  <2>2. \A place \in {"advance", "inputs"} :
            DaemonOK([d EXCEPT !.at = place]) /\ SupervisedOne([d EXCEPT !.at = place])
    BY <1>1, <2>1 DEF DaemonOK, Daemon, SupervisedOne, SupervisedIn, Working
  <2>3. DaemonOK(Failed(d)) /\ SupervisedOne(Failed(d))
    BY <1>1, <1>13, <2>1, FailedOK DEF Working
  <2> QED BY <1>1, <1>2, <1>14, <2>2, <2>3, ProcessedOK DEF Resume
<1>15. CASE OperationFails(m)
  <2>1. DaemonOK(Failed(d)) /\ SupervisedOne(Failed(d))
    BY <1>1, <1>13, <1>15, FailedOK DEF OperationFails, Working
  <2> QED BY <1>1, <1>2, <1>15, <2>1 DEF OperationFails
<1> QED BY <1>4, <1>5, <1>7, <1>8, <1>9, <1>10, <1>11, <1>12, <1>14, <1>15

\* The steps of Process that write.
LEMMA ProcessSteps ==
  ASSUME Ind, NEW m \in Daemons,
         PersistInputs(m) \/ SavePlan(m) \/ OpenRun(m) \/ Advance(m)
  PROVE  Ind'
<1> DEFINE d == daemon[m]
           k == daemon[m].key
<1>1. /\ DaemonOK(d) /\ SupervisedOne(d) /\ requests \in [Requests -> Request]
      /\ budget \in Nat /\ DurableOK
  BY IndParts DEF DaemonOK, Supervised
<1>2. k \in Keys /\ inbox[k] # {} /\ d.at \in Working
  BY <1>1 DEF PersistInputs, SavePlan, OpenRun, Advance, SupervisedOne, SupervisedIn,
              Working, StoredKeys
<1>3. ASSUME NEW e, DaemonOK(e), Becomes(m, e), UNCHANGED <<requests, budget>>, DurableOK',
             StoredKeys \subseteq StoredKeys', inputs \subseteq inputs',
             PlannedKeys \subseteq PlannedKeys',
             SupervisedIn(e, StoredKeys', inputs', PlannedKeys')
      PROVE  Ind'
  <2>1. /\ daemon' \in [Daemons -> Daemon]
        /\ \A n \in Daemons : Len(daemon'[n].notices) <= QueueCapacity
        /\ Supervised'
    BY <1>3, OneDaemonMoves DEF Becomes
  <2> QED BY <1>1, <1>3, <2>1 DEF Ind, TypeOK, DurableOK
<1>4. CASE PersistInputs(m)
  <2> DEFINE e == [d EXCEPT !.at = "save"]
  <2>1. DurableOK' /\ StoredKeys' = StoredKeys /\ PlannedKeys' = PlannedKeys
        /\ inputs' = inputs \cup {k}
    BY <1>1, <1>2, <1>4 DEF PersistInputs, DurableOK, Contents, RunHasInputs, StoredKeys, PlannedKeys
  <2>2. DaemonOK(e) /\ e.key = k /\ e.page = d.page /\ e.at = "save"
    BY <1>1 DEF DaemonOK, Daemon
  <2>3. SupervisedIn(e, StoredKeys', inputs', PlannedKeys')
    BY <1>1, <1>2, <2>1, <2>2 DEF SupervisedOne, SupervisedIn, Working, StoredKeys
  <2>4. Becomes(m, e)
    BY <1>1, <1>4, IndParts DEF PersistInputs, Goes, Becomes
  <2> HIDE DEF e
  <2> QED BY <1>3, <1>4, <2>1, <2>2, <2>3, <2>4 DEF PersistInputs
<1>5. CASE SavePlan(m)
  <2>1. /\ plans[k] \in {{}, inbox[k]}
        /\ plans' = [plans EXCEPT ![k] = inbox[k]]
        /\ Becomes(m, [d EXCEPT !.at = "open"])
    <3>1. plans[k] \in {{}, inbox[k]}
      BY <1>1, <1>2 DEF DurableOK, Contents
    <3>2. plans \in [Keys -> SUBSET Bodies]
      BY <1>1 DEF DurableOK
    <3> QED BY <1>2, <1>5, <3>1, <3>2 DEF SavePlan
  <2>2. plans' \in [Keys -> SUBSET Bodies]
    BY <1>1, <1>2, <2>1 DEF DurableOK
  <2>3. \A j \in Keys : plans'[j] = IF j = k THEN inbox[k] ELSE plans[j]
    BY <1>1, <2>1 DEF DurableOK
  <2>4. UNCHANGED <<inbox, acked, expired, inputs, opened, advanced, requests, budget>>
    BY <1>5 DEF SavePlan
  <2>5. Contents'
    BY <1>1, <1>2, <2>3, <2>4 DEF DurableOK, Contents
  <2>6. DurableOK'
    BY <1>1, <2>2, <2>4, <2>5 DEF DurableOK, RunHasInputs
  <2>7. StoredKeys' = StoredKeys /\ PlannedKeys \subseteq PlannedKeys' /\ k \in PlannedKeys'
    BY <1>2, <2>3, <2>4 DEF StoredKeys, PlannedKeys
  <2> DEFINE e == [d EXCEPT !.at = "open"]
  <2>8. DaemonOK(e) /\ e.key = k /\ e.page = d.page /\ e.at = "open"
    BY <1>1 DEF DaemonOK, Daemon
  <2>9. k \in inputs
    BY <1>1, <1>5 DEF SavePlan, SupervisedOne, SupervisedIn
  <2>10. SupervisedIn(e, StoredKeys', inputs', PlannedKeys')
    BY <1>1, <1>2, <2>4, <2>7, <2>8, <2>9 DEF SupervisedOne, SupervisedIn, Working, StoredKeys
  <2> HIDE DEF e
  <2> QED BY <1>3, <2>1, <2>4, <2>6, <2>7, <2>8, <2>10 DEF e
<1>6. CASE OpenRun(m)
  <2> DEFINE e == [d EXCEPT !.at = "advance"]
  <2>1. k \in inputs /\ plans[k] # {}
    BY <1>1, <1>6 DEF OpenRun, SupervisedOne, SupervisedIn, PlannedKeys
  <2>2. DurableOK' /\ StoredKeys' = StoredKeys /\ PlannedKeys' = PlannedKeys /\ inputs' = inputs
    BY <1>1, <1>2, <1>6, <2>1 DEF OpenRun, DurableOK, Contents, RunHasInputs, StoredKeys, PlannedKeys
  <2>3. DaemonOK(e) /\ e.key = k /\ e.page = d.page /\ e.at = "advance"
    BY <1>1 DEF DaemonOK, Daemon
  <2>4. SupervisedIn(e, StoredKeys', inputs', PlannedKeys')
    BY <1>1, <1>2, <2>2, <2>3 DEF SupervisedOne, SupervisedIn, Working, StoredKeys
  <2>5. Becomes(m, e)
    BY <1>1, <1>6, IndParts DEF OpenRun, Goes, Becomes
  <2> HIDE DEF e
  <2> QED BY <1>3, <1>6, <2>2, <2>3, <2>4, <2>5 DEF OpenRun
<1>7. CASE Advance(m)
  <2>1. DurableOK' /\ StoredKeys' = StoredKeys /\ PlannedKeys' = PlannedKeys /\ inputs' = inputs
    BY <1>1, <1>2, <1>7 DEF Advance, DurableOK, Contents, RunHasInputs, StoredKeys, PlannedKeys
  <2>2. DaemonOK(Processed(d)) /\ SupervisedOne(Processed(d))
    BY <1>1, ProcessedOK
  <2>3. SupervisedIn(Processed(d), StoredKeys', inputs', PlannedKeys')
    BY <2>1, <2>2 DEF SupervisedOne
  <2> QED BY <1>3, <1>7, <2>1, <2>2, <2>3 DEF Advance
<1> QED BY <1>4, <1>5, <1>6, <1>7

\* Stops, restarts and the passage of time.
LEMMA OutsideSteps ==
  ASSUME Ind, \/ \E m \in Daemons : Stop(m) \/ Restart(m)
              \/ \E k \in Keys : Expire(k)
              \/ UNCHANGED vars
  PROVE  Ind'
<1>1. requests \in [Requests -> Request] /\ budget \in Nat
  BY IndParts
<1>2. ASSUME NEW m \in Daemons, Stop(m) \/ Restart(m) PROVE Ind'
  <2>1. Ended(m) \in [Requests -> Request]
    BY <1>1 DEF Ended, Request
  <2>2. DaemonOK(daemon[m])
    BY <1>2, IndParts DEF DaemonOK
  <2>3. requests' \in [Requests -> Request] /\ budget' \in Nat /\ UNCHANGED durable
    BY <1>1, <1>2, <2>1 DEF Stop, Restart
  <2> QED BY <1>2, <2>2, <2>3, RestartOK, LoopMoves DEF Stop, Restart
<1>3. ASSUME NEW k \in Keys, Expire(k) PROVE Ind'
  <2>1. DurableOK' /\ StoredKeys' = StoredKeys /\ PlannedKeys' = PlannedKeys /\ inputs' = inputs
    BY <1>3, IndParts DEF Expire, DurableOK, Contents, RunHasInputs, StoredKeys, PlannedKeys
  <2>2. /\ daemon' \in [Daemons -> Daemon]
        /\ \A n \in Daemons : Len(daemon'[n].notices) <= QueueCapacity
        /\ Supervised'
    BY <1>3, <2>1, NoDaemonMoves DEF Expire
  <2>3. requests' \in [Requests -> Request] /\ budget' \in Nat
    BY <1>1, <1>3 DEF Expire
  <2> QED BY <2>1, <2>2, <2>3 DEF Ind, TypeOK, DurableOK
<1>4. CASE UNCHANGED vars
  <2>1. DurableOK' /\ StoredKeys' = StoredKeys /\ PlannedKeys' = PlannedKeys /\ inputs' = inputs
    BY <1>4, DurableUnchanged DEF vars, durable
  <2>2. /\ daemon' \in [Daemons -> Daemon]
        /\ \A n \in Daemons : Len(daemon'[n].notices) <= QueueCapacity
        /\ Supervised'
    BY <1>4, <2>1, NoDaemonMoves DEF vars
  <2>3. requests' = requests /\ budget' = budget
    BY <1>4 DEF vars
  <2> QED BY <1>1, <2>1, <2>2, <2>3 DEF Ind, TypeOK, DurableOK
<1> QED BY <1>2, <1>3, <1>4

\* A new installation satisfies the invariant.
LEMMA InitInd == Init => Ind
<1> SUFFICES ASSUME Init PROVE Ind
  OBVIOUS
<1>1. DaemonOK(NewDaemon) /\ SupervisedOne(NewDaemon)
  <2>1. <<>> \in Seq(Keys) /\ Len(<<>>) <= QueueCapacity
    BY WebhookAssumption
  <2> QED BY <2>1, IdleOK DEF NewDaemon
<1>2. DurableOK
  BY DEF Init, DurableOK, Contents, RunHasInputs
<1>3. /\ daemon \in [Daemons -> Daemon] /\ Supervised
      /\ \A m \in Daemons : Len(daemon[m].notices) <= QueueCapacity
  BY <1>1 DEF Init, Supervised, DaemonOK
<1>4. requests \in [Requests -> Request]
  BY WebhookAssumption DEF Init, Request
<1> QED BY <1>2, <1>3, <1>4, WebhookAssumption, IndParts DEF Init

\* Every step keeps it.
LEMMA NextInd == Ind /\ [Next]_vars => Ind'
<1> SUFFICES ASSUME Ind, [Next]_vars PROVE Ind'
  OBVIOUS
<1>1. ASSUME NEW r \in Requests, Receive(r) \/ HandlerStep(r) \/ PutFails(r) PROVE Ind'
  BY <1>1, InboxSteps, NotifySteps DEF HandlerStep
<1>2. ASSUME NEW m \in Daemons,
             SelectNotice(m) \/ SelectWake(m) \/ LoopStep(m) \/ OperationFails(m) \/ Stop(m)
      PROVE  Ind'
  <2>1. CASE Restart(m) \/ Stop(m)
    BY <2>1, OutsideSteps
  <2>2. CASE PersistInputs(m) \/ SavePlan(m) \/ OpenRun(m) \/ Advance(m)
    BY <2>2, ProcessSteps
  <2> QED BY <1>2, <2>1, <2>2, SelectSteps DEF LoopStep
<1>3. CASE (\E k \in Keys : Expire(k)) \/ Quiet \/ UNCHANGED vars
  BY <1>3, OutsideSteps DEF Quiet
<1> QED BY <1>1, <1>2, <1>3 DEF Next

\* The inductive invariant holds in every behaviour.
LEMMA SpecInd == Spec => []Ind
BY InitInd, NextInd, PTL DEF Spec

(***************************************************************************)
(* Type correctness: in particular the notice channel, the retry counter   *)
(* and the deliveries of one reconciliation keep to their limits           *)
(* (webhook/supervisor.go).                                                *)
(***************************************************************************)
THEOREM TypeCorrect == Spec => []TypeOK
<1>1. Ind => TypeOK
  BY DEF Ind
<1> QED BY <1>1, SpecInd, PTL

(***************************************************************************)
(* A run is opened only after its prepared inputs were stored, whatever    *)
(* stops between Put, SavePlan and Append (webhook/processor.go, Process). *)
(***************************************************************************)
THEOREM RunsHaveInputs == Spec => []RunHasInputs
<1>1. Ind => RunHasInputs
  BY DEF Ind
<1> QED BY <1>1, SpecInd, PTL

----------------------------------------------------------------------------
(* The refinement. *)

admittedNow == [k \in Keys |-> IF k \in opened THEN plans[k] ELSE {}]

\* A step that changes none of the three abstract variables.
LEMMA Stutters ==
  ASSUME UNCHANGED <<inbox, acked>>, admittedNow' = admittedNow
  PROVE  UNCHANGED Promise!intake
BY DEF Promise!intake, admittedNow

\* Storing or acknowledging a body is an Accept, an Acknowledge or nothing.
LEMMA InboxRefines ==
  ASSUME Ind, NEW r \in Requests, Lookup(r) \/ Insert(r) \/ PutFails(r)
  PROVE  [Promise!Next]_Promise!intake
<1> DEFINE k == requests[r].key
           b == requests[r].body
<1>1. /\ DurableOK /\ k \in Keys /\ b \in Bodies
      /\ inbox \in [Keys -> SUBSET Bodies] /\ acked \in [Keys -> SUBSET Bodies]
  BY IndParts DEF Request, DurableOK
<1>2. admittedNow' = admittedNow
  BY DEF Lookup, Insert, PutFails, Elsewhere, admittedNow
<1>3. ASSUME AnswerStored(r) PROVE [Promise!Next]_Promise!intake
  <2>1. inbox[k] # {} /\ inbox' = inbox
    BY <1>3 DEF AnswerStored, Stored
  <2>2. CASE acked' = acked
    BY <1>2, <2>1, <2>2, Stutters
  <2>3. CASE acked' # acked
    <3>1. acked' = [acked EXCEPT ![k] = @ \cup {b}] /\ b \in inbox[k]
      BY <1>3, <2>3 DEF AnswerStored
    <3>2. acked[k] \cup {b} = inbox[k]
      BY <1>1, <3>1 DEF DurableOK, Contents
    <3>3. acked' = [acked EXCEPT ![k] = inbox[k]]
      BY <1>1, <3>1, <3>2
    <3>4. Promise!Acknowledge(k)
      BY <1>2, <2>1, <3>3 DEF Promise!Acknowledge, admittedNow
    <3> QED BY <1>1, <3>4 DEF Promise!Next
  <2> QED BY <2>2, <2>3
<1>4. ASSUME inbox[k] = {}, inbox' = [inbox EXCEPT ![k] = {b}],
             acked' \in {acked, [acked EXCEPT ![k] = @ \cup {b}]}
      PROVE  [Promise!Next]_Promise!intake
  <2>1. acked[k] = {}
    BY <1>1, <1>4 DEF DurableOK, Contents
  <2>2. acked' \in {acked, [acked EXCEPT ![k] = {b}]}
    BY <1>1, <1>4, <2>1
  <2>3. Promise!Accept(k, b)
    BY <1>2, <1>4, <2>2 DEF Promise!Accept, admittedNow
  <2> QED BY <1>1, <2>3 DEF Promise!Next
<1>5. ASSUME UNCHANGED <<inbox, acked>> PROVE [Promise!Next]_Promise!intake
  BY <1>2, <1>5, Stutters
<1>6. CASE Lookup(r)
  BY <1>3, <1>5, <1>6 DEF Lookup
<1>7. CASE Insert(r)
  BY <1>3, <1>4, <1>5, <1>7 DEF Insert, InsertNew, Insertion, Stored
<1>8. CASE PutFails(r)
  BY <1>4, <1>5, <1>8 DEF PutFails, Insertion, Stored
<1> QED BY <1>6, <1>7, <1>8

\* Opening a run is an Admit; everything else of the supervisor is hidden.
LEMMA LoopRefines ==
  ASSUME Ind, NEW m \in Daemons, SavePlan(m) \/ OpenRun(m)
  PROVE  [Promise!Next]_Promise!intake
<1> DEFINE k == daemon[m].key
<1>1. DurableOK /\ SupervisedOne(daemon[m])
  BY IndParts DEF Supervised
<1>2. k \in Keys /\ inbox[k] # {}
  BY <1>1 DEF SavePlan, OpenRun, SupervisedOne, SupervisedIn, Working, StoredKeys
<1>3. CASE SavePlan(m)
  <2>1. \A j \in opened : j \in Keys /\ plans'[j] = plans[j]
    <3>1. \A j \in opened : j \in Keys /\ plans[j] # {}
      BY <1>1 DEF DurableOK, Contents
    <3>2. plans' = IF plans[k] = {} THEN [plans EXCEPT ![k] = inbox[k]] ELSE plans
      BY <1>3 DEF SavePlan
    <3>3. plans \in [Keys -> SUBSET Bodies]
      BY <1>1 DEF DurableOK
    <3> QED BY <3>1, <3>2, <3>3
  <2>2. opened' = opened /\ UNCHANGED <<inbox, acked>>
    BY <1>3 DEF SavePlan
  <2>3. admittedNow' = admittedNow
    BY <2>1, <2>2 DEF admittedNow
  <2> QED BY <2>2, <2>3, Stutters
<1>4. CASE OpenRun(m)
  <2>1. plans[k] = inbox[k]
    BY <1>1, <1>2, <1>4 DEF OpenRun, SupervisedOne, SupervisedIn, PlannedKeys, DurableOK, Contents
  <2>2. opened' = opened \cup {k} /\ UNCHANGED <<inbox, acked, plans>>
    BY <1>4 DEF OpenRun
  <2>3. CASE k \in opened
    <3>1. admittedNow' = admittedNow
      BY <2>2, <2>3 DEF admittedNow
    <3> QED BY <2>2, <3>1, Stutters
  <2>4. CASE k \notin opened
    <3>1. admittedNow' = [admittedNow EXCEPT ![k] = inbox[k]] /\ admittedNow[k] = {}
      BY <1>2, <2>1, <2>2, <2>4 DEF admittedNow
    <3>2. PICK j \in Keys : j = k
      BY <1>2
    <3>3. Promise!Admit(j)
      BY <1>2, <2>2, <3>1, <3>2 DEF Promise!Admit, admittedNow
    <3> QED BY <3>3 DEF Promise!Next
  <2> QED BY <2>3, <2>4
<1> QED BY <1>3, <1>4

\* Every step of Webhook is a step of Intake or leaves its variables alone.
LEMMA StepRefines == Ind /\ [Next]_vars => [Promise!Next]_Promise!intake
<1> SUFFICES ASSUME Ind, [Next]_vars PROVE [Promise!Next]_Promise!intake
  OBVIOUS
<1>1. ASSUME UNCHANGED <<inbox, acked, plans, opened>>
      PROVE  [Promise!Next]_Promise!intake
  BY <1>1, Stutters DEF admittedNow
<1>2. ASSUME NEW r \in Requests, Receive(r) \/ HandlerStep(r) \/ PutFails(r)
      PROVE  [Promise!Next]_Promise!intake
  <2>1. CASE Lookup(r) \/ Insert(r) \/ PutFails(r)
    BY <2>1, InboxRefines
  <2>2. CASE Receive(r) \/ Notify(r) \/ NotifyFlag(r) \/ NotifyWake(r)
    BY <1>1, <2>2 DEF Receive, Notify, NotifyFlag, NotifyWake, durable
  <2> QED BY <1>2, <2>1, <2>2 DEF HandlerStep
<1>3. ASSUME NEW m \in Daemons,
             SelectNotice(m) \/ SelectWake(m) \/ LoopStep(m) \/ OperationFails(m) \/ Stop(m)
      PROVE  [Promise!Next]_Promise!intake
  <2>1. CASE SavePlan(m) \/ OpenRun(m)
    BY <2>1, LoopRefines
  <2>2. CASE \/ SelectNotice(m) \/ SelectWake(m) \/ ClearOverflow(m) \/ Swap(m)
             \/ List(m) \/ NextOfPage(m) \/ EndOfPage(m) \/ GetNotice(m) \/ Resume(m)
             \/ OperationFails(m) \/ Stop(m) \/ Restart(m)
    BY <1>1, <2>2 DEF SelectNotice, SelectWake, ClearOverflow, Swap, List, NextOfPage,
        EndOfPage, GetNotice, Resume, OperationFails, Stop, Restart, durable
  <2>3. CASE PersistInputs(m) \/ Advance(m)
    BY <1>1, <2>3 DEF PersistInputs, Advance
  <2> QED BY <1>3, <2>1, <2>2, <2>3 DEF LoopStep
<1>4. CASE (\E k \in Keys : Expire(k)) \/ Quiet \/ UNCHANGED vars
  BY <1>1, <1>4 DEF Expire, Quiet, vars
<1> QED BY <1>2, <1>3, <1>4 DEF Next

(***************************************************************************)
(* Ingress implements Intake: one body per deduplication key, whatever is  *)
(* redelivered and by whichever daemon, is what is acknowledged and what   *)
(* the one run of the key is opened with (webhook/inbox.go, Accept;        *)
(* postgres/webhook_store.go, Put; webhook/processor.go, Process).         *)
(***************************************************************************)
THEOREM Refinement == Spec => PromiseKept
<1>1. Init => Promise!Init
  BY DEF Init, Promise!Init
<1> QED BY <1>1, SpecInd, StepRefines, PTL DEF Spec, PromiseKept, Promise!Spec

=============================================================================
