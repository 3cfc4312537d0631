------------------------------- MODULE Webhook -------------------------------
(***************************************************************************)
(* Webhook ingress of one repository: the GitHub HTTP handler and the      *)
(* durable inbox (adapters/webhook/github/http_handler.go, webhook/        *)
(* inbox.go, adapters/storage/postgres/webhook_store.go), the supervisor   *)
(* that turns stored deliveries into runs (webhook/supervisor.go) and its  *)
(* processor (webhook/processor.go, adapters/webhook/github/               *)
(* prepared_planner.go), in daemons that stop, give up and restart.        *)
(*                                                                         *)
(* The inbox, the artifact store and the journal are durable; the notice   *)
(* channel, the overflow flag and the wake token are lost with a process.  *)
(* A plan is a function of the stored body, so it is written as the body.  *)
(* Requests refused before the inbox is touched are left out.  Time is one *)
(* step per delivery: its prepared inputs, and in PostgreSQL its body,     *)
(* expire together (both 24 hours after acceptance in trestled).           *)
(***************************************************************************)
EXTENDS Naturals, Sequences, FiniteSets

CONSTANTS Daemons, DeliveryCount, Bodies,
          Unplannable,     \* bodies the planner refuses
          Requests,        \* HTTP requests, each used once
          Traffic,         \* what the requests may be, as functions
          Slots,           \* concurrent requests of a handler
          QueueCapacity, MaximumRetries, PageSize,
          MaxDeliveries,   \* maximumWebhookEntries, maxSupervisorDeliveries
          BodiesExpire,    \* TRUE for the PostgreSQL inbox, FALSE for files
          Disturbances     \* bound on stops, faults and expiries

VARIABLES inbox,    \* key -> {} or the stored body
          acked,    \* key -> bodies answered 202 or 200
          expired,  \* keys past their retention
          inputs,   \* keys whose prepared inputs are in the artifact store
          plans,    \* key -> {} or the plan in the journal, as its body
          opened,   \* keys with a run_opened event
          advanced, \* keys whose root tasks were made available
          requests, \* request -> its handler's state
          daemon,   \* daemon -> its supervisor's state
          budget

vars == <<inbox, acked, expired, inputs, plans, opened, advanced,
          requests, daemon, budget>>
durable == <<inbox, acked, expired, inputs, plans, opened, advanced>>

Keys == 1 .. DeliveryCount

ASSUME WebhookAssumption ==
    /\ DeliveryCount \in Nat
    /\ Unplannable \subseteq Bodies
    /\ Slots \in Nat \ {0} /\ QueueCapacity \in Nat \ {0}
    /\ MaximumRetries \in Nat \ {0} /\ PageSize \in Nat \ {0}
    /\ MaxDeliveries \in Nat \ {0}
    /\ BodiesExpire \in BOOLEAN
    /\ Disturbances \in Nat
    /\ Traffic \subseteq [Requests -> [at : {"idle"}, daemon : Daemons,
                                       key : Keys, body : Bodies]]

\* at: where ServeHTTP, Put and Notify are; the rest is the request.
Request ==
    [at : {"idle", "lookup", "insert", "notify", "flag", "wake", "done"},
     daemon : Daemons, key : Keys, body : Bodies]

(***************************************************************************)
(* at: where Run, reconcile, processNotice and Process are.  op is the     *)
(* operation that retry repeats; page, cursor and total are reconcile's.   *)
(* flags: the overflow flag, the wake token, and whether the page was full.*)
(***************************************************************************)
Daemon ==
    [at : {"down", "list", "next", "get", "resume", "inputs", "save", "open",
           "advance", "swap", "select", "clear"},
     op : {"reconcile", "notice"}, key : Keys \cup {0}, page : SUBSET Keys,
     cursor : Keys \cup {0}, total : 0 .. MaxDeliveries,
     attempts : 0 .. MaximumRetries - 1,
     notices : Seq(Keys), flags : SUBSET {"overflow", "wake", "more"}]

\* A supervisor with nothing of an operation left over.
Idle(place, notices, flags) ==
    [at |-> place, op |-> "reconcile", key |-> 0, page |-> {}, cursor |-> 0,
     total |-> 0, attempts |-> 0, notices |-> notices, flags |-> flags]

\* NewSupervisor, and Run up to the startup reconciliation.
NewDaemon == Idle("list", <<>>, {})

Down == Idle("down", <<>>, {})

Up(m) == daemon[m].at # "down"

Init ==
    /\ inbox = [k \in Keys |-> {}]
    /\ acked = [k \in Keys |-> {}]
    /\ expired = {}
    /\ inputs = {}
    /\ plans = [k \in Keys |-> {}]
    /\ opened = {}
    /\ advanced = {}
    /\ requests \in Traffic
    /\ daemon = [m \in Daemons |-> NewDaemon]
    /\ budget = Disturbances

----------------------------------------------------------------------------
(* The HTTP handler, the inbox and the notice. *)

At(r, place) == requests[r].at = place
Moves(r, place) == requests' = [requests EXCEPT ![r].at = place]

InFlight(m) ==
    {r \in Requests : requests[r].daemon = m /\ requests[r].at \notin {"idle", "done"}}

\* The verified request takes a slot; without one it is answered 503.
Receive(r) ==
    /\ At(r, "idle")
    /\ Up(requests[r].daemon)
    /\ Cardinality(InFlight(requests[r].daemon)) < Slots
    /\ Moves(r, "lookup")
    /\ UNCHANGED <<durable, daemon, budget>>

Stored(k) == inbox[k] # {}
Gone(k) == BodiesExpire /\ k \in expired

\* What a stored key means for a request: 410, 409, or 200 and a notice.
AnswerStored(r) ==
    LET k == requests[r].key
        same == ~Gone(k) /\ requests[r].body \in inbox[k]
    IN  /\ Stored(k)
        /\ acked' = IF same THEN [acked EXCEPT ![k] = @ \cup {requests[r].body}] ELSE acked
        /\ Moves(r, IF same THEN "notify" ELSE "done")
        /\ UNCHANGED inbox

Elsewhere == UNCHANGED <<expired, inputs, plans, opened, advanced, daemon, budget>>

\* Put: the mapping is looked up before the body is written ...
Lookup(r) ==
    /\ At(r, "lookup")
    /\ \/ AnswerStored(r)
       \/ /\ ~Stored(requests[r].key)
          /\ Moves(r, "insert")
          /\ UNCHANGED <<inbox, acked>>
    /\ Elsewhere

AtCapacity == Cardinality({k \in Keys : Stored(k) /\ ~Gone(k)}) >= MaxDeliveries

Insertion(r) == [inbox EXCEPT ![requests[r].key] = {requests[r].body}]

\* A full inbox answers 500.
InsertNew(r) ==
    IF AtCapacity THEN Moves(r, "done") /\ UNCHANGED <<inbox, acked>>
    ELSE /\ inbox' = Insertion(r)
         /\ acked' = [acked EXCEPT ![requests[r].key] = @ \cup {requests[r].body}]
         /\ Moves(r, "notify")

InsertUnchecked(r) ==
    /\ At(r, "insert")
    /\ inbox' = Insertion(r)
    /\ acked' = [acked EXCEPT ![requests[r].key] = @ \cup {requests[r].body}]
    /\ Moves(r, "notify")
    /\ Elsewhere

\* ... and again, under the repository's lock, by the inserting transaction.
Insert(r) ==
    /\ At(r, "insert")
    /\ \/ AnswerStored(r)
       \/ ~Stored(requests[r].key) /\ InsertNew(r)
    /\ Elsewhere

\* Put fails, with or without the delivery having been stored: 500, no notice.
PutFails(r) ==
    /\ budget > 0
    /\ requests[r].at \in {"lookup", "insert"}
    /\ inbox' \in IF At(r, "insert") /\ ~Stored(requests[r].key) /\ ~AtCapacity
                  THEN {inbox, Insertion(r)} ELSE {inbox}
    /\ Moves(r, "done")
    /\ budget' = budget - 1
    /\ UNCHANGED <<acked, expired, inputs, plans, opened, advanced, daemon>>

NotifyOverfull(r) ==
    LET m == requests[r].daemon
        room == Len(daemon[m].notices) <= QueueCapacity
    IN  /\ At(r, "notify")
        /\ daemon' = IF room
                     THEN [daemon EXCEPT ![m].notices = Append(@, requests[r].key)]
                     ELSE daemon
        /\ Moves(r, IF room THEN "done" ELSE "flag")
        /\ UNCHANGED <<durable, budget>>

\* Notify's send, which does not block.
Notify(r) ==
    LET m == requests[r].daemon
        room == Len(daemon[m].notices) < QueueCapacity
    IN  /\ At(r, "notify")
        /\ daemon' = IF room
                     THEN [daemon EXCEPT ![m].notices = Append(@, requests[r].key)]
                     ELSE daemon
        /\ Moves(r, IF room THEN "done" ELSE "flag")
        /\ UNCHANGED <<durable, budget>>

NotifyFlagOnly(r) ==
    /\ At(r, "flag")
    /\ daemon' = [daemon EXCEPT ![requests[r].daemon].flags = @ \cup {"overflow"}]
    /\ Moves(r, "done")
    /\ UNCHANGED <<durable, budget>>

NotifyFlag(r) ==
    /\ At(r, "flag")
    /\ daemon' = [daemon EXCEPT ![requests[r].daemon].flags = @ \cup {"overflow"}]
    /\ Moves(r, "wake")
    /\ UNCHANGED <<durable, budget>>

NotifyWake(r) ==
    /\ At(r, "wake")
    /\ daemon' = [daemon EXCEPT ![requests[r].daemon].flags = @ \cup {"wake"}]
    /\ Moves(r, "done")
    /\ UNCHANGED <<durable, budget>>

----------------------------------------------------------------------------
(* The supervisor's loop. *)

Becomes(m, d) == daemon' = [daemon EXCEPT ![m] = d]
Goes(m, place) == daemon' = [daemon EXCEPT ![m].at = place]

Reconcile(d) == Idle("list", d.notices, d.flags \ {"more"})

\* Back to the select, with nothing left of the last operation.
Waits(d) == Idle("select", d.notices, d.flags \ {"more"})

SelectNotice(m) ==
    LET d == daemon[m]
    IN  /\ d.at = "select"
        /\ d.notices # <<>>
        /\ Becomes(m, [d EXCEPT !.at = "get", !.op = "notice", !.attempts = 0,
                                !.key = Head(d.notices), !.notices = Tail(@)])
        /\ UNCHANGED <<durable, requests, budget>>

SelectWake(m) ==
    /\ daemon[m].at = "select"
    /\ "wake" \in daemon[m].flags
    /\ Becomes(m, [daemon[m] EXCEPT !.at = "clear", !.flags = @ \ {"wake"}])
    /\ UNCHANGED <<durable, requests, budget>>

ClearOverflow(m) ==
    /\ daemon[m].at = "clear"
    /\ Becomes(m, Reconcile([daemon[m] EXCEPT !.flags = @ \ {"overflow"}]))
    /\ UNCHANGED <<durable, requests, budget>>

\* After a notice: overflow.Swap(false).
Swap(m) ==
    LET d == [daemon[m] EXCEPT !.flags = @ \ {"overflow"}]
    IN  /\ daemon[m].at = "swap"
        /\ Becomes(m, IF "overflow" \in daemon[m].flags THEN Reconcile(d) ELSE Waits(d))
        /\ UNCHANGED <<durable, requests, budget>>

\* retry: the whole operation is repeated; at the last failure Run returns
\* and the daemon shuts down.
Failed(d) ==
    IF d.attempts + 1 = MaximumRetries THEN Down
    ELSE IF d.op = "notice" THEN [d EXCEPT !.attempts = @ + 1, !.at = "get"]
    ELSE [Reconcile(d) EXCEPT !.attempts = d.attempts + 1]

\* One delivery is done: the next one of the page, or the end of the notice.
Processed(d) == [d EXCEPT !.at = IF d.op = "notice" THEN "swap" ELSE "next", !.key = 0]

\* The first keys of a page, in the order of the inbox.
FirstKeys(keys) == {k \in keys : Cardinality({j \in keys : j < k}) < PageSize}

LastOf(k, page, cursor) ==
    IF page = {} THEN k = cursor ELSE k \in page /\ \A j \in page : j <= k

\* reconcile reads a page ...
List(m) ==
    LET d == daemon[m]
        page == FirstKeys({k \in Keys : Stored(k) /\ ~Gone(k) /\ k > d.cursor})
    IN  /\ d.at = "list"
        /\ \E last \in Keys \cup {0} :
              /\ LastOf(last, page, d.cursor)
              /\ Becomes(m, [d EXCEPT !.at = "next", !.page = page, !.cursor = last,
                                      !.flags = IF Cardinality(page) = PageSize
                                                THEN @ \cup {"more"} ELSE @ \ {"more"}])
        /\ UNCHANGED <<durable, requests, budget>>

\* ... takes its deliveries in order ...
NextOfPage(m) ==
    LET d == daemon[m]
    IN  /\ d.at = "next"
        /\ \E k \in d.page :
              /\ \A j \in d.page : k <= j
              /\ Becomes(m, IF d.total >= MaxDeliveries THEN Failed(d)
                            ELSE [d EXCEPT !.at = "resume", !.key = k, !.page = @ \ {k},
                                           !.total = @ + 1])
        /\ UNCHANGED <<durable, requests, budget>>

\* ... and reads the next page after a full one.
EndOfPage(m) ==
    LET d == daemon[m]
    IN  /\ d.at = "next"
        /\ d.page = {}
        /\ Becomes(m, IF "more" \in d.flags THEN [d EXCEPT !.at = "list"] ELSE Waits(d))
        /\ UNCHANGED <<durable, requests, budget>>

\* processNotice: a delivery that is not there, or expired, is no error.
GetNotice(m) ==
    LET d == daemon[m]
    IN  /\ d.at = "get"
        /\ Becomes(m, IF Stored(d.key) /\ ~Gone(d.key) THEN [d EXCEPT !.at = "resume"]
                      ELSE Processed(d))
        /\ UNCHANGED <<durable, requests, budget>>

----------------------------------------------------------------------------
(* Process. *)

Planned(k) == inbox[k] \cap Unplannable = {}

\* Prepare, Resume and the checks of persistPreparedInputs: an opened run is
\* advanced, one whose inputs have expired is skipped.
Resume(m) ==
    LET d == daemon[m]
    IN  /\ d.at = "resume"
        /\ Becomes(m, IF ~Planned(d.key) THEN Failed(d)
                      ELSE IF d.key \in opened
                           THEN IF plans[d.key] = inbox[d.key] THEN [d EXCEPT !.at = "advance"]
                                ELSE Failed(d)
                      ELSE IF d.key \in expired THEN Processed(d)
                      ELSE [d EXCEPT !.at = "inputs"])
        /\ UNCHANGED <<durable, requests, budget>>

InputsSkipped(m) ==
    /\ daemon[m].at = "inputs"
    /\ Goes(m, "save")
    /\ UNCHANGED <<durable, requests, budget>>

PersistInputs(m) ==
    /\ daemon[m].at = "inputs"
    /\ inputs' = inputs \cup {daemon[m].key}
    /\ Goes(m, "save")
    /\ UNCHANGED <<inbox, acked, expired, plans, opened, advanced, requests, budget>>

\* Open: SavePlan refuses another plan of the same run ...
SavePlan(m) ==
    LET d == daemon[m]
        k == d.key
    IN  /\ d.at = "save"
        /\ plans' = IF plans[k] = {} THEN [plans EXCEPT ![k] = inbox[k]] ELSE plans
        /\ Becomes(m, IF plans[k] \in {{}, inbox[k]} THEN [d EXCEPT !.at = "open"]
                      ELSE Failed(d))
        /\ UNCHANGED <<inbox, acked, expired, inputs, opened, advanced, requests, budget>>

\* ... and the first event is appended unless another daemon did.
OpenRun(m) ==
    /\ daemon[m].at = "open"
    /\ opened' = opened \cup {daemon[m].key}
    /\ Goes(m, "advance")
    /\ UNCHANGED <<inbox, acked, expired, inputs, plans, advanced, requests, budget>>

Advance(m) ==
    /\ daemon[m].at = "advance"
    /\ advanced' = advanced \cup {daemon[m].key}
    /\ Becomes(m, Processed(daemon[m]))
    /\ UNCHANGED <<inbox, acked, expired, inputs, plans, opened, requests, budget>>

----------------------------------------------------------------------------
(* Time, faults and restarts. *)

\* Any store operation of the loop may fail, before or after its effect.
OperationFails(m) ==
    LET d == daemon[m]
    IN  /\ budget > 0
        /\ d.at \in {"list", "get", "resume", "inputs", "save", "open", "advance"}
        /\ Becomes(m, Failed(d))
        /\ budget' = budget - 1
        /\ UNCHANGED <<durable, requests>>

\* The end of process m: what its handlers had not stored is lost.
Ended(m) ==
    [r \in Requests |-> IF r \in InFlight(m) THEN [requests[r] EXCEPT !.at = "done"]
                        ELSE requests[r]]

Stop(m) ==
    /\ budget > 0
    /\ Up(m)
    /\ Becomes(m, Down)
    /\ requests' = Ended(m)
    /\ budget' = budget - 1
    /\ UNCHANGED durable

\* The service manager starts the daemon again.
Restart(m) ==
    /\ ~Up(m)
    /\ Becomes(m, NewDaemon)
    /\ requests' = Ended(m)
    /\ UNCHANGED <<durable, budget>>

Expire(k) ==
    /\ Stored(k)
    /\ k \notin expired
    /\ budget > 0
    /\ expired' = expired \cup {k}
    /\ budget' = budget - 1
    /\ UNCHANGED <<inbox, acked, inputs, plans, opened, advanced, requests, daemon>>

----------------------------------------------------------------------------

HandlerStep(r) ==
    \/ Lookup(r)
    \/ Insert(r)
    \/ Notify(r)
    \/ NotifyFlag(r)
    \/ NotifyWake(r)

LoopStep(m) ==
    \/ ClearOverflow(m)
    \/ Swap(m)
    \/ List(m)
    \/ NextOfPage(m)
    \/ EndOfPage(m)
    \/ GetNotice(m)
    \/ Resume(m)
    \/ PersistInputs(m)
    \/ SavePlan(m)
    \/ OpenRun(m)
    \/ Advance(m)
    \/ Restart(m)

\* All requests were served or refused and every daemon waits for work.
Quiet ==
    /\ \A r \in Requests : At(r, "done") \/ (At(r, "idle") /\ ~Up(requests[r].daemon))
    /\ \A m \in Daemons : daemon[m].at = "select" /\ daemon[m].notices = <<>> /\ "wake" \notin daemon[m].flags
    /\ UNCHANGED vars

Next ==
    \/ \E r \in Requests : Receive(r) \/ HandlerStep(r) \/ PutFails(r)
    \/ \E m \in Daemons : SelectNotice(m) \/ SelectWake(m) \/ LoopStep(m)
    \/ \E m \in Daemons : OperationFails(m) \/ Stop(m)
    \/ \E k \in Keys : Expire(k)
    \/ Quiet

(***************************************************************************)
(* Fairness: a request in flight and the supervisor's loop go on, and the  *)
(* service manager restarts a daemon.  Go's select chooses at random among *)
(* ready cases, so a channel that stays ready is received from in the end. *)
(***************************************************************************)
Fairness ==
    /\ \A r \in Requests : WF_vars(HandlerStep(r))
    /\ \A m \in Daemons : WF_vars(LoopStep(m)) /\ SF_vars(SelectNotice(m)) /\ SF_vars(SelectWake(m))

Spec == Init /\ [][Next]_vars
FairSpec == Spec /\ Fairness

----------------------------------------------------------------------------
(* Properties. *)

\* The variables have their types; the notice channel keeps to its capacity.
TypeOK ==
    /\ inbox \in [Keys -> SUBSET Bodies]
    /\ acked \in [Keys -> SUBSET Bodies]
    /\ expired \subseteq Keys /\ inputs \subseteq Keys
    /\ plans \in [Keys -> SUBSET Bodies]
    /\ opened \subseteq Keys /\ advanced \subseteq Keys
    /\ requests \in [Requests -> Request]
    /\ daemon \in [Daemons -> Daemon]
    /\ \A m \in Daemons : Len(daemon[m].notices) <= QueueCapacity
    /\ budget \in Nat

(***************************************************************************)
(* A run exists only with its prepared inputs in the artifact store, also  *)
(* after stops between Put, SavePlan and Append (processor.go, Process).   *)
(***************************************************************************)
RunHasInputs == opened \subseteq inputs

\* Ingress implements what it promises of each delivery (module Intake).
Promise == INSTANCE Intake WITH
               accepted <- inbox,
               acknowledged <- acked,
               admitted <- [k \in Keys |-> IF k \in opened THEN plans[k] ELSE {}]
PromiseKept == Promise!Spec

(***************************************************************************)
(* An acknowledged delivery whose content can be planned gets a run that   *)
(* is offered to the workers, unless its retention ends first: in spite of *)
(* a full notice channel, stops, faults and other deliveries               *)
(* (webhook/supervisor.go, Notify and Run).                                *)
(***************************************************************************)
AcknowledgedIsRun ==
    \A k \in Keys :
        (acked[k] # {} /\ Planned(k)) ~> (k \in advanced \/ k \in expired)

=============================================================================
