---------------------------- MODULE Investigation ----------------------------
(***************************************************************************)
(* A snapshot investigation of the local review: the pipeline its task     *)
(* handlers share (handlers/model/investigation_pipeline.go), the          *)
(* controller of its model turns and tool calls (investigation.go), the    *)
(* owner of its monetary account (internal/gateway/investigation_owner.go) *)
(* and the acquisition whose source it reads (investigation_acquisition.go)*)
(*                                                                         *)
(* All of them live in one process.  The artifact store, the audit ledger, *)
(* the run journal and the model provider are external: the first two take *)
(* what they are given or fail, with or without having taken it.  Callers  *)
(* are a worker's handler calls, the session's readback and its closers;   *)
(* a call's context and the run's may end at any point.                    *)
(*                                                                         *)
(* A turn stands for its request, route selection, authorization, outcome  *)
(* and reconciliation: requests differ from turn to turn.  One of the two  *)
(* source tasks is modelled, and the change, analysis and memory tasks,    *)
(* which do not use the pipeline, are not.                                 *)
(***************************************************************************)
EXTENDS Naturals, Sequences, FiniteSets, FiniteSetsExt

CONSTANTS Callers,
          MaxTurns, MaxTools,    \* of the investigation policy
          Budget,                \* its cost limit
          Reservation,           \* estimated cost of a turn
          Costs,                 \* what a turn may really cost
          Disturbances           \* bound on faults and ended contexts

VARIABLES pipe,        \* the pipeline's fields
          root,        \* the run's context: "none", "live" or "cancelled"
          active,      \* the caller whose operation the pipeline carries out
          calls,       \* caller -> where it is, and in which operation
          source,      \* the acquisition: none, held, failed or closed
          controller,  \* the controller: its status and the turns of its tools
          account,     \* the owner's account
          journal,     \* tasks recorded as succeeded, and the run's status
          ledger,      \* audit events, each a kind and a turn
          captures,    \* captured turn and tool-result artifacts
          effects,     \* model calls the provider got
          accepted,    \* a readback reported success
          budget

owned == <<source, controller, account>>
world == <<ledger, captures, effects>>
vars == <<pipe, root, active, calls, owned, journal, world, accepted, budget>>

Tasks == {"source", "context", "generation", "verification", "readiness"}
Roles == Tasks \cup {"start", "readback"}
Dependencies(task) ==
    CASE task = "source" -> {}
      [] task = "context" -> {"source"}
      [] task = "generation" -> {"source", "context"}
      [] task = "verification" -> {"source", "context", "generation"}
      [] task = "readiness" -> Tasks \ {"readiness"}

RouteEvents == <<"selected", "claimed", "completed", "reconciled">>
ToolEvents == <<"tool_claimed", "tool_completed">>
EventKinds == {"selected", "claimed", "completed", "reconciled", "tool_claimed", "tool_completed"}
Closing == {"drain", "close_controller", "close_acquisition"}
Places == {"idle", "start", "task", "acquire", "prepare", "construct", "reserve", "send", "answer",
           "settle", "capture", "decide", "read_tool", "capture_tool", "finish", "view"}
              \cup EventKinds \cup Closing

NoAccount ==
    [remaining |-> Budget, known |-> 0, turns |-> 0, frozen |-> FALSE, inFlight |-> FALSE, usageKnown |-> TRUE]

Init ==
    /\ pipe = [started |-> FALSE, failed |-> FALSE, closing |-> FALSE, closed |-> FALSE,
               intent |-> FALSE, uncertain |-> FALSE, attempted |-> {}, held |-> {}]
    /\ root = "none"
    /\ active = {}
    /\ calls = [c \in Callers |-> [at |-> "idle", role |-> "start"]]
    /\ source = "none"
    /\ controller = [status |-> "none", tools |-> {}]
    /\ account = NoAccount
    /\ journal = [done |-> {}, status |-> "active"]
    /\ ledger = <<>>
    /\ captures = {}
    /\ effects = <<>>
    /\ accepted = FALSE
    /\ budget = Disturbances

At(c, place) == calls[c].at = place
Role(c) == calls[c].role
Goes(c, place) == calls' = [calls EXCEPT ![c].at = place]
Working(c) == calls[c].at \notin {"idle"} \cup Closing
Turn == account.turns

----------------------------------------------------------------------------
(* begin and end of an operation. *)

Admits(role) ==
    /\ ~pipe.closed /\ ~pipe.closing
    /\ active = {}
    /\ IF role = "start" THEN ~pipe.started ELSE pipe.started
    /\ role = "readback" \/ (~pipe.failed /\ root # "cancelled")

\* A worker calls a handler for a task that is ready and not yet completed.
Called(role) ==
    \/ role \in Tasks /\ journal.status = "active" /\ role \notin journal.done
           /\ Dependencies(role) \subseteq journal.done
    \/ role = "start" /\ journal = [done |-> {}, status |-> "active"]
    \/ role = "readback" /\ journal.status # "active"

\* A call that is not admitted fails, and with it, for good, its task.
Begin(c, role) ==
    /\ At(c, "idle")
    /\ Called(role)
    /\ IF Admits(role)
       THEN /\ active' = {c}
            /\ calls' = [calls EXCEPT ![c] =
                   [at |-> CASE role = "start" -> "start"
                             [] role = "readback" -> "view"
                             [] OTHER -> "task",
                    role |-> role]]
            /\ UNCHANGED journal
       ELSE /\ role \in Tasks
            /\ journal' = [journal EXCEPT !.status = "failed"]
            /\ UNCHANGED <<active, calls>>
    /\ UNCHANGED <<pipe, root, owned, world, accepted, budget>>

EndedOnSuccess(c) == IF root = "cancelled" THEN active ELSE active \ {c}
Ended(c) == active \ {c}

\* The handler returns and the control plane records its completion, or does not.
Succeeds(c) ==
    /\ active' = Ended(c)
    /\ Goes(c, "idle")
    /\ journal' \in {journal} \cup
           (IF Role(c) \in Tasks /\ journal.status = "active"
            THEN {[journal EXCEPT !.done = @ \cup {Role(c)}]} ELSE {})

\* Operations whose error fails the pipeline: not those that only read.
FailsPipeline(c) ==
    \/ Role(c) \in {"context", "generation", "verification"}
    \/ Role(c) = "source" /\ At(c, "acquire")

Fails(c) ==
    /\ active' = Ended(c)
    /\ Goes(c, "idle")
    /\ journal' \in {journal} \cup
           (IF Role(c) \in Tasks /\ journal.status = "active"
            THEN {[journal EXCEPT !.status = "failed"]} ELSE {})
    /\ IF FailsPipeline(c)
       THEN root' = "cancelled"
       ELSE UNCHANGED root
    /\ source' = IF At(c, "acquire") THEN "failed" ELSE source
    /\ controller' = [controller EXCEPT !.status =
           IF @ = "live" /\ Role(c) \in {"generation", "verification"} THEN "failed" ELSE @]

Failing(c) == [pipe EXCEPT !.failed = @ \/ FailsPipeline(c)]

\* Owner and controller give up a turn that is under way.
AccountGivenUp ==
    IF account.inFlight
    THEN [account EXCEPT !.inFlight = FALSE, !.frozen = TRUE, !.usageKnown = FALSE] ELSE account

\* live and permit: checked before and after each use of the store.
Permitted == root = "live" /\ ~pipe.closing /\ ~pipe.closed /\ ~pipe.failed

----------------------------------------------------------------------------
(* StartRun, the source and the context task. *)

StartRun(c) ==
    /\ At(c, "start")
    /\ pipe' = [pipe EXCEPT !.started = TRUE]
    /\ root' = "live"
    /\ Succeeds(c)
    /\ UNCHANGED <<owned, world, accepted, budget>>

\* task: the run is active, the lease is good and the dependencies are done.
TaskChecked(c) ==
    CASE Role(c) = "source" -> IF source = "none" THEN "acquire" ELSE "refused"
      [] Role(c) = "context" -> IF pipe.intent \/ source # "held" THEN "refused" ELSE "prepare"
      [] Role(c) = "generation" -> IF "generation" \in pipe.attempted THEN "refused" ELSE "construct"
      [] Role(c) = "verification" ->
             IF "verification" \in pipe.attempted \/ "generation" \notin pipe.held THEN "refused" ELSE "reserve"
      [] Role(c) = "readiness" -> "view"

Task(c) ==
    /\ At(c, "task")
    /\ IF journal.status = "active" /\ TaskChecked(c) # "refused"
       THEN /\ Goes(c, TaskChecked(c))
            /\ pipe' = [pipe EXCEPT !.attempted = @ \cup ({Role(c)} \cap {"generation", "verification"})]
            /\ UNCHANGED <<root, active, source, controller, journal>>
       ELSE Fails(c) /\ pipe' = Failing(c)
    /\ UNCHANGED <<account, world, accepted, budget>>

Acquire(c) ==
    /\ At(c, "acquire")
    /\ Permitted
    /\ source' = "held"
    /\ Succeeds(c)
    /\ UNCHANGED <<pipe, root, controller, account, world, accepted, budget>>

Prepare(c) ==
    /\ At(c, "prepare")
    /\ Permitted
    /\ pipe' = [pipe EXCEPT !.intent = TRUE]
    /\ Succeeds(c)
    /\ UNCHANGED <<root, owned, world, accepted, budget>>

----------------------------------------------------------------------------
(* Turns: the owner's Dispatch between reserve and settle. *)

Construct(c) ==
    /\ At(c, "construct")
    /\ Permitted
    /\ controller' = [status |-> "live", tools |-> {}]
    /\ account' = NoAccount
    /\ Goes(c, "reserve")
    /\ UNCHANGED <<pipe, root, active, source, journal, world, accepted, budget>>

MayReserve ==
    /\ ~account.frozen /\ ~account.inFlight
    /\ account.turns < MaxTurns
    /\ Reservation <= account.remaining

Reserve(c) ==
    /\ At(c, "reserve")
    /\ Permitted /\ controller.status = "live"
    /\ IF MayReserve
       THEN /\ account' = [account EXCEPT !.inFlight = TRUE, !.usageKnown = FALSE, !.turns = @ + 1,
                                          !.remaining = @ - Reservation]
            /\ Goes(c, "selected")
            /\ UNCHANGED <<pipe, root, active, source, controller, journal>>
       ELSE Fails(c) /\ pipe' = Failing(c) /\ UNCHANGED account
    /\ UNCHANGED <<world, accepted, budget>>

Event(c) == <<calls[c].at, Turn>>
Logged == {ledger[i] : i \in DOMAIN ledger}

\* appendUniqueRouteAuditEvent and appendToolEvent: a claim has to be new.
Unacquired(c) == Event(c) \in Logged
AfterEvent(c) ==
    CASE At(c, "selected") -> "claimed"
      [] At(c, "claimed") -> "send"
      [] At(c, "completed") -> "reconciled"
      [] At(c, "reconciled") -> "settle"
      [] At(c, "tool_claimed") -> "read_tool"
      [] At(c, "tool_completed") -> "reserve"

Record(c) ==
    /\ calls[c].at \in EventKinds
    /\ IF Unacquired(c)
       THEN /\ Fails(c) /\ pipe' = Failing(c)
            /\ account' = AccountGivenUp
            /\ UNCHANGED ledger
       ELSE /\ ledger' = Append(ledger, Event(c))
            /\ controller' = [controller EXCEPT !.tools =
                   IF At(c, "tool_completed") THEN @ \cup {Turn} ELSE @]
            /\ Goes(c, AfterEvent(c))
            /\ UNCHANGED <<pipe, root, active, source, account, journal>>
    /\ UNCHANGED <<captures, effects, accepted, budget>>

Latest == effects[Len(effects)]

\* What the model calls so far really cost.
Spent == IF effects = <<>> THEN 0 ELSE Latest.before + Latest.cost

\* The provider gets the request, which costs what it costs; before is a
\* history of what was spent when it was sent.
Effects == [turn : {Turn}, cost : Costs, known : BOOLEAN, ok : BOOLEAN, before : {Spent}]
SendTwice(c) ==
    /\ At(c, "send")
    /\ \E e \in Effects : effects' = Append(Append(effects, e), e)
    /\ Goes(c, "answer")
    /\ UNCHANGED <<pipe, root, active, owned, journal, ledger, captures, accepted, budget>>
Send(c) ==
    /\ At(c, "send")
    /\ \E e \in Effects : effects' = Append(effects, e)
    /\ Goes(c, "answer")
    /\ UNCHANGED <<pipe, root, active, owned, journal, ledger, captures, accepted, budget>>

Answer(c) ==
    /\ At(c, "answer")
    /\ Goes(c, "completed")
    /\ UNCHANGED <<pipe, root, active, owned, journal, world, accepted, budget>>

\* ReconcileAuthorizedRouteAttemptCost of a known cost.
Before == account.remaining + Reservation
RemainingReserved(cost) ==
    IF cost <= Reservation THEN Before - cost ELSE account.remaining
Remaining(cost) == IF cost <= Before THEN Before - cost ELSE 0

\* Reasons to stop after a turn whose cost was settled.
UnsettledOnDoubt(e) == ~e.known \/ e.cost > Before
Unsettled(e) == ~e.known \/ ~e.ok \/ e.cost > Before

Settled(e) ==
    [account EXCEPT !.known = @ + e.cost, !.remaining = Remaining(e.cost), !.inFlight = FALSE,
                    !.usageKnown = TRUE, !.frozen = ~e.ok \/ e.cost > Before]

Settle(c) ==
    /\ At(c, "settle")
    /\ account' = IF Latest.known THEN Settled(Latest) ELSE AccountGivenUp
    /\ IF Unsettled(Latest)
       THEN Fails(c) /\ pipe' = Failing(c)
       ELSE Goes(c, "capture") /\ UNCHANGED <<pipe, root, active, source, controller, journal>>
    /\ UNCHANGED <<world, accepted, budget>>

\* dispatch stores the turn, tool its result, through the capturing store.
Captured(kind) == [kind |-> kind, turn |-> Turn, cost |-> Latest.cost, known |-> TRUE]
Capture(c) ==
    /\ calls[c].at \in {"capture", "capture_tool"}
    /\ Permitted
    /\ captures' = captures \cup {Captured(calls[c].at)}
    /\ Goes(c, CASE At(c, "capture_tool") -> "tool_completed"
                 [] Role(c) = "generation" -> "decide"
                 [] OTHER -> "finish")
    /\ UNCHANGED <<pipe, root, active, owned, journal, ledger, effects, accepted, budget>>

----------------------------------------------------------------------------
(* Tools, the results and the readback. *)

\* The model answers with a tool call, with candidates, or with neither.
Decide(c) ==
    /\ At(c, "decide")
    /\ \/ /\ Cardinality(controller.tools) < MaxTools
          /\ Goes(c, "tool_claimed")
          /\ UNCHANGED <<pipe, root, active, source, controller, journal>>
       \/ /\ Goes(c, "finish")
          /\ UNCHANGED <<pipe, root, active, source, controller, journal>>
       \/ Fails(c) /\ pipe' = Failing(c)
    /\ UNCHANGED <<account, world, accepted, budget>>

ReadTool(c) ==
    /\ At(c, "read_tool")
    /\ Permitted /\ source = "held"
    /\ Goes(c, "capture_tool")
    /\ UNCHANGED <<pipe, root, active, owned, journal, world, accepted, budget>>

\* The result artifacts are stored; the pipeline holds what the task returns.
Finish(c) ==
    /\ At(c, "finish")
    /\ Permitted
    /\ pipe' = [pipe EXCEPT !.held = @ \cup {Role(c)}]
    /\ Succeeds(c)
    /\ UNCHANGED <<root, owned, world, accepted, budget>>

Position(event) == CHOOSE i \in DOMAIN ledger : ledger[i] = event
InOrder(kinds, n) ==
    /\ \A k \in DOMAIN kinds : <<kinds[k], n>> \in Logged
    /\ \A k \in 1 .. Len(kinds) - 1 : Position(<<kinds[k], n>>) < Position(<<kinds[k + 1], n>>)

\* history: whether the turns and their costs are completely known.
Turns == {x \in captures : x.kind = "capture"}
Accounted ==
    /\ ~pipe.uncertain /\ \A x \in captures : x.known
    /\ {x.turn : x \in Turns} = 1 .. Turn
    /\ \A n \in 1 .. Turn : InOrder(RouteEvents, n)
    /\ \A n \in controller.tools :
           InOrder(<<"reconciled">> \o ToolEvents, n) /\ \E x \in captures : x.kind = "capture_tool" /\ x.turn = n
    /\ account.usageKnown /\ ~account.inFlight
    /\ Cardinality({i \in DOMAIN ledger : ledger[i][1] = "claimed"}) = Turn
    /\ MapThenSumSet(LAMBDA x : x.cost, Turns) = account.known

ViewSucceeds ==
    /\ ~pipe.failed /\ root = "live"
    /\ pipe.held = {"generation", "verification"}
    /\ pipe.held \subseteq journal.done
    /\ Accounted

View(c) ==
    /\ At(c, "view")
    /\ IF ViewSucceeds /\ journal.status \in (IF Role(c) = "readiness" THEN {"active"} ELSE {"succeeded"})
       THEN /\ accepted' = TRUE
            /\ Succeeds(c)
            /\ UNCHANGED <<pipe, root, source, controller>>
       ELSE /\ Fails(c) /\ pipe' = Failing(c)
            /\ UNCHANGED accepted
    /\ UNCHANGED <<account, world, budget>>

----------------------------------------------------------------------------
(* Close. *)

Close(c) ==
    /\ At(c, "idle")
    /\ ~pipe.closed
    /\ budget > 0
    /\ pipe' = [pipe EXCEPT !.closing = TRUE]
    /\ root' = IF pipe.started THEN "cancelled" ELSE root
    /\ calls' = [calls EXCEPT ![c] = [at |-> "drain", role |-> "readback"]]
    /\ budget' = budget - 1
    /\ UNCHANGED <<active, owned, journal, world, accepted>>

DrainedAtOnce == TRUE
Drained == active = {}
Drain(c) ==
    /\ At(c, "drain")
    /\ Drained
    /\ Goes(c, "close_controller")
    /\ UNCHANGED <<pipe, root, active, owned, journal, world, accepted, budget>>

\* The closer's own context ends while it waits: closing stays set.
DrainEnds(c) ==
    /\ At(c, "drain")
    /\ active # {} /\ budget > 0
    /\ Goes(c, "idle")
    /\ budget' = budget - 1
    /\ UNCHANGED <<pipe, root, active, owned, journal, world, accepted>>

CloseController(c) ==
    /\ At(c, "close_controller")
    /\ controller' = IF controller.status = "none" THEN controller
                     ELSE [status |-> "closed", tools |-> {}]
    /\ Goes(c, "close_acquisition")
    /\ UNCHANGED <<pipe, root, active, source, account, journal, world, accepted, budget>>

CloseAcquisition(c) ==
    /\ At(c, "close_acquisition")
    /\ source' = "closed"
    /\ pipe' = [pipe EXCEPT !.closed = TRUE, !.closing = FALSE, !.held = {}]
    /\ captures' = {}
    /\ Goes(c, "idle")
    /\ UNCHANGED <<root, active, controller, account, journal, ledger, effects, accepted, budget>>

----------------------------------------------------------------------------
(* Faults, ended contexts and the control plane. *)

\* A check finds a context ended, which the root's end makes sure of.
Interrupted(c) ==
    /\ Working(c)
    /\ root = "cancelled" \/ pipe.closing
    /\ Fails(c) /\ pipe' = Failing(c)
    /\ account' = AccountGivenUp
    /\ UNCHANGED <<world, accepted, budget>>

\* The call's own context ends, or the store, ledger or provider fails.
Faulted(c) ==
    /\ budget > 0
    /\ Working(c)
    /\ Fails(c)
    /\ pipe' = [Failing(c) EXCEPT !.uncertain = @ \/ calls[c].at \in {"capture", "capture_tool"}]
    /\ account' = AccountGivenUp
    /\ budget' = budget - 1
    /\ UNCHANGED <<world, accepted>>

\* The event or artifact was taken, but the answer was an error.
InDoubt(c) ==
    /\ budget > 0
    /\ \/ /\ calls[c].at \in EventKinds /\ ~Unacquired(c)
          /\ ledger' = Append(ledger, Event(c))
          /\ pipe' = Failing(c)
          /\ UNCHANGED captures
       \/ /\ calls[c].at \in {"capture", "capture_tool"} /\ Permitted
          /\ captures' = captures \cup {[Captured(calls[c].at) EXCEPT !.known = FALSE]}
          /\ pipe' = [Failing(c) EXCEPT !.uncertain = TRUE]
          /\ UNCHANGED ledger
    /\ Fails(c)
    /\ account' = AccountGivenUp
    /\ budget' = budget - 1
    /\ UNCHANGED <<effects, accepted>>

RootEnds ==
    /\ budget > 0
    /\ root = "live"
    /\ root' = "cancelled"
    /\ budget' = budget - 1
    /\ UNCHANGED <<pipe, active, calls, owned, journal, world, accepted>>

\* The finalizer closes the run, or the session cancels it.
RunCloses ==
    /\ journal.status = "active"
    /\ \/ "readiness" \in journal.done /\ journal' = [journal EXCEPT !.status = "succeeded"]
               /\ UNCHANGED budget
       \/ budget > 0 /\ journal' = [journal EXCEPT !.status = "failed"] /\ budget' = budget - 1
    /\ UNCHANGED <<pipe, root, active, calls, owned, world, accepted>>

Step(c) ==
    \/ StartRun(c) \/ Task(c) \/ Acquire(c) \/ Prepare(c) \/ Construct(c)
    \/ Reserve(c) \/ Record(c) \/ Send(c) \/ Answer(c) \/ Settle(c) \/ Capture(c)
    \/ Decide(c) \/ ReadTool(c) \/ Finish(c) \/ View(c)
    \/ Drain(c) \/ CloseController(c) \/ CloseAcquisition(c)
    \/ Interrupted(c)

Next ==
    \/ \E c \in Callers :
           \/ \E role \in Roles : Begin(c, role)
           \/ Step(c) \/ Close(c) \/ DrainEnds(c) \/ Faulted(c) \/ InDoubt(c)
    \/ RootEnds \/ RunCloses

\* A call in progress takes its next step: its goroutine runs.
Fairness == \A c \in Callers : WF_vars(Step(c))

Spec == Init /\ [][Next]_vars /\ Fairness

----------------------------------------------------------------------------
(* Properties. *)

\* The variables have their types; the account keeps to the turn limit.
TypeOK ==
    /\ pipe.attempted \subseteq {"generation", "verification"}
    /\ pipe.held \subseteq pipe.attempted
    /\ root \in {"none", "live", "cancelled"}
    /\ active \subseteq Callers
    /\ calls \in [Callers -> [at : Places, role : Roles]]
    /\ source \in {"none", "held", "failed", "closed"}
    /\ controller.status \in {"none", "live", "failed", "closed"}
    /\ account.turns \in 0 .. MaxTurns
    /\ account.remaining \in 0 .. Budget
    /\ journal.done \subseteq Tasks
    /\ Logged \subseteq EventKinds \X (1 .. MaxTurns)

(***************************************************************************)
(* docs/local-model-review.md: "Unknown model effects, failed persistence, *)
(* or uncertain usage stop the run without automatic replay."  Only the    *)
(* last model call can be one that failed, whose usage is unknown or whose *)
(* records are incomplete, over all handler calls and retried tasks.       *)
(***************************************************************************)
StopsAfterDoubt ==
    \A i \in 1 .. Len(effects) - 1 :
        /\ effects[i].known /\ effects[i].ok
        /\ effects[i].turn = i
        /\ InOrder(RouteEvents, i)

(***************************************************************************)
(* "One owned account covers all generation and verification turns": when  *)
(* a model call is made, what the calls before it really cost leaves room  *)
(* for its reservation within the policy's cost limit.                     *)
(***************************************************************************)
AdmittedWithinBudget ==
    \A i \in DOMAIN effects : effects[i].before + Reservation <= Budget

(***************************************************************************)
(* A readback that reports success has accounted for every model call that *)
(* was made, and none is made after it.                                    *)
(***************************************************************************)
SuccessIsAccounted ==
    accepted =>
        /\ account.usageKnown /\ ~account.inFlight
        /\ Len(effects) = account.turns
        /\ Spent = account.known
        /\ \A i \in DOMAIN effects : effects[i].known /\ effects[i].ok

(***************************************************************************)
(* Close releases the source, tools and captures only after the operation  *)
(* that uses them has ended, although closers time out and come in twos.   *)
(***************************************************************************)
ReleasedAfterUse ==
    \A c \in Callers :
        Working(c) => ~pipe.closed /\ source # "closed" /\ controller.status # "closed" /\ active = {c}

(***************************************************************************)
(* Close ends: it cancels the run's context, the operation notices it and  *)
(* ends, with its own error or without, and the closer goes on.            *)
(***************************************************************************)
CloseEnds == \A c \in Callers : calls[c].at \in Closing ~> At(c, "idle")
=============================================================================
