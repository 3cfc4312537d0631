---------------------------- MODULE RunSupervisor ----------------------------
(***************************************************************************)
(* The task-notification supervisor of one daemon and repository           *)
(* (controlplane/task_notification_supervisor.go), the scheduler and       *)
(* finalizer passes it makes, the API requests that move runs on beside it *)
(* (controlplane/httpapi/server.go), and the daemon that stops when a      *)
(* supervisor gives up (cmd/trestled/main.go).                             *)
(*                                                                         *)
(* Coordinator models the journal operations of one run step by step; here *)
(* each of them is one step and a run is as far as the supervisor can tell *)
(* it apart:                                                               *)
(*   absent   no plan is stored                                            *)
(*   planned  SavePlan stored the plan, the run_opened event is missing    *)
(*   pending  active, and some task is ready but not offered               *)
(*   offered  active, every ready task is offered to workers               *)
(*   settled  active, and TerminalCompletion is decided                    *)
(*   terminal the terminal event is recorded                               *)
(* Runs are numbered in the order ListPlans returns them.                  *)
(***************************************************************************)
EXTENDS Naturals, FiniteSetsExt

CONSTANTS RunCount,        \* runs of the repository
          Rounds,          \* bound on completions that make another task ready
          MaximumRetries,  \* failed passes, or waits, before giving up
          Stops,           \* bound on process stops
          Faults,          \* bound on transient journal and wait errors
          OpenInterrupted  \* Open may end between SavePlan and its append

VARIABLES runs,      \* run -> its status in the journal
          notices,   \* runs whose offered work has a notice in the queue
          requests,  \* run -> stage of the API request in flight for it
          daemon,    \* the supervisor's control state
          pass,      \* the pass in progress
          budget     \* stops, faults and rounds still to come

vars == <<runs, notices, requests, daemon, pass, budget>>

Runs == 1 .. RunCount
Statuses == {"absent", "planned", "pending", "offered", "settled", "terminal"}
Active == {"pending", "offered", "settled"}
Stages == {"none", "open", "submitted", "completed", "scheduled"}

TypeOK ==
    /\ runs \in [Runs -> Statuses]
    /\ notices \subseteq Runs
    /\ requests \in [Runs -> Stages]
    /\ daemon \in [at : {"pass", "delay", "wait", "down"}, failures : 0 .. MaximumRetries - 1]
    /\ pass \in [phase : {"schedule", "finalize"}, todo : SUBSET Runs, ahead : SUBSET Runs]
    /\ budget \in [stops : 0 .. Stops, faults : 0 .. Faults, rounds : 0 .. Rounds]

Status(r) == runs[r]
Plans == {r \in Runs : Status(r) # "absent"}

\* A pass lists the stored plans and reads the clock once.
NewPass(plans) == [phase |-> "schedule", todo |-> plans, ahead |-> {}]
NoPass == NewPass({})

Init ==
    /\ runs = [r \in Runs |-> "absent"]
    /\ notices = {}
    /\ requests = [r \in Runs |-> "none"]
    /\ daemon = [at |-> "pass", failures |-> 0]
    /\ pass = NoPass
    /\ budget = [stops |-> Stops, faults |-> Faults, rounds |-> Rounds]

Up == daemon.at # "down"

----------------------------------------------------------------------------
(* ReconcileRun of the scheduler and of the finalizer. *)

\* Advance offers what is ready.
Advanced(r) ==
    IF Status(r) = "pending" THEN [runs EXCEPT ![r] = "offered"] ELSE runs

NotifiedWhenOffering(r) == IF Status(r) = "pending" THEN notices \cup {r} ELSE notices

\* Every offered task is notified, whoever offered it; a notice already in
\* the queue is enqueued again without effect.
Notified(r) == IF Status(r) \in {"pending", "offered"} THEN notices \cup {r} ELSE notices

ScheduleRun(r) ==
    /\ runs' = Advanced(r)
    /\ notices' = Notified(r)

Finalized(r) ==
    IF Status(r) = "settled" THEN [runs EXCEPT ![r] = "terminal"] ELSE Advanced(r)

FinalizeRun(r) ==
    /\ runs' = Finalized(r)
    /\ UNCHANGED notices

\* An event was, or may have been, recorded with a time after the pass's own.
MayBeAhead(r) ==
    IF daemon.at = "pass" /\ (r \in pass.todo \/ pass.phase = "schedule")
    THEN pass' \in {pass, [pass EXCEPT !.ahead = @ \cup {r}]}
    ELSE UNCHANGED pass

----------------------------------------------------------------------------
(* API requests.  Each stage may fail and end the request. *)

\* A daemon that gave up takes no new request and finishes those in flight.
Request(r, from, to) ==
    /\ Up \/ from # "none"
    /\ requests[r] = from
    /\ requests' = [requests EXCEPT ![r] = to]
    /\ UNCHANGED daemon

\* submitRun: Open stores the plan ...
SavePlan(r) ==
    /\ Request(r, "none", "open")
    /\ runs' = IF Status(r) = "absent" THEN [runs EXCEPT ![r] = "planned"] ELSE runs
    /\ UNCHANGED <<notices, pass, budget>>

\* ... then appends run_opened unless the stream has events ...
OpenRun(r) ==
    /\ Request(r, "open", "submitted")
    /\ IF Status(r) = "planned"
       THEN runs' = [runs EXCEPT ![r] = "pending"] /\ MayBeAhead(r)
       ELSE UNCHANGED <<runs, pass>>
    /\ UNCHANGED <<notices, budget>>

\* ... and the request schedules the run.
ScheduleSubmitted(r) ==
    /\ Request(r, "submitted", "none")
    /\ ScheduleRun(r)
    /\ IF Status(r) = "pending" THEN MayBeAhead(r) ELSE UNCHANGED pass
    /\ UNCHANGED budget

(***************************************************************************)
(* A worker completes the offered task: more work becomes ready, or the    *)
(* run settles.  The notice of the finished task is stale from then on.    *)
(***************************************************************************)
CompleteTask(r) ==
    /\ Status(r) = "offered"
    /\ Request(r, "none", "completed")
    /\ \/ /\ budget.rounds > 0
          /\ budget' = [budget EXCEPT !.rounds = @ - 1]
          /\ runs' = [runs EXCEPT ![r] = "pending"]
       \/ runs' = [runs EXCEPT ![r] = "settled"] /\ UNCHANGED budget
    /\ notices' = notices \ {r}
    /\ MayBeAhead(r)

ScheduleCompleted(r) ==
    /\ Request(r, "completed", "scheduled")
    /\ ScheduleRun(r)
    /\ IF Status(r) = "pending" THEN MayBeAhead(r) ELSE UNCHANGED pass
    /\ UNCHANGED budget

FinalizeCompleted(r) ==
    /\ Request(r, "scheduled", "none")
    /\ FinalizeRun(r)
    /\ IF Status(r) = "pending" THEN MayBeAhead(r) ELSE UNCHANGED pass
    /\ UNCHANGED budget

CancelRun(r) ==
    /\ Up
    /\ Status(r) \in Active
    /\ runs' = [runs EXCEPT ![r] = "terminal"]
    /\ UNCHANGED <<notices, requests, daemon, pass, budget>>

(***************************************************************************)
(* The request ends early: its context is done, or a step returned an      *)
(* error.  Between SavePlan and the append only where OpenInterrupted.     *)
(***************************************************************************)
MayEnd(r) == requests[r] = "open" /\ Status(r) = "planned" => OpenInterrupted

RequestFails(r) ==
    /\ requests[r] # "none"
    /\ MayEnd(r)
    /\ requests' = [requests EXCEPT ![r] = "none"]
    /\ UNCHANGED <<runs, notices, daemon, pass, budget>>

ServeRequest(r) ==
    OpenRun(r) \/ ScheduleSubmitted(r) \/ ScheduleCompleted(r) \/ FinalizeCompleted(r)

----------------------------------------------------------------------------
(* The supervisor. *)

\* reconcileWithRetry: a failed pass is retried after a delay, or is the last.
PassFails ==
    /\ daemon' = IF daemon.failures + 1 < MaximumRetries
                 THEN [at |-> "delay", failures |-> daemon.failures + 1]
                 ELSE [at |-> "down", failures |-> 0]
    /\ pass' = NoPass
    /\ UNCHANGED <<runs, notices>>

\* A run is visited in ListPlans order; an unopened run fails the pass.
Visit(r) ==
    /\ daemon.at = "pass"
    /\ pass.todo # {}
    /\ r = Min(pass.todo)
    /\ UNCHANGED <<requests, budget>>
    /\ IF Status(r) = "planned" THEN PassFails
       ELSE \/ /\ Status(r) \in Active /\ r \in pass.ahead
               /\ PassFails
            \/ /\ r \notin pass.ahead \/ Status(r) = "terminal"
               /\ IF pass.phase = "schedule" THEN ScheduleRun(r) ELSE FinalizeRun(r)
               /\ pass' = [pass EXCEPT !.todo = @ \ {r}]
               /\ UNCHANGED daemon

\* The journal fails the pass for a reason of its own.
JournalFault ==
    /\ daemon.at = "pass"
    /\ budget.faults > 0
    /\ budget' = [budget EXCEPT !.faults = @ - 1]
    /\ PassFails
    /\ UNCHANGED requests

PhaseDoneUnfinalized ==
    /\ daemon.at = "pass"
    /\ pass.todo = {}
    /\ daemon' = [at |-> "wait", failures |-> 0]
    /\ pass' = NoPass
    /\ UNCHANGED <<runs, notices, requests, budget>>

\* The scheduler's pass over the repository is followed by the finalizer's.
PhaseDone ==
    /\ daemon.at = "pass"
    /\ pass.todo = {}
    /\ IF pass.phase = "schedule"
       THEN /\ pass' = [pass EXCEPT !.phase = "finalize", !.todo = Plans]
            /\ UNCHANGED daemon
       ELSE /\ daemon' = [at |-> "wait", failures |-> 0]
            /\ pass' = NoPass
    /\ UNCHANGED <<runs, notices, requests, budget>>

\* The retry delay is over, or the wait ended by a wake-up or the interval.
StartPass ==
    /\ daemon.at \in {"delay", "wait"}
    /\ daemon' = [at |-> "pass",
                  failures |-> IF daemon.at = "wait" THEN 0 ELSE daemon.failures]
    /\ pass' = NewPass(Plans)
    /\ UNCHANGED <<runs, notices, requests, budget>>

\* The wait failed: it is repeated a bounded number of times in a row.
WaitFails ==
    /\ daemon.at = "wait"
    /\ budget.faults > 0
    /\ budget' = [budget EXCEPT !.faults = @ - 1]
    /\ daemon' = IF daemon.failures + 1 < MaximumRetries
                 THEN [daemon EXCEPT !.failures = @ + 1]
                 ELSE [at |-> "down", failures |-> 0]
    /\ UNCHANGED <<runs, notices, requests, pass>>

Supervise == (\E r \in Runs : Visit(r)) \/ PhaseDone \/ StartPass

----------------------------------------------------------------------------
(* The process.  Notices and requests are in memory; the journal is not. *)

NoRequests == [r \in Runs |-> "none"]

\* The process stops without notice.
Stop ==
    /\ Up
    /\ budget.stops > 0
    /\ \A r \in Runs : MayEnd(r)
    /\ budget' = [budget EXCEPT !.stops = @ - 1]
    /\ daemon' = [at |-> "down", failures |-> 0]
    /\ requests' = NoRequests
    /\ notices' = {}
    /\ pass' = NoPass
    /\ UNCHANGED runs

\* A new process starts once the old one has shut its server down.
Restart ==
    /\ ~Up
    /\ requests = NoRequests
    /\ notices' = {}
    /\ daemon' = [at |-> "pass", failures |-> 0]
    /\ pass' = NewPass(Plans)
    /\ UNCHANGED <<runs, requests, budget>>

Next ==
    \/ \E r \in Runs :
        \/ SavePlan(r)
        \/ CompleteTask(r)
        \/ ServeRequest(r)
        \/ RequestFails(r)
        \/ CancelRun(r)
    \/ Supervise
    \/ JournalFault
    \/ WaitFails
    \/ Stop
    \/ Restart

(***************************************************************************)
(* The supervisor and the request handlers are goroutines that keep        *)
(* running, its waits end at the reconciliation interval at the latest,    *)
(* and the service manager restarts a daemon that exited.  No worker and   *)
(* no client is obliged to do anything.                                    *)
(***************************************************************************)
Fairness ==
    /\ WF_vars(Supervise)
    /\ WF_vars(Restart)
    /\ \A r \in Runs : WF_vars(ServeRequest(r))

Spec == Init /\ [][Next]_vars /\ Fairness

----------------------------------------------------------------------------
(* Properties. *)

(***************************************************************************)
(* docs/architecture.md: "a process stop cannot leave a settled run        *)
(* permanently active."  Once its disposition is decided a run becomes     *)
(* terminal: the completing request finalizes it, or the supervisor does   *)
(* after that request or the whole process ended early.                    *)
(***************************************************************************)
SettledCloses == \A r \in Runs : (Status(r) = "settled") ~> (Status(r) = "terminal")

(***************************************************************************)
(* Ready work is announced: whoever made a task ready and wherever the     *)
(* process stopped, the task is offered and gets a notice, unless a worker *)
(* took it without one.  The finalizer offers tasks without notifying, and *)
(* a restart empties the in-memory queue.                                  *)
(***************************************************************************)
ReadyIsNotified ==
    \A r \in Runs :
        (Status(r) \in {"pending", "offered"})
            ~> (r \in notices \/ Status(r) \notin {"pending", "offered"})
==============================================================================
