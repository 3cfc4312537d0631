------------------------------- MODULE Worker --------------------------------
(***************************************************************************)
(* The worker: Runner.RunOnce and execute (worker/runner.go) with the      *)
(* handler goroutine they start, driven by the repository supervisor of a  *)
(* daemon (worker/local_supervisor.go), several of them side by side.      *)
(*                                                                         *)
(* A runner reads the run, remembers that receipt, and only then claims a  *)
(* task; the dependency outputs it hands to the handler come from the      *)
(* receipt (controlplane/task_handler.go).  While the handler runs, its    *)
(* completion, the renewal timer and the execution deadline race.  Any     *)
(* error of one run ends the supervisor and with it the process.           *)
(*                                                                         *)
(* The coordinator's calls are one step each (Coordinator has their        *)
(* inside).  Clocks are abstracted to one flag: a task is due when its     *)
(* lease has expired or the time of its retry has come.  An output is the  *)
(* attempt that produced it.  All runs have the plan of RunPlan.           *)
(***************************************************************************)
EXTENDS RunPlan, FiniteSetsExt

CONSTANTS Workers,    \* worker processes
          Registered, \* worker -> tasks whose handler its catalog has
          RunCount,   \* runs of the repository
          PageSize,   \* maximumSupervisorPlansPerPage
          Results,    \* worker -> completions its handlers may return
          Disturbances \* bound on process stops, control errors, cancelled
                       \* runs and refused renewals taken together

VARIABLES tasks,    \* run -> task -> its runtime state in the journal
          opened,   \* runs whose run_opened event is recorded
          closed,   \* runs with a terminal event
          runner,   \* worker -> its control state
          started,  \* history: run -> task -> handler executions started
          budget    \* disturbances still to come

vars == <<tasks, opened, closed, runner, started, budget>>

Runs == 1 .. RunCount

Failures == {"transient", "policy", "resource_limit", "dependency"}
Retryable(f) == f \in {"transient", "resource_limit"}

ASSUME WorkerAssumption ==
    /\ IsFiniteSet(Workers)
    /\ Registered \in [Workers -> SUBSET Tasks]
    /\ RunCount \in Nat \ {0}
    /\ PageSize \in Nat \ {0}
    /\ Results \in [Workers -> SUBSET {"success", "transient", "policy"}]
    /\ Disturbances \in Nat

\* What a dependent sees of a task: its output or the class of its failure.
Output(n) == [output |-> n, failure |-> "none"]
Unavailable(f) == [output |-> 0, failure |-> f]
Outcomes == [output : Nat, failure : Failures \cup {"none"}]

\* The dependency outputs of an execution; tasks it does not depend on have none.
Inputs == [Tasks -> Outcomes]
NoInputs == [t \in Tasks |-> Output(0)]

TaskState ==
    [status : {"pending", "available", "leased", "succeeded", "failed", "skipped"},
     attempts : Nat, failure : Failures \cup {"none"}, due : BOOLEAN, inputs : Inputs]

NewTask == [status |-> "pending", attempts |-> 0, failure |-> "none",
            due |-> FALSE, inputs |-> NoInputs]

NoTask == 0
NoView == [t \in Tasks |-> NewTask]

(***************************************************************************)
(* at: wait (poll timer), observe (next run of the page), claim (tasks of  *)
(* the receipt), leased, execute (the select loop), refused (a renewal),   *)
(* drain, down.                                                            *)
(* handler: the goroutine's state; outcome: what follows the drain.        *)
(***************************************************************************)
Runner ==
    [at : {"wait", "observe", "claim", "leased", "execute", "refused", "drain", "down"},
     cursor : Nat, page : SUBSET Runs, view : [Tasks -> TaskState],
     todo : SUBSET Tasks, task : Tasks \cup {NoTask}, attempt : Nat, inputs : Inputs,
     handler : {"none", "running", "success", "transient", "policy"},
     outcome : {"worked", "failed"}]

NewRunner(at) ==
    [at |-> at, cursor |-> 0, page |-> {}, view |-> NoView, todo |-> {},
     task |-> NoTask, attempt |-> 0, inputs |-> NoInputs, handler |-> "none",
     outcome |-> "worked"]

TypeOK ==
    /\ \A r \in Runs, t \in Tasks :
        /\ tasks[r][t] \in TaskState
        /\ tasks[r][t].attempts <= MaxAttempts[t]
    /\ closed \subseteq opened /\ opened \subseteq Runs
    /\ \A w \in Workers : runner[w] \in Runner
    /\ started \in [Runs -> [Tasks -> Nat]]
    /\ budget \in 0 .. Disturbances

\* The plans are stored; some runs are opened, and some cancelled since.
Init ==
    /\ tasks = [r \in Runs |-> NoView]
    /\ opened \in SUBSET Runs
    /\ closed \in SUBSET opened
    /\ runner = [w \in Workers |-> NewRunner("wait")]
    /\ started = [r \in Runs |-> [t \in Tasks |-> 0]]
    /\ budget \in 0 .. Disturbances

----------------------------------------------------------------------------
(* The run in the journal: Coordinator.Advance, ClaimTask, CompleteTask. *)

MayRetry(s, t) == Retryable(s[t].failure) /\ s[t].attempts < MaxAttempts[t]
Settled(s, t) ==
    s[t].status \in {"succeeded", "skipped"} \/ (s[t].status = "failed" /\ ~MayRetry(s, t))

FailedForGood(s, t) == Settled(s, t) /\ s[t].status # "succeeded"

Exhausted(s, t) ==
    s[t].status = "leased" /\ s[t].due /\ s[t].attempts = MaxAttempts[t]

\* The tasks t descends from along required tasks only.
RequiredReach[n \in 0 .. N] ==
    [t \in Tasks |->
        IF n = 0 THEN Deps[t] \cap Required
        ELSE RequiredReach[n - 1][t]
                \cup UNION {Deps[d] \cap Required : d \in RequiredReach[n - 1][t]}]

RequiredAncestors == RequiredReach[N]

(***************************************************************************)
(* Advance repeats until nothing is left to expire, skip or offer.  Final  *)
(* attempts that expired fail; below a required task that failed for good, *)
(* pending tasks are skipped one after another; then what is ready is      *)
(* offered, among it the tasks whose only missing inputs are optional.     *)
(***************************************************************************)
Advanced(s) ==
    LET expired == {t \in Tasks : Exhausted(s, t)}
        failed == expired \cup {t \in Tasks : FailedForGood(s, t)}
        skipped == {t \in Tasks : s[t].status = "pending" /\ RequiredAncestors[t] \cap failed # {}}
        settled == {t \in Tasks : s[t].status = "succeeded"} \cup ((failed \cup skipped) \ Required)
        ready == {t \in Tasks : \/ s[t].status = "pending" /\ Deps[t] \subseteq settled
                                \/ s[t].status = "failed" /\ MayRetry(s, t) /\ s[t].due}
    IN [t \in Tasks |->
          CASE t \in expired ->
                  [s[t] EXCEPT !.status = "failed", !.failure = "resource_limit", !.due = FALSE]
            [] t \in skipped -> [s[t] EXCEPT !.status = "skipped", !.failure = "dependency"]
            [] t \in ready \ skipped ->
                  [s[t] EXCEPT !.status = "available", !.failure = "none", !.due = FALSE]
            [] OTHER -> s[t]]

AdvancedRun(r) == IF r \in closed THEN tasks[r] ELSE Advanced(tasks[r])

\* The lease of attempt n of task t is the current one and has not expired.
LeaseLive(r, t, n) ==
    tasks[r][t].status = "leased" /\ tasks[r][t].attempts = n /\ ~tasks[r][t].due

CompleteTask(r, t, result, inputs) ==
    tasks' = [tasks EXCEPT ![r][t] =
        IF result = "success"
        THEN [@ EXCEPT !.status = "succeeded", !.inputs = inputs]
        ELSE [@ EXCEPT !.status = "failed", !.failure = result]]

----------------------------------------------------------------------------
(* The supervisor's pass over a page of plans. *)

Disturb == budget > 0 /\ budget' = budget - 1

Run(w) == Min(runner[w].page)

\* Any error of RunOnce ends the supervisor, its daemon and every goroutine.
GiveUp(w) == runner' = [runner EXCEPT ![w] = NewRunner("down")]

NextPage(after) ==
    {r \in Runs : r > after /\ Cardinality({q \in Runs : after < q /\ q <= r}) <= PageSize}

CursorAfter(page, after) == IF Cardinality(page) < PageSize THEN 0 ELSE Max(page)

\* The poll timer fired; the page after the cursor is listed.
ListPlans(w) ==
    /\ runner[w].at = "wait"
    /\ LET page == NextPage(runner[w].cursor) IN
       runner' = [runner EXCEPT ![w] = [NewRunner("observe") EXCEPT
                    !.page = page, !.cursor = CursorAfter(page, runner[w].cursor)]]
    /\ UNCHANGED <<tasks, opened, closed, started, budget>>

PassDone(w) ==
    /\ runner[w].at = "observe"
    /\ runner[w].page = {}
    /\ runner' = [runner EXCEPT ![w].at = "wait"]
    /\ UNCHANGED <<tasks, opened, closed, started, budget>>

CandidateOrPending(view, t) == ~Settled(view, t)
ClaimCandidate(view, t) ==
    \/ view[t].status \in {"available", "leased"}
    \/ view[t].status = "failed" /\ MayRetry(view, t)

(***************************************************************************)
(* RunOnce: GetRun advances the run and returns its receipt.  A run that   *)
(* is terminal or settled is left for the next one of the page; one whose  *)
(* plan is stored but not opened is an error (ErrRunNotOpened).            *)
(***************************************************************************)
Observe(w) ==
    /\ runner[w].at = "observe"
    /\ runner[w].page # {}
    /\ LET r == Run(w)
           view == AdvancedRun(r) IN
       IF r \notin opened THEN GiveUp(w) /\ UNCHANGED tasks
       ELSE /\ tasks' = [tasks EXCEPT ![r] = view]
            /\ runner' = [runner EXCEPT ![w] =
                 IF r \in closed \/ \A t \in Tasks : Settled(view, t)
                 THEN [@ EXCEPT !.page = runner[w].page \ {r}]
                 ELSE [@ EXCEPT !.at = "claim", !.view = view,
                          !.todo = {t \in Registered[w] : ClaimCandidate(view, t)}]]
    /\ UNCHANGED <<opened, closed, started, budget>>

\* No task of the receipt could be claimed.
NothingToClaim(w) ==
    /\ runner[w].at = "claim"
    /\ runner[w].todo = {}
    /\ runner' = [runner EXCEPT ![w].at = "observe", ![w].page = @ \ {Run(w)},
                                ![w].view = NoView]
    /\ UNCHANGED <<tasks, opened, closed, started, budget>>

SameAttempt(s, t) == IF s[t].status = "leased" THEN s[t].attempts ELSE s[t].attempts + 1
NextAttempt(s, t) == s[t].attempts + 1

(***************************************************************************)
(* ClaimTask advances the run, then leases the task if it is available or  *)
(* its lease expired.  Otherwise the claim conflicts and the runner tries  *)
(* the next task; a terminal run is an error.                              *)
(***************************************************************************)
ClaimTask(w) ==
    /\ runner[w].at = "claim"
    /\ runner[w].todo # {}
    /\ LET r == Run(w)
           t == Min(runner[w].todo)
           s == AdvancedRun(r) IN
       IF r \in closed THEN GiveUp(w) /\ UNCHANGED tasks
       ELSE IF s[t].status = "available" \/ (s[t].status = "leased" /\ s[t].due)
       THEN /\ tasks' = [tasks EXCEPT ![r] = [s EXCEPT ![t].status = "leased",
                            ![t].attempts = NextAttempt(s, t), ![t].due = FALSE]]
            /\ runner' = [runner EXCEPT ![w].at = "leased", ![w].task = t,
                            ![w].attempt = NextAttempt(s, t)]
       ELSE /\ tasks' = [tasks EXCEPT ![r] = s]
            /\ runner' = [runner EXCEPT ![w].todo = @ \ {t}]
    /\ UNCHANGED <<opened, closed, started, budget>>

(***************************************************************************)
(* execute: the dependency outputs of the receipt, or an error where a     *)
(* required dependency has none.  A lease that expired while the claim was *)
(* answered is an error too.                                               *)
(***************************************************************************)
DependencyOutputs(s, t) ==
    [d \in Tasks |-> IF d \notin Deps[t] THEN NoInputs[d]
                     ELSE IF s[d].status = "succeeded" THEN Output(s[d].attempts)
                     ELSE Unavailable(s[d].failure)]

Unusable(s, t) ==
    \E d \in Deps[t] : s[d].status # "succeeded" /\ (d \in Required \/ s[d].failure = "none")

StartHandler(w) ==
    /\ runner[w].at = "leased"
    /\ LET r == Run(w)
           t == runner[w].task IN
       IF tasks[r][t].due \/ Unusable(runner[w].view, t)
       THEN GiveUp(w) /\ UNCHANGED started
       ELSE /\ runner' = [runner EXCEPT ![w].at = "execute", ![w].handler = "running",
                            ![w].inputs = DependencyOutputs(runner[w].view, t),
                            ![w].view = NoView, ![w].todo = {}]
            /\ started' = [started EXCEPT ![r][t] = @ + 1]
    /\ UNCHANGED <<tasks, opened, closed, budget>>

\* The handler returns, or panics, which counts as a retryable failure.
HandlerReturns(w, result) ==
    /\ runner[w].handler = "running"
    /\ runner' = [runner EXCEPT ![w].handler = result]
    /\ UNCHANGED <<tasks, opened, closed, started, budget>>

\* execute returns: the handler is cancelled and awaited first.
Leave(w, outcome) == runner' = [runner EXCEPT ![w].at = "drain", ![w].outcome = outcome]

\* The completion is taken from the channel and recorded under the lease.
TakeCompletion(w) ==
    /\ runner[w].at = "execute"
    /\ runner[w].handler # "running"
    /\ LET r == Run(w)
           t == runner[w].task IN
       IF r \notin closed /\ LeaseLive(r, t, runner[w].attempt)
       THEN /\ CompleteTask(r, t, runner[w].handler, runner[w].inputs)
            /\ Leave(w, "worked")
       ELSE Leave(w, "failed") /\ UNCHANGED tasks
    /\ UNCHANGED <<opened, closed, started, budget>>

\* The renewal timer fired; the lease has expired or is no longer ours.
RenewalFails(w) ==
    /\ runner[w].at = "execute"
    /\ Run(w) \in closed \/ ~LeaseLive(Run(w), runner[w].task, runner[w].attempt)
    /\ Leave(w, "failed")
    /\ UNCHANGED <<tasks, opened, closed, started, budget>>

\* The journal keeps its reserve: the renewal is refused under a live lease.
RenewalRefused(w) ==
    /\ runner[w].at = "execute"
    /\ Disturb
    /\ Run(w) \notin closed /\ LeaseLive(Run(w), runner[w].task, runner[w].attempt)
    /\ runner' = [runner EXCEPT ![w].at = "refused"]
    /\ UNCHANGED <<tasks, opened, closed, started>>

(***************************************************************************)
(* The handler is cancelled and the task fails under the lease.  When the  *)
(* lease is lost by then, or the run closed, the refusal of that failure   *)
(* is answered by reading the run, and counts as work.                     *)
(***************************************************************************)
FailRefused(w) ==
    /\ runner[w].at = "refused"
    /\ LET r == Run(w)
           t == runner[w].task IN
       IF r \notin closed /\ LeaseLive(r, t, runner[w].attempt)
       THEN CompleteTask(r, t, "resource_limit", NoInputs)
       ELSE tasks' = [tasks EXCEPT ![r] = AdvancedRun(r)]
    /\ Leave(w, "worked")
    /\ UNCHANGED <<opened, closed, started, budget>>

\* The execution deadline passed; a completion in the channel is dropped.
ExecutionTimeout(w) ==
    /\ runner[w].at = "execute"
    /\ Leave(w, "failed")
    /\ UNCHANGED <<tasks, opened, closed, started, budget>>

\* The handler is gone: RunOnce returns and the run is observed again.
Drained(w) ==
    /\ runner[w].at = "drain"
    /\ runner[w].handler # "running"
    /\ IF runner[w].outcome = "failed" THEN GiveUp(w)
       ELSE runner' = [runner EXCEPT ![w] = [NewRunner("observe") EXCEPT
                        !.page = runner[w].page, !.cursor = runner[w].cursor]]
    /\ UNCHANGED <<tasks, opened, closed, started, budget>>

\* ErrWorkerDrain: the handler ignored its cancellation for two seconds.
DrainFails(w) ==
    /\ runner[w].at = "drain"
    /\ runner[w].handler = "running"
    /\ GiveUp(w)
    /\ UNCHANGED <<tasks, opened, closed, started, budget>>

\* A call of the control interface fails.
ControlFails(w) ==
    /\ runner[w].at \in {"observe", "claim", "execute", "refused"}
    /\ Disturb
    /\ IF runner[w].at \in {"execute", "refused"} THEN Leave(w, "failed") ELSE GiveUp(w)
    /\ UNCHANGED <<tasks, opened, closed, started>>

Stop(w) ==
    /\ runner[w].at # "down"
    /\ Disturb
    /\ GiveUp(w)
    /\ UNCHANGED <<tasks, opened, closed, started>>

Restart(w) ==
    /\ runner[w].at = "down"
    /\ runner' = [runner EXCEPT ![w] = NewRunner("wait")]
    /\ UNCHANGED <<tasks, opened, closed, started, budget>>

Proceed(w) ==
    \/ ListPlans(w) \/ PassDone(w) \/ Observe(w) \/ NothingToClaim(w)
    \/ ClaimTask(w) \/ StartHandler(w) \/ TakeCompletion(w)
    \/ RenewalFails(w) \/ FailRefused(w) \/ ExecutionTimeout(w)
    \/ Drained(w) \/ DrainFails(w) \/ Restart(w)

----------------------------------------------------------------------------
(* Beside the workers: time, the requests that open and cancel runs, and
   the finalizer. *)

\* Open appends run_opened, or a later request does that repeats the Open.
OpenRun(r) ==
    /\ r \notin opened
    /\ opened' = opened \cup {r}
    /\ UNCHANGED <<tasks, closed, runner, started, budget>>

\* A lease expires, or the delay of a retry is over.
TimePasses(r, t) ==
    /\ ~tasks[r][t].due
    /\ \/ tasks[r][t].status = "leased"
       \/ tasks[r][t].status = "failed" /\ MayRetry(tasks[r], t)
    /\ tasks' = [tasks EXCEPT ![r][t].due = TRUE]
    /\ UNCHANGED <<opened, closed, runner, started, budget>>

\* The finalizer closes a run whose disposition is decided.
Finalize(r) ==
    /\ r \in opened \ closed
    /\ \/ \E t \in Required : FailedForGood(tasks[r], t)
       \/ \A t \in Tasks : /\ t \in Required => tasks[r][t].status = "succeeded"
                           /\ tasks[r][t].status \in {"succeeded", "failed", "skipped"}
    /\ closed' = closed \cup {r}
    /\ UNCHANGED <<tasks, opened, runner, started, budget>>

CancelRun(r) ==
    /\ r \in opened \ closed
    /\ Disturb
    /\ closed' = closed \cup {r}
    /\ UNCHANGED <<tasks, opened, runner, started>>

WorkerStep(w) ==
    \/ Proceed(w)
    \/ \E result \in Results[w] : HandlerReturns(w, result)
    \/ RenewalRefused(w) \/ ControlFails(w) \/ Stop(w)

RunStep(r) ==
    \/ OpenRun(r) \/ Finalize(r) \/ CancelRun(r)
    \/ \E t \in Tasks : TimePasses(r, t)

Next == (\E w \in Workers : WorkerStep(w)) \/ (\E r \in Runs : RunStep(r))

(***************************************************************************)
(* A worker goroutine keeps going: its timers fire, its deadline ends a    *)
(* handler that does not return, and the service manager starts a process  *)
(* that exited.  Time passes and the finalizer runs.  Nothing is assumed   *)
(* of handlers, nor of the requests that open runs.                        *)
(***************************************************************************)
Fairness ==
    /\ \A w \in Workers : WF_vars(Proceed(w))
    /\ WF_vars(\E r \in Runs : Finalize(r))
    /\ WF_vars(\E r \in Runs, t \in Tasks : TimePasses(r, t))

Spec == Init /\ [][Next]_vars /\ Fairness

----------------------------------------------------------------------------
(* Properties. *)

(***************************************************************************)
(* The inputs a handler works on are those of the journal: although they   *)
(* were read before the claim, they equal what the dependencies ended      *)
(* with, while the handler runs and for every success ever recorded.       *)
(***************************************************************************)
InputsAreSettled ==
    /\ \A w \in Workers : runner[w].at = "execute" =>
        runner[w].inputs = DependencyOutputs(tasks[Run(w)], runner[w].task)
    /\ \A r \in Runs, t \in Tasks : tasks[r][t].status = "succeeded" =>
        tasks[r][t].inputs = DependencyOutputs(tasks[r], t)

(***************************************************************************)
(* No handler is started more often than its task has attempts, whatever   *)
(* stops, expires and is claimed again: a task with one attempt, as a      *)
(* publication must be, is never executed twice.                           *)
(***************************************************************************)
ExecutionsBounded ==
    \A r \in Runs, t \in Tasks :
        started[r][t] <= tasks[r][t].attempts /\ tasks[r][t].attempts <= MaxAttempts[t]

==============================================================================
