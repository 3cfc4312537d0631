------------------------------- MODULE RunState ------------------------------
(***************************************************************************)
(* The state of a review run as ReplayReviewRun rebuilds it from the       *)
(* journal (controlplane/run_state.go), the events of the journal          *)
(* (controlplane/run_event.go), which event a state accepts (Allowed) and  *)
(* the state that follows it (Apply).                                      *)
(*                                                                         *)
(* Times are milliseconds as naturals; 0 is the zero time, which no event  *)
(* carries.  Identities (digests) are abstracted to the values that they   *)
(* tell apart: an event is its own identity, an output is a member of      *)
(* Outputs.                                                                *)
(***************************************************************************)
EXTENDS RunPlan

CONSTANTS Outputs,      \* output identities a task may produce
          Workers,      \* worker identities
          Calls,        \* coordinator calls that may be in flight together
          None          \* the empty identity, no task, no failure

(***************************************************************************)
(* newLeaseToken draws 32 random bytes, so no two leases share a token.    *)
(* Here the token of a lease is the call that drew it and the journal      *)
(* sequence the lease event was proposed for: unique among the tokens that *)
(* ever reach the journal.                                                 *)
(***************************************************************************)
Tokens == Calls \X (Nat \ {0})

\* The closed failure classes, and those a further attempt may cure.
Failures == {"transient", "resource_limit", "policy", "invalid_input",
             "canceled", "dependency", "internal"}
Retryable(f) == f \in {"transient", "resource_limit", "internal"}

\* None is none of the values it stands in for.
ASSUME NoneAssumption ==
    /\ None \notin Outputs
    /\ None \notin Workers
    /\ None \notin Tasks
    /\ None \notin Failures
    /\ None \notin Tokens

TaskStatuses == {"pending", "available", "leased", "succeeded", "failed", "skipped"}

\* "unopened" is the state before the first event of the stream, "unreadable"
\* stands for a stream that ReplayReviewRun answers with an error.
RunStatuses == {"unopened", "active", "succeeded", "failed", "canceled", "unreadable"}
TerminalStatuses == {"succeeded", "failed", "canceled"}

TaskRuntimeState ==
    [status : TaskStatuses, attempts : Nat, token : Tokens \cup {None},
     worker : Workers \cup {None}, expires : Nat, output : Outputs \cup {None},
     failure : Failures \cup {None}, retryAt : Nat, lastRevision : Nat]

ReviewRunState ==
    [status : RunStatuses, revision : Nat, last : Nat,
     tasks : [Tasks -> TaskRuntimeState],
     output : Outputs \cup {None}, failure : Failures \cup {None}]

InitialState ==
    [status |-> "unopened", revision |-> 0, last |-> 0,
     tasks |-> [t \in Tasks |->
        [status |-> "pending", attempts |-> 0, token |-> None, worker |-> None,
         expires |-> 0, output |-> None, failure |-> None, retryAt |-> 0,
         lastRevision |-> 0]],
     output |-> None, failure |-> None]

----------------------------------------------------------------------------
(* Events. *)

EventKinds == {"run_opened", "task_available", "task_leased", "task_lease_renewed",
               "task_succeeded", "task_failed", "task_skipped",
               "run_succeeded", "run_failed", "run_canceled"}

RunEvent ==
    [kind : EventKinds, task : Tasks \cup {None}, attempt : Nat,
     token : Tokens \cup {None}, worker : Workers \cup {None}, expires : Nat,
     output : Outputs \cup {None}, failure : Failures \cup {None},
     retryAt : Nat, at : Nat]

\* NewRunEvent with every optional field empty.
PlainEvent(kind, t, at) ==
    [kind |-> kind, task |-> t, attempt |-> 0, token |-> None, worker |-> None,
     expires |-> 0, output |-> None, failure |-> None, retryAt |-> 0, at |-> at]

----------------------------------------------------------------------------
(* Derived facts about the tasks of a state s. *)

\* A failure that no further attempt can cure.
FailedWithoutRetry(s, t) ==
    /\ s.tasks[t].status = "failed"
    /\ ~Retryable(s.tasks[t].failure) \/ s.tasks[t].attempts >= MaxAttempts[t]

RetryableAt(s, t, at) ==
    /\ s.tasks[t].status = "failed"
    /\ Retryable(s.tasks[t].failure)
    /\ s.tasks[t].attempts < MaxAttempts[t]
    /\ s.tasks[t].retryAt # 0
    /\ at >= s.tasks[t].retryAt

DependenciesSatisfied(s, t) ==
    \A d \in Deps[t] :
        \/ s.tasks[d].status = "succeeded"
        \/ /\ d \notin Required
           /\ s.tasks[d].status = "skipped" \/ FailedWithoutRetry(s, d)

HasFailedDependency(s, t) ==
    \E d \in Deps[t] :
        /\ d \in Required
        /\ s.tasks[d].status = "skipped" \/ FailedWithoutRetry(s, d)

\* The result of a task may still be recorded, or its lease expired at.
LeaseExpired(s, t, at) ==
    s.tasks[t].status = "leased" /\ at >= s.tasks[t].expires

CanSucceed(s) ==
    \A t \in Tasks :
        /\ t \in Required => s.tasks[t].status = "succeeded"
        /\ s.tasks[t].status \in {"succeeded", "failed", "skipped"}

\* RetryableAt the largest representable time: some retry is still due.
CanFail(s) ==
    \E t \in Required :
        \/ s.tasks[t].status = "skipped"
        \/ /\ s.tasks[t].status = "failed"
           /\ ~RetryableAt(s, t, s.tasks[t].retryAt)

ReadyUnlessBlocked(s, at) ==
    {t \in Tasks : \/ s.tasks[t].status = "pending" /\ ~HasFailedDependency(s, t)
                   \/ RetryableAt(s, t, at)}

ReadyTasks(s, at) ==
    {t \in Tasks : \/ s.tasks[t].status = "pending" /\ DependenciesSatisfied(s, t)
                   \/ RetryableAt(s, t, at)}

SkippableTasks(s) ==
    {t \in Tasks : s.tasks[t].status = "pending" /\ HasFailedDependency(s, t)}

\* Leases whose last permitted attempt ran out without a result.
ExhaustedTasks(s, at) ==
    {t \in Tasks : LeaseExpired(s, t, at) /\ s.tasks[t].attempts = MaxAttempts[t]}

\* The first task of a set in plan order.
First(S) == CHOOSE t \in S : \A u \in S : t <= u

----------------------------------------------------------------------------
(* TerminalCompletion: the only final disposition a state admits. *)

FailedRequired(s) ==
    {t \in Required : s.tasks[t].status = "skipped" \/ FailedWithoutRetry(s, t)}

FailureFirstByKey(s) == First(FailedRequired(s))

LatestFailure(s) ==
    CHOOSE t \in FailedRequired(s) : \A u \in FailedRequired(s) :
        s.tasks[t].lastRevision >= s.tasks[u].lastRevision

EarliestFailure(s) ==
    CHOOSE t \in FailedRequired(s) : \A u \in FailedRequired(s) :
        \/ s.tasks[t].lastRevision < s.tasks[u].lastRevision
        \/ s.tasks[t].lastRevision = s.tasks[u].lastRevision /\ t <= u

Success(output) == [status |-> "succeeded", output |-> output, failure |-> None]
Failure(f) == [status |-> "failed", output |-> None, failure |-> f]
Undecided == [status |-> "undecided", output |-> None, failure |-> None]

TaskCompletion ==
    [status : {"succeeded", "failed", "undecided"},
     output : Outputs \cup {None}, failure : Failures \cup {None}]

\* The completions that NewTaskSuccess and NewTaskFailure build.
Completions == {Success(o) : o \in Outputs} \cup {Failure(f) : f \in Failures}

TerminalCompletion(s) ==
    IF CanFail(s) /\ FailedRequired(s) # {}
    THEN LET first == EarliestFailure(s) IN
         Failure(IF s.tasks[first].status = "skipped" THEN "dependency"
                 ELSE s.tasks[first].failure)
    ELSE IF CanSucceed(s) THEN Success(s.tasks[ResultTask].output)
    ELSE Undecided

----------------------------------------------------------------------------
(* Replay: which event a state accepts, and the state after it. *)

MatchesLeaseResult(s, e) ==
    /\ s.tasks[e.task].status = "leased"
    /\ e.attempt = s.tasks[e.task].attempts
    /\ e.token = s.tasks[e.task].token
    /\ e.at <= s.tasks[e.task].expires

\* The coordinator's own settlement of an expired final attempt.
ExhaustedExpiry(s, e) ==
    /\ e.task \in ExhaustedTasks(s, e.at)
    /\ e.attempt = s.tasks[e.task].attempts
    /\ e.token = s.tasks[e.task].token
    /\ e.failure = "resource_limit"
    /\ e.retryAt = 0

AvailableAllowed(s, e) == e.task \in ReadyTasks(s, e.at)

LeasedAllowed(s, e) ==
    /\ s.tasks[e.task].status = "available" \/ LeaseExpired(s, e.task, e.at)
    /\ e.attempt = s.tasks[e.task].attempts + 1
    /\ e.attempt <= MaxAttempts[e.task]
    /\ e.expires > e.at

RenewedAllowed(s, e) ==
    /\ MatchesLeaseResult(s, e)
    /\ e.worker = s.tasks[e.task].worker
    /\ e.expires > s.tasks[e.task].expires

FailedAllowed(s, e) ==
    /\ MatchesLeaseResult(s, e) \/ ExhaustedExpiry(s, e)
    /\ e.failure \in Failures
    /\ (e.retryAt # 0) <=> /\ Retryable(e.failure)
                           /\ s.tasks[e.task].attempts < MaxAttempts[e.task]
    /\ e.retryAt # 0 => e.retryAt >= e.at

SkippedAllowed(s, e) ==
    /\ s.tasks[e.task].status = "pending"
    /\ \/ e.failure = "dependency" /\ HasFailedDependency(s, e.task)
       \/ e.failure = "policy" /\ e.task \notin Required

TaskEventAllowed(s, e) ==
    /\ e.task \in Tasks
    /\ \/ e.kind = "task_available" /\ AvailableAllowed(s, e)
       \/ e.kind = "task_leased" /\ LeasedAllowed(s, e)
       \/ e.kind = "task_lease_renewed" /\ RenewedAllowed(s, e)
       \/ e.kind = "task_succeeded" /\ MatchesLeaseResult(s, e) /\ e.output \in Outputs
       \/ e.kind = "task_failed" /\ FailedAllowed(s, e)
       \/ e.kind = "task_skipped" /\ SkippedAllowed(s, e)

RunEventAllowed(s, e) ==
    /\ e.task = None
    /\ \/ e.kind = "run_succeeded" /\ CanSucceed(s) /\ e.output \in Outputs
       \/ e.kind = "run_failed" /\ CanFail(s) /\ e.failure \in Failures
       \/ e.kind = "run_canceled" /\ e.failure = "canceled"

\* One iteration of ReplayReviewRun accepts e after s.
Allowed(s, e) ==
    /\ e.at > 0
    /\ e.at >= s.last
    /\ \/ s.status = "unopened" /\ e.kind = "run_opened" /\ e.task = None
       \/ s.status = "active" /\ (TaskEventAllowed(s, e) \/ RunEventAllowed(s, e))

\* applyTaskEvent: the fields of the task that an event replaces.
ApplyTask(r, e) ==
    CASE e.kind = "task_available" ->
            [r EXCEPT !.status = "available", !.retryAt = 0, !.failure = None]
      [] e.kind = "task_leased" ->
            [r EXCEPT !.status = "leased", !.attempts = e.attempt, !.token = e.token,
                      !.worker = e.worker, !.expires = e.expires]
      [] e.kind = "task_lease_renewed" -> [r EXCEPT !.expires = e.expires]
      [] e.kind = "task_succeeded" ->
            [r EXCEPT !.status = "succeeded", !.output = e.output,
                      !.worker = None, !.expires = 0]
      [] e.kind = "task_failed" ->
            [r EXCEPT !.status = "failed", !.failure = e.failure,
                      !.retryAt = e.retryAt, !.worker = None, !.expires = 0]
      [] e.kind = "task_skipped" ->
            [r EXCEPT !.status = "skipped", !.failure = e.failure]
      [] OTHER -> r

\* apply: a terminal event settles the run.
ApplyStatus(s, e) ==
    CASE e.kind = "run_opened" -> "active"
      [] e.kind = "run_succeeded" -> "succeeded"
      [] e.kind = "run_failed" -> "failed"
      [] e.kind = "run_canceled" -> "canceled"
      [] OTHER -> s.status

\* The state after event e, of which it is the head.
Apply(s, e) ==
    [status |-> ApplyStatus(s, e),
     revision |-> s.revision + 1,
     last |-> e.at,
     tasks |-> [t \in Tasks |->
        IF t = e.task
        THEN [ApplyTask(s.tasks[t], e) EXCEPT !.lastRevision = s.revision + 1]
        ELSE s.tasks[t]],
     output |-> IF e.kind = "run_succeeded" THEN e.output ELSE s.output,
     failure |-> IF e.kind \in {"run_failed", "run_canceled"} THEN e.failure ELSE s.failure]

(***************************************************************************)
(* The replay of the stream once e is its last event.  The journal stores  *)
(* an event without judging it; one that is not allowed fails this and     *)
(* every later replay.  What the stream recorded before it is kept.        *)
(***************************************************************************)
Unreadable(s) == [s EXCEPT !.status = "unreadable", !.revision = s.revision + 1]

Replay(s, e) == IF Allowed(s, e) THEN Apply(s, e) ELSE Unreadable(s)
=============================================================================
