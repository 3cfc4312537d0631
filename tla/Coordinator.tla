----------------------------- MODULE Coordinator -----------------------------
(***************************************************************************)
(* The review-run coordinator (controlplane/coordinator.go), its finalizer *)
(* (run_finalizer.go) and the compare-and-append journal they share        *)
(* (run_journal.go), for one run.                                          *)
(*                                                                         *)
(* Every coordinator operation is a loop: load the journal and replay it,  *)
(* decide on one event, append the event against the head that was loaded, *)
(* and start over when another call moved the head in between.  Calls run  *)
(* concurrently (HTTP requests, supervisors, daemons on one PostgreSQL     *)
(* journal), so a load and the append that follows it are two steps here,  *)
(* and the clock reading of a call, taken when it starts, may be behind or *)
(* ahead of the clocks of other calls.                                     *)
(*                                                                         *)
(* The journal is represented by the state its replay yields and its head  *)
(* event, the variables run and head of ReviewRun.                         *)
(***************************************************************************)
EXTENDS ReviewRun

CONSTANTS Times,          \* clock readings a call may be made with, in milliseconds
          Fractions,      \* whether a reading has a part below the millisecond
          Results,        \* completions that workers and finalizers report
          MaxConflicts,   \* maxCoordinatorConflicts: loads per call
          AdvanceLoads,   \* maxReviewRunTasks + maxCoordinatorConflicts, per Advance
          JournalLimit    \* maxRunJournalStreamEvents

VARIABLES leases,      \* every lease a claim returned to a worker
          acked,       \* successes CompleteTask reported as recorded
          calls        \* the calls in flight

vars == <<run, head, leases, acked, calls>>

\* TaskLease: what a claim hands to a worker.  The expiry it shows is not
\* used again: the coordinator compares with the expiry it replays.
TaskLease == [task : Tasks, attempt : Nat, token : Tokens, worker : Workers]

Goals == {"open", "advance", "claim", "renew", "complete", "succeed", "fail",
          "cancel", "reconcile"}

ASSUME CoordinatorAssumption ==
    /\ Times \subseteq Nat \ {0}
    /\ Fractions \subseteq BOOLEAN
    /\ Results \subseteq Completions
    /\ MaxConflicts \in Nat \ {0}
    /\ AdvanceLoads \in Nat \ {0}
    /\ JournalLimit \in Nat
    /\ None \notin Goals

(***************************************************************************)
(* A call: what it is for, where it is (about to load in Advance, about to *)
(* load in its own loop, or about to append from either), its arguments,   *)
(* the loads it has made in the current loop, and the event it proposes    *)
(* with the revision of the head it loaded.  The clock reading at is in    *)
(* milliseconds, as events store it and replay compares it; fraction is    *)
(* the rest of the time.Time, which only a renewal looks at.               *)
(***************************************************************************)
Call ==
    [pc : {"idle", "advance", "advance_append", "transition", "append"},
     goal : Goals \cup {None}, at : Nat, fraction : BOOLEAN, task : Tasks \cup {None},
     worker : Workers \cup {None}, lease : TaskLease \cup {None},
     result : TaskCompletion \cup {None}, loads : Nat,
     expect : Nat, event : RunEvent \cup {None}]

Idle ==
    [pc |-> "idle", goal |-> None, at |-> 0, fraction |-> FALSE, task |-> None, worker |-> None,
     lease |-> None, result |-> None, loads |-> 0, expect |-> 0, event |-> None]

TypeOK ==
    /\ run \in ReviewRunState
    /\ head \in RunEvent \cup {None}
    /\ leases \subseteq TaskLease
    /\ acked \subseteq (Tasks \X Outputs)
    /\ calls \in [Calls -> Call]

Init ==
    /\ ReplayInit
    /\ leases = {}
    /\ acked = {}
    /\ calls = [c \in Calls |-> Idle]

----------------------------------------------------------------------------
(* Steps shared by all operations.  k is the call in hand. *)

Active == run.status = "active"

TransitionTimeAllowed(at) == at > 0 /\ at >= run.last

\* A call returns, with a result or with an error, and its slot is free.
Return(c) ==
    /\ calls' = [calls EXCEPT ![c] = Idle]
    /\ UNCHANGED <<run, head, leases, acked>>

\* The call decided on event e against the head it has just loaded.
Propose(c, k, pc, e) ==
    /\ calls' = [calls EXCEPT ![c] =
            [k EXCEPT !.pc = pc, !.event = e, !.expect = run.revision]]
    /\ UNCHANGED <<run, head, leases, acked>>

\* The call moves to another loop and counts its loads anew.
Continue(c, k, pc, goal, result) ==
    /\ calls' = [calls EXCEPT ![c] =
            [k EXCEPT !.pc = pc, !.goal = goal, !.result = result, !.loads = 0]]
    /\ UNCHANGED <<run, head, leases, acked>>

----------------------------------------------------------------------------
(* Advance: one load of its loop. *)

SettleExhausted(c, k) ==
    LET t == First(ExhaustedTasks(run, k.at)) IN
    Propose(c, k, "advance_append",
        [PlainEvent("task_failed", t, k.at) EXCEPT
            !.attempt = run.tasks[t].attempts, !.token = run.tasks[t].token,
            !.failure = "resource_limit"])

OfferReady(c, k) ==
    Propose(c, k, "advance_append",
        PlainEvent("task_available", First(ReadyTasks(run, k.at)), k.at))

SkipBlocked(c, k) ==
    Propose(c, k, "advance_append",
        [PlainEvent("task_skipped", First(SkippableTasks(run)), k.at) EXCEPT
            !.failure = "dependency"])

(***************************************************************************)
(* Advance returned the state it loaded.  ClaimTask and FailRun go on to   *)
(* their own loop; ReconcileRun derives the disposition from the returned  *)
(* state and calls SucceedRun or FailRun with it, however stale it is by   *)
(* then.                                                                   *)
(***************************************************************************)
Advanced(c, k) ==
    LET completion == TerminalCompletion(run) IN
    CASE k.goal \in {"claim", "fail"} ->
            Continue(c, k, "transition", k.goal, k.result)
      [] k.goal = "reconcile" /\ Active /\ completion.status = "succeeded" ->
            Continue(c, k, "transition", "succeed", completion)
      [] k.goal = "reconcile" /\ Active /\ completion.status = "failed" ->
            Continue(c, k, "advance", "fail", completion)
      [] OTHER -> Return(c)

Advance(c, k) ==
    /\ k.pc = "advance"
    /\ IF run.status \in {"unopened", "unreadable"} \/ ~TransitionTimeAllowed(k.at)
       THEN Return(c)
       ELSE IF ~Active THEN Advanced(c, k)
       ELSE IF ExhaustedTasks(run, k.at) # {} THEN SettleExhausted(c, k)
       ELSE IF ReadyTasks(run, k.at) # {} THEN OfferReady(c, k)
       ELSE IF SkippableTasks(run) # {} THEN SkipBlocked(c, k)
       ELSE Advanced(c, k)

----------------------------------------------------------------------------
(* The operations' own loops: one load each. *)

InTransition(k, goal) == k.pc = "transition" /\ k.goal = goal

Open(c, k) ==
    /\ InTransition(k, "open")
    /\ IF run.status # "unopened" THEN Return(c)
       ELSE Propose(c, k, "append", PlainEvent("run_opened", None, k.at))

ClaimTask(c, k) ==
    LET t == k.task
        r == run.tasks[t] IN
    /\ InTransition(k, "claim")
    /\ IF /\ TransitionTimeAllowed(k.at)
          /\ Active
          /\ r.status = "available" \/ LeaseExpired(run, t, k.at)
          /\ r.attempts + 1 <= MaxAttempts[t]
       THEN Propose(c, k, "append",
              [PlainEvent("task_leased", t, k.at) EXCEPT
                  !.attempt = r.attempts + 1, !.token = <<c, run.revision + 1>>,
                  !.worker = k.worker, !.expires = k.at + LeaseDuration[t]])
       ELSE Return(c)

RuntimeMatchesLease(r, l) ==
    /\ r.status = "leased"
    /\ r.attempts = l.attempt
    /\ r.token = l.token
    /\ r.worker = l.worker

\* One terminal event, and availability, lease and result per attempt.
Slots == {slot \in Tasks \X (1 .. 3 * MaxReviewTaskAttempts) : slot[2] <= 3 * MaxAttempts[slot[1]]}
ReservedTerminalOnly == 1
Reserved == 1 + Cardinality(Slots)

\* The largest plan reserves 961 of the 10000 events a stream may hold.
ASSUME JournalAssumption == 1 + Reserved <= JournalLimit

(***************************************************************************)
(* expiresAt.After(runtime.LeaseExpiresAt()): the new expiry at its full   *)
(* precision against the recorded one, which is whole milliseconds.  The   *)
(* event keeps the milliseconds only.                                      *)
(***************************************************************************)
ExtendsLease(k, r) ==
    LET expires == k.at + LeaseDuration[k.task] IN
    expires > r.expires \/ (expires = r.expires /\ k.fraction)

RenewTaskLease(c, k) ==
    LET t == k.task
        r == run.tasks[t] IN
    /\ InTransition(k, "renew")
    /\ IF /\ Active
          /\ TransitionTimeAllowed(k.at)
          /\ RuntimeMatchesLease(r, k.lease)
          /\ k.at <= r.expires
          /\ ExtendsLease(k, r)
          /\ run.revision + 1 + Reserved <= JournalLimit
       THEN Propose(c, k, "append",
              [PlainEvent("task_lease_renewed", t, k.at) EXCEPT
                  !.attempt = r.attempts, !.token = r.token, !.worker = r.worker,
                  !.expires = k.at + LeaseDuration[t]])
       ELSE Return(c)

CompletedStatusMatches(r, l, result) == r.status = result.status

CompletedTaskMatches(r, l, result) ==
    /\ r.attempts = l.attempt
    /\ r.token = l.token
    /\ r.status = result.status
    /\ IF r.status = "succeeded" THEN r.output = result.output
       ELSE r.failure = result.failure

RetryTimeUnbounded(t, f, at) == IF Retryable(f) THEN at + RetryDelay[t] ELSE 0

\* The retry time of a failure f of task t reported at time at; 0 for none.
RetryTime(t, f, at) ==
    IF Retryable(f) /\ run.tasks[t].attempts < MaxAttempts[t]
    THEN at + RetryDelay[t] ELSE 0

\* CompleteTask reported success: the worker believes this output recorded.
Acknowledge(k) ==
    acked' = IF k.result.status = "succeeded"
             THEN acked \cup {<<k.task, k.result.output>>} ELSE acked

CompleteTask(c, k) ==
    LET t == k.task
        r == run.tasks[t]
        kind == IF k.result.status = "succeeded" THEN "task_succeeded" ELSE "task_failed" IN
    /\ InTransition(k, "complete")
    /\ IF ~Active THEN Return(c)
       ELSE IF r.status \in {"succeeded", "failed"}
       THEN IF CompletedTaskMatches(r, k.lease, k.result)
            THEN /\ Acknowledge(k)
                 /\ calls' = [calls EXCEPT ![c] = Idle]
                 /\ UNCHANGED <<run, head, leases>>
            ELSE Return(c)
       ELSE IF /\ RuntimeMatchesLease(r, k.lease)
               /\ TransitionTimeAllowed(k.at)
               /\ k.at <= r.expires
       THEN Propose(c, k, "append",
              [PlainEvent(kind, t, k.at) EXCEPT
                  !.attempt = r.attempts, !.token = r.token,
                  !.output = k.result.output, !.failure = k.result.failure,
                  !.retryAt = RetryTime(t, k.result.failure, k.at)])
       ELSE Return(c)

SucceedRunUncompared(c, k) ==
    /\ InTransition(k, "succeed")
    /\ IF Active /\ TransitionTimeAllowed(k.at) /\ CanSucceed(run)
       THEN Propose(c, k, "append",
              [PlainEvent("run_succeeded", None, k.at) EXCEPT !.output = k.result.output])
       ELSE Return(c)

SucceedRun(c, k) ==
    /\ InTransition(k, "succeed")
    /\ IF /\ Active
          /\ TerminalCompletion(run) = k.result
          /\ TransitionTimeAllowed(k.at)
          /\ CanSucceed(run)
       THEN Propose(c, k, "append",
              [PlainEvent("run_succeeded", None, k.at) EXCEPT !.output = k.result.output])
       ELSE Return(c)

FailRunUncompared(c, k) ==
    /\ InTransition(k, "fail")
    /\ IF Active /\ TransitionTimeAllowed(k.at) /\ CanFail(run)
       THEN Propose(c, k, "append",
              [PlainEvent("run_failed", None, k.at) EXCEPT !.failure = k.result.failure])
       ELSE Return(c)

FailRun(c, k) ==
    /\ InTransition(k, "fail")
    /\ IF /\ Active
          /\ TerminalCompletion(run) = k.result
          /\ TransitionTimeAllowed(k.at)
          /\ CanFail(run)
       THEN Propose(c, k, "append",
              [PlainEvent("run_failed", None, k.at) EXCEPT !.failure = k.result.failure])
       ELSE Return(c)

CancelRun(c, k) ==
    /\ InTransition(k, "cancel")
    /\ IF Active /\ TransitionTimeAllowed(k.at)
       THEN Propose(c, k, "append",
              [PlainEvent("run_canceled", None, k.at) EXCEPT !.failure = "canceled"])
       ELSE Return(c)

Load(c, k) ==
    \/ Advance(c, k)
    \/ Open(c, k)
    \/ ClaimTask(c, k)
    \/ RenewTaskLease(c, k)
    \/ CompleteTask(c, k)
    \/ SucceedRun(c, k)
    \/ FailRun(c, k)
    \/ CancelRun(c, k)

----------------------------------------------------------------------------
(***************************************************************************)
(* Starting a call.  A call reads the clock and loads the journal; nothing *)
(* it does before that load is visible, so both are one step.  Goals that  *)
(* advance the run first enter that loop.                                  *)
(***************************************************************************)
FirstLoop(goal) ==
    IF goal \in {"advance", "claim", "fail", "reconcile"} THEN "advance" ELSE "transition"

StartAt(c, fraction, goal, t, w, l, r) ==
    /\ calls[c].pc = "idle"
    /\ \E at \in Times :
        Load(c, [Idle EXCEPT !.pc = FirstLoop(goal), !.goal = goal, !.at = at,
                             !.fraction = fraction, !.task = t, !.worker = w,
                             !.lease = l, !.result = r])

Start(c, goal, t, w, l, r) == StartAt(c, FALSE, goal, t, w, l, r)

\* Any caller may open, advance, reconcile or cancel the run.
StartRun(c) ==
    \E goal \in {"open", "advance", "reconcile", "cancel"} :
        Start(c, goal, None, None, None, None)

StartClaim(c) == \E t \in Tasks, w \in Workers : Start(c, "claim", t, w, None, None)

(***************************************************************************)
(* A worker renews or completes with a lease it was ever given, however    *)
(* old: the request may be late, repeated, or sent after its lease was     *)
(* replaced.                                                               *)
(***************************************************************************)
StartRenew(c) ==
    \E l \in leases, fraction \in Fractions :
        StartAt(c, fraction, "renew", l.task, None, l, None)

StartComplete(c) ==
    \E l \in leases, r \in Results : Start(c, "complete", l.task, None, l, r)

\* The HTTP finalize endpoint passes a caller's completion on.
StartFinalize(c) ==
    \E r \in Results :
        Start(c, IF r.status = "succeeded" THEN "succeed" ELSE "fail", None, None, None, r)

----------------------------------------------------------------------------
(* Append: the journal's compare-and-append, and what the caller does next. *)

Appending(c) == calls[c].pc \in {"advance_append", "append"}

\* The head already is this very event: same sequence, same content.
AlreadyHead(c) == head = calls[c].event /\ run.revision = calls[c].expect + 1

HeadNeverMoved(c) == FALSE
HeadMoved(c) == run.revision # calls[c].expect

\* The loop makes another load, or gives up with ErrCoordinatorContention.
NextLoad(c) ==
    LET advancing == calls[c].pc = "advance_append"
        bound == IF advancing THEN AdvanceLoads ELSE MaxConflicts IN
    calls' = [calls EXCEPT ![c] =
        IF calls[c].loads + 1 < bound
        THEN [calls[c] EXCEPT !.pc = IF advancing THEN "advance" ELSE "transition",
                              !.loads = calls[c].loads + 1,
                              !.event = None, !.expect = 0]
        ELSE Idle]

\* newTaskLease: the lease that a recorded lease event hands to its claimer.
LeaseOfLoadedState(k) ==
    [task |-> k.task, attempt |-> k.event.attempt,
     token |-> run.tasks[k.task].token, worker |-> k.worker]

LeaseOf(k) ==
    [task |-> k.task, attempt |-> k.event.attempt, token |-> k.event.token,
     worker |-> k.worker]

\* Append returned nil: Advance loads again, the other operations return.
Appended(c) ==
    IF calls[c].pc = "advance_append"
    THEN NextLoad(c) /\ UNCHANGED <<leases, acked>>
    ELSE /\ calls' = [calls EXCEPT ![c] = Idle]
         /\ leases' = IF calls[c].goal = "claim"
                      THEN leases \cup {LeaseOf(calls[c])} ELSE leases
         /\ IF calls[c].goal = "complete" THEN Acknowledge(calls[c]) ELSE UNCHANGED acked

(***************************************************************************)
(* The journal compares heads and sequence and refuses an event beyond its *)
(* limit (ErrRunJournalStreamTooLarge, which ends the call); it does not   *)
(* judge the transition.                                                   *)
(***************************************************************************)
AppendEvent(c) ==
    /\ Appending(c)
    /\ ~HeadMoved(c)
    /\ IF run.revision >= JournalLimit THEN Return(c)
       ELSE /\ run' = Replay(run, calls[c].event)
            /\ head' = calls[c].event
            /\ Appended(c)

AppendReplayed(c) ==
    /\ Appending(c)
    /\ AlreadyHead(c)
    /\ Appended(c)
    /\ UNCHANGED <<run, head>>

AppendConflict(c) ==
    /\ Appending(c)
    /\ HeadMoved(c) /\ ~AlreadyHead(c)
    /\ NextLoad(c)
    /\ UNCHANGED <<run, head, leases, acked>>

(***************************************************************************)
(* The caller or its daemon stops: the call disappears, before or after    *)
(* its append took effect.  The journal keeps what was appended.           *)
(***************************************************************************)
Crash(c) == calls[c].pc # "idle" /\ Return(c)

----------------------------------------------------------------------------
Begin(c) ==
    \/ StartRun(c)
    \/ StartClaim(c)
    \/ StartRenew(c)
    \/ StartComplete(c)
    \/ StartFinalize(c)

Reload(c) == calls[c].pc \in {"advance", "transition"} /\ Load(c, calls[c])

Append(c) ==
    \/ AppendEvent(c)
    \/ AppendReplayed(c)
    \/ AppendConflict(c)

Next == \E c \in Calls : Begin(c) \/ Reload(c) \/ Append(c) \/ Crash(c)

Spec == Init /\ [][Next]_vars

----------------------------------------------------------------------------
(* Properties. *)

(* JournalSpec, of ReviewRun, is a property of this specification. *)

(***************************************************************************)
(* Lease fencing: no two claims, however they race, hold the same attempt  *)
(* of a task, and a task is executed at most MaxAttempts times (once for   *)
(* publication).                                                           *)
(***************************************************************************)
OneLeasePerAttempt ==
    /\ \A l, m \in leases : l.task = m.task /\ l.attempt = m.attempt => l = m
    /\ \A l \in leases : l.attempt \in 1 .. MaxAttempts[l.task]

(***************************************************************************)
(* A success that CompleteTask acknowledged is the recorded output of the  *)
(* task, in every later state: a late or repeated completion of another    *)
(* attempt is never acknowledged and never replaces it.                    *)
(***************************************************************************)
AckedDurable ==
    \A a \in acked : /\ run.tasks[a[1]].status = "succeeded"
                     /\ run.tasks[a[1]].output = a[2]

(***************************************************************************)
(* A run that reports success has every required task's success recorded   *)
(* and reports the output of its result task, whichever finalizer recorded *)
(* it and with whatever completion it was asked to.                        *)
(***************************************************************************)
SuccessIsComplete ==
    run.status = "succeeded" =>
        /\ \A t \in Required : run.tasks[t].status = "succeeded"
        /\ run.output = run.tasks[ResultTask].output

(***************************************************************************)
(* A failed run names the failure that caused it: the earliest required    *)
(* failure is a task that really ran and failed, and the class recorded    *)
(* with the run is that task's, whichever finalizer recorded it and with   *)
(* whatever class it was asked to (FailRun's comparison).                  *)
(***************************************************************************)
OriginalFailure ==
    /\ FailureRan
    /\ run.status = "failed" => run.failure = run.tasks[EarliestFailure(run)].failure

(***************************************************************************)
(* Renewals never use up the journal: whatever a lease holder renews, an   *)
(* active run keeps room for every remaining attempt and for its terminal  *)
(* event, so no append fails for capacity.                                 *)
(***************************************************************************)
JournalNeverFull ==
    \A c \in Calls : Appending(c) /\ ~HeadMoved(c) => run.revision < JournalLimit

----------------------------------------------------------------------------
(* What the documentation says of renewals and the code does not guarantee. *)

=============================================================================
