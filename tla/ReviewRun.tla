------------------------------ MODULE ReviewRun ------------------------------
(***************************************************************************)
(* What a review run promises, with no coordinator in sight: a journal     *)
(* that grows by one event at a time, each of which ReplayReviewRun        *)
(* accepts after the events before it.  run is the state the replay        *)
(* yields and head the last event.                                         *)
(*                                                                         *)
(* Everything a reader of the journal relies on follows from this much:    *)
(* the properties below hold for whoever appends, and Coordinator is shown *)
(* to append only such events, with the one exception that JournalSpec     *)
(* makes room for.                                                         *)
(***************************************************************************)
EXTENDS RunState

VARIABLES run,   \* the replayed state of the journal
          head   \* the last event of the journal, None when it is empty

replayVars == <<run, head>>

ReplayInit == run = InitialState /\ head = None

ReplayNext ==
    /\ head' \in RunEvent
    /\ Allowed(run, head')
    /\ run' = Apply(run, head')

ReplaySpec == ReplayInit /\ [][ReplayNext]_replayVars

(***************************************************************************)
(* The exception: a renewal that is in order but for its expiry, which     *)
(* repeats the one recorded.  It ends the stream for every reader.         *)
(***************************************************************************)
RepeatsExpiry(s, e) ==
    /\ s.status = "active"
    /\ e.kind = "task_lease_renewed" /\ e.task \in Tasks
    /\ e.at > 0 /\ e.at >= s.last
    /\ MatchesLeaseResult(s, e)
    /\ e.worker = s.tasks[e.task].worker
    /\ e.expires = s.tasks[e.task].expires

RepeatedRenewal ==
    /\ head' \in RunEvent
    /\ RepeatsExpiry(run, head')
    /\ run' = Unreadable(run)

(***************************************************************************)
(* A journal whose events ReplayReviewRun accepts one after the other, up  *)
(* to a repeated renewal if there is one.  The coordinator decides with    *)
(* its own guards and the journal checks only the head, so nothing but     *)
(* agreement between coordinator.go and run_state.go keeps a stream        *)
(* replayable; this says that they disagree about nothing else.            *)
(***************************************************************************)
JournalSpec == ReplayInit /\ [][ReplayNext \/ RepeatedRenewal]_replayVars

----------------------------------------------------------------------------
(***************************************************************************)
(* Work starts only on settled inputs: once a task was offered, each of    *)
(* its dependencies has succeeded or is an optional task that will never   *)
(* run again, so the dependency outputs a worker reads cannot change.      *)
(***************************************************************************)
DependenciesSettled ==
    \A t \in Tasks :
        run.tasks[t].status \in {"available", "leased", "succeeded", "failed"}
            => DependenciesSatisfied(run, t)

(***************************************************************************)
(* The finalizer's failure is stable: once TerminalCompletion derives a    *)
(* failure, no later task event changes it while the run is active, so     *)
(* concurrent finalizers can only record the same failure.                 *)
(***************************************************************************)
FailureStable ==
    [][ LET before == TerminalCompletion(run) IN
        (run.status = "active" /\ before.status = "failed" /\ run'.status = "active")
            => TerminalCompletion(run') = before ]_replayVars

(***************************************************************************)
(* The earliest required failure is a task that really ran and failed,     *)
(* never a task skipped because of it (TerminalCompletion's choice of the  *)
(* lowest revision).                                                       *)
(***************************************************************************)
FailureRan ==
    FailedRequired(run) # {} => run.tasks[EarliestFailure(run)].status = "failed"

----------------------------------------------------------------------------
(* What the documentation says of a run and the code does not guarantee. *)

(***************************************************************************)
(* docs/review-run-runtime.md: "Permanent failures propagate through       *)
(* dependent tasks without executing them."  A failed required task skips  *)
(* its optional dependent, and dependenciesSatisfied takes that skip for a *)
(* settled optional input: a task below the optional one is offered.       *)
(***************************************************************************)
FailureStopsDescendants ==
    \A t \in Tasks : run.tasks[t].status = "leased" =>
        \A a \in Ancestors(t) \cap Required : ~FailedWithoutRetry(run, a)
=============================================================================
