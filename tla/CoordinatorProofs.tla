-------------------------- MODULE CoordinatorProofs --------------------------
(***************************************************************************)
(* Theorems about review runs.  First what replay alone guarantees, for    *)
(* every plan, every set of outputs and workers, and every journal that    *)
(* JournalSpec allows.  Then that the coordinator implements JournalSpec:  *)
(* whatever calls race, crash or read skewed clocks, every event they      *)
(* append is one that ReplayReviewRun accepts, but for a renewal that      *)
(* repeats an expiry, for every set of concurrent calls and every bound.   *)
(* Last, that renewals leave the journal room for everything the run still *)
(* has to record.                                                          *)
(***************************************************************************)
EXTENDS Coordinator, WellFoundedInduction, FiniteSetTheorems, TLAPS

----------------------------------------------------------------------------
(* Choosing the least element. *)

\* A non-empty set of naturals has a least element.
LEMMA NatMin ==
  ASSUME NEW T \in SUBSET Nat, T # {}
  PROVE  \E x \in T : \A y \in T : x <= y
<1> DEFINE R == {ss \in Nat \X Nat : ss[1] < ss[2]}
<1>1. IsWellFoundedOn(R, Nat)
  BY NatLessThanWellFounded DEF OpToRel
<1>2. \E x \in T : \A y \in T : ~ (<<y, x>> \in R)
  <2> HIDE DEF R
  <2> QED BY <1>1, WFMin
<1>3. PICK x \in T : \A y \in T : ~ (<<y, x>> \in R)
  BY <1>2
<1>4. ASSUME NEW y \in T, y < x PROVE FALSE
  <2>1. <<y, x>> \in Nat \X Nat /\ <<y, x>>[1] < <<y, x>>[2]
    BY <1>4
  <2>2. <<y, x>> \in R
    BY <2>1
  <2> QED BY <2>2, <1>3
<1> HIDE DEF R
<1> QED BY <1>4, SMT

\* First picks the lowest task key of a non-empty set of tasks.
LEMMA FirstIsLeast ==
  ASSUME NEW S \in SUBSET Tasks, S # {}
  PROVE  First(S) \in S /\ \A u \in S : First(S) <= u
<1>1. S \in SUBSET Nat
  BY PlanTypes DEF Tasks
<1>2. \E t \in S : \A u \in S : t <= u
  BY <1>1, NatMin
<1> QED BY <1>2 DEF First

\* A valid plan has a result task, and it is required.
LEMMA ResultTaskRequired == ResultTask \in Required
<1>1. Cardinality(ResultTasks) = 1
  BY PlanAssumption DEF ValidPlan, ValidSafety
<1>2. ResultTasks # {}
  BY <1>1, FS_EmptySet
<1> QED BY <1>2 DEF ResultTask, ResultTasks

\* The earliest failure is a required task that failed for good, and no other
\* one comes before it.
LEMMA EarliestFailureIsFirst ==
  ASSUME NEW s \in ReviewRunState, FailedRequired(s) # {}
  PROVE  /\ EarliestFailure(s) \in FailedRequired(s)
         /\ \A u \in FailedRequired(s) :
               \/ s.tasks[EarliestFailure(s)].lastRevision < s.tasks[u].lastRevision
               \/ /\ s.tasks[EarliestFailure(s)].lastRevision = s.tasks[u].lastRevision
                  /\ EarliestFailure(s) <= u
<1> DEFINE F == FailedRequired(s)
           rev(t) == s.tasks[t].lastRevision
           Revs == {rev(t) : t \in F}
<1>1. F \in SUBSET Tasks
  BY PlanTypes DEF FailedRequired
<1>2. \A t \in Tasks : rev(t) \in Nat /\ t \in Nat
  <2>1. \A t \in Tasks : s.tasks[t] \in TaskRuntimeState
    BY DEF ReviewRunState
  <2>2. \A t \in Tasks : t \in Nat
    BY PlanTypes DEF Tasks
  <2> QED BY <2>1, <2>2 DEF TaskRuntimeState
<1>3. Revs \in SUBSET Nat /\ Revs # {}
  BY <1>1, <1>2
<1>4. PICK m \in Revs : \A y \in Revs : m <= y
  <2> HIDE DEF Revs
  <2> QED BY <1>3, NatMin
<1> DEFINE Firsts == {t \in F : rev(t) = m}
<1>5. Firsts \in SUBSET Tasks /\ Firsts # {}
  BY <1>1, <1>4
<1>6. PICK t \in Firsts : \A u \in Firsts : t <= u
  <2>1. Firsts \in SUBSET Nat
    BY <1>2, <1>5
  <2> HIDE DEF Firsts
  <2> QED BY <1>5, <2>1, NatMin
<1>7. \A u \in F : rev(t) < rev(u) \/ (rev(t) = rev(u) /\ t <= u)
  <2> TAKE u \in F
  <2>1. rev(t) = m /\ m <= rev(u) /\ rev(u) \in Nat /\ m \in Nat
    BY <1>1, <1>2, <1>3, <1>4, <1>6
  <2>2. CASE rev(u) = m
    BY <2>1, <2>2, <1>6
  <2>3. CASE rev(u) # m
    BY <2>1, <2>3
  <2> QED BY <2>2, <2>3
<1> QED BY <1>6, <1>7 DEF EarliestFailure

----------------------------------------------------------------------------
(* Types. *)

ReplayTypeOK == run \in ReviewRunState /\ head \in RunEvent \cup {None}

\* The tasks of a state are runtime states.
LEMMA TaskType ==
  ASSUME NEW s \in ReviewRunState, NEW t \in Tasks
  PROVE  s.tasks[t] \in TaskRuntimeState
BY DEF ReviewRunState

\* Applying an event to a task yields a task state.
LEMMA ApplyTaskType ==
  ASSUME NEW r \in TaskRuntimeState, NEW e \in RunEvent
  PROVE  ApplyTask(r, e) \in TaskRuntimeState
BY DEF ApplyTask, TaskRuntimeState, RunEvent, TaskStatuses

\* Applying an event to a state yields a state.
LEMMA ApplyType ==
  ASSUME NEW s \in ReviewRunState, NEW e \in RunEvent
  PROVE  Apply(s, e) \in ReviewRunState
<1>1. ASSUME NEW t \in Tasks
      PROVE  [ApplyTask(s.tasks[t], e) EXCEPT !.lastRevision = s.revision + 1]
                 \in TaskRuntimeState
  <2>1. ApplyTask(s.tasks[t], e) \in TaskRuntimeState
    BY TaskType, ApplyTaskType
  <2>2. s.revision + 1 \in Nat
    BY DEF ReviewRunState
  <2> HIDE DEF ApplyTask
  <2> QED BY <2>1, <2>2 DEF TaskRuntimeState
<1>2. ApplyStatus(s, e) \in RunStatuses
  BY DEF ApplyStatus, RunStatuses, ReviewRunState
<1>3. Apply(s, e).tasks \in [Tasks -> TaskRuntimeState]
  BY <1>1, TaskType DEF Apply
<1>4. e.at \in Nat /\ s.revision + 1 \in Nat
  BY DEF RunEvent, ReviewRunState
<1>5. /\ e.output \in Outputs \cup {None} /\ e.failure \in Failures \cup {None}
      /\ s.output \in Outputs \cup {None} /\ s.failure \in Failures \cup {None}
  BY DEF RunEvent, ReviewRunState
<1> QED BY <1>2, <1>3, <1>4, <1>5 DEF Apply, ReviewRunState

\* The state before the first event is well formed.
LEMMA InitialType == InitialState \in ReviewRunState
BY DEF InitialState, ReviewRunState, TaskRuntimeState, TaskStatuses, RunStatuses

\* An event that replay rejects leaves what was recorded as it was.
LEMMA UnreadableState ==
  ASSUME NEW s \in ReviewRunState
  PROVE  /\ Unreadable(s) \in ReviewRunState
         /\ Unreadable(s).status = "unreadable"
         /\ Unreadable(s).revision = s.revision + 1
         /\ Unreadable(s).last = s.last /\ Unreadable(s).tasks = s.tasks
         /\ Unreadable(s).output = s.output /\ Unreadable(s).failure = s.failure
<1> DEFINE n == s.revision + 1
<1>1. n \in Nat /\ "unreadable" \in RunStatuses
  BY DEF ReviewRunState, RunStatuses
<1>2. Unreadable(s) = [s EXCEPT !.status = "unreadable", !.revision = n]
  BY DEF Unreadable
<1> HIDE DEF n
<1>3. /\ Unreadable(s) \in ReviewRunState
      /\ Unreadable(s).status = "unreadable" /\ Unreadable(s).revision = n
      /\ Unreadable(s).last = s.last /\ Unreadable(s).tasks = s.tasks
      /\ Unreadable(s).output = s.output /\ Unreadable(s).failure = s.failure
  BY <1>1, <1>2 DEF ReviewRunState
<1> QED BY <1>3 DEF n

\* What a repeated renewal does to the replayed state.
LEMMA RepeatedStep ==
  ASSUME ReplayTypeOK, RepeatedRenewal
  PROVE  /\ run \in ReviewRunState /\ run' \in ReviewRunState /\ ReplayTypeOK'
         /\ run.status = "active" /\ run'.status = "unreadable"
         /\ run.revision \in Nat /\ run'.revision = run.revision + 1
         /\ run'.tasks = run.tasks
         /\ head' \in RunEvent /\ head'.kind = "task_lease_renewed"
<1>1. run \in ReviewRunState /\ run.revision \in Nat
  BY DEF ReplayTypeOK, ReviewRunState
<1> QED BY <1>1, UnreadableState DEF ReplayTypeOK, RepeatedRenewal, RepeatsExpiry

(***************************************************************************)
(* Replay of any journal stays inside the state it is declared with.       *)
(***************************************************************************)
THEOREM ReplayTypes == JournalSpec => []ReplayTypeOK
<1>1. ReplayInit => ReplayTypeOK
  BY InitialType DEF ReplayInit, ReplayTypeOK
<1>2. ReplayTypeOK /\ [ReplayNext \/ RepeatedRenewal]_replayVars => ReplayTypeOK'
  <2> SUFFICES ASSUME ReplayTypeOK, [ReplayNext \/ RepeatedRenewal]_replayVars
               PROVE  ReplayTypeOK'
    OBVIOUS
  <2>1. CASE ReplayNext
    BY <2>1, ApplyType DEF ReplayTypeOK, ReplayNext
  <2>2. CASE RepeatedRenewal
    BY <2>2, RepeatedStep
  <2>3. CASE UNCHANGED replayVars
    BY <2>3 DEF ReplayTypeOK, replayVars
  <2> QED BY <2>1, <2>2, <2>3
<1> QED BY <1>1, <1>2, PTL DEF JournalSpec

----------------------------------------------------------------------------
(* Settled tasks stay settled. *)

\* A task that no event can touch any more.
Settled(s, t) == s.tasks[t].status \in {"succeeded", "skipped"} \/ FailedWithoutRetry(s, t)

\* An accepted event of a task finds it unsettled.
LEMMA EventTaskUnsettled ==
  ASSUME NEW s \in ReviewRunState, NEW e \in RunEvent, Allowed(s, e), e.task \in Tasks
  PROVE  ~Settled(s, e.task)
<1> DEFINE r == s.tasks[e.task]
<1>1. TaskEventAllowed(s, e)
  BY NoneAssumption DEF Allowed, RunEventAllowed
<1>2. r.status = "pending" \/ r.status = "available" \/ r.status = "leased"
        \/ (\E at \in Nat : RetryableAt(s, e.task, at))
  BY <1>1 DEF TaskEventAllowed, AvailableAllowed, ReadyTasks, LeasedAllowed, LeaseExpired,
     RenewedAllowed, MatchesLeaseResult, FailedAllowed, ExhaustedExpiry, ExhaustedTasks,
     SkippedAllowed, RunEvent
<1>3. r.attempts \in Nat /\ MaxAttempts[e.task] \in Nat
  BY TaskType, PlanTypes DEF TaskRuntimeState
<1> QED BY <1>2, <1>3 DEF Settled, FailedWithoutRetry, RetryableAt

\* What an event leaves alone.
LEMMA ApplyOther ==
  ASSUME NEW s \in ReviewRunState, NEW e \in RunEvent, NEW t \in Tasks, t # e.task
  PROVE  Apply(s, e).tasks[t] = s.tasks[t]
BY DEF Apply

\* What an event does to its own task.
LEMMA ApplyOwn ==
  ASSUME NEW s \in ReviewRunState, NEW e \in RunEvent, e.task \in Tasks
  PROVE  Apply(s, e).tasks[e.task]
             = [ApplyTask(s.tasks[e.task], e) EXCEPT !.lastRevision = s.revision + 1]
BY DEF Apply

\* A settled task is never written again.
LEMMA SettledIsFinal ==
  ASSUME NEW s \in ReviewRunState, NEW e \in RunEvent, Allowed(s, e),
         NEW t \in Tasks, Settled(s, t)
  PROVE  Apply(s, e).tasks[t] = s.tasks[t]
BY EventTaskUnsettled, ApplyOther

\* Satisfied dependencies stay satisfied.
LEMMA SatisfiedIsStable ==
  ASSUME NEW s \in ReviewRunState, NEW e \in RunEvent, Allowed(s, e),
         NEW t \in Tasks, DependenciesSatisfied(s, t)
  PROVE  DependenciesSatisfied(Apply(s, e), t)
<1>1. ASSUME NEW d \in Deps[t] PROVE d \in Tasks /\ Settled(s, d)
  BY <1>1, PlanTypes DEF DependenciesSatisfied, Settled
<1>2. ASSUME NEW d \in Deps[t] PROVE Apply(s, e).tasks[d] = s.tasks[d]
  BY <1>1, <1>2, SettledIsFinal
<1> QED BY <1>2 DEF DependenciesSatisfied, FailedWithoutRetry

\* A failed dependency stays failed.
LEMMA FailedRequiredIsFinal ==
  ASSUME NEW s \in ReviewRunState, NEW e \in RunEvent, Allowed(s, e),
         NEW t \in FailedRequired(s)
  PROVE  /\ Apply(s, e).tasks[t] = s.tasks[t]
         /\ t \in FailedRequired(Apply(s, e))
<1>1. t \in Tasks /\ Settled(s, t)
  BY PlanTypes DEF FailedRequired, Settled
<1>2. Apply(s, e).tasks[t] = s.tasks[t]
  BY <1>1, SettledIsFinal
<1> QED BY <1>2 DEF FailedRequired, FailedWithoutRetry

----------------------------------------------------------------------------
(* The inductive invariant of replay. *)

\* No task was last written by an event that is not in the journal yet.
RevisionsBounded == \A t \in Tasks : run.tasks[t].lastRevision <= run.revision

\* A required task is skipped only after a required dependency failed.
SkipCaused ==
    \A t \in Required : run.tasks[t].status = "skipped" =>
        \E d \in Deps[t] \cap FailedRequired(run) :
            run.tasks[d].lastRevision < run.tasks[t].lastRevision

\* A stream without its first event has no time to be later than.
UnopenedUntimed == run.status = "unopened" => run.last = 0

\* A settled attempt carries the result it was settled with.
ResultsRecorded ==
    \A t \in Tasks :
        /\ run.tasks[t].status = "succeeded" => run.tasks[t].output \in Outputs
        /\ run.tasks[t].status = "failed" => run.tasks[t].failure \in Failures

\* The state shows what the last event of the journal recorded.
HeadRecorded ==
    run.revision > 0 =>
        /\ head.kind = "task_succeeded" =>
            /\ head.task \in Tasks
            /\ run.tasks[head.task].status = "succeeded"
            /\ run.tasks[head.task].output = head.output
        /\ head.kind = "task_leased" =>
            /\ head.task \in Tasks
            /\ run.tasks[head.task].status = "leased"
            /\ run.tasks[head.task].attempts = head.attempt
            /\ run.tasks[head.task].token = head.token
            /\ run.tasks[head.task].worker = head.worker

ReplayInv ==
    /\ ReplayTypeOK
    /\ RevisionsBounded
    /\ UnopenedUntimed
    /\ ResultsRecorded
    /\ HeadRecorded
    /\ DependenciesSettled
    /\ SkipCaused

\* The states before and after one accepted event, typed.
LEMMA ReplayStepTypes ==
  ASSUME ReplayTypeOK, ReplayNext
  PROVE  /\ run \in ReviewRunState /\ head' \in RunEvent /\ Allowed(run, head')
         /\ run' = Apply(run, head') /\ run' \in ReviewRunState /\ ReplayTypeOK'
BY ApplyType DEF ReplayTypeOK, ReplayNext

\* The revision an event gives its task is its own position in the journal.
LEMMA RevisionsStep ==
  ASSUME ReplayTypeOK, RevisionsBounded, ReplayNext
  PROVE  RevisionsBounded'
<1> USE ReplayStepTypes
<1> SUFFICES ASSUME NEW t \in Tasks
             PROVE  run'.tasks[t].lastRevision <= run'.revision
  BY DEF RevisionsBounded
<1>1. run'.revision = run.revision + 1 /\ run.revision \in Nat
  BY DEF Apply, ReviewRunState
<1>2. run.tasks[t].lastRevision \in Nat /\ run.tasks[t].lastRevision <= run.revision
  BY TaskType DEF RevisionsBounded, TaskRuntimeState
<1>3. CASE t = head'.task
  <2>1. ApplyTask(run.tasks[t], head') \in TaskRuntimeState
    BY TaskType, ApplyTaskType
  <2>2. run'.tasks[t] = [ApplyTask(run.tasks[t], head') EXCEPT !.lastRevision = run.revision + 1]
    BY <1>3, ApplyOwn
  <2>3. run'.tasks[t].lastRevision = run.revision + 1
    BY <2>1, <2>2 DEF TaskRuntimeState
  <2> QED BY <2>3, <1>1
<1>4. CASE t # head'.task
  BY <1>1, <1>2, <1>4, ApplyOther
<1> QED BY <1>3, <1>4

\* A task leaves "pending" for execution only when its dependencies settled.
LEMMA DependenciesStep ==
  ASSUME ReplayTypeOK, DependenciesSettled, ReplayNext
  PROVE  DependenciesSettled'
<1> USE ReplayStepTypes
<1> DEFINE Ran == {"available", "leased", "succeeded", "failed"}
<1> SUFFICES ASSUME NEW t \in Tasks, run'.tasks[t].status \in Ran
             PROVE  DependenciesSatisfied(run', t)
  BY DEF DependenciesSettled
<1>1. CASE run.tasks[t].status \in Ran
  BY <1>1, SatisfiedIsStable DEF DependenciesSettled
<1>2. CASE run.tasks[t].status \notin Ran
  <2>1. t = head'.task
    BY <1>2, ApplyOther
  <2>2. TaskEventAllowed(run, head')
    BY <2>1, NoneAssumption DEF Allowed, RunEventAllowed
  <2>3. run.tasks[t] \in TaskRuntimeState
    BY TaskType
  <2>4. head'.kind \in {"task_available", "task_skipped"}
    BY <1>2, <2>1, <2>2 DEF TaskEventAllowed, LeasedAllowed, LeaseExpired, RenewedAllowed,
       MatchesLeaseResult, FailedAllowed, ExhaustedExpiry, ExhaustedTasks
  <2>5. ApplyTask(run.tasks[t], head') \in TaskRuntimeState
    BY <2>3, ApplyTaskType
  <2>6. run'.tasks[t] = [ApplyTask(run.tasks[t], head') EXCEPT !.lastRevision = run.revision + 1]
    BY <2>1, ApplyOwn
  <2>7. run'.tasks[t].status = ApplyTask(run.tasks[t], head').status
    BY <2>5, <2>6 DEF TaskRuntimeState
  <2>8. head'.kind = "task_available"
    BY <2>3, <2>4, <2>7 DEF ApplyTask, TaskRuntimeState
  <2>9. DependenciesSatisfied(run, t)
    BY <1>2, <2>1, <2>2, <2>8 DEF TaskEventAllowed, AvailableAllowed, ReadyTasks, RetryableAt
  <2> QED BY <2>9, SatisfiedIsStable
<1> QED BY <1>1, <1>2

\* A skip records the failed dependency it follows.
LEMMA SkipStep ==
  ASSUME ReplayTypeOK, RevisionsBounded, SkipCaused, ReplayNext
  PROVE  SkipCaused'
<1> USE ReplayStepTypes
<1> SUFFICES ASSUME NEW t \in Required, run'.tasks[t].status = "skipped"
             PROVE  \E d \in Deps[t] \cap FailedRequired(run') :
                        run'.tasks[d].lastRevision < run'.tasks[t].lastRevision
  BY DEF SkipCaused
<1>t. t \in Tasks
  BY PlanTypes
<1>1. CASE run.tasks[t].status = "skipped"
  <2>1. PICK d \in Deps[t] \cap FailedRequired(run) :
            run.tasks[d].lastRevision < run.tasks[t].lastRevision
    BY <1>1 DEF SkipCaused
  <2>2. t \in FailedRequired(run)
    BY <1>1 DEF FailedRequired
  <2>3. /\ run'.tasks[t] = run.tasks[t] /\ run'.tasks[d] = run.tasks[d]
        /\ d \in FailedRequired(run')
    BY <2>1, <2>2, FailedRequiredIsFinal
  <2> QED BY <2>1, <2>3
<1>2. CASE run.tasks[t].status # "skipped"
  <2>1. t = head'.task
    BY <1>2, <1>t, ApplyOther
  <2>2. TaskEventAllowed(run, head')
    BY <1>t, <2>1, NoneAssumption DEF Allowed, RunEventAllowed
  <2>3. run.tasks[t] \in TaskRuntimeState /\ ApplyTask(run.tasks[t], head') \in TaskRuntimeState
    BY <1>t, TaskType, ApplyTaskType
  <2>4. run'.tasks[t] = [ApplyTask(run.tasks[t], head') EXCEPT !.lastRevision = run.revision + 1]
    BY <1>t, <2>1, ApplyOwn
  <2>5. /\ run'.tasks[t].status = ApplyTask(run.tasks[t], head').status
        /\ run'.tasks[t].lastRevision = run.revision + 1
    BY <2>3, <2>4 DEF TaskRuntimeState
  <2>6. head'.kind = "task_skipped"
    BY <1>2, <2>2, <2>3, <2>5 DEF ApplyTask, TaskRuntimeState
  <2>7. HasFailedDependency(run, t)
    BY <2>1, <2>2, <2>6 DEF TaskEventAllowed, SkippedAllowed
  <2>8. PICK d \in Deps[t] : d \in FailedRequired(run)
    BY <2>7 DEF HasFailedDependency, FailedRequired
  <2>9. d \in Tasks /\ run'.tasks[d] = run.tasks[d] /\ d \in FailedRequired(run')
    BY <2>8, <1>t, PlanTypes, FailedRequiredIsFinal
  <2>10. run.tasks[d].lastRevision < run.revision + 1
    <3>1. run.tasks[d].lastRevision \in Nat /\ run.revision \in Nat
      BY <2>9, TaskType DEF TaskRuntimeState, ReviewRunState
    <3> QED BY <2>9, <3>1 DEF RevisionsBounded
  <2> QED BY <2>5, <2>8, <2>9, <2>10
<1> QED BY <1>1, <1>2

\* Every accepted event leaves the run opened.
LEMMA OpenedStep ==
  ASSUME ReplayTypeOK, ReplayNext
  PROVE  UnopenedUntimed'
<1>1. run'.status = ApplyStatus(run, head')
  BY ReplayStepTypes DEF Apply
<1>2. run.status = "active" \/ head'.kind = "run_opened"
  BY ReplayStepTypes DEF Allowed
<1>3. ApplyStatus(run, head') # "unopened"
  BY <1>2 DEF ApplyStatus
<1> QED BY <1>1, <1>3 DEF UnopenedUntimed

\* A result is recorded with the event that settles its attempt.
LEMMA ResultsStep ==
  ASSUME ReplayTypeOK, ResultsRecorded, ReplayNext
  PROVE  ResultsRecorded'
<1> USE ReplayStepTypes
<1> SUFFICES ASSUME NEW t \in Tasks
             PROVE  /\ run'.tasks[t].status = "succeeded" => run'.tasks[t].output \in Outputs
                    /\ run'.tasks[t].status = "failed" => run'.tasks[t].failure \in Failures
  BY DEF ResultsRecorded
<1>1. CASE t # head'.task
  BY <1>1, ApplyOther DEF ResultsRecorded
<1>2. CASE t = head'.task
  <2> DEFINE r == ApplyTask(run.tasks[t], head')
  <2>1. run.tasks[t] \in TaskRuntimeState /\ r \in TaskRuntimeState
    BY TaskType, ApplyTaskType
  <2>2. run'.tasks[t] = [r EXCEPT !.lastRevision = run.revision + 1]
    BY <1>2, ApplyOwn
  <2>3. run'.tasks[t].status = r.status /\ run'.tasks[t].output = r.output
          /\ run'.tasks[t].failure = r.failure
    <3> HIDE DEF r
    <3> QED BY <2>1, <2>2 DEF TaskRuntimeState
  <2>4. TaskEventAllowed(run, head')
    BY <1>2, NoneAssumption DEF Allowed, RunEventAllowed
  <2>5. /\ r.status = "succeeded" => r.output \in Outputs
        /\ r.status = "failed" => r.failure \in Failures
    <3>1. /\ run.tasks[t].status = "succeeded" => run.tasks[t].output \in Outputs
          /\ run.tasks[t].status = "failed" => run.tasks[t].failure \in Failures
      BY DEF ResultsRecorded
    <3>2. /\ head'.kind = "task_succeeded" => head'.output \in Outputs
          /\ head'.kind = "task_failed" => head'.failure \in Failures
      BY <2>4 DEF TaskEventAllowed, FailedAllowed
    <3> QED BY <2>1, <3>1, <3>2 DEF ApplyTask, TaskRuntimeState
  <2> QED BY <2>3, <2>5
<1> QED BY <1>1, <1>2

\* Applying an event leaves its record in the task it names.
LEMMA HeadStep ==
  ASSUME ReplayTypeOK, ReplayNext
  PROVE  HeadRecorded'
<1> USE ReplayStepTypes
<1> DEFINE t == head'.task
           r == ApplyTask(run.tasks[t], head')
<1> SUFFICES ASSUME head'.kind \in {"task_succeeded", "task_leased"}
             PROVE  /\ t \in Tasks
                    /\ head'.kind = "task_succeeded" =>
                          run'.tasks[t].status = "succeeded" /\ run'.tasks[t].output = head'.output
                    /\ head'.kind = "task_leased" =>
                          /\ run'.tasks[t].status = "leased"
                          /\ run'.tasks[t].attempts = head'.attempt
                          /\ run'.tasks[t].token = head'.token
                          /\ run'.tasks[t].worker = head'.worker
  BY DEF HeadRecorded
<1>1. t \in Tasks
  BY DEF Allowed, TaskEventAllowed, RunEventAllowed
<1>2. run.tasks[t] \in TaskRuntimeState /\ r \in TaskRuntimeState
  BY <1>1, TaskType, ApplyTaskType
<1>3. run'.tasks[t] = [r EXCEPT !.lastRevision = run.revision + 1]
  BY <1>1, ApplyOwn
<1>4. /\ run'.tasks[t].status = r.status /\ run'.tasks[t].output = r.output
      /\ run'.tasks[t].attempts = r.attempts /\ run'.tasks[t].token = r.token
      /\ run'.tasks[t].worker = r.worker
  <2> HIDE DEF r, t
  <2> QED BY <1>2, <1>3 DEF TaskRuntimeState
<1>5. /\ head'.kind = "task_succeeded" => r.status = "succeeded" /\ r.output = head'.output
      /\ head'.kind = "task_leased" =>
            /\ r.status = "leased" /\ r.attempts = head'.attempt
            /\ r.token = head'.token /\ r.worker = head'.worker
  BY <1>2 DEF ApplyTask, TaskRuntimeState
<1> HIDE DEF r, t
<1> QED BY <1>1, <1>4, <1>5

\* One step of replay preserves the inductive invariant.
LEMMA ReplayInvStep ==
  ASSUME ReplayInv, [ReplayNext \/ RepeatedRenewal]_replayVars
  PROVE  ReplayInv'
<1>1. CASE ReplayNext
  BY <1>1, ReplayStepTypes, RevisionsStep, OpenedStep, ResultsStep, HeadStep, DependenciesStep, SkipStep
     DEF ReplayInv
<1>2. CASE UNCHANGED replayVars
  BY <1>2 DEF replayVars, ReplayInv, ReplayTypeOK, RevisionsBounded, UnopenedUntimed, ResultsRecorded,
     HeadRecorded, DependenciesSettled, SkipCaused, DependenciesSatisfied, FailedWithoutRetry,
     FailedRequired
<1>3. CASE RepeatedRenewal
  <2>1. /\ ReplayTypeOK' /\ run'.tasks = run.tasks /\ run'.status = "unreadable"
        /\ run.revision \in Nat /\ run'.revision = run.revision + 1
        /\ head'.kind = "task_lease_renewed" /\ run \in ReviewRunState
    BY <1>3, RepeatedStep DEF ReplayInv
  <2>2. \A t \in Tasks : run.tasks[t].lastRevision \in Nat
    BY <2>1, TaskType DEF TaskRuntimeState
  <2>3. RevisionsBounded'
    BY <2>1, <2>2 DEF ReplayInv, RevisionsBounded
  <2>4. UnopenedUntimed' /\ HeadRecorded'
    BY <2>1 DEF UnopenedUntimed, HeadRecorded
  <2>5. ResultsRecorded' /\ DependenciesSettled' /\ SkipCaused'
    BY <2>1 DEF ReplayInv, ResultsRecorded, DependenciesSettled, SkipCaused,
       DependenciesSatisfied, FailedWithoutRetry, FailedRequired
  <2> QED BY <2>1, <2>3, <2>4, <2>5 DEF ReplayInv
<1> QED BY <1>1, <1>2, <1>3

\* The empty journal satisfies the inductive invariant.
LEMMA ReplayInvInit == ReplayInit => ReplayInv
<1> SUFFICES ASSUME ReplayInit PROVE ReplayInv
  OBVIOUS
<1>1. ReplayTypeOK
  BY InitialType DEF ReplayInit, ReplayTypeOK
<1>2. \A t \in Tasks : run.tasks[t].status = "pending" /\ run.tasks[t].lastRevision = 0
  BY DEF ReplayInit, InitialState
<1>3. run.revision = 0 /\ run.last = 0
  BY DEF ReplayInit, InitialState
<1> QED BY <1>1, <1>2, <1>3, PlanTypes DEF ReplayInv, RevisionsBounded, UnopenedUntimed, ResultsRecorded,
       HeadRecorded, DependenciesSettled, SkipCaused

\* The inductive invariant holds in every state of a journal.
LEMMA ReplayInvariant == JournalSpec => []ReplayInv
BY ReplayInvInit, ReplayInvStep, PTL DEF JournalSpec

----------------------------------------------------------------------------
(* The properties of a run, for every plan and every journal. *)

(***************************************************************************)
(* A task is offered, leased or finished only when each of its             *)
(* dependencies can no longer change.                                      *)
(***************************************************************************)
THEOREM ReplayDependenciesSettled == JournalSpec => []DependenciesSettled
BY ReplayInvariant, PTL DEF ReplayInv

\* The earliest required failure is a task that ran and failed: what was
\* skipped was skipped after a required task that it depends on.
LEMMA ReplayFailureRan == ReplayInv => FailureRan
<1> SUFFICES ASSUME ReplayInv, FailedRequired(run) # {}
             PROVE  run.tasks[EarliestFailure(run)].status = "failed"
  BY DEF FailureRan
<1> DEFINE t == EarliestFailure(run)
<1>1. run \in ReviewRunState
  BY DEF ReplayInv, ReplayTypeOK
<1>2. /\ t \in FailedRequired(run)
      /\ \A u \in FailedRequired(run) :
            \/ run.tasks[t].lastRevision < run.tasks[u].lastRevision
            \/ run.tasks[t].lastRevision = run.tasks[u].lastRevision /\ t <= u
  BY <1>1, EarliestFailureIsFirst
<1> HIDE DEF t
<1>3. ASSUME run.tasks[t].status = "skipped" PROVE FALSE
  <2>1. PICK d \in Deps[t] \cap FailedRequired(run) :
            run.tasks[d].lastRevision < run.tasks[t].lastRevision
    BY <1>2, <1>3 DEF ReplayInv, SkipCaused, FailedRequired
  <2>2. t \in Tasks /\ d \in Tasks
    BY <1>2, <2>1, PlanTypes DEF FailedRequired
  <2>3. run.tasks[t].lastRevision \in Nat /\ run.tasks[d].lastRevision \in Nat
    BY <1>1, <2>2, TaskType DEF TaskRuntimeState
  <2> QED BY <1>2, <2>1, <2>3
<1> QED BY <1>2, <1>3 DEF FailedRequired, FailedWithoutRetry, t

\* Whatever failed for good lets the run fail.
LEMMA FailedRequiredCanFail ==
  ASSUME NEW s \in ReviewRunState, FailedRequired(s) # {}
  PROVE  CanFail(s)
<1>1. PICK t \in Required : s.tasks[t].status = "skipped" \/ FailedWithoutRetry(s, t)
  BY DEF FailedRequired
<1>2. s.tasks[t].attempts \in Nat /\ MaxAttempts[t] \in Nat
  BY <1>1, PlanTypes, TaskType DEF TaskRuntimeState
<1> QED BY <1>1, <1>2 DEF CanFail, FailedWithoutRetry, RetryableAt

\* An accepted event leaves the earliest failure where it is.
LEMMA EarliestFailureStable ==
  ASSUME ReplayTypeOK, RevisionsBounded, ReplayNext, FailedRequired(run) # {}
  PROVE  /\ FailedRequired(run') # {}
         /\ EarliestFailure(run') = EarliestFailure(run)
         /\ run'.tasks[EarliestFailure(run)] = run.tasks[EarliestFailure(run)]
<1> USE ReplayStepTypes
<1> DEFINE a == EarliestFailure(run)
           b == EarliestFailure(run')
<1>1. /\ a \in FailedRequired(run)
      /\ \A u \in FailedRequired(run) :
            \/ run.tasks[a].lastRevision < run.tasks[u].lastRevision
            \/ run.tasks[a].lastRevision = run.tasks[u].lastRevision /\ a <= u
  BY EarliestFailureIsFirst
<1>2. \A u \in FailedRequired(run) :
          run'.tasks[u] = run.tasks[u] /\ u \in FailedRequired(run')
  BY FailedRequiredIsFinal
<1>3. /\ b \in FailedRequired(run')
      /\ \A u \in FailedRequired(run') :
            \/ run'.tasks[b].lastRevision < run'.tasks[u].lastRevision
            \/ run'.tasks[b].lastRevision = run'.tasks[u].lastRevision /\ b <= u
  BY <1>1, <1>2, EarliestFailureIsFirst
<1> HIDE DEF a, b
<1>4. /\ a \in Tasks /\ a \in Nat /\ b \in Tasks /\ b \in Nat
  BY <1>1, <1>3, PlanTypes DEF FailedRequired, Tasks
<1>5. /\ run.tasks[a].lastRevision \in Nat /\ run.revision \in Nat
      /\ run.tasks[a].lastRevision <= run.revision
      /\ run'.tasks[b].lastRevision \in Nat
  BY <1>4, TaskType DEF TaskRuntimeState, ReviewRunState, RevisionsBounded
<1>6. CASE b \in FailedRequired(run)
  BY <1>1, <1>2, <1>3, <1>4, <1>5, <1>6 DEF a, b
<1>7. CASE b \notin FailedRequired(run)
  <2>1. b = head'.task
    BY <1>3, <1>4, <1>7, ApplyOther DEF FailedRequired, FailedWithoutRetry
  <2>2. ApplyTask(run.tasks[b], head') \in TaskRuntimeState
    BY <1>4, TaskType, ApplyTaskType
  <2>3. run'.tasks[b] = [ApplyTask(run.tasks[b], head') EXCEPT !.lastRevision = run.revision + 1]
    BY <1>4, <2>1, ApplyOwn
  <2>4. run'.tasks[b].lastRevision = run.revision + 1
    BY <2>2, <2>3 DEF TaskRuntimeState
  <2> QED BY <1>1, <1>2, <1>3, <1>5, <2>4
<1> QED BY <1>6, <1>7

\* An accepted event leaves a derived failure as it is.
LEMMA DispositionStable ==
  ASSUME ReplayInv, ReplayNext, TerminalCompletion(run).status = "failed"
  PROVE  TerminalCompletion(run') = TerminalCompletion(run)
<1>1. FailedRequired(run) # {} /\ CanFail(run)
  BY DEF TerminalCompletion, Success, Undecided
<1>2. /\ FailedRequired(run') # {}
      /\ EarliestFailure(run') = EarliestFailure(run)
      /\ run'.tasks[EarliestFailure(run)] = run.tasks[EarliestFailure(run)]
  BY <1>1, EarliestFailureStable DEF ReplayInv
<1>3. CanFail(run')
  BY <1>2, ReplayStepTypes, FailedRequiredCanFail DEF ReplayInv
<1> QED BY <1>1, <1>2, <1>3 DEF TerminalCompletion

(***************************************************************************)
(* Once the finalizer derives a failure it derives the same one after      *)
(* every later event of the active run.                                    *)
(***************************************************************************)
THEOREM ReplayFailureStable == JournalSpec => FailureStable
<1>1. ReplayInv /\ [ReplayNext \/ RepeatedRenewal]_replayVars =>
        [ LET before == TerminalCompletion(run) IN
          (run.status = "active" /\ before.status = "failed" /\ run'.status = "active")
              => TerminalCompletion(run') = before ]_replayVars
  BY DispositionStable, RepeatedStep DEF ReplayInv
<1> QED BY <1>1, ReplayInvariant, PTL DEF JournalSpec, FailureStable

----------------------------------------------------------------------------
(* The coordinator: the inductive invariant. *)

\* The arguments of a call fit its goal.
CallArgs(k) ==
    /\ k \in Call
    /\ k.fraction => TRUE \in Fractions
    /\ k.pc # "idle" => k.goal \in Goals /\ k.at > 0
    /\ k.goal = "claim" => k.task \in Tasks /\ k.worker \in Workers
    /\ k.goal \in {"renew", "complete"} => k.task \in Tasks /\ k.lease \in TaskLease
    /\ k.goal = "complete" => k.result \in Completions
    /\ k.goal = "succeed" => k.result \in {Success(o) : o \in Outputs}
    /\ k.goal = "fail" => k.result \in {Failure(f) : f \in Failures}

Proposing(k) == k.pc \in {"advance_append", "append"}

\* Replay accepts the event of call k, or it is a renewal, decided at a
\* reading with a fraction, that repeats the expiry of its lease.
Appendable(s, k, e) == Allowed(s, e) \/ (k.fraction /\ RepeatsExpiry(s, e))

\* A terminal event reports the disposition of the state it was decided on.
Disposes(s, e) ==
    /\ e.kind = "run_succeeded" => e.output = s.tasks[ResultTask].output
    /\ e.kind = "run_failed" => TerminalCompletion(s) = Failure(e.failure)

\* While the head is the one a call loaded, replay accepts what it proposes.
ProposalCurrent(k) ==
    Proposing(k) =>
        /\ k.event \in RunEvent
        /\ k.expect <= run.revision
        /\ k.expect = run.revision => Appendable(run, k, k.event) /\ Disposes(run, k.event)

\* The event of a claim or a completion carries the call's own arguments.
ProposalOwn(k) ==
    k.pc = "append" =>
        /\ k.goal = "claim" =>
            /\ k.event.kind = "task_leased" /\ k.event.task = k.task
            /\ k.event.worker = k.worker /\ k.event.token \in Tokens
            /\ k.event.attempt \in 1 .. MaxAttempts[k.task]
        /\ k.goal = "complete" /\ k.result.status = "succeeded" =>
            /\ k.event.kind = "task_succeeded" /\ k.event.task = k.task
            /\ k.event.output = k.result.output

CallInv(k) == CallArgs(k) /\ ProposalCurrent(k) /\ ProposalOwn(k)

\* The state remembers the lease of the current attempt.
LeasesRecorded ==
    \A l \in leases :
        LET r == run.tasks[l.task] IN
        /\ l.attempt <= r.attempts
        /\ l.attempt = r.attempts =>
            /\ l.token = r.token
            /\ r.status = "leased" => l.worker = r.worker

\* A failed run is recorded with the failure that its tasks determine.
FailureDerived ==
    run.status = "failed" => TerminalCompletion(run) = Failure(run.failure)

CoordinatorInv ==
    /\ ReplayInv
    /\ leases \subseteq TaskLease
    /\ acked \subseteq (Tasks \X Outputs)
    /\ calls \in [Calls -> Call]
    /\ \A c \in Calls : CallInv(calls[c])
    /\ AckedDurable
    /\ LeasesRecorded
    /\ OneLeasePerAttempt
    /\ SuccessIsComplete
    /\ FailureDerived

\* A load ends with a sound call and touches nothing but the acknowledgements.
LoadOutcome(c) ==
    /\ UNCHANGED <<run, head, leases>>
    /\ acked' \subseteq (Tasks \X Outputs)
    /\ AckedDurable'
    /\ \E k \in Call : CallInv(k) /\ calls' = [calls EXCEPT ![c] = k]

----------------------------------------------------------------------------
(* How a load may end. *)

\* A free slot is sound.
LEMMA IdleInv == Idle \in Call /\ CallInv(Idle)
BY CoordinatorAssumption DEF Idle, Call, CallInv, CallArgs, ProposalCurrent, ProposalOwn,
   Proposing, Goals

\* Returning leaves a free slot.
LEMMA ReturnOutcome ==
  ASSUME CoordinatorInv, NEW c \in Calls, Return(c)
  PROVE  LoadOutcome(c)
BY IdleInv DEF Return, LoadOutcome, CoordinatorInv, AckedDurable

\* Proposing what may be appended is sound.
LEMMA ProposalOutcome ==
  ASSUME CoordinatorInv, NEW c \in Calls, NEW k \in Call, CallArgs(k), k.pc # "idle",
         NEW pc \in {"advance_append", "append"}, NEW e \in RunEvent, Appendable(run, k, e), Disposes(run, e),
         ProposalOwn([k EXCEPT !.pc = pc, !.event = e, !.expect = run.revision]),
         Propose(c, k, pc, e)
  PROVE  LoadOutcome(c)
<1> DEFINE p == [k EXCEPT !.pc = pc, !.event = e, !.expect = run.revision]
<1>1. run.revision \in Nat
  BY DEF CoordinatorInv, ReplayInv, ReplayTypeOK, ReviewRunState
<1>2. p \in Call
  BY <1>1 DEF Call
<1>3. /\ p.pc = pc /\ p.event = e /\ p.expect = run.revision /\ p.goal = k.goal
      /\ p.at = k.at /\ p.task = k.task /\ p.worker = k.worker /\ p.lease = k.lease
      /\ p.result = k.result /\ p.fraction = k.fraction
  BY DEF Call
<1>4. calls' = [calls EXCEPT ![c] = p] /\ UNCHANGED <<run, head, leases, acked>>
  BY DEF Propose
<1>5. ProposalOwn(p)
  OBVIOUS
<1> HIDE DEF p
<1>6. CallArgs(p)
  BY <1>2, <1>3 DEF CallArgs
<1>7. ProposalCurrent(p)
  BY <1>1, <1>3 DEF ProposalCurrent, Appendable
<1> QED BY <1>2, <1>4, <1>5, <1>6, <1>7 DEF LoadOutcome, CallInv, CoordinatorInv, AckedDurable

\* Proposing an event that the loaded state accepts is sound.
LEMMA ProposeOutcome ==
  ASSUME CoordinatorInv, NEW c \in Calls, NEW k \in Call, CallArgs(k), k.pc # "idle",
         NEW pc \in {"advance_append", "append"}, NEW e \in RunEvent, Allowed(run, e),
         e.kind = "run_succeeded" => e.output = run.tasks[ResultTask].output,
         e.kind = "run_failed" => TerminalCompletion(run) = Failure(e.failure),
         ProposalOwn([k EXCEPT !.pc = pc, !.event = e, !.expect = run.revision]),
         Propose(c, k, pc, e)
  PROVE  LoadOutcome(c)
<1>1. Appendable(run, k, e) /\ Disposes(run, e)
  BY DEF Appendable, Disposes
<1> QED BY <1>1, ProposalOutcome

\* Going on to another loop is sound.
LEMMA ContinueOutcome ==
  ASSUME CoordinatorInv, NEW c \in Calls, NEW k \in Call, CallArgs(k), k.pc # "idle",
         NEW pc \in {"advance", "transition"}, NEW goal \in Goals,
         NEW result \in TaskCompletion \cup {None},
         goal = k.goal \/ goal \in {"succeed", "fail"},
         goal = k.goal => result = k.result,
         goal # k.goal => /\ goal = "succeed" => result \in {Success(o) : o \in Outputs}
                          /\ goal = "fail" => result \in {Failure(f) : f \in Failures},
         Continue(c, k, pc, goal, result)
  PROVE  LoadOutcome(c)
<1> DEFINE p == [k EXCEPT !.pc = pc, !.goal = goal, !.result = result, !.loads = 0]
<1>2. p \in Call
  BY DEF Call
<1>3. /\ p.pc = pc /\ p.goal = goal /\ p.result = result
      /\ p.at = k.at /\ p.task = k.task /\ p.worker = k.worker /\ p.lease = k.lease
      /\ p.fraction = k.fraction
  BY DEF Call
<1>4. calls' = [calls EXCEPT ![c] = p] /\ UNCHANGED <<run, head, leases, acked>>
  BY DEF Continue
<1> HIDE DEF p
<1>5. CallArgs(p)
  BY <1>2, <1>3 DEF CallArgs
<1>6. ProposalCurrent(p) /\ ProposalOwn(p)
  BY <1>3 DEF ProposalCurrent, ProposalOwn, Proposing
<1> QED BY <1>2, <1>4, <1>5, <1>6 DEF LoadOutcome, CallInv, CoordinatorInv, AckedDurable

----------------------------------------------------------------------------
(* Every operation proposes only what replay accepts. *)

\* The invariant gives a typed state whose time a call may check.
LEMMA StateTypes ==
  ASSUME CoordinatorInv
  PROVE  /\ run \in ReviewRunState /\ run.revision \in Nat /\ run.last \in Nat
         /\ \A t \in Tasks : run.tasks[t] \in TaskRuntimeState
BY TaskType DEF CoordinatorInv, ReplayInv, ReplayTypeOK, ReviewRunState

\* An event with no optional field is well formed.
LEMMA PlainType ==
  ASSUME NEW kind \in EventKinds, NEW t \in Tasks \cup {None}, NEW at \in Nat
  PROVE  PlainEvent(kind, t, at) \in RunEvent
BY DEF PlainEvent, RunEvent

\* An event proposed from Advance carries no claim and no completion.
LEMMA AdvanceProposalOwn ==
  ASSUME NEW k \in Call, NEW e \in RunEvent
  PROVE  ProposalOwn([k EXCEPT !.pc = "advance_append", !.event = e, !.expect = run.revision])
<1>1. [k EXCEPT !.pc = "advance_append", !.event = e, !.expect = run.revision].pc = "advance_append"
  BY DEF Call
<1> QED BY <1>1 DEF ProposalOwn

\* Settling an expired final attempt.
LEMMA SettleExhaustedOutcome ==
  ASSUME CoordinatorInv, NEW c \in Calls, NEW k \in Call, CallArgs(k), k.pc # "idle",
         Active, TransitionTimeAllowed(k.at), ExhaustedTasks(run, k.at) # {},
         SettleExhausted(c, k)
  PROVE  LoadOutcome(c)
<1> DEFINE t == First(ExhaustedTasks(run, k.at))
           e == [PlainEvent("task_failed", t, k.at) EXCEPT
                    !.attempt = run.tasks[t].attempts, !.token = run.tasks[t].token,
                    !.failure = "resource_limit"]
<1>1. k.at \in Nat
  BY DEF Call
<1>2. ExhaustedTasks(run, k.at) \in SUBSET Tasks
  BY DEF ExhaustedTasks
<1>3. t \in ExhaustedTasks(run, k.at)
  BY <1>2, FirstIsLeast
<1>4. t \in Tasks /\ run.tasks[t] \in TaskRuntimeState
  BY <1>2, <1>3, StateTypes
<1> HIDE DEF t
<1>5. PlainEvent("task_failed", t, k.at) \in RunEvent
  BY <1>1, <1>4, PlainType DEF EventKinds
<1>6. /\ e \in RunEvent
      /\ e.kind = "task_failed" /\ e.task = t /\ e.at = k.at /\ e.failure = "resource_limit"
      /\ e.attempt = run.tasks[t].attempts /\ e.token = run.tasks[t].token /\ e.retryAt = 0
  BY <1>4, <1>5 DEF PlainEvent, RunEvent, TaskRuntimeState, Failures
<1>7. Propose(c, k, "advance_append", e)
  BY DEF SettleExhausted, t
<1> HIDE DEF e
<1>8. FailedAllowed(run, e)
  <2>1. ExhaustedExpiry(run, e)
    BY <1>3, <1>6 DEF ExhaustedExpiry
  <2>2. run.tasks[t].attempts = MaxAttempts[t] /\ MaxAttempts[t] \in Nat
    BY <1>3, <1>4, PlanTypes DEF ExhaustedTasks
  <2> QED BY <2>1, <2>2, <1>6 DEF FailedAllowed, Failures
<1>9. Allowed(run, e)
  BY <1>4, <1>6, <1>8 DEF Allowed, TaskEventAllowed, Active, TransitionTimeAllowed
<1> QED BY <1>6, <1>7, <1>9, AdvanceProposalOwn, ProposeOutcome

\* Offering the first ready task.
LEMMA OfferReadyOutcome ==
  ASSUME CoordinatorInv, NEW c \in Calls, NEW k \in Call, CallArgs(k), k.pc # "idle",
         Active, TransitionTimeAllowed(k.at), ReadyTasks(run, k.at) # {}, OfferReady(c, k)
  PROVE  LoadOutcome(c)
<1> DEFINE t == First(ReadyTasks(run, k.at))
           e == PlainEvent("task_available", t, k.at)
<1>1. k.at \in Nat
  BY DEF Call
<1>2. ReadyTasks(run, k.at) \in SUBSET Tasks
  BY DEF ReadyTasks
<1>3. t \in ReadyTasks(run, k.at) /\ t \in Tasks
  BY <1>2, FirstIsLeast
<1> HIDE DEF t
<1>4. e \in RunEvent
  BY <1>1, <1>3, PlainType DEF EventKinds
<1>5. e.kind = "task_available" /\ e.task = t /\ e.at = k.at
  BY DEF PlainEvent
<1>6. Propose(c, k, "advance_append", e)
  BY DEF OfferReady, t
<1> HIDE DEF e
<1>7. Allowed(run, e)
  BY <1>3, <1>5 DEF Allowed, TaskEventAllowed, AvailableAllowed, Active, TransitionTimeAllowed
<1> QED BY <1>4, <1>5, <1>6, <1>7, AdvanceProposalOwn, ProposeOutcome

\* Skipping the first task behind a failed dependency.
LEMMA SkipBlockedOutcome ==
  ASSUME CoordinatorInv, NEW c \in Calls, NEW k \in Call, CallArgs(k), k.pc # "idle",
         Active, TransitionTimeAllowed(k.at), SkippableTasks(run) # {}, SkipBlocked(c, k)
  PROVE  LoadOutcome(c)
<1> DEFINE t == First(SkippableTasks(run))
           e == [PlainEvent("task_skipped", t, k.at) EXCEPT !.failure = "dependency"]
<1>1. k.at \in Nat
  BY DEF Call
<1>2. SkippableTasks(run) \in SUBSET Tasks
  BY DEF SkippableTasks
<1>3. t \in SkippableTasks(run) /\ t \in Tasks
  BY <1>2, FirstIsLeast
<1> HIDE DEF t
<1>4. PlainEvent("task_skipped", t, k.at) \in RunEvent
  BY <1>1, <1>3, PlainType DEF EventKinds
<1>5. /\ e \in RunEvent
      /\ e.kind = "task_skipped" /\ e.task = t /\ e.at = k.at /\ e.failure = "dependency"
  BY <1>4 DEF PlainEvent, RunEvent, Failures
<1>6. Propose(c, k, "advance_append", e)
  BY DEF SkipBlocked, t
<1> HIDE DEF e
<1>7. Allowed(run, e)
  BY <1>3, <1>5 DEF Allowed, TaskEventAllowed, SkippedAllowed, SkippableTasks, Active,
     TransitionTimeAllowed
<1> QED BY <1>5, <1>6, <1>7, AdvanceProposalOwn, ProposeOutcome

\* A derived disposition is a completion a finalizer may be called with.
LEMMA DispositionType ==
  ASSUME CoordinatorInv
  PROVE  /\ TerminalCompletion(run).status = "succeeded" =>
              /\ TerminalCompletion(run) \in {Success(o) : o \in Outputs}
              /\ TerminalCompletion(run) = Success(run.tasks[ResultTask].output)
         /\ TerminalCompletion(run).status = "failed" =>
              TerminalCompletion(run) \in {Failure(f) : f \in Failures}
<1>1. ResultTask \in Required /\ ResultTask \in Tasks
  BY ResultTaskRequired, PlanTypes
<1>2. CASE CanFail(run) /\ FailedRequired(run) # {}
  <2> DEFINE t == EarliestFailure(run)
             f == IF run.tasks[t].status = "skipped" THEN "dependency" ELSE run.tasks[t].failure
  <2>1. t \in FailedRequired(run)
    BY <1>2, StateTypes, EarliestFailureIsFirst
  <2>2. TerminalCompletion(run) = Failure(f)
    BY <1>2 DEF TerminalCompletion
  <2> HIDE DEF t
  <2>3. f \in Failures
    BY <2>1, PlanTypes DEF FailedRequired, FailedWithoutRetry, CoordinatorInv, ReplayInv,
       ResultsRecorded, Failures
  <2> HIDE DEF f
  <2> QED BY <2>2, <2>3 DEF Failure
<1>3. CASE ~(CanFail(run) /\ FailedRequired(run) # {}) /\ CanSucceed(run)
  <2>1. TerminalCompletion(run) = Success(run.tasks[ResultTask].output)
    BY <1>3 DEF TerminalCompletion
  <2>2. run.tasks[ResultTask].output \in Outputs
    BY <1>1, <1>3 DEF CanSucceed, CoordinatorInv, ReplayInv, ResultsRecorded
  <2> QED BY <2>1, <2>2 DEF Success
<1>4. CASE ~(CanFail(run) /\ FailedRequired(run) # {}) /\ ~CanSucceed(run)
  <2>1. TerminalCompletion(run) = Undecided
    BY <1>4 DEF TerminalCompletion
  <2> QED BY <2>1 DEF Undecided
<1> QED BY <1>2, <1>3, <1>4

\* Completions are typed.
LEMMA CompletionTypes ==
  /\ {Success(o) : o \in Outputs} \subseteq TaskCompletion
  /\ {Failure(f) : f \in Failures} \subseteq TaskCompletion
BY DEF Success, Failure, TaskCompletion

\* What follows a finished Advance is sound.
LEMMA AdvancedOutcome ==
  ASSUME CoordinatorInv, NEW c \in Calls, NEW k \in Call, CallArgs(k), k.pc # "idle",
         Advanced(c, k)
  PROVE  LoadOutcome(c)
<1> DEFINE d == TerminalCompletion(run)
<1>1. k.goal \in Goals /\ k.result \in TaskCompletion \cup {None}
  BY DEF CallArgs, Call
<1>2. CASE k.goal \in {"claim", "fail"}
  <2>1. Continue(c, k, "transition", k.goal, k.result)
    BY <1>2 DEF Advanced
  <2> QED BY <1>1, <2>1, ContinueOutcome
<1>3. CASE k.goal = "reconcile" /\ Active /\ d.status = "succeeded"
  <2>1. Continue(c, k, "transition", "succeed", d)
    BY <1>3 DEF Advanced
  <2>2. d \in {Success(o) : o \in Outputs} /\ d \in TaskCompletion
    BY <1>3, DispositionType, CompletionTypes
  <2> HIDE DEF d
  <2> QED BY <1>3, <2>1, <2>2, ContinueOutcome DEF Goals
<1>4. CASE k.goal = "reconcile" /\ Active /\ d.status = "failed"
  <2>1. Continue(c, k, "advance", "fail", d)
    BY <1>4 DEF Advanced
  <2>2. d \in {Failure(f) : f \in Failures} /\ d \in TaskCompletion
    BY <1>4, DispositionType, CompletionTypes
  <2> HIDE DEF d
  <2> QED BY <1>4, <2>1, <2>2, ContinueOutcome DEF Goals
<1>5. CASE /\ k.goal \notin {"claim", "fail"}
           /\ ~(k.goal = "reconcile" /\ Active /\ d.status = "succeeded")
           /\ ~(k.goal = "reconcile" /\ Active /\ d.status = "failed")
  <2>1. Return(c)
    BY <1>5 DEF Advanced
  <2> QED BY <2>1, ReturnOutcome
<1> QED BY <1>2, <1>3, <1>4, <1>5

\* One load of Advance.
LEMMA AdvanceOutcome ==
  ASSUME CoordinatorInv, NEW c \in Calls, NEW k \in Call, CallArgs(k), Advance(c, k)
  PROVE  LoadOutcome(c)
<1>1. k.pc # "idle"
  BY DEF Advance
<1> QED BY <1>1, ReturnOutcome, AdvancedOutcome, SettleExhaustedOutcome, OfferReadyOutcome,
          SkipBlockedOutcome DEF Advance

\* Opening the run.
LEMMA OpenOutcome ==
  ASSUME CoordinatorInv, NEW c \in Calls, NEW k \in Call, CallArgs(k), Open(c, k)
  PROVE  LoadOutcome(c)
<1>1. CASE run.status # "unopened"
  BY <1>1, ReturnOutcome DEF Open
<1>2. CASE run.status = "unopened"
  <2> DEFINE e == PlainEvent("run_opened", None, k.at)
  <2>1. k.pc # "idle" /\ k.goal = "open" /\ k.at > 0 /\ k.at \in Nat
    BY DEF Open, InTransition, CallArgs, Call
  <2>2. e \in RunEvent
    BY <2>1, PlainType DEF EventKinds
  <2>3. e.kind = "run_opened" /\ e.task = None /\ e.at = k.at
    BY DEF PlainEvent
  <2>4. Propose(c, k, "append", e)
    BY <1>2 DEF Open
  <2> HIDE DEF e
  <2>5. Allowed(run, e)
    BY <1>2, <2>1, <2>3 DEF Allowed, CoordinatorInv, ReplayInv, UnopenedUntimed
  <2>6. ProposalOwn([k EXCEPT !.pc = "append", !.event = e, !.expect = run.revision])
    BY <2>1 DEF ProposalOwn, Call
  <2> QED BY <2>1, <2>2, <2>3, <2>4, <2>5, <2>6, ProposeOutcome
<1> QED BY <1>1, <1>2

\* Claiming a task.
LEMMA ClaimOutcome ==
  ASSUME CoordinatorInv, NEW c \in Calls, NEW k \in Call, CallArgs(k), ClaimTask(c, k)
  PROVE  LoadOutcome(c)
<1> DEFINE t == k.task
           r == run.tasks[t]
           granted == /\ TransitionTimeAllowed(k.at)
                      /\ Active
                      /\ r.status = "available" \/ LeaseExpired(run, t, k.at)
                      /\ r.attempts + 1 <= MaxAttempts[t]
           p == PlainEvent("task_leased", t, k.at)
           attempt == r.attempts + 1
           token == <<c, run.revision + 1>>
           expires == k.at + LeaseDuration[t]
           e == [p EXCEPT !.attempt = attempt, !.token = token, !.worker = k.worker,
                          !.expires = expires]
<1>1. /\ k.pc # "idle" /\ k.goal = "claim" /\ k.at \in Nat
      /\ t \in Tasks /\ k.worker \in Workers
  BY DEF ClaimTask, InTransition, CallArgs, Call
<1>2. CASE ~granted
  BY <1>2, ReturnOutcome DEF ClaimTask
<1>3. CASE granted
  <2>1. Propose(c, k, "append", e)
    BY <1>3 DEF ClaimTask
  <2>2. /\ r \in TaskRuntimeState /\ r.attempts \in Nat /\ run.revision \in Nat
        /\ MaxAttempts[t] \in Nat /\ LeaseDuration[t] \in Nat \ {0}
    BY <1>1, StateTypes, PlanTypes DEF TaskRuntimeState
  <2>3. p \in RunEvent
    BY <1>1, PlainType DEF EventKinds
  <2>4. <<c, run.revision + 1>> \in Tokens
    BY <2>2 DEF Tokens
  <2>5. /\ p.kind = "task_leased" /\ p.task = t /\ p.at = k.at
    BY DEF PlainEvent
  <2> HIDE DEF p
  <2>6. /\ e \in RunEvent /\ e.kind = "task_leased" /\ e.task = t /\ e.at = k.at
        /\ e.attempt = r.attempts + 1 /\ e.token \in Tokens /\ e.worker = k.worker
        /\ e.expires = k.at + LeaseDuration[t]
    <3>1. expires \in Nat /\ attempt \in Nat /\ token \in Tokens
      BY <1>1, <2>2, <2>4
    <3> HIDE DEF attempt, token, expires
    <3>2. /\ e \in RunEvent /\ e.kind = "task_leased" /\ e.task = t /\ e.at = k.at
          /\ e.attempt = attempt /\ e.token \in Tokens /\ e.worker = k.worker
          /\ e.expires = expires
      BY <1>1, <2>3, <3>1 DEF RunEvent, p, PlainEvent
    <3> QED BY <3>2 DEF attempt, expires
  <2> HIDE DEF e
  <2>7. LeasedAllowed(run, e)
    BY <1>1, <1>3, <2>2, <2>6 DEF LeasedAllowed
  <2>8. Allowed(run, e)
    BY <1>1, <1>3, <2>6, <2>7 DEF Allowed, TaskEventAllowed, Active, TransitionTimeAllowed
  <2>9. ProposalOwn([k EXCEPT !.pc = "append", !.event = e, !.expect = run.revision])
    <3> DEFINE q == [k EXCEPT !.pc = "append", !.event = e, !.expect = run.revision]
    <3>1. q.goal = "claim" /\ q.event = e /\ q.task = t /\ q.worker = k.worker
      BY <1>1 DEF Call
    <3>2. e.attempt \in 1 .. MaxAttempts[t]
      BY <1>3, <2>2, <2>6
    <3> HIDE DEF q
    <3>3. ProposalOwn(q)
      BY <2>6, <3>1, <3>2 DEF ProposalOwn
    <3> QED BY <3>3 DEF q
  <2> QED BY <1>1, <2>1, <2>6, <2>8, <2>9, ProposeOutcome
<1> QED BY <1>2, <1>3

\* Renewing a lease.
LEMMA RenewOutcome ==
  ASSUME CoordinatorInv, NEW c \in Calls, NEW k \in Call, CallArgs(k), RenewTaskLease(c, k)
  PROVE  LoadOutcome(c)
<1> DEFINE t == k.task
           r == run.tasks[t]
           granted == /\ Active
                      /\ TransitionTimeAllowed(k.at)
                      /\ RuntimeMatchesLease(r, k.lease)
                      /\ k.at <= r.expires
                      /\ ExtendsLease(k, r)
                      /\ run.revision + 1 + Reserved <= JournalLimit
           p == PlainEvent("task_lease_renewed", t, k.at)
           expires == k.at + LeaseDuration[t]
           e == [p EXCEPT !.attempt = r.attempts, !.token = r.token, !.worker = r.worker,
                          !.expires = expires]
<1>1. k.pc # "idle" /\ k.goal = "renew" /\ k.at \in Nat /\ t \in Tasks
  BY DEF RenewTaskLease, InTransition, CallArgs, Call
<1>2. CASE ~granted
  BY <1>2, ReturnOutcome DEF RenewTaskLease
<1>3. CASE granted
  <2>1. Propose(c, k, "append", e)
    BY <1>3 DEF RenewTaskLease
  <2>2. r \in TaskRuntimeState /\ LeaseDuration[t] \in Nat
    BY <1>1, StateTypes, PlanTypes
  <2>3. p \in RunEvent
    BY <1>1, PlainType DEF EventKinds
  <2>4. p.kind = "task_lease_renewed" /\ p.task = t /\ p.at = k.at
    BY DEF PlainEvent
  <2> HIDE DEF p
  <2>5. /\ e \in RunEvent /\ e.kind = "task_lease_renewed" /\ e.task = t /\ e.at = k.at
        /\ e.attempt = r.attempts /\ e.token = r.token /\ e.worker = r.worker
        /\ e.expires = k.at + LeaseDuration[t]
    <3>1. expires \in Nat
      BY <1>1, <2>2
    <3> HIDE DEF expires
    <3>2. /\ e \in RunEvent /\ e.kind = "task_lease_renewed" /\ e.task = t /\ e.at = k.at
          /\ e.attempt = r.attempts /\ e.token = r.token /\ e.worker = r.worker
          /\ e.expires = expires
      BY <1>1, <2>2, <2>3, <3>1 DEF RunEvent, TaskRuntimeState, p, PlainEvent
    <3> QED BY <3>2 DEF expires
  <2> HIDE DEF e
  <2>6. /\ MatchesLeaseResult(run, e) /\ e.worker = r.worker
        /\ e.expires > r.expires \/ (e.expires = r.expires /\ k.fraction)
        /\ run.status = "active" /\ e.at > 0 /\ e.at >= run.last
    BY <1>3, <2>5 DEF MatchesLeaseResult, RuntimeMatchesLease, ExtendsLease, Active,
       TransitionTimeAllowed
  <2>7. Appendable(run, k, e)
    <3>1. CASE e.expires > r.expires
      BY <1>1, <2>5, <2>6, <3>1 DEF Appendable, Allowed, TaskEventAllowed, RenewedAllowed
    <3>2. CASE e.expires = r.expires /\ k.fraction
      BY <1>1, <2>5, <2>6, <3>2 DEF Appendable, RepeatsExpiry
    <3> QED BY <2>6, <3>1, <3>2
  <2>8. ProposalOwn([k EXCEPT !.pc = "append", !.event = e, !.expect = run.revision])
    BY <1>1 DEF ProposalOwn, Call
  <2>9. Disposes(run, e)
    BY <2>5 DEF Disposes
  <2> QED BY <1>1, <2>1, <2>5, <2>7, <2>8, <2>9, ProposalOutcome
<1> QED BY <1>2, <1>3

\* A worker's completion, recorded, replayed or refused.
LEMMA CompleteOutcome ==
  ASSUME CoordinatorInv, NEW c \in Calls, NEW k \in Call, CallArgs(k), CompleteTask(c, k)
  PROVE  LoadOutcome(c)
<1> DEFINE t == k.task
           r == run.tasks[t]
           done == r.status \in {"succeeded", "failed"}
           replayed == done /\ CompletedTaskMatches(r, k.lease, k.result)
           accepted == /\ ~done
                       /\ RuntimeMatchesLease(r, k.lease)
                       /\ TransitionTimeAllowed(k.at)
                       /\ k.at <= r.expires
           kind == IF k.result.status = "succeeded" THEN "task_succeeded" ELSE "task_failed"
           p == PlainEvent(kind, t, k.at)
           e == [p EXCEPT !.attempt = r.attempts, !.token = r.token,
                          !.output = k.result.output, !.failure = k.result.failure,
                          !.retryAt = RetryTime(t, k.result.failure, k.at)]
<1>1. /\ k.pc # "idle" /\ k.goal = "complete" /\ k.at \in Nat /\ t \in Tasks
      /\ k.result \in Completions
  BY DEF CompleteTask, InTransition, CallArgs, Call
<1>2. \/ (\E o \in Outputs : k.result = Success(o))
      \/ (\E f \in Failures : k.result = Failure(f))
  BY <1>1 DEF Completions
<1>3. /\ k.result.status = "succeeded" => k.result.output \in Outputs /\ k.result.failure = None
      /\ k.result.status # "succeeded" =>
            k.result.status = "failed" /\ k.result.failure \in Failures /\ k.result.output = None
  <2>1. CASE \E o \in Outputs : k.result = Success(o)
    BY <2>1 DEF Success
  <2>2. CASE \E f \in Failures : k.result = Failure(f)
    BY <2>2 DEF Failure
  <2> QED BY <1>2, <2>1, <2>2
<1>4. CASE ~Active \/ (done /\ ~replayed) \/ (~done /\ ~accepted)
  BY <1>4, ReturnOutcome DEF CompleteTask
<1>5. CASE Active /\ replayed
  <2>1. /\ calls' = [calls EXCEPT ![c] = Idle] /\ UNCHANGED <<run, head, leases>>
        /\ acked' = IF k.result.status = "succeeded"
                    THEN acked \cup {<<t, k.result.output>>} ELSE acked
    BY <1>5 DEF CompleteTask, Acknowledge
  <2>2. k.result.status = "succeeded" => r.status = "succeeded" /\ r.output = k.result.output
    BY <1>5 DEF CompletedTaskMatches
  <2>3. acked' \subseteq (Tasks \X Outputs)
    BY <1>1, <1>3, <2>1 DEF CoordinatorInv
  <2>4. AckedDurable'
    BY <2>1, <2>2 DEF CoordinatorInv, AckedDurable
  <2> QED BY <2>1, <2>3, <2>4, IdleInv DEF LoadOutcome
<1>6. CASE Active /\ accepted
  <2>1. Propose(c, k, "append", e)
    BY <1>6 DEF CompleteTask
  <2>2. /\ r \in TaskRuntimeState /\ RetryDelay[t] \in Nat /\ r.attempts \in Nat
        /\ MaxAttempts[t] \in Nat
    BY <1>1, StateTypes, PlanTypes DEF TaskRuntimeState
  <2>3. kind \in EventKinds
    BY DEF EventKinds
  <2>4. p \in RunEvent /\ p.kind = kind /\ p.task = t /\ p.at = k.at
    BY <1>1, <2>3, PlainType DEF PlainEvent
  <2>5. RetryTime(t, k.result.failure, k.at) \in Nat
    BY <1>1, <2>2 DEF RetryTime
  <2>6. k.result.output \in Outputs \cup {None} /\ k.result.failure \in Failures \cup {None}
    BY <1>3
  <2> HIDE DEF p, kind
  <2>7. /\ e \in RunEvent /\ e.kind = kind /\ e.task = t /\ e.at = k.at
        /\ e.attempt = r.attempts /\ e.token = r.token
        /\ e.output = k.result.output /\ e.failure = k.result.failure
        /\ e.retryAt = RetryTime(t, k.result.failure, k.at)
    BY <2>2, <2>4, <2>5, <2>6 DEF RunEvent, TaskRuntimeState, p, PlainEvent
  <2> HIDE DEF e
  <2>8. MatchesLeaseResult(run, e)
    BY <1>6, <2>7 DEF MatchesLeaseResult, RuntimeMatchesLease
  <2>9. TaskEventAllowed(run, e)
    <3>1. CASE k.result.status = "succeeded"
      BY <3>1, <1>1, <1>3, <2>7, <2>8 DEF TaskEventAllowed, kind
    <3>2. CASE k.result.status # "succeeded"
      <4>1. e.kind = "task_failed" /\ e.failure \in Failures
        BY <3>2, <1>3, <2>7 DEF kind
      <4>2. k.at > 0
        BY <1>6 DEF TransitionTimeAllowed
      <4>3. /\ e.retryAt # 0 <=> (Retryable(e.failure) /\ r.attempts < MaxAttempts[t])
            /\ e.retryAt # 0 => e.retryAt >= e.at
        BY <1>1, <2>2, <2>7, <4>2 DEF RetryTime
      <4> QED BY <1>1, <2>7, <2>8, <4>1, <4>3 DEF TaskEventAllowed, FailedAllowed
    <3> QED BY <3>1, <3>2
  <2>10. Allowed(run, e)
    BY <1>6, <2>7, <2>9 DEF Allowed, Active, TransitionTimeAllowed
  <2>11. ProposalOwn([k EXCEPT !.pc = "append", !.event = e, !.expect = run.revision])
    <3> DEFINE q == [k EXCEPT !.pc = "append", !.event = e, !.expect = run.revision]
    <3>1. q.goal = "complete" /\ q.event = e /\ q.task = t /\ q.result = k.result
      BY <1>1 DEF Call
    <3> HIDE DEF q
    <3>2. ProposalOwn(q)
      BY <2>7, <3>1 DEF ProposalOwn, kind
    <3> QED BY <3>2 DEF q
  <2>12. e.kind # "run_succeeded" /\ e.kind # "run_failed"
    BY <2>7 DEF kind
  <2> QED BY <1>1, <2>1, <2>7, <2>10, <2>11, <2>12, ProposeOutcome
<1> QED BY <1>4, <1>5, <1>6

\* Recording the success of the run.
LEMMA SucceedOutcome ==
  ASSUME CoordinatorInv, NEW c \in Calls, NEW k \in Call, CallArgs(k), SucceedRun(c, k)
  PROVE  LoadOutcome(c)
<1> DEFINE granted == /\ Active
                      /\ TerminalCompletion(run) = k.result
                      /\ TransitionTimeAllowed(k.at)
                      /\ CanSucceed(run)
           e == [PlainEvent("run_succeeded", None, k.at) EXCEPT !.output = k.result.output]
<1>1. /\ k.pc # "idle" /\ k.goal = "succeed" /\ k.at \in Nat
      /\ k.result \in {Success(o) : o \in Outputs}
  BY DEF SucceedRun, InTransition, CallArgs, Call
<1>2. CASE ~granted
  BY <1>2, ReturnOutcome DEF SucceedRun
<1>3. CASE granted
  <2>1. Propose(c, k, "append", e)
    BY <1>3 DEF SucceedRun
  <2>2. k.result.status = "succeeded" /\ k.result.output \in Outputs
    BY <1>1 DEF Success
  <2>3. k.result.output = run.tasks[ResultTask].output
    <3>1. k.result = Success(run.tasks[ResultTask].output)
      BY <1>3, <2>2, DispositionType
    <3> QED BY <3>1 DEF Success
  <2>4. PlainEvent("run_succeeded", None, k.at) \in RunEvent
    BY <1>1, PlainType DEF EventKinds
  <2>5. /\ e \in RunEvent /\ e.kind = "run_succeeded" /\ e.task = None /\ e.at = k.at
        /\ e.output = k.result.output
    BY <2>2, <2>4 DEF PlainEvent, RunEvent
  <2> HIDE DEF e
  <2>6. Allowed(run, e)
    BY <1>3, <2>2, <2>5 DEF Allowed, RunEventAllowed, Active, TransitionTimeAllowed
  <2>7. ProposalOwn([k EXCEPT !.pc = "append", !.event = e, !.expect = run.revision])
    BY <1>1 DEF ProposalOwn, Call
  <2> QED BY <1>1, <2>1, <2>3, <2>5, <2>6, <2>7, ProposeOutcome
<1> QED BY <1>2, <1>3

\* Recording the failure of the run.
LEMMA FailOutcome ==
  ASSUME CoordinatorInv, NEW c \in Calls, NEW k \in Call, CallArgs(k), FailRun(c, k)
  PROVE  LoadOutcome(c)
<1> DEFINE granted == /\ Active
                      /\ TerminalCompletion(run) = k.result
                      /\ TransitionTimeAllowed(k.at)
                      /\ CanFail(run)
           e == [PlainEvent("run_failed", None, k.at) EXCEPT !.failure = k.result.failure]
<1>1. /\ k.pc # "idle" /\ k.goal = "fail" /\ k.at \in Nat
      /\ k.result \in {Failure(f) : f \in Failures}
  BY DEF FailRun, InTransition, CallArgs, Call
<1>2. CASE ~granted
  BY <1>2, ReturnOutcome DEF FailRun
<1>3. CASE granted
  <2>1. Propose(c, k, "append", e)
    BY <1>3 DEF FailRun
  <2>2. k.result.failure \in Failures
    BY <1>1 DEF Failure
  <2>3. PlainEvent("run_failed", None, k.at) \in RunEvent
    BY <1>1, PlainType DEF EventKinds
  <2>4. /\ e \in RunEvent /\ e.kind = "run_failed" /\ e.task = None /\ e.at = k.at
        /\ e.failure = k.result.failure
    BY <2>2, <2>3 DEF PlainEvent, RunEvent
  <2> HIDE DEF e
  <2>5. Allowed(run, e)
    BY <1>3, <2>2, <2>4 DEF Allowed, RunEventAllowed, Active, TransitionTimeAllowed
  <2>6. ProposalOwn([k EXCEPT !.pc = "append", !.event = e, !.expect = run.revision])
    BY <1>1 DEF ProposalOwn, Call
  <2>7. TerminalCompletion(run) = Failure(e.failure)
    BY <1>1, <1>3, <2>4 DEF Failure
  <2> QED BY <1>1, <2>1, <2>4, <2>5, <2>6, <2>7, ProposeOutcome
<1> QED BY <1>2, <1>3

\* Canceling the run.
LEMMA CancelOutcome ==
  ASSUME CoordinatorInv, NEW c \in Calls, NEW k \in Call, CallArgs(k), CancelRun(c, k)
  PROVE  LoadOutcome(c)
<1> DEFINE granted == Active /\ TransitionTimeAllowed(k.at)
           e == [PlainEvent("run_canceled", None, k.at) EXCEPT !.failure = "canceled"]
<1>1. k.pc # "idle" /\ k.goal = "cancel" /\ k.at \in Nat
  BY DEF CancelRun, InTransition, CallArgs, Call
<1>2. CASE ~granted
  BY <1>2, ReturnOutcome DEF CancelRun
<1>3. CASE granted
  <2>1. Propose(c, k, "append", e)
    BY <1>3 DEF CancelRun
  <2>2. PlainEvent("run_canceled", None, k.at) \in RunEvent
    BY <1>1, PlainType DEF EventKinds
  <2>3. /\ e \in RunEvent /\ e.kind = "run_canceled" /\ e.task = None /\ e.at = k.at
        /\ e.failure = "canceled"
    BY <2>2 DEF PlainEvent, RunEvent, Failures
  <2> HIDE DEF e
  <2>4. Allowed(run, e)
    BY <1>3, <2>3 DEF Allowed, RunEventAllowed, Active, TransitionTimeAllowed
  <2>5. ProposalOwn([k EXCEPT !.pc = "append", !.event = e, !.expect = run.revision])
    BY <1>1 DEF ProposalOwn, Call
  <2> QED BY <1>1, <2>1, <2>3, <2>4, <2>5, ProposeOutcome
<1> QED BY <1>2, <1>3

\* Every load ends soundly.
LEMMA LoadSound ==
  ASSUME CoordinatorInv, NEW c \in Calls, NEW k \in Call, CallArgs(k), Load(c, k)
  PROVE  LoadOutcome(c)
BY AdvanceOutcome, OpenOutcome, ClaimOutcome, RenewOutcome, CompleteOutcome, SucceedOutcome,
   FailOutcome, CancelOutcome DEF Load

----------------------------------------------------------------------------
(* Starting, reloading and crashing. *)

\* An outcome of a load preserves the invariant.
LEMMA OutcomeInv ==
  ASSUME CoordinatorInv, NEW c \in Calls, LoadOutcome(c)
  PROVE  CoordinatorInv' /\ UNCHANGED replayVars
<1>1. UNCHANGED replayVars
  BY DEF LoadOutcome, replayVars
<1>2. ReplayInv'
  BY <1>1, ReplayInvStep DEF CoordinatorInv
<1>3. PICK k \in Call : CallInv(k) /\ calls' = [calls EXCEPT ![c] = k]
  BY DEF LoadOutcome
<1>4. ASSUME NEW q, CallInv(q) PROVE CallInv(q)'
  BY <1>1, <1>4 DEF CallInv, CallArgs, ProposalCurrent, ProposalOwn, Proposing, replayVars
<1>5. calls' \in [Calls -> Call] /\ \A d \in Calls : calls'[d] = k \/ calls'[d] = calls[d]
  BY <1>3 DEF CoordinatorInv
<1>6. \A d \in Calls : CallInv(calls[d])'
  <2> SUFFICES ASSUME NEW d \in Calls PROVE CallInv(calls[d])'
    OBVIOUS
  <2>1. CallInv(k)' /\ CallInv(calls[d])
    BY <1>3, <1>4 DEF CoordinatorInv
  <2>2. CASE calls'[d] = k
    BY <2>1, <2>2 DEF CallInv, CallArgs, ProposalCurrent, ProposalOwn, Proposing
  <2>3. CASE calls'[d] = calls[d]
    BY <2>1, <2>3, <1>1 DEF CallInv, CallArgs, ProposalCurrent, ProposalOwn, Proposing, replayVars
  <2> QED BY <1>5, <2>2, <2>3
<1>7. LeasesRecorded' /\ OneLeasePerAttempt' /\ SuccessIsComplete' /\ FailureDerived'
  BY DEF LoadOutcome, CoordinatorInv, LeasesRecorded, OneLeasePerAttempt, SuccessIsComplete,
     FailureDerived
<1>8. leases' \subseteq TaskLease /\ acked' \subseteq (Tasks \X Outputs) /\ AckedDurable'
  BY DEF LoadOutcome, CoordinatorInv
<1> QED BY <1>1, <1>2, <1>5, <1>6, <1>7, <1>8 DEF CoordinatorInv

\* A new call starts with arguments that fit its goal.
LEMMA StartOutcome ==
  ASSUME CoordinatorInv, NEW c \in Calls, NEW fraction \in Fractions \cup {FALSE}, NEW goal \in Goals, NEW t \in Tasks \cup {None},
         NEW w \in Workers \cup {None}, NEW l \in TaskLease \cup {None},
         NEW r \in TaskCompletion \cup {None},
         goal = "claim" => t \in Tasks /\ w \in Workers,
         goal \in {"renew", "complete"} => t \in Tasks /\ l \in TaskLease,
         goal = "complete" => r \in Completions,
         goal = "succeed" => r \in {Success(o) : o \in Outputs},
         goal = "fail" => r \in {Failure(f) : f \in Failures},
         StartAt(c, fraction, goal, t, w, l, r)
  PROVE  LoadOutcome(c)
<1>1. PICK at \in Times :
        Load(c, [Idle EXCEPT !.pc = FirstLoop(goal), !.goal = goal, !.at = at,
                             !.fraction = fraction, !.task = t, !.worker = w,
                             !.lease = l, !.result = r])
  BY DEF StartAt
<1> DEFINE k == [Idle EXCEPT !.pc = FirstLoop(goal), !.goal = goal, !.at = at,
                             !.fraction = fraction, !.task = t, !.worker = w,
                             !.lease = l, !.result = r]
<1>2. at \in Nat /\ at > 0
  BY CoordinatorAssumption
<1>f. fraction \in BOOLEAN
  BY CoordinatorAssumption, Zenon
<1>3. FirstLoop(goal) \in {"advance", "transition"}
  BY DEF FirstLoop
<1>4. k \in Call
  BY <1>2, <1>f, <1>3 DEF Idle, Call
<1>5. /\ k.pc = FirstLoop(goal) /\ k.goal = goal /\ k.at = at /\ k.task = t
      /\ k.worker = w /\ k.lease = l /\ k.result = r /\ k.fraction = fraction
  BY DEF Idle
<1> HIDE DEF k
<1>6. CallArgs(k)
  BY <1>2, <1>4, <1>5 DEF CallArgs
<1>7. Load(c, k)
  BY <1>1 DEF k
<1> QED BY <1>4, <1>6, <1>7, LoadSound

\* The completions a caller may report are typed.
LEMMA ResultTypes ==
  ASSUME NEW r \in Results
  PROVE  /\ r \in Completions /\ r \in TaskCompletion
         /\ r.status = "succeeded" => r \in {Success(o) : o \in Outputs}
         /\ r.status # "succeeded" => r \in {Failure(f) : f \in Failures}
<1>1. r \in Completions
  BY CoordinatorAssumption
<1>2. CASE r \in {Success(o) : o \in Outputs}
  BY <1>1, <1>2, CompletionTypes DEF Success
<1>3. CASE r \in {Failure(f) : f \in Failures}
  BY <1>1, <1>3, CompletionTypes DEF Failure
<1> QED BY <1>1, <1>2, <1>3 DEF Completions

\* Starting a call preserves the invariant.
LEMMA BeginOutcome ==
  ASSUME CoordinatorInv, NEW c \in Calls, Begin(c)
  PROVE  LoadOutcome(c)
<1>1. CASE StartRun(c)
  <2>1. PICK goal \in {"open", "advance", "reconcile", "cancel"} :
            StartAt(c, FALSE, goal, None, None, None, None)
    BY <1>1 DEF StartRun, Start
  <2> QED BY <2>1, StartOutcome DEF Goals
<1>2. CASE StartClaim(c)
  <2>1. PICK t \in Tasks, w \in Workers : StartAt(c, FALSE, "claim", t, w, None, None)
    BY <1>2 DEF StartClaim, Start
  <2> QED BY <2>1, StartOutcome DEF Goals
<1>3. CASE StartRenew(c)
  <2>1. PICK l \in leases, fraction \in Fractions :
            StartAt(c, fraction, "renew", l.task, None, l, None)
    BY <1>3 DEF StartRenew
  <2>2. l \in TaskLease /\ l.task \in Tasks
    BY <2>1 DEF CoordinatorInv, TaskLease
  <2> QED BY <2>1, <2>2, StartOutcome DEF Goals
<1>4. CASE StartComplete(c)
  <2>1. PICK l \in leases, r \in Results : StartAt(c, FALSE, "complete", l.task, None, l, r)
    BY <1>4 DEF StartComplete, Start
  <2>2. l \in TaskLease /\ l.task \in Tasks
    BY <2>1 DEF CoordinatorInv, TaskLease
  <2> QED BY <2>1, <2>2, ResultTypes, StartOutcome DEF Goals
<1>5. CASE StartFinalize(c)
  <2>1. PICK r \in Results :
          StartAt(c, FALSE, IF r.status = "succeeded" THEN "succeed" ELSE "fail",
                  None, None, None, r)
    BY <1>5 DEF StartFinalize, Start
  <2>2. CASE r.status = "succeeded"
    BY <2>1, <2>2, ResultTypes, StartOutcome DEF Goals
  <2>3. CASE r.status # "succeeded"
    BY <2>1, <2>3, ResultTypes, StartOutcome DEF Goals
  <2> QED BY <2>2, <2>3
<1> QED BY <1>1, <1>2, <1>3, <1>4, <1>5 DEF Begin

\* So does loading again after a conflict or from Advance.
LEMMA ReloadOutcome ==
  ASSUME CoordinatorInv, NEW c \in Calls, Reload(c)
  PROVE  LoadOutcome(c)
BY LoadSound DEF Reload, CoordinatorInv, CallInv

----------------------------------------------------------------------------
(* Appending. *)

\* Where the append leaves its own call: loading again, or gone.
LEMMA NextLoadInv ==
  ASSUME CoordinatorInv, NEW c \in Calls, Appending(c), NextLoad(c)
  PROVE  \E k \in Call : CallArgs(k) /\ ~Proposing(k) /\ calls' = [calls EXCEPT ![c] = k]
<1> DEFINE old == calls[c]
           pc == IF old.pc = "advance_append" THEN "advance" ELSE "transition"
           loads == old.loads + 1
           k == [old EXCEPT !.pc = pc, !.loads = loads, !.event = None, !.expect = 0]
<1>1. CallArgs(old) /\ old \in Call /\ old.pc # "idle"
  BY DEF CoordinatorInv, CallInv, Appending
<1>2. calls' = [calls EXCEPT ![c] = k] \/ calls' = [calls EXCEPT ![c] = Idle]
  BY DEF NextLoad
<1>3. loads \in Nat /\ pc \in {"advance", "transition"}
  BY <1>1 DEF Call
<1> HIDE DEF pc, loads, old
<1>4. k \in Call
  BY <1>1, <1>3 DEF Call
<1>5. /\ k.pc = pc /\ k.goal = old.goal /\ k.at = old.at /\ k.task = old.task
      /\ k.worker = old.worker /\ k.lease = old.lease /\ k.result = old.result
      /\ k.fraction = old.fraction
  BY <1>1 DEF Call
<1> HIDE DEF k
<1>6. CallArgs(k) /\ ~Proposing(k)
  BY <1>1, <1>3, <1>4, <1>5 DEF CallArgs, Proposing
<1>7. Idle \in Call /\ CallArgs(Idle) /\ ~Proposing(Idle)
  BY IdleInv DEF CallInv, Idle, Proposing
<1> QED BY <1>2, <1>4, <1>6, <1>7

\* The calls after an append: a moved head voids what others proposed on it.
LEMMA CallsAfterAppend ==
  ASSUME CoordinatorInv, NEW c \in Calls, run' \in ReviewRunState,
         run'.revision > run.revision \/ run' = run,
         \E k \in Call : CallArgs(k) /\ ~Proposing(k) /\ calls' = [calls EXCEPT ![c] = k]
  PROVE  calls' \in [Calls -> Call] /\ \A d \in Calls : CallInv(calls[d])'
<1>1. PICK k \in Call : CallArgs(k) /\ ~Proposing(k) /\ calls' = [calls EXCEPT ![c] = k]
  OBVIOUS
<1>2. calls' \in [Calls -> Call] /\ calls'[c] = k /\ \A d \in Calls \ {c} : calls'[d] = calls[d]
  BY <1>1 DEF CoordinatorInv
<1>3. CallInv(calls[c])'
  BY <1>1, <1>2 DEF CallInv, CallArgs, ProposalCurrent, ProposalOwn, Proposing
<1>4. ASSUME NEW d \in Calls, d # c PROVE CallInv(calls[d])'
  <2>1. CallInv(calls[d]) /\ calls[d] \in Call /\ calls'[d] = calls[d]
    BY <1>2, <1>4 DEF CoordinatorInv
  <2>2. calls[d].expect \in Nat /\ run.revision \in Nat /\ run'.revision \in Nat
    BY <2>1, StateTypes DEF Call, ReviewRunState
  <2>3. CASE run' = run
    BY <2>1, <2>3 DEF CallInv, CallArgs, ProposalCurrent, ProposalOwn, Proposing
  <2>4. CASE run'.revision > run.revision
    <3>1. CallArgs(calls[d])' /\ ProposalOwn(calls[d])'
      BY <2>1 DEF CallInv, CallArgs, ProposalOwn
    <3>2. ProposalCurrent(calls[d])'
      BY <2>1, <2>2, <2>4 DEF CallInv, ProposalCurrent, Proposing
    <3> QED BY <3>1, <3>2 DEF CallInv
  <2> QED BY <2>3, <2>4
<1> QED BY <1>2, <1>3, <1>4

\* A step of the journal: one that replay follows, or a repeated renewal,
\* which takes a clock reading with a fraction.
JournalStep == ReplayNext \/ (RepeatedRenewal /\ TRUE \in Fractions)

\* Replay refuses a renewal that repeats the expiry of its lease.
LEMMA RepeatRefused ==
  ASSUME NEW s \in ReviewRunState, NEW e \in RunEvent, RepeatsExpiry(s, e)
  PROVE  Replay(s, e) = Unreadable(s)
<1>1. s.tasks[e.task].expires \in Nat
  BY TaskType DEF RepeatsExpiry, TaskRuntimeState
<1>2. ~Allowed(s, e)
  BY <1>1 DEF RepeatsExpiry, Allowed, TaskEventAllowed, RunEventAllowed, RenewedAllowed
<1> QED BY <1>2 DEF Replay

\* An appended event is a step of the journal.
LEMMA AppendIsReplay ==
  ASSUME CoordinatorInv, NEW c \in Calls, Appending(c), ~HeadMoved(c),
         run' = Replay(run, calls[c].event), head' = calls[c].event
  PROVE  /\ JournalStep
         /\ run' \in ReviewRunState /\ run'.revision > run.revision
         /\ Disposes(run, head')
<1>1. /\ head' \in RunEvent /\ Appendable(run, calls[c], head') /\ Disposes(run, head')
      /\ calls[c].fraction => TRUE \in Fractions
  BY DEF CoordinatorInv, CallInv, CallArgs, ProposalCurrent, Proposing, Appending, HeadMoved
<1>2. run \in ReviewRunState /\ run.revision \in Nat /\ ReplayTypeOK
  BY StateTypes DEF CoordinatorInv, ReplayInv
<1>3. CASE Allowed(run, head')
  <2>1. ReplayNext
    BY <1>1, <1>3 DEF ReplayNext, Replay
  <2>2. run' \in ReviewRunState
    BY <1>2, <2>1, ReplayStepTypes
  <2>3. run'.revision > run.revision
    BY <1>2, <1>3 DEF Replay, Apply
  <2> QED BY <1>1, <2>1, <2>2, <2>3 DEF JournalStep
<1>4. CASE calls[c].fraction /\ RepeatsExpiry(run, head')
  <2>1. RepeatedRenewal /\ TRUE \in Fractions
    BY <1>1, <1>2, <1>4, RepeatRefused DEF RepeatedRenewal
  <2>2. run' \in ReviewRunState /\ run'.revision = run.revision + 1
    BY <1>2, <2>1, RepeatedStep
  <2>3. run'.revision > run.revision
    BY <1>2, <2>2
  <2> QED BY <1>1, <2>1, <2>2, <2>3 DEF JournalStep
<1> QED BY <1>1, <1>3, <1>4 DEF Appendable

\* What a replay step preserves of the acknowledgements.
LEMMA AckedReplayStep ==
  ASSUME CoordinatorInv, ReplayNext, NEW a \in acked
  PROVE  run'.tasks[a[1]].status = "succeeded" /\ run'.tasks[a[1]].output = a[2]
<1>1. a[1] \in Tasks /\ run.tasks[a[1]].status = "succeeded" /\ run.tasks[a[1]].output = a[2]
  BY DEF CoordinatorInv, AckedDurable
<1>2. run'.tasks[a[1]] = run.tasks[a[1]]
  BY <1>1, ReplayStepTypes, SettledIsFinal DEF Settled, CoordinatorInv, ReplayInv
<1> QED BY <1>1, <1>2

\* What a replay step preserves of a lease: an attempt only grows.
LEMMA LeaseReplayStep ==
  ASSUME CoordinatorInv, ReplayNext, NEW l \in leases
  PROVE  LET r == run'.tasks[l.task] IN
         /\ l.attempt <= r.attempts
         /\ l.attempt = r.attempts =>
             /\ l.token = r.token
             /\ r.status = "leased" => l.worker = r.worker
         /\ head'.kind = "task_leased" /\ head'.task = l.task => l.attempt < head'.attempt
<1> DEFINE t == l.task
           r == run.tasks[t]
           q == ApplyTask(r, head')
<1>1. /\ run \in ReviewRunState /\ head' \in RunEvent /\ Allowed(run, head')
      /\ run' = Apply(run, head') /\ run' \in ReviewRunState
  BY ReplayStepTypes DEF CoordinatorInv, ReplayInv
<1>2. t \in Tasks /\ l.attempt \in Nat
  BY DEF CoordinatorInv, TaskLease
<1>3. /\ r \in TaskRuntimeState /\ r.attempts \in Nat /\ l.attempt <= r.attempts
      /\ l.attempt = r.attempts => l.token = r.token /\ (r.status = "leased" => l.worker = r.worker)
  BY <1>1, <1>2, TaskType DEF CoordinatorInv, LeasesRecorded, TaskRuntimeState
<1>4. CASE t # head'.task
  BY <1>1, <1>2, <1>3, <1>4, ApplyOther
<1>5. CASE t = head'.task
  <2>1. TaskEventAllowed(run, head')
    BY <1>1, <1>2, <1>5, NoneAssumption DEF Allowed, RunEventAllowed
  <2>2. q \in TaskRuntimeState /\ run.revision \in Nat
    BY <1>1, <1>3, ApplyTaskType DEF ReviewRunState
  <2>3. run'.tasks[t] = [q EXCEPT !.lastRevision = run.revision + 1]
    BY <1>1, <1>2, <1>5, ApplyOwn
  <2>4. /\ run'.tasks[t].attempts = q.attempts /\ run'.tasks[t].token = q.token
        /\ run'.tasks[t].status = q.status /\ run'.tasks[t].worker = q.worker
    <3> HIDE DEF q
    <3> QED BY <2>2, <2>3 DEF TaskRuntimeState
  <2>5. CASE head'.kind = "task_leased"
    <3>1. head'.attempt = r.attempts + 1
      BY <1>5, <2>1, <2>5 DEF TaskEventAllowed, LeasedAllowed
    <3>2. q.attempts = head'.attempt
      BY <1>3, <2>5 DEF ApplyTask, TaskRuntimeState
    <3> HIDE DEF q, r
    <3> QED BY <1>2, <1>3, <2>4, <3>1, <3>2
  <2>6. CASE head'.kind # "task_leased"
    <3>1. q.attempts = r.attempts /\ q.token = r.token
      BY <1>3, <2>6 DEF ApplyTask, TaskRuntimeState
    <3>2. q.status = "leased" => r.status = "leased" /\ q.worker = r.worker
      <4>1. head'.kind = "task_lease_renewed" => r.status = "leased"
        BY <1>5, <2>1 DEF TaskEventAllowed, RenewedAllowed, MatchesLeaseResult
      <4> QED BY <1>3, <2>6, <4>1 DEF ApplyTask, TaskRuntimeState
    <3> HIDE DEF q, r
    <3> QED BY <1>3, <2>4, <2>6, <3>1, <3>2
  <2> QED BY <2>5, <2>6
<1> QED BY <1>4, <1>5

\* After an append its call loads again or is gone.
LEMMA AppendedCalls ==
  ASSUME CoordinatorInv, NEW c \in Calls, Appending(c), Appended(c)
  PROVE  \E k \in Call : CallArgs(k) /\ ~Proposing(k) /\ calls' = [calls EXCEPT ![c] = k]
<1>1. CASE calls[c].pc = "advance_append"
  BY <1>1, NextLoadInv DEF Appended
<1>2. CASE calls[c].pc # "advance_append"
  BY <1>2, IdleInv DEF Appended, CallInv, Idle, Proposing
<1> QED BY <1>1, <1>2

\* A recorded claim or completion, whether this append wrote it or found it
\* at the head already.
LEMMA AppendedInv ==
  ASSUME CoordinatorInv, NEW c \in Calls, Appending(c), Appended(c),
         head' = calls[c].event, run'.revision > 0, ReplayInv',
         JournalStep \/ UNCHANGED <<run, head>>
  PROVE  /\ leases' \subseteq TaskLease
         /\ acked' \subseteq (Tasks \X Outputs)
         /\ AckedDurable' /\ LeasesRecorded' /\ OneLeasePerAttempt'
<1> DEFINE k == calls[c]
           claims == k.pc # "advance_append" /\ k.goal = "claim"
           acks == k.pc # "advance_append" /\ k.goal = "complete" /\ k.result.status = "succeeded"
           m == LeaseOf(k)
           a == <<k.task, k.result.output>>
           Holds(l) == LET r == run'.tasks[l.task] IN
               /\ l.attempt <= r.attempts
               /\ l.attempt = r.attempts =>
                   l.token = r.token /\ (r.status = "leased" => l.worker = r.worker)
<1>0. ReplayNext \/ run'.tasks = run.tasks
  BY RepeatedStep DEF JournalStep, CoordinatorInv, ReplayInv
<1>1. /\ CallArgs(k) /\ ProposalOwn(k) /\ head' \in RunEvent /\ HeadRecorded'
      /\ k.pc = "advance_append" \/ k.pc = "append"
  BY DEF CoordinatorInv, CallInv, ProposalCurrent, Proposing, Appending, ReplayInv
<1>2. leases' = leases \/ (claims /\ leases' = leases \cup {m})
  BY DEF Appended
<1>3. acked' = acked \/ (acks /\ acked' = acked \cup {a})
  BY DEF Appended, Acknowledge
<1>4. ASSUME claims
      PROVE  /\ m \in TaskLease /\ m.task = head'.task /\ m.attempt = head'.attempt
             /\ m.token = head'.token /\ m.worker = head'.worker
             /\ m.attempt \in 1 .. MaxAttempts[m.task] /\ head'.kind = "task_leased"
             /\ run'.tasks[m.task].status = "leased" /\ run'.tasks[m.task].attempts = m.attempt
             /\ run'.tasks[m.task].token = m.token /\ run'.tasks[m.task].worker = m.worker
  <2>1. /\ k.task \in Tasks /\ k.worker \in Workers /\ head'.kind = "task_leased"
        /\ head'.task = k.task /\ head'.worker = k.worker /\ head'.token \in Tokens
        /\ head'.attempt \in 1 .. MaxAttempts[k.task] /\ MaxAttempts[k.task] \in Nat
    BY <1>1, <1>4, PlanTypes DEF CallArgs, ProposalOwn
  <2>2. /\ run'.tasks[k.task].status = "leased" /\ run'.tasks[k.task].attempts = head'.attempt
        /\ run'.tasks[k.task].token = head'.token /\ run'.tasks[k.task].worker = head'.worker
    BY <1>1, <2>1 DEF HeadRecorded
  <2>3. m = [task |-> k.task, attempt |-> head'.attempt, token |-> head'.token, worker |-> k.worker]
    BY DEF LeaseOf
  <2> HIDE DEF m, k
  <2> QED BY <2>1, <2>2, <2>3 DEF TaskLease
<1>5. ASSUME acks
      PROVE  /\ a \in Tasks \X Outputs
             /\ run'.tasks[a[1]].status = "succeeded" /\ run'.tasks[a[1]].output = a[2]
  <2>1. /\ k.task \in Tasks /\ k.result \in Completions
        /\ head'.kind = "task_succeeded" /\ head'.task = k.task /\ head'.output = k.result.output
    BY <1>1, <1>5 DEF CallArgs, ProposalOwn
  <2>2. k.result.output \in Outputs
    BY <1>5, <2>1 DEF Completions, Success, Failure
  <2>3. /\ run'.tasks[k.task].status = "succeeded" /\ run'.tasks[k.task].output = k.result.output
    BY <1>1, <2>1 DEF HeadRecorded
  <2> QED BY <2>1, <2>2, <2>3
<1>6. ASSUME NEW l \in leases
      PROVE  Holds(l) /\ l \in TaskLease /\ l.attempt \in 1 .. MaxAttempts[l.task]
  <2>1. l \in TaskLease /\ l.attempt \in 1 .. MaxAttempts[l.task]
    BY DEF CoordinatorInv, OneLeasePerAttempt
  <2>2. CASE ReplayNext
    BY <2>1, <2>2, LeaseReplayStep
  <2>3. CASE run'.tasks = run.tasks
    BY <2>1, <2>3 DEF CoordinatorInv, LeasesRecorded
  <2> QED BY <1>0, <2>1, <2>2, <2>3
<1>7. ASSUME claims, NEW l \in leases, l.task = m.task, l.attempt = m.attempt
      PROVE  l = m
  <2>1. CASE ReplayNext
    <3>1. l.attempt < head'.attempt /\ l.attempt \in Nat
      BY <1>4, <1>7, <2>1, LeaseReplayStep DEF CoordinatorInv, TaskLease
    <3> QED BY <1>4, <1>7, <3>1
  <2>2. CASE run'.tasks = run.tasks
    <3>1. l.token = m.token /\ l.worker = m.worker
      BY <1>4, <1>6, <1>7
    <3>2. l \in TaskLease /\ m \in TaskLease
      BY <1>4, <1>6, <1>7
    <3> HIDE DEF m
    <3> QED BY <1>7, <3>1, <3>2 DEF TaskLease
  <2> QED BY <1>0, <2>1, <2>2
<1> HIDE DEF m, a, claims, acks, k
<1>8. LeasesRecorded'
  <2>1. \A l \in leases' : Holds(l)
    BY <1>2, <1>4, <1>6 DEF TaskLease
  <2> QED BY <2>1 DEF LeasesRecorded
<1>9. OneLeasePerAttempt'
  BY <1>2, <1>4, <1>6, <1>7 DEF OneLeasePerAttempt, CoordinatorInv
<1>10. AckedDurable'
  <2>1. ASSUME NEW b \in acked
        PROVE  run'.tasks[b[1]].status = "succeeded" /\ run'.tasks[b[1]].output = b[2]
    <3>1. CASE ReplayNext
      BY <3>1, AckedReplayStep
    <3>2. CASE run'.tasks = run.tasks
      BY <3>2 DEF CoordinatorInv, AckedDurable
    <3> QED BY <1>0, <3>1, <3>2
  <2> QED BY <1>3, <1>5, <2>1 DEF AckedDurable
<1>11. leases' \subseteq TaskLease /\ acked' \subseteq (Tasks \X Outputs)
  BY <1>2, <1>3, <1>4, <1>5, <1>6 DEF CoordinatorInv
<1> QED BY <1>8, <1>9, <1>10, <1>11

\* A success is recorded with every required result in place.
LEMMA SuccessStep ==
  ASSUME CoordinatorInv, JournalStep, Disposes(run, head')
  PROVE  SuccessIsComplete'
<1> SUFFICES ASSUME run'.status = "succeeded"
             PROVE  /\ \A t \in Required : run'.tasks[t].status = "succeeded"
                    /\ run'.output = run'.tasks[ResultTask].output
  BY DEF SuccessIsComplete
<1>1. /\ run \in ReviewRunState /\ head' \in RunEvent /\ Allowed(run, head')
      /\ run' = Apply(run, head')
  BY ReplayStepTypes, RepeatedStep DEF CoordinatorInv, ReplayInv, JournalStep
<1>2. head'.kind = "run_succeeded"
  BY <1>1 DEF Apply, ApplyStatus, Allowed
<1>3. head'.task = None /\ CanSucceed(run)
  BY <1>1, <1>2 DEF Allowed, TaskEventAllowed, RunEventAllowed
<1>4. \A t \in Tasks : run'.tasks[t] = run.tasks[t]
  BY <1>1, <1>3, NoneAssumption, ApplyOther
<1>5. run'.output = head'.output
  BY <1>1, <1>2 DEF Apply
<1> QED BY <1>2, <1>3, <1>4, <1>5, ResultTaskRequired, PlanTypes DEF CanSucceed, Disposes

\* A failure is recorded as the tasks determine it, and stays.
LEMMA FailureStep ==
  ASSUME CoordinatorInv, JournalStep, Disposes(run, head')
  PROVE  FailureDerived'
<1> SUFFICES ASSUME run'.status = "failed"
             PROVE  TerminalCompletion(run') = Failure(run'.failure)
  BY DEF FailureDerived
<1>1. /\ run \in ReviewRunState /\ head' \in RunEvent /\ Allowed(run, head')
      /\ run' = Apply(run, head') /\ ReplayNext
  BY ReplayStepTypes, RepeatedStep DEF CoordinatorInv, ReplayInv, JournalStep
<1>2. head'.kind = "run_failed"
  BY <1>1 DEF Apply, ApplyStatus, Allowed
<1>3. TerminalCompletion(run) = Failure(head'.failure)
  BY <1>2 DEF Disposes
<1>4. TerminalCompletion(run') = TerminalCompletion(run)
  BY <1>1, <1>3, DispositionStable DEF CoordinatorInv, Failure
<1>5. run'.failure = head'.failure
  BY <1>1, <1>2 DEF Apply
<1> QED BY <1>3, <1>4, <1>5

\* The journal takes the event.
LEMMA AppendEventInv ==
  ASSUME CoordinatorInv, NEW c \in Calls, AppendEvent(c)
  PROVE  CoordinatorInv' /\ [JournalStep]_replayVars
<1>1. CASE run.revision >= JournalLimit
  BY <1>1, ReturnOutcome, OutcomeInv DEF AppendEvent
<1>2. CASE ~(run.revision >= JournalLimit)
  <2>1. /\ Appending(c) /\ ~HeadMoved(c) /\ Appended(c)
        /\ run' = Replay(run, calls[c].event) /\ head' = calls[c].event
    BY <1>2 DEF AppendEvent
  <2>2. /\ JournalStep /\ run' \in ReviewRunState /\ run'.revision > run.revision
        /\ Disposes(run, head')
    BY <2>1, AppendIsReplay
  <2>3. ReplayInv'
    BY <2>2, ReplayInvStep DEF CoordinatorInv, JournalStep
  <2>4. run'.revision > 0
    BY <2>2, StateTypes DEF ReviewRunState
  <2>5. calls' \in [Calls -> Call] /\ \A d \in Calls : CallInv(calls[d])'
    BY <2>1, <2>2, AppendedCalls, CallsAfterAppend
  <2>6. SuccessIsComplete' /\ FailureDerived'
    BY <2>2, SuccessStep, FailureStep
  <2> QED BY <2>1, <2>2, <2>3, <2>4, <2>5, <2>6, AppendedInv DEF CoordinatorInv
<1> QED BY <1>1, <1>2

\* The journal finds the event at its head already.
LEMMA AppendReplayedInv ==
  ASSUME CoordinatorInv, NEW c \in Calls, AppendReplayed(c)
  PROVE  CoordinatorInv' /\ UNCHANGED replayVars
<1>1. Appending(c) /\ AlreadyHead(c) /\ Appended(c) /\ UNCHANGED <<run, head>>
  BY DEF AppendReplayed
<1>2. UNCHANGED replayVars /\ ReplayInv'
  BY <1>1, ReplayInvStep DEF CoordinatorInv, replayVars
<1>3. head' = calls[c].event /\ run'.revision > 0
  <2>1. calls[c].expect \in Nat
    BY DEF CoordinatorInv, Call
  <2> QED BY <1>1, <2>1 DEF AlreadyHead
<1>4. calls' \in [Calls -> Call] /\ \A d \in Calls : CallInv(calls[d])'
  BY <1>1, StateTypes, AppendedCalls, CallsAfterAppend
<1>5. SuccessIsComplete' /\ FailureDerived'
  BY <1>1 DEF CoordinatorInv, SuccessIsComplete, FailureDerived
<1> QED BY <1>1, <1>2, <1>3, <1>4, <1>5, AppendedInv DEF CoordinatorInv

\* Another call moved the head.
LEMMA AppendConflictInv ==
  ASSUME CoordinatorInv, NEW c \in Calls, AppendConflict(c)
  PROVE  CoordinatorInv' /\ UNCHANGED replayVars
<1>1. Appending(c) /\ NextLoad(c) /\ UNCHANGED <<run, head, leases, acked>>
  BY DEF AppendConflict
<1>2. UNCHANGED replayVars /\ ReplayInv'
  BY <1>1, ReplayInvStep DEF CoordinatorInv, replayVars
<1>3. calls' \in [Calls -> Call] /\ \A d \in Calls : CallInv(calls[d])'
  BY <1>1, StateTypes, NextLoadInv, CallsAfterAppend
<1> QED BY <1>1, <1>2, <1>3 DEF CoordinatorInv, SuccessIsComplete, FailureDerived, LeasesRecorded,
         OneLeasePerAttempt, AckedDurable

\* Every step preserves the invariant and is a step of the journal or leaves
\* it alone.
LEMMA CoordinatorStep ==
  ASSUME CoordinatorInv, [Next]_vars
  PROVE  CoordinatorInv' /\ [JournalStep]_replayVars
<1>1. CASE UNCHANGED vars
  <2>1. ReplayInv' /\ UNCHANGED replayVars
    BY <1>1, ReplayInvStep DEF CoordinatorInv, vars, replayVars
  <2>2. ASSUME NEW d \in Calls PROVE CallInv(calls[d])'
    BY <1>1 DEF vars, CoordinatorInv, CallInv, CallArgs, ProposalCurrent, ProposalOwn, Proposing
  <2> QED BY <1>1, <2>1, <2>2 DEF vars, CoordinatorInv, SuccessIsComplete, FailureDerived,
             LeasesRecorded, OneLeasePerAttempt, AckedDurable
<1>2. ASSUME NEW c \in Calls, Begin(c) \/ Reload(c) \/ Crash(c)
      PROVE  CoordinatorInv' /\ [JournalStep]_replayVars
  <2>1. LoadOutcome(c)
    BY <1>2, BeginOutcome, ReloadOutcome, ReturnOutcome DEF Crash
  <2> QED BY <2>1, OutcomeInv
<1>3. ASSUME NEW c \in Calls, Append(c)
      PROVE  CoordinatorInv' /\ [JournalStep]_replayVars
  BY <1>3, AppendEventInv, AppendReplayedInv, AppendConflictInv DEF Append
<1> QED BY <1>1, <1>2, <1>3 DEF Next

\* The invariant holds initially.
LEMMA CoordinatorInitial == Init => CoordinatorInv
<1> SUFFICES ASSUME Init PROVE CoordinatorInv
  OBVIOUS
<1>1. ReplayInv
  BY ReplayInvInit DEF Init
<1>2. run.status = "unopened"
  BY DEF Init, ReplayInit, InitialState
<1>3. calls \in [Calls -> Call] /\ \A c \in Calls : CallInv(calls[c])
  BY IdleInv DEF Init
<1> QED BY <1>1, <1>2, <1>3 DEF Init, CoordinatorInv, AckedDurable, LeasesRecorded,
       OneLeasePerAttempt, SuccessIsComplete, FailureDerived

\* The invariant holds throughout.
LEMMA CoordinatorInvariant == Spec => []CoordinatorInv
<1>1. CoordinatorInv /\ [Next]_vars => CoordinatorInv'
  BY CoordinatorStep
<1> QED BY <1>1, CoordinatorInitial, PTL DEF Spec

----------------------------------------------------------------------------
(* Theorems. *)

(***************************************************************************)
(* Type correctness: no interleaving of calls takes a variable out of its  *)
(* declared set; a claim always returns a well-formed lease.               *)
(***************************************************************************)
THEOREM CoordinatorTypes == Spec => []TypeOK
<1>1. CoordinatorInv => TypeOK
  BY DEF CoordinatorInv, ReplayInv, ReplayTypeOK, TypeOK
<1> QED BY <1>1, CoordinatorInvariant, PTL

(***************************************************************************)
(* The coordinator implements JournalSpec: whatever the calls interleave,  *)
(* ReplayReviewRun accepts every event they append, except a renewal that  *)
(* repeats the expiry of its lease (RenewTaskLease's comparison at full    *)
(* clock precision).                                                       *)
(***************************************************************************)
THEOREM CoordinatorImplementsJournal == Spec => JournalSpec
<1>1. Init => ReplayInit
  BY DEF Init
<1>2. CoordinatorInv /\ [Next]_vars => [ReplayNext \/ RepeatedRenewal]_replayVars
  BY CoordinatorStep DEF JournalStep
<1> QED BY <1>1, <1>2, CoordinatorInvariant, PTL DEF Spec, JournalSpec

(***************************************************************************)
(* The exception is the clock's: where every reading is a whole number of  *)
(* milliseconds, ReplayReviewRun accepts every journal the calls write.    *)
(***************************************************************************)
THEOREM WholeMillisecondsImplementReplay ==
  ASSUME Fractions \subseteq {FALSE}
  PROVE  Spec => ReplaySpec
<1>1. Init => ReplayInit
  BY DEF Init
<1>2. CoordinatorInv /\ [Next]_vars => [ReplayNext]_replayVars
  BY CoordinatorStep DEF JournalStep
<1> QED BY <1>1, <1>2, CoordinatorInvariant, PTL DEF Spec, ReplaySpec

(***************************************************************************)
(* The promises of replay hold of every run the coordinator drives: work   *)
(* starts on settled inputs only, and a derived failure is final.          *)
(***************************************************************************)
THEOREM CoordinatorKeepsPromises == Spec => []DependenciesSettled /\ FailureStable
BY CoordinatorImplementsJournal, ReplayDependenciesSettled, ReplayFailureStable, PTL

(***************************************************************************)
(* A failed run is recorded with the class of its earliest required        *)
(* failure, and that failure is a task that ran (FailRun's comparison with *)
(* TerminalCompletion).                                                    *)
(***************************************************************************)
THEOREM CoordinatorOriginalFailure == Spec => []OriginalFailure
<1>1. CoordinatorInv => OriginalFailure
  <2> SUFFICES ASSUME CoordinatorInv PROVE OriginalFailure
    OBVIOUS
  <2>1. FailureRan
    BY ReplayFailureRan DEF CoordinatorInv
  <2>2. ASSUME run.status = "failed"
        PROVE  run.failure = run.tasks[EarliestFailure(run)].failure
    <3>1. TerminalCompletion(run) = Failure(run.failure)
      BY <2>2 DEF CoordinatorInv, FailureDerived
    <3>2. FailedRequired(run) # {}
      BY <3>1 DEF TerminalCompletion, Success, Failure, Undecided
    <3>3. CanFail(run) /\ run.tasks[EarliestFailure(run)].status = "failed"
      BY <2>1, <3>2, StateTypes, FailedRequiredCanFail DEF FailureRan
    <3> QED BY <3>1, <3>2, <3>3 DEF TerminalCompletion, Failure
  <2> QED BY <2>1, <2>2 DEF OriginalFailure
<1> QED BY <1>1, CoordinatorInvariant, PTL

(***************************************************************************)
(* Lease fencing: two claims never hold the same attempt of a task.        *)
(***************************************************************************)
THEOREM CoordinatorFencesLeases == Spec => []OneLeasePerAttempt
<1>1. CoordinatorInv => OneLeasePerAttempt
  BY DEF CoordinatorInv
<1> QED BY <1>1, CoordinatorInvariant, PTL

(***************************************************************************)
(* An acknowledged success stays the recorded output of its task.          *)
(***************************************************************************)
THEOREM CoordinatorKeepsAcknowledged == Spec => []AckedDurable
<1>1. CoordinatorInv => AckedDurable
  BY DEF CoordinatorInv
<1> QED BY <1>1, CoordinatorInvariant, PTL

(***************************************************************************)
(* A run recorded as succeeded has every required success, and its output  *)
(* is the result task's.                                                   *)
(***************************************************************************)
THEOREM CoordinatorSuccessComplete == Spec => []SuccessIsComplete
<1>1. CoordinatorInv => SuccessIsComplete
  BY DEF CoordinatorInv
<1> QED BY <1>1, CoordinatorInvariant, PTL

----------------------------------------------------------------------------
(***************************************************************************)
(* The journal keeps its room.  Every attempt of a task has three slots in *)
(* the reserve: its offer, its lease and its result.  Any task event but a *)
(* renewal uses up at least one more slot of its task, so the slots still  *)
(* free bound what is left to write, and a renewal is proposed only where  *)
(* the whole reserve fits behind it.                                       *)
(***************************************************************************)

\* The slots of a task that are behind it in runtime state r.
SlotsUsed(r) ==
    CASE r.status = "pending" -> 0
      [] r.status = "available" -> 3 * r.attempts + 1
      [] r.status = "leased" -> 3 * r.attempts - 1
      [] r.status = "skipped" -> 1
      [] OTHER -> 3 * r.attempts

SlotsFree(s) == {slot \in Slots : SlotsUsed(s.tasks[slot[1]]) < slot[2]}

AttemptsFit(r, t) ==
    /\ r.attempts <= MaxAttempts[t]
    /\ r.status = "pending" => r.attempts = 0
    /\ r.status = "available" => r.attempts < MaxAttempts[t]
    /\ r.status = "leased" => r.attempts > 0

RenewalFits(k) ==
    Proposing(k) /\ k.event.kind = "task_lease_renewed" =>
        k.expect + 1 + Reserved <= JournalLimit

RoomInv ==
    /\ CoordinatorInv
    /\ \A c \in Calls : RenewalFits(calls[c])
    /\ \A t \in Tasks : AttemptsFit(run.tasks[t], t)
    /\ run.status = "unopened" => run.revision = 0
    /\ Active => run.revision + 1 + Cardinality(SlotsFree(run)) <= JournalLimit

\* There are finitely many slots, and the free ones are among them.
LEMMA SlotsFinite ==
  /\ IsFiniteSet(Slots) /\ Cardinality(Slots) \in Nat
  /\ \A s : /\ IsFiniteSet(SlotsFree(s)) /\ Cardinality(SlotsFree(s)) \in Nat
            /\ Cardinality(SlotsFree(s)) <= Cardinality(Slots)
<1>1. IsFiniteSet(Tasks) /\ IsFiniteSet(1 .. 3 * MaxReviewTaskAttempts)
  <2>1. 1 \in Int /\ N \in Int /\ 3 * MaxReviewTaskAttempts \in Int
    BY PlanTypes DEF MaxReviewTaskAttempts
  <2> QED BY <2>1, FS_Interval DEF Tasks
<1>2. IsFiniteSet(Tasks \X (1 .. 3 * MaxReviewTaskAttempts))
  BY <1>1, FS_Product
<1>3. Slots \in SUBSET (Tasks \X (1 .. 3 * MaxReviewTaskAttempts))
  BY DEF Slots
<1>4. IsFiniteSet(Slots)
  BY <1>2, <1>3, FS_Subset
<1>5. ASSUME NEW s
      PROVE  /\ IsFiniteSet(SlotsFree(s)) /\ Cardinality(SlotsFree(s)) \in Nat
             /\ Cardinality(SlotsFree(s)) <= Cardinality(Slots)
  <2>1. SlotsFree(s) \in SUBSET Slots
    BY DEF SlotsFree
  <2>2. IsFiniteSet(SlotsFree(s)) /\ Cardinality(SlotsFree(s)) <= Cardinality(Slots)
    BY <1>4, <2>1, FS_Subset
  <2> QED BY <2>2, FS_CardinalityType
<1> QED BY <1>4, <1>5, FS_CardinalityType

\* What an accepted event of a task does to its slots.
LEMMA EventUsesSlot ==
  ASSUME NEW s \in ReviewRunState, NEW e \in RunEvent, TaskEventAllowed(s, e),
         AttemptsFit(s.tasks[e.task], e.task)
  PROVE  LET r == s.tasks[e.task]
             q == ApplyTask(r, e) IN
         /\ AttemptsFit(q, e.task)
         /\ SlotsUsed(r) \in Nat
         /\ IF e.kind = "task_lease_renewed" THEN SlotsUsed(q) = SlotsUsed(r)
            ELSE SlotsUsed(r) < SlotsUsed(q) /\ SlotsUsed(q) <= 3 * MaxAttempts[e.task]
<1> DEFINE t == e.task
           r == s.tasks[t]
           q == ApplyTask(r, e)
           m == MaxAttempts[t]
<1>1. t \in Tasks /\ r \in TaskRuntimeState /\ r.attempts \in Nat /\ m \in Nat \ {0}
  <2>1. t \in Tasks
    BY DEF TaskEventAllowed
  <2> QED BY <2>1, TaskType, PlanTypes DEF TaskRuntimeState
<1> HIDE DEF t, r, m
<1>2. AttemptsFit(r, t)
  BY DEF r, t
<1>3. CASE e.kind = "task_available"
  <2>1. q.status = "available" /\ q.attempts = r.attempts
    BY <1>1, <1>3 DEF ApplyTask, TaskRuntimeState
  <2>2. r.status = "pending" \/ (r.status = "failed" /\ r.attempts < m)
    BY <1>3 DEF TaskEventAllowed, AvailableAllowed, ReadyTasks, RetryableAt, r, t, m
  <2> QED BY <1>1, <1>2, <1>3, <2>1, <2>2 DEF AttemptsFit, SlotsUsed, r, t, m
<1>4. CASE e.kind = "task_leased"
  <2>1. q.status = "leased" /\ q.attempts = e.attempt
    BY <1>1, <1>4 DEF ApplyTask, TaskRuntimeState
  <2>2. /\ r.status = "available" \/ r.status = "leased"
        /\ e.attempt = r.attempts + 1 /\ e.attempt <= m
    BY <1>4 DEF TaskEventAllowed, LeasedAllowed, LeaseExpired, r, t, m
  <2> QED BY <1>1, <1>2, <1>4, <2>1, <2>2 DEF AttemptsFit, SlotsUsed, r, t, m
<1>5. CASE e.kind = "task_lease_renewed"
  <2>1. q.status = r.status /\ q.attempts = r.attempts
    BY <1>1, <1>5 DEF ApplyTask, TaskRuntimeState
  <2>2. r.status = "leased"
    BY <1>5 DEF TaskEventAllowed, RenewedAllowed, MatchesLeaseResult, r, t
  <2> QED BY <1>1, <1>2, <1>5, <2>1, <2>2 DEF AttemptsFit, SlotsUsed, r, t, m
<1>6. CASE e.kind \in {"task_succeeded", "task_failed"}
  <2>1. q.status \in {"succeeded", "failed"} /\ q.attempts = r.attempts
    BY <1>1, <1>6 DEF ApplyTask, TaskRuntimeState
  <2>2. r.status = "leased"
    BY <1>6 DEF TaskEventAllowed, FailedAllowed, MatchesLeaseResult, ExhaustedExpiry, ExhaustedTasks,
       LeaseExpired, r, t
  <2> QED BY <1>1, <1>2, <1>6, <2>1, <2>2 DEF AttemptsFit, SlotsUsed, r, t, m
<1>7. CASE e.kind = "task_skipped"
  <2>1. q.status = "skipped" /\ q.attempts = r.attempts
    BY <1>1, <1>7 DEF ApplyTask, TaskRuntimeState
  <2>2. r.status = "pending"
    BY <1>7 DEF TaskEventAllowed, SkippedAllowed, r, t
  <2> QED BY <1>1, <1>2, <1>7, <2>1, <2>2 DEF AttemptsFit, SlotsUsed, r, t, m
<1> QED BY <1>3, <1>4, <1>5, <1>6, <1>7 DEF TaskEventAllowed

\* The tasks after an accepted event, and their free slots.
LEMMA FreeSlotsStep ==
  ASSUME NEW s \in ReviewRunState, NEW e \in RunEvent, Allowed(s, e),
         \A t \in Tasks : AttemptsFit(s.tasks[t], t)
  PROVE  /\ \A t \in Tasks : AttemptsFit(Apply(s, e).tasks[t], t)
         /\ SlotsFree(Apply(s, e)) \subseteq SlotsFree(s)
         /\ e.task \in Tasks /\ e.kind # "task_lease_renewed" =>
              Cardinality(SlotsFree(Apply(s, e))) + 1 <= Cardinality(SlotsFree(s))
<1> DEFINE u == Apply(s, e)
<1>1. CASE e.task \notin Tasks
  <2>1. \A t \in Tasks : u.tasks[t] = s.tasks[t]
    BY <1>1, ApplyOther
  <2>2. SlotsFree(u) = SlotsFree(s)
    BY <2>1 DEF SlotsFree, Slots
  <2> QED BY <1>1, <2>1, <2>2
<1>2. CASE e.task \in Tasks
  <2> DEFINE t == e.task
             r == s.tasks[t]
             q == ApplyTask(r, e)
             slot == <<t, SlotsUsed(r) + 1>>
  <2>1. TaskEventAllowed(s, e)
    BY <1>2, NoneAssumption DEF Allowed, RunEventAllowed
  <2>2. /\ AttemptsFit(q, t)
        /\ SlotsUsed(r) \in Nat
        /\ IF e.kind = "task_lease_renewed" THEN SlotsUsed(q) = SlotsUsed(r)
           ELSE SlotsUsed(r) < SlotsUsed(q) /\ SlotsUsed(q) <= 3 * MaxAttempts[t]
    BY <1>2, <2>1, EventUsesSlot
  <2>3. /\ u.tasks[t].status = q.status /\ u.tasks[t].attempts = q.attempts
        /\ \A v \in Tasks : v # t => u.tasks[v] = s.tasks[v]
    <3>1. q \in TaskRuntimeState
      BY <1>2, TaskType, ApplyTaskType
    <3>2. u.tasks[t] = [q EXCEPT !.lastRevision = s.revision + 1]
      BY <1>2, ApplyOwn
    <3> HIDE DEF q, u
    <3>3. u.tasks[t].status = q.status /\ u.tasks[t].attempts = q.attempts
      BY <3>1, <3>2 DEF TaskRuntimeState
    <3> QED BY <3>3, ApplyOther DEF u
  <2>4. SlotsUsed(u.tasks[t]) = SlotsUsed(q) /\ AttemptsFit(u.tasks[t], t)
    BY <2>2, <2>3 DEF SlotsUsed, AttemptsFit
  <2>5. SlotsUsed(q) \in Int /\ SlotsUsed(r) <= SlotsUsed(q)
    <3>1. q \in TaskRuntimeState
      BY <1>2, TaskType, ApplyTaskType
    <3> HIDE DEF q
    <3>2. SlotsUsed(q) \in Int
      BY <3>1 DEF TaskRuntimeState, SlotsUsed
    <3> QED BY <2>2, <3>2
  <2> HIDE DEF u, q, r
  <2>6. SlotsFree(u) \subseteq SlotsFree(s)
    <3> SUFFICES ASSUME NEW x \in Slots, SlotsUsed(u.tasks[x[1]]) < x[2]
                 PROVE  SlotsUsed(s.tasks[x[1]]) < x[2]
      BY DEF SlotsFree
    <3>1. x[1] \in Tasks /\ x[2] \in Nat
      BY DEF Slots
    <3>2. CASE x[1] = t
      BY <2>2, <2>4, <2>5, <3>1, <3>2 DEF r
    <3>3. CASE x[1] # t
      BY <2>3, <3>1, <3>3
    <3> QED BY <3>2, <3>3
  <2>7. ASSUME e.kind # "task_lease_renewed"
        PROVE  Cardinality(SlotsFree(u)) + 1 <= Cardinality(SlotsFree(s))
    <3>1. MaxAttempts[t] \in 1 .. 5
      BY <1>2, PlanAssumption DEF ValidPlan, ValidTask, MaxReviewTaskAttempts
    <3>2. slot \in Slots
      BY <1>2, <2>2, <2>5, <2>7, <3>1 DEF Slots, MaxReviewTaskAttempts
    <3>3. slot \in SlotsFree(s)
      BY <2>2, <3>2 DEF SlotsFree, r
    <3>4. slot \notin SlotsFree(u)
      BY <2>2, <2>4, <2>5, <2>7 DEF SlotsFree
    <3> HIDE DEF slot
    <3>5. SlotsFree(u) \subseteq SlotsFree(s) \ {slot}
      BY <2>6, <3>4
    <3>6. /\ IsFiniteSet(SlotsFree(s) \ {slot})
          /\ Cardinality(SlotsFree(s) \ {slot}) = Cardinality(SlotsFree(s)) - 1
      BY <3>3, SlotsFinite, FS_RemoveElement
    <3>7. Cardinality(SlotsFree(u)) <= Cardinality(SlotsFree(s) \ {slot})
      BY <3>5, <3>6, FS_Subset
    <3> QED BY <3>6, <3>7, SlotsFinite
  <2>8. \A v \in Tasks : AttemptsFit(u.tasks[v], v)
    BY <2>3, <2>4
  <2> QED BY <2>6, <2>7, <2>8 DEF u
<1> QED BY <1>1, <1>2

\* A load leaves a call whose renewal, if it proposes one, fits.
RoomOutcome(c) == \E k : RenewalFits(k) /\ calls' = [calls EXCEPT ![c] = k]

LEMMA ReturnRoom ==
  ASSUME NEW c \in Calls, Return(c)
  PROVE  RoomOutcome(c)
BY DEF Return, RoomOutcome, RenewalFits, Proposing, Idle

LEMMA ContinueRoom ==
  ASSUME NEW c \in Calls, NEW k \in Call, NEW pc \in {"advance", "transition"}, NEW goal, NEW result,
         Continue(c, k, pc, goal, result)
  PROVE  RoomOutcome(c)
<1> DEFINE p == [k EXCEPT !.pc = pc, !.goal = goal, !.result = result, !.loads = 0]
<1>1. p.pc = pc
  BY DEF Call
<1>2. calls' = [calls EXCEPT ![c] = p]
  BY DEF Continue
<1> HIDE DEF p
<1> QED BY <1>1, <1>2 DEF RoomOutcome, RenewalFits, Proposing

LEMMA ProposeRoom ==
  ASSUME NEW c \in Calls, NEW k \in Call, NEW pc, NEW e, Propose(c, k, pc, e),
         e.kind = "task_lease_renewed" => run.revision + 1 + Reserved <= JournalLimit
  PROVE  RoomOutcome(c)
<1> DEFINE p == [k EXCEPT !.pc = pc, !.event = e, !.expect = run.revision]
<1>1. p.event = e /\ p.expect = run.revision
  BY DEF Call
<1>2. calls' = [calls EXCEPT ![c] = p]
  BY DEF Propose
<1> HIDE DEF p
<1> QED BY <1>1, <1>2 DEF RoomOutcome, RenewalFits

LEMMA AdvanceRoom ==
  ASSUME NEW c \in Calls, NEW k \in Call, Advance(c, k)
  PROVE  RoomOutcome(c)
<1>1. CASE SettleExhausted(c, k)
  BY <1>1, ProposeRoom DEF SettleExhausted, PlainEvent
<1>2. CASE OfferReady(c, k)
  BY <1>2, ProposeRoom DEF OfferReady, PlainEvent
<1>3. CASE SkipBlocked(c, k)
  BY <1>3, ProposeRoom DEF SkipBlocked, PlainEvent
<1>4. CASE Advanced(c, k)
  BY <1>4, ReturnRoom, ContinueRoom DEF Advanced
<1> QED BY <1>1, <1>2, <1>3, <1>4, ReturnRoom DEF Advance

LEMMA TaskCallRoom ==
  ASSUME NEW c \in Calls, NEW k \in Call, ClaimTask(c, k) \/ RenewTaskLease(c, k) \/ CompleteTask(c, k)
  PROVE  RoomOutcome(c)
<1>1. CASE ClaimTask(c, k)
  BY <1>1, ReturnRoom, ProposeRoom DEF ClaimTask, PlainEvent
<1>2. CASE RenewTaskLease(c, k)
  BY <1>2, ReturnRoom, ProposeRoom DEF RenewTaskLease, PlainEvent
<1>3. CASE CompleteTask(c, k)
  <2>1. CASE calls' = [calls EXCEPT ![c] = Idle]
    BY <2>1 DEF RoomOutcome, RenewalFits, Proposing, Idle
  <2>2. CASE calls' # [calls EXCEPT ![c] = Idle]
    BY <1>3, <2>2, ProposeRoom DEF CompleteTask, Return, PlainEvent
  <2> QED BY <2>1, <2>2
<1> QED BY <1>1, <1>2, <1>3

LEMMA RunCallRoom ==
  ASSUME NEW c \in Calls, NEW k \in Call,
         Open(c, k) \/ SucceedRun(c, k) \/ FailRun(c, k) \/ CancelRun(c, k)
  PROVE  RoomOutcome(c)
<1>1. CASE Open(c, k)
  BY <1>1, ReturnRoom, ProposeRoom DEF Open, PlainEvent
<1>2. CASE SucceedRun(c, k)
  BY <1>2, ReturnRoom, ProposeRoom DEF SucceedRun, PlainEvent
<1>3. CASE FailRun(c, k)
  BY <1>3, ReturnRoom, ProposeRoom DEF FailRun, PlainEvent
<1>4. CASE CancelRun(c, k)
  BY <1>4, ReturnRoom, ProposeRoom DEF CancelRun, PlainEvent
<1> QED BY <1>1, <1>2, <1>3, <1>4

LEMMA LoadRoom ==
  ASSUME NEW c \in Calls, NEW k \in Call, Load(c, k)
  PROVE  RoomOutcome(c)
BY AdvanceRoom, TaskCallRoom, RunCallRoom DEF Load

\* A call starts from a call record.
LEMMA StartRoom ==
  ASSUME NEW c \in Calls, NEW fraction \in BOOLEAN, NEW goal \in Goals, NEW t \in Tasks \cup {None},
         NEW w \in Workers \cup {None}, NEW l \in TaskLease \cup {None},
         NEW r \in TaskCompletion \cup {None}, StartAt(c, fraction, goal, t, w, l, r)
  PROVE  RoomOutcome(c)
<1>1. PICK at \in Times :
        Load(c, [Idle EXCEPT !.pc = FirstLoop(goal), !.goal = goal, !.at = at,
                             !.fraction = fraction, !.task = t, !.worker = w,
                             !.lease = l, !.result = r])
  BY DEF StartAt
<1>2. at \in Nat /\ FirstLoop(goal) \in {"advance", "transition"}
  BY CoordinatorAssumption DEF FirstLoop
<1>3. [Idle EXCEPT !.pc = FirstLoop(goal), !.goal = goal, !.at = at,
                   !.fraction = fraction, !.task = t, !.worker = w,
                   !.lease = l, !.result = r] \in Call
  BY <1>2 DEF Idle, Call
<1> QED BY <1>1, <1>3, LoadRoom

LEMMA BeginRoom ==
  ASSUME CoordinatorInv, NEW c \in Calls, Begin(c)
  PROVE  RoomOutcome(c)
<1>1. CASE StartRun(c)
  BY <1>1, StartRoom DEF StartRun, Start, Goals
<1>2. CASE StartClaim(c)
  BY <1>2, StartRoom DEF StartClaim, Start, Goals
<1>3. CASE StartRenew(c) \/ StartComplete(c)
  <2>1. \A l \in leases : l \in TaskLease /\ l.task \in Tasks
    BY DEF CoordinatorInv, TaskLease
  <2>2. CASE StartRenew(c)
    BY <2>1, <2>2, StartRoom, CoordinatorAssumption DEF StartRenew, Goals
  <2>3. CASE StartComplete(c)
    BY <2>1, <2>3, ResultTypes, StartRoom DEF StartComplete, Start, Goals
  <2> QED BY <1>3, <2>2, <2>3
<1>4. CASE StartFinalize(c)
  BY <1>4, ResultTypes, StartRoom DEF StartFinalize, Start, Goals
<1> QED BY <1>1, <1>2, <1>3, <1>4 DEF Begin

\* A step of one call keeps every renewal fitting.
LEMMA RenewalsStep ==
  ASSUME RoomInv, [Next]_vars
  PROVE  \A d \in Calls : RenewalFits(calls[d])'
<1>1. CASE UNCHANGED vars
  BY <1>1 DEF vars, RoomInv, RenewalFits, Proposing
<1>2. ASSUME NEW c \in Calls, RoomOutcome(c)
      PROVE  \A d \in Calls : RenewalFits(calls[d])'
  <2>1. PICK k : RenewalFits(k) /\ calls' = [calls EXCEPT ![c] = k]
    BY <1>2 DEF RoomOutcome
  <2>2. \A d \in Calls : calls'[d] = k \/ calls'[d] = calls[d]
    BY <2>1 DEF RoomInv, CoordinatorInv
  <2> QED BY <2>1, <2>2 DEF RoomInv, RenewalFits, Proposing
<1>3. ASSUME NEW c \in Calls, Append(c)
      PROVE  RoomOutcome(c)
  <2>1. CASE Return(c)
    BY <2>1, ReturnRoom
  <2>2. CASE ~Return(c)
    <3>1. Appending(c) /\ (Appended(c) \/ NextLoad(c))
      BY <1>3, <2>2 DEF Append, AppendEvent, AppendReplayed, AppendConflict
    <3>2. \E k \in Call : CallArgs(k) /\ ~Proposing(k) /\ calls' = [calls EXCEPT ![c] = k]
      BY <3>1, AppendedCalls, NextLoadInv DEF RoomInv
    <3> QED BY <3>2 DEF RoomOutcome, RenewalFits
  <2> QED BY <2>1, <2>2
<1>4. ASSUME NEW c \in Calls, Begin(c) \/ Reload(c) \/ Crash(c)
      PROVE  RoomOutcome(c)
  BY <1>4, BeginRoom, LoadRoom, ReturnRoom DEF Reload, Crash, RoomInv, CoordinatorInv
<1> QED BY <1>1, <1>2, <1>3, <1>4 DEF Next

\* What an append of the current head leaves of the room.
LEMMA RoomAppend ==
  ASSUME RoomInv, NEW c \in Calls, Appending(c), ~HeadMoved(c),
         run' = Replay(run, calls[c].event), head' = calls[c].event
  PROVE  /\ \A t \in Tasks : AttemptsFit(run.tasks[t], t)'
         /\ run'.status # "unopened"
         /\ Active' => run'.revision + 1 + Cardinality(SlotsFree(run')) <= JournalLimit
<1> DEFINE e == calls[c].event
           free == Cardinality(SlotsFree(run))
           left == Cardinality(SlotsFree(run'))
<1>0. CASE ~Allowed(run, e)
  <2>1. run' = Unreadable(run) /\ run \in ReviewRunState
    BY <1>0, StateTypes DEF Replay, RoomInv
  <2>2. run'.tasks = run.tasks /\ run'.status = "unreadable"
    BY <2>1, UnreadableState
  <2> QED BY <2>2 DEF RoomInv, AttemptsFit, Active
<1> SUFFICES ASSUME Allowed(run, e)
             PROVE  /\ \A t \in Tasks : AttemptsFit(run.tasks[t], t)'
                    /\ run'.status # "unopened"
                    /\ Active' => run'.revision + 1 + Cardinality(SlotsFree(run')) <= JournalLimit
  BY <1>0
<1>1. /\ e \in RunEvent /\ run \in ReviewRunState /\ run.revision \in Nat
      /\ calls[c].expect = run.revision /\ Proposing(calls[c]) /\ run' = Apply(run, e)
  BY StateTypes DEF RoomInv, CoordinatorInv, CallInv, ProposalCurrent, Proposing, Appending, HeadMoved,
     Replay
<1>2. /\ \A t \in Tasks : AttemptsFit(run'.tasks[t], t)
      /\ e.task \in Tasks /\ e.kind # "task_lease_renewed" => left + 1 <= free
  BY <1>1, FreeSlotsStep DEF RoomInv
<1>3. /\ free \in Nat /\ left \in Nat /\ left <= Cardinality(Slots)
      /\ Cardinality(Slots) \in Nat /\ JournalLimit \in Nat
  BY SlotsFinite, CoordinatorAssumption
<1>4. run'.revision = run.revision + 1 /\ run'.status = ApplyStatus(run, e)
  BY <1>1 DEF Apply
<1>5. run'.status # "unopened"
  BY <1>1, <1>4 DEF Allowed, ApplyStatus
<1> HIDE DEF e, free, left
<1>6. ASSUME Active'
      PROVE  run'.revision + 1 + left <= JournalLimit
  <2>1. CASE run.status = "unopened"
    <3>1. run.revision = 0
      BY <2>1 DEF RoomInv
    <3> QED BY <1>3, <1>4, <3>1, JournalAssumption DEF Reserved
  <2>2. CASE run.status = "active" /\ e.kind = "task_lease_renewed"
    <3>1. run.revision + 1 + Reserved <= JournalLimit
      BY <1>1, <2>2 DEF RoomInv, RenewalFits, e
    <3> QED BY <1>1, <1>3, <1>4, <3>1 DEF Reserved
  <2>3. CASE run.status = "active" /\ e.kind # "task_lease_renewed"
    <3>1. e.task \in Tasks
      BY <1>1, <1>4, <1>6, <2>3 DEF Allowed, TaskEventAllowed, RunEventAllowed, ApplyStatus, Active
    <3>2. run.revision + 1 + free <= JournalLimit
      BY <2>3 DEF RoomInv, Active, free
    <3> QED BY <1>1, <1>2, <1>3, <1>4, <2>3, <3>1, <3>2
  <2> QED BY <1>1, <2>1, <2>2, <2>3 DEF Allowed
<1> QED BY <1>2, <1>5, <1>6 DEF left, AttemptsFit

LEMMA RoomStep ==
  ASSUME RoomInv, [Next]_vars
  PROVE  RoomInv'
<1>1. CoordinatorInv' /\ \A d \in Calls : RenewalFits(calls[d])'
  BY CoordinatorStep, RenewalsStep DEF RoomInv
<1>2. CASE UNCHANGED run
  BY <1>1, <1>2 DEF RoomInv, AttemptsFit, Active
<1>3. CASE ~UNCHANGED run
  <2>1. PICK c \in Calls : AppendEvent(c) /\ ~Return(c)
    <3>1. ASSUME NEW c \in Calls, Begin(c) \/ Reload(c) \/ Crash(c)
          PROVE  UNCHANGED run
      BY <3>1, BeginOutcome, ReloadOutcome, ReturnOutcome DEF Crash, LoadOutcome, RoomInv
    <3>2. ASSUME NEW c \in Calls, Append(c), ~AppendEvent(c)
          PROVE  UNCHANGED run
      BY <3>2 DEF Append, AppendReplayed, AppendConflict
    <3>3. \A c \in Calls : ~Return(c)
      BY <1>3 DEF Return
    <3> QED BY <1>3, <3>1, <3>2, <3>3 DEF Next, vars
  <2>2. /\ Appending(c) /\ ~HeadMoved(c)
        /\ run' = Replay(run, calls[c].event) /\ head' = calls[c].event
    BY <2>1 DEF AppendEvent
  <2> QED BY <1>1, <2>2, RoomAppend DEF RoomInv
<1> QED BY <1>2, <1>3

LEMMA RoomInitial == Init => RoomInv
<1> SUFFICES ASSUME Init PROVE RoomInv
  OBVIOUS
<1>1. CoordinatorInv
  BY CoordinatorInitial
<1>2. \A c \in Calls : RenewalFits(calls[c])
  BY DEF Init, RenewalFits, Proposing, Idle
<1>3. run = InitialState
  BY DEF Init, ReplayInit
<1>4. \A t \in Tasks : AttemptsFit(run.tasks[t], t)
  BY <1>3, PlanTypes DEF InitialState, AttemptsFit
<1> QED BY <1>1, <1>2, <1>3, <1>4 DEF RoomInv, InitialState, Active

(***************************************************************************)
(* No append fails for capacity: however long lease holders renew, there   *)
(* is room for every attempt a task has left and for the terminal event    *)
(* (RenewTaskLease keeps the reserve, AppendEvent refuses beyond it).      *)
(***************************************************************************)
THEOREM CoordinatorJournalNeverFull == Spec => []JournalNeverFull
<1>1. RoomInv => JournalNeverFull
  <2> SUFFICES ASSUME RoomInv, NEW c \in Calls, Appending(c), ~HeadMoved(c)
               PROVE  run.revision < JournalLimit
    BY DEF JournalNeverFull
  <2>1. Appendable(run, calls[c], calls[c].event) /\ run.revision \in Nat
    BY StateTypes DEF RoomInv, CoordinatorInv, CallInv, ProposalCurrent, Proposing, Appending, HeadMoved
  <2>2. Cardinality(SlotsFree(run)) \in Nat /\ Cardinality(Slots) \in Nat /\ JournalLimit \in Nat
    BY SlotsFinite, CoordinatorAssumption
  <2>3. CASE Active
    BY <2>1, <2>2, <2>3 DEF RoomInv
  <2>4. CASE run.status = "unopened"
    BY <2>1, <2>2, <2>4, JournalAssumption DEF RoomInv, Reserved
  <2> QED BY <2>1, <2>3, <2>4 DEF Appendable, Allowed, RepeatsExpiry, Active
<1>2. RoomInv /\ [Next]_vars => RoomInv'
  BY RoomStep
<1> QED BY <1>1, <1>2, RoomInitial, PTL DEF Spec
=============================================================================
