---------------------------- MODULE WorkerProofs -----------------------------
(***************************************************************************)
(* The workers, for every plan, every number of workers, runs and results  *)
(* and every catalog: a handler works on what its dependencies ended with, *)
(* and no task is executed more often than it has attempts.                *)
(*                                                                         *)
(* The argument for the inputs: a settled task never changes again, and a  *)
(* task leaves the pending state only when all its dependencies are        *)
(* settled.  A runner that remembers the receipt it read before the claim  *)
(* therefore remembers the outcomes that count, however old the receipt is.*)
(*                                                                         *)
(* The argument for the executions: an attempt that was granted is started *)
(* at most once, but it may be started after a later attempt was granted   *)
(* and started, so a single execution cannot be compared with its own      *)
(* attempt.  What is invariant is a count: the executions started and the  *)
(* grants not yet started never exceed the attempts.                       *)
(***************************************************************************)
EXTENDS Worker, WellFoundedInduction, FiniteSetTheorems, TLAPS

\* A dependency that nothing can change any more and that a dependent can use.
Satisfied(s, d) == s[d].status = "succeeded" \/ (d \notin Required /\ FailedForGood(s, d))
DependenciesSettled(s, t) == \A d \in Deps[t] : Satisfied(s, d)

\* A task has left the pending state only for dependencies that are settled,
\* and is never available without an attempt left.
TaskOK(s, t) ==
    /\ s[t].attempts <= MaxAttempts[t]
    /\ s[t].status = "pending" => s[t].attempts = 0
    /\ s[t].status = "available" => s[t].attempts < MaxAttempts[t]
    /\ s[t].status \notin {"pending", "skipped"} => DependenciesSettled(s, t)
    /\ s[t].status = "succeeded" => s[t].inputs = DependencyOutputs(s, t)
RunOK(s) == \A t \in Tasks : TaskOK(s, t)

\* u comes after s: what is settled in s has stayed as it was.
Keeps(s, u) == \A d \in Tasks : Settled(s, d) => u[d] = s[d]

\* What a runner remembers of its receipt is still true where it matters.
WorkerOK(w) ==
    LET x == runner[w] IN
    /\ x.at \in {"claim", "leased", "execute", "refused"} => x.page # {}
    /\ x.at \in {"leased", "execute", "refused"} => x.task \in Tasks
    /\ x.at \in {"claim", "leased"} => Keeps(x.view, tasks[Run(w)])
    /\ x.at = "claim" => \A t \in x.todo : DependenciesSettled(x.view, t)
    /\ x.at = "leased" => DependenciesSettled(x.view, x.task)
    /\ x.at = "execute" =>
           /\ DependenciesSettled(tasks[Run(w)], x.task)
           /\ x.inputs = DependencyOutputs(tasks[Run(w)], x.task)

\* The runners that were granted an attempt of task t and have not started it.
Holders(r, t) ==
    {w \in Workers : runner[w].at = "leased" /\ Run(w) = r /\ runner[w].task = t}
StartsOK(r, t) == started[r][t] + Cardinality(Holders(r, t)) <= tasks[r][t].attempts

Types ==
    /\ tasks \in [Runs -> [Tasks -> TaskState]]
    /\ closed \subseteq opened /\ opened \subseteq Runs
    /\ runner \in [Workers -> Runner]
    /\ started \in [Runs -> [Tasks -> Nat]]
    /\ budget \in 0 .. Disturbances

WorkerInv ==
    /\ Types
    /\ \A r \in Runs : RunOK(tasks[r])
    /\ \A w \in Workers : WorkerOK(w)
    /\ \A r \in Runs, t \in Tasks : StartsOK(r, t)

----------------------------------------------------------------------------
(* The least and the greatest element of a set. *)

\* A non-empty set of natural numbers has a least element.
LEMMA NatLeast ==
    ASSUME NEW S \in SUBSET Nat, S # {}
    PROVE  \E x \in S : \A y \in S : x <= y
<1> DEFINE R == OpToRel(<, Nat)
<1>1. IsWellFoundedOn(R, Nat)
  BY NatLessThanWellFounded
<1>2. PICK x \in S : \A y \in S : ~(<<y, x>> \in R)
  <2> HIDE DEF R
  <2> QED BY <1>1, WFMin
<1>3. \A y \in S : ~(y < x)
  BY <1>2 DEF OpToRel
<1> HIDE DEF R
<1> QED BY <1>3, SMT

\* Min picks the least of a non-empty set of natural numbers.
LEMMA MinIsLeast ==
    ASSUME NEW S \in SUBSET Nat, S # {}
    PROVE  Min(S) \in S
BY NatLeast DEF Min

\* Max picks the greatest of a non-empty set of numbers that has a bound.
LEMMA MaxIsMember ==
    ASSUME NEW n \in Nat, NEW S \in SUBSET (0 .. n), S # {}
    PROVE  Max(S) \in S
<1> DEFINE D == {n - x : x \in S}
<1>0. \A x \in S : x \in Nat /\ x <= n /\ n - x \in Nat
  <2> TAKE x \in S
  <2>1. x \in 0 .. n
    OBVIOUS
  <2> QED BY <2>1
<1>1. D \in SUBSET Nat /\ D # {}
  BY <1>0
<1>2. PICK d \in D : \A e \in D : d <= e
  BY <1>1, NatLeast
<1>3. PICK x \in S : d = n - x
  BY <1>2
<1>4. \A y \in S : x >= y
  <2> TAKE y \in S
  <2>1. n - x <= n - y
    BY <1>2, <1>3
  <2>2. x \in Nat /\ y \in Nat
    BY <1>0
  <2> QED BY <2>1, <2>2
<1> QED BY <1>4 DEF Max

\* The run a worker is at, and the task it claims next.
LEMMA RunOf ==
    ASSUME Types, NEW w \in Workers
    PROVE  /\ runner[w].page # {} => Run(w) \in Runs /\ Run(w) \in runner[w].page
           /\ runner[w].todo # {} => Min(runner[w].todo) \in Tasks /\ Min(runner[w].todo) \in runner[w].todo
<1>1. runner[w].page \in SUBSET Runs /\ runner[w].todo \in SUBSET Tasks
  BY DEF Types, Runner
<1>2. Runs \in SUBSET Nat /\ Tasks \in SUBSET Nat
  BY PlanTypes, WorkerAssumption DEF Runs, Tasks
<1>3. ASSUME NEW S \in SUBSET Nat, S # {} PROVE Min(S) \in S
  BY <1>3, MinIsLeast
<1> QED BY <1>1, <1>2, <1>3 DEF Run

----------------------------------------------------------------------------
(* What later states of a run keep. *)

States == [Tasks -> TaskState]

\* Later than later is later.
LEMMA KeepsTransitive ==
    ASSUME NEW s, NEW u, NEW v, Keeps(s, u), Keeps(u, v)
    PROVE  Keeps(s, v)
BY DEF Keeps, Settled, MayRetry

\* What a task with settled dependencies is given stays the same.
LEMMA KeepsInputs ==
    ASSUME NEW s, NEW u, Keeps(s, u), NEW t \in Tasks, DependenciesSettled(s, t)
    PROVE  /\ DependenciesSettled(u, t)
           /\ DependencyOutputs(u, t) = DependencyOutputs(s, t)
<1>1. ASSUME NEW d \in Deps[t] PROVE d \in Tasks /\ u[d] = s[d]
  <2>1. d \in Tasks
    BY PlanTypes
  <2>2. Settled(s, d)
    BY <1>1 DEF DependenciesSettled, Satisfied, FailedForGood, Settled
  <2> QED BY <2>1, <2>2 DEF Keeps
<1>2. DependenciesSettled(u, t)
  BY <1>1 DEF DependenciesSettled, Satisfied, FailedForGood, Settled, MayRetry
<1>3. DependencyOutputs(u, t) = DependencyOutputs(s, t)
  BY <1>1 DEF DependencyOutputs
<1> QED BY <1>2, <1>3

\* A task other than the ones that change keeps what is true of it.
LEMMA TaskKept ==
    ASSUME NEW s, NEW u, Keeps(s, u), NEW t \in Tasks, TaskOK(s, t), u[t] = s[t]
    PROVE  TaskOK(u, t)
<1>1. s[t].status \notin {"pending", "skipped"} =>
          /\ DependenciesSettled(u, t)
          /\ DependencyOutputs(u, t) = DependencyOutputs(s, t)
  BY KeepsInputs DEF TaskOK
<1> QED BY <1>1 DEF TaskOK

\* A change of one unsettled task, past the pending state, keeps the run in order.
LEMMA OneTask ==
    ASSUME NEW s \in States, NEW u \in States, NEW t \in Tasks,
           RunOK(s), ~Settled(s, t), s[t].status # "pending",
           \A d \in Tasks \ {t} : u[d] = s[d],
           u[t].status \notin {"pending", "skipped"},
           u[t].attempts <= MaxAttempts[t],
           u[t].status = "available" => u[t].attempts < MaxAttempts[t],
           u[t].status = "succeeded" => u[t].inputs = DependencyOutputs(s, t)
    PROVE  Keeps(s, u) /\ RunOK(u)
<1>1. Keeps(s, u)
  BY DEF Keeps
<1>2. DependenciesSettled(s, t)
  BY DEF RunOK, TaskOK, Settled
<1>3. TaskOK(u, t)
  BY <1>1, <1>2, KeepsInputs DEF TaskOK
<1>4. \A d \in Tasks \ {t} : TaskOK(u, d)
  BY <1>1, TaskKept DEF RunOK
<1> QED BY <1>1, <1>3, <1>4 DEF RunOK

Statuses == {"pending", "available", "leased", "succeeded", "failed", "skipped"}

\* Advance changes only what is not settled, and what it offers has settled
\* dependencies and an attempt left; no final attempt is left expired.
LEMMA AdvancedOK ==
    ASSUME NEW s \in States, RunOK(s)
    PROVE  /\ Advanced(s) \in States
           /\ Keeps(s, Advanced(s))
           /\ RunOK(Advanced(s))
           /\ \A t \in Tasks : Advanced(s)[t].attempts = s[t].attempts
           /\ \A t \in Tasks : ~Exhausted(Advanced(s), t)
<1> DEFINE expired == {t \in Tasks : Exhausted(s, t)}
           failed == expired \cup {t \in Tasks : FailedForGood(s, t)}
           skipped == {t \in Tasks : s[t].status = "pending" /\ RequiredAncestors[t] \cap failed # {}}
           settled == {t \in Tasks : s[t].status = "succeeded"} \cup ((failed \cup skipped) \ Required)
           ready == {t \in Tasks : \/ s[t].status = "pending" /\ Deps[t] \subseteq settled
                                   \/ s[t].status = "failed" /\ MayRetry(s, t) /\ s[t].due}
           u == Advanced(s)
<1>1. u = [t \in Tasks |->
          CASE t \in expired ->
                  [s[t] EXCEPT !.status = "failed", !.failure = "resource_limit", !.due = FALSE]
            [] t \in skipped -> [s[t] EXCEPT !.status = "skipped", !.failure = "dependency"]
            [] t \in ready \ skipped ->
                  [s[t] EXCEPT !.status = "available", !.failure = "none", !.due = FALSE]
            [] OTHER -> s[t]]
  BY DEF Advanced
<1>2. \A t \in Tasks : s[t] \in TaskState
  BY DEF States
<1>3. /\ expired \subseteq Tasks /\ failed \subseteq Tasks
      /\ skipped \subseteq Tasks /\ ready \subseteq Tasks
      /\ \A t \in Tasks : t \in expired <=> Exhausted(s, t)
      /\ \A t \in Tasks : t \in failed <=> t \in expired \/ FailedForGood(s, t)
      /\ \A t \in Tasks : t \in skipped => s[t].status = "pending"
      /\ \A t \in Tasks : t \in settled <=>
             s[t].status = "succeeded" \/ ((t \in failed \/ t \in skipped) /\ t \notin Required)
      /\ \A t \in Tasks : t \in ready <=>
             \/ s[t].status = "pending" /\ Deps[t] \subseteq settled
             \/ s[t].status = "failed" /\ MayRetry(s, t) /\ s[t].due
  OBVIOUS
<1> HIDE DEF expired, failed, skipped, settled, ready, u
<1>4. \A t \in Tasks : t \in expired =>
          /\ u[t] \in TaskState /\ u[t].status = "failed" /\ u[t].failure = "resource_limit"
          /\ u[t].attempts = s[t].attempts
  <2> SUFFICES ASSUME NEW t \in Tasks, t \in expired
               PROVE  /\ u[t] \in TaskState /\ u[t].status = "failed"
                      /\ u[t].failure = "resource_limit" /\ u[t].attempts = s[t].attempts
    OBVIOUS
  <2>1. u[t] = [s[t] EXCEPT !.status = "failed", !.failure = "resource_limit", !.due = FALSE]
    BY <1>1, <1>3 DEF Exhausted
  <2>2. s[t] \in TaskState /\ "failed" \in Statuses /\ "resource_limit" \in Failures \cup {"none"}
    BY <1>2 DEF Statuses, Failures
  <2> QED BY <2>1, <2>2 DEF TaskState, Statuses
<1>5. \A t \in Tasks : t \in skipped =>
          u[t] \in TaskState /\ u[t].status = "skipped" /\ u[t].attempts = s[t].attempts
  <2> SUFFICES ASSUME NEW t \in Tasks, t \in skipped
               PROVE  u[t] \in TaskState /\ u[t].status = "skipped" /\ u[t].attempts = s[t].attempts
    OBVIOUS
  <2>1. u[t] = [s[t] EXCEPT !.status = "skipped", !.failure = "dependency"]
    BY <1>1, <1>3 DEF Exhausted
  <2>2. s[t] \in TaskState /\ "skipped" \in Statuses /\ "dependency" \in Failures \cup {"none"}
    BY <1>2 DEF Statuses, Failures
  <2> QED BY <2>1, <2>2 DEF TaskState, Statuses
<1>6. \A t \in Tasks : t \in ready \ skipped =>
          u[t] \in TaskState /\ u[t].status = "available" /\ u[t].attempts = s[t].attempts
  <2> SUFFICES ASSUME NEW t \in Tasks, t \in ready \ skipped
               PROVE  u[t] \in TaskState /\ u[t].status = "available" /\ u[t].attempts = s[t].attempts
    OBVIOUS
  <2>1. u[t] = [s[t] EXCEPT !.status = "available", !.failure = "none", !.due = FALSE]
    BY <1>1, <1>3 DEF Exhausted
  <2>2. s[t] \in TaskState /\ "available" \in Statuses /\ "none" \in Failures \cup {"none"}
    BY <1>2 DEF Statuses, Failures
  <2> QED BY <2>1, <2>2 DEF TaskState, Statuses
<1>7. \A t \in Tasks : t \notin expired /\ t \notin skipped /\ t \notin ready => u[t] = s[t]
  BY <1>1
<1>8. \A t \in Tasks :
          \/ /\ t \in expired /\ s[t].status = "leased" /\ s[t].due
             /\ s[t].attempts = MaxAttempts[t]
             /\ u[t].status = "failed" /\ ~MayRetry(u, t)
          \/ /\ t \in skipped /\ s[t].status = "pending" /\ u[t].status = "skipped"
          \/ /\ u[t].status = "available" /\ s[t].attempts < MaxAttempts[t]
             /\ \/ s[t].status = "pending" /\ Deps[t] \subseteq settled
                \/ s[t].status = "failed" /\ MayRetry(s, t)
          \/ /\ t \notin expired /\ t \notin skipped /\ u[t] = s[t]
  <2> TAKE t \in Tasks
  <2>1. CASE t \in expired
    BY <1>3, <1>4, <2>1, PlanTypes DEF Exhausted, MayRetry
  <2>2. CASE t \in skipped
    BY <1>3, <1>5, <2>2
  <2>3. CASE t \in ready \ skipped
    <3>1. u[t].status = "available"
      BY <1>6, <2>3
    <3>2. s[t].status = "pending" => s[t].attempts < MaxAttempts[t]
      BY PlanTypes DEF RunOK, TaskOK
    <3> QED BY <1>3, <2>3, <3>1, <3>2 DEF MayRetry
  <2>4. CASE t \notin expired /\ t \notin skipped /\ t \notin ready
    BY <1>7, <2>4
  <2> QED BY <2>1, <2>2, <2>3, <2>4
<1>9. \A t \in Tasks : u[t] \in TaskState /\ u[t].attempts = s[t].attempts
  BY <1>2, <1>4, <1>5, <1>6, <1>7
<1>10. u \in States
  BY <1>1, <1>9 DEF States
<1>11. Keeps(s, u)
  <2> SUFFICES ASSUME NEW t \in Tasks, Settled(s, t) PROVE u[t] = s[t]
    BY DEF Keeps
  <2> QED BY <1>8 DEF Settled
<1>12. \A t \in Tasks : ~Exhausted(u, t)
  <2> TAKE t \in Tasks
  <2> QED BY <1>3, <1>8 DEF Exhausted
\* What counts as settled before is settled after.
<1>13. \A d \in Tasks : d \in settled => Satisfied(u, d)
  <2> SUFFICES ASSUME NEW d \in Tasks, d \in settled PROVE Satisfied(u, d)
    OBVIOUS
  <2>1. CASE s[d].status = "succeeded"
    BY <1>11, <2>1 DEF Keeps, Settled, Satisfied
  <2>2. CASE d \in expired /\ d \notin Required
    <3>1. u[d].status = "failed" /\ ~MayRetry(u, d)
      BY <1>4, <1>3, <2>2, PlanTypes DEF Exhausted, MayRetry
    <3> QED BY <2>2, <3>1 DEF Satisfied, FailedForGood, Settled
  <2>3. CASE FailedForGood(s, d) /\ d \notin Required
    BY <1>11, <2>3 DEF Keeps, FailedForGood, Settled, MayRetry, Satisfied
  <2>4. CASE d \in skipped /\ d \notin Required
    <3>1. u[d].status = "skipped"
      BY <1>5, <2>4
    <3> QED BY <2>4, <3>1 DEF Satisfied, FailedForGood, Settled
  <2> QED BY <1>3, <2>1, <2>2, <2>3, <2>4
<1>14. ASSUME NEW t \in Tasks PROVE TaskOK(u, t)
  <2>1. TaskOK(s, t)
    BY DEF RunOK
  <2>2. CASE u[t] = s[t]
    BY <1>11, <2>1, <2>2, TaskKept
  <2>3. CASE t \in expired /\ s[t].status = "leased" /\ u[t].status = "failed"
    BY <1>9, <1>11, <2>1, <2>3, KeepsInputs DEF TaskOK
  <2>4. CASE s[t].status = "pending" /\ u[t].status = "skipped"
    BY <1>9, <2>1, <2>4 DEF TaskOK
  <2>5. CASE u[t].status = "available" /\ s[t].attempts < MaxAttempts[t]
             /\ s[t].status = "pending" /\ Deps[t] \subseteq settled
    <3>1. DependenciesSettled(u, t)
      BY <1>13, <2>5, PlanTypes DEF DependenciesSettled
    <3> QED BY <1>9, <2>1, <2>5, <3>1 DEF TaskOK
  <2>6. CASE u[t].status = "available" /\ s[t].attempts < MaxAttempts[t] /\ s[t].status = "failed"
    BY <1>9, <1>11, <2>1, <2>6, KeepsInputs DEF TaskOK
  <2> QED BY <1>8, <2>2, <2>3, <2>4, <2>5, <2>6
<1> QED BY <1>9, <1>10, <1>11, <1>12, <1>14 DEF RunOK, u

----------------------------------------------------------------------------
(* What each step has to show. *)

\* The journal goes on: no settled task changes and no attempt is taken back.
Later ==
    /\ tasks' \in [Runs -> States]
    /\ \A r \in Runs :
           /\ Keeps(tasks[r], tasks'[r])
           /\ RunOK(tasks'[r])
           /\ \A t \in Tasks : tasks'[r][t].attempts >= tasks[r][t].attempts

\* Only worker w moves.
Moves(w) ==
    /\ runner' \in [Workers -> Runner]
    /\ \A v \in Workers \ {w} : runner'[v] = runner[v]

\* A step that leaves the journal alone.
LEMMA SameTasks ==
    ASSUME WorkerInv, UNCHANGED tasks
    PROVE  Later
<1>1. \A r \in Runs, t \in Tasks : tasks[r][t].attempts \in Nat
  BY DEF WorkerInv, Types, TaskState
<1> QED BY <1>1 DEF WorkerInv, Types, States, Later, Keeps

\* A worker that does not move keeps what is true of it.
LEMMA StaysOK ==
    ASSUME WorkerInv, Later, NEW v \in Workers, runner'[v] = runner[v]
    PROVE  WorkerOK(v)'
<1> DEFINE x == runner[v]
           r == Run(v)
<1>1. Run(v)' = r
  BY DEF Run
<1>2. x.at \in {"claim", "leased", "execute"} => r \in Runs /\ Keeps(tasks[r], tasks'[r])
  BY RunOf DEF WorkerInv, WorkerOK, Later
<1>3. x.at \in {"claim", "leased"} => Keeps(x.view, tasks'[r])
  BY <1>2, KeepsTransitive DEF WorkerInv, WorkerOK
<1>4. x.at = "execute" =>
          /\ DependenciesSettled(tasks'[r], x.task)
          /\ DependencyOutputs(tasks'[r], x.task) = DependencyOutputs(tasks[r], x.task)
  BY <1>2, KeepsInputs DEF WorkerInv, WorkerOK
<1>5. WorkerOK(v)
  BY DEF WorkerInv
<1>6. /\ x.at \in {"claim", "leased", "execute", "refused"} => x.page # {}
      /\ x.at \in {"leased", "execute", "refused"} => x.task \in Tasks
      /\ x.at = "claim" => \A t \in x.todo : DependenciesSettled(x.view, t)
      /\ x.at = "leased" => DependenciesSettled(x.view, x.task)
      /\ x.at = "execute" => x.inputs = DependencyOutputs(tasks[r], x.task)
  BY <1>5 DEF WorkerOK
<1> QED BY <1>1, <1>3, <1>4, <1>6 DEF WorkerOK

\* The holders of a task are finitely many.
LEMMA FiniteHolders ==
    /\ \A r, t : IsFiniteSet(Holders(r, t)) /\ Cardinality(Holders(r, t)) \in Nat
    /\ \A r, t : IsFiniteSet(Holders(r, t)') /\ Cardinality(Holders(r, t)') \in Nat
<1>1. ASSUME NEW S \in SUBSET Workers PROVE IsFiniteSet(S) /\ Cardinality(S) \in Nat
  BY <1>1, WorkerAssumption, FS_Subset, FS_CardinalityType
<1>2. \A r, t : Holders(r, t) \in SUBSET Workers /\ Holders(r, t)' \in SUBSET Workers
  BY DEF Holders
<1> QED BY <1>1, <1>2

\* The count of a task that nobody is newly granted or starts.
LEMMA CountKept ==
    ASSUME WorkerInv, Types', NEW r \in Runs, NEW t \in Tasks,
           Holders(r, t)' \subseteq Holders(r, t),
           started'[r][t] = started[r][t],
           tasks'[r][t].attempts >= tasks[r][t].attempts
    PROVE  StartsOK(r, t)'
<1>1. Cardinality(Holders(r, t)') <= Cardinality(Holders(r, t))
  BY FiniteHolders, FS_Subset
<1>2. /\ Cardinality(Holders(r, t)') \in Nat /\ Cardinality(Holders(r, t)) \in Nat
  BY FiniteHolders
<1>3. /\ started[r][t] \in Nat /\ tasks[r][t].attempts \in Nat /\ tasks'[r][t].attempts \in Nat
  BY DEF WorkerInv, Types, TaskState
<1>4. started[r][t] + Cardinality(Holders(r, t)) <= tasks[r][t].attempts
  BY DEF WorkerInv, StartsOK
<1>5. started'[r][t] + Cardinality(Holders(r, t)') <= tasks'[r][t].attempts
  BY <1>1, <1>2, <1>3, <1>4
<1> QED BY <1>5 DEF StartsOK

\* A step of one worker that grants and starts nothing.
LEMMA QuietStep ==
    ASSUME WorkerInv, NEW w \in Workers, Moves(w), Later,
           UNCHANGED <<opened, closed, started>>, budget' \in 0 .. Disturbances,
           runner'[w].at = "leased" =>
               /\ runner[w].at = "leased"
               /\ runner'[w].page = runner[w].page
               /\ runner'[w].task = runner[w].task,
           WorkerOK(w)'
    PROVE  WorkerInv' /\ Later
<1>1. Types'
  BY DEF WorkerInv, Types, Later, States, Moves
<1>2. \A v \in Workers : WorkerOK(v)'
  BY StaysOK DEF Moves
<1>3. ASSUME NEW r \in Runs, NEW t \in Tasks PROVE StartsOK(r, t)'
  <2>1. Holders(r, t)' \subseteq Holders(r, t)
    <3> SUFFICES ASSUME NEW v \in Workers, runner'[v].at = "leased",
                        Min(runner'[v].page) = r, runner'[v].task = t
                 PROVE  runner[v].at = "leased" /\ Min(runner[v].page) = r /\ runner[v].task = t
      BY DEF Holders, Run
    <3> QED BY DEF Moves
  <2> QED BY <1>1, <2>1, CountKept DEF Later
<1> QED BY <1>1, <1>2, <1>3 DEF WorkerInv, Later

\* A runner that starts over.
LEMMA NewRunnerFields ==
    ASSUME NEW at \in {"wait", "observe", "down"}
    PROVE  NewRunner(at) \in Runner /\ NewRunner(at).at = at /\ NewRunner(at).page = {}
<1>1. NoInputs \in Inputs
  BY DEF NoInputs, Inputs, Outcomes, Output
<1>2. NoView \in [Tasks -> TaskState]
  BY <1>1 DEF NoView, NewTask, TaskState
<1> QED BY <1>1, <1>2 DEF NewRunner, Runner, NoTask

\* A worker that gives up keeps nothing.
LEMMA GiveUpOK ==
    ASSUME WorkerInv, NEW w \in Workers, GiveUp(w)
    PROVE  Moves(w) /\ runner'[w].at = "down" /\ WorkerOK(w)'
<1>1. Moves(w) /\ runner'[w] = NewRunner("down")
  BY NewRunnerFields DEF GiveUp, Moves, WorkerInv, Types
<1>2. runner'[w].at = "down"
  BY <1>1, NewRunnerFields
<1> QED BY <1>1, <1>2 DEF WorkerOK

\* A worker that leaves its execution keeps nothing that is relied on.
LEMMA LeaveOK ==
    ASSUME WorkerInv, NEW w \in Workers, NEW outcome \in {"worked", "failed"}, Leave(w, outcome)
    PROVE  Moves(w) /\ runner'[w].at = "drain" /\ WorkerOK(w)'
<1>1. runner[w] \in Runner
  BY DEF WorkerInv, Types
<1>2. /\ runner'[w] = [runner[w] EXCEPT !.at = "drain", !.outcome = outcome]
      /\ \A v \in Workers \ {w} : runner'[v] = runner[v]
  BY DEF Leave, WorkerInv, Types
<1>3. runner'[w] \in Runner /\ runner'[w].at = "drain"
  BY <1>1, <1>2 DEF Runner
<1>4. Moves(w)
  BY <1>2, <1>3 DEF Leave, Moves, WorkerInv, Types
<1> QED BY <1>3, <1>4 DEF WorkerOK

----------------------------------------------------------------------------
(* The initial state and the supervisor's pass. *)

\* The daemon before its first pass.
LEMMA InitOK == Init => WorkerInv
<1> SUFFICES ASSUME Init PROVE WorkerInv
  OBVIOUS
<1>1. /\ NoInputs \in Inputs
      /\ NoView \in States /\ \A t \in Tasks : NoView[t] = NewTask
  <2>1. NoInputs \in Inputs
    BY DEF NoInputs, Inputs, Outcomes, Output
  <2> QED BY <2>1 DEF NoView, NewTask, TaskState, States
<1>2. Types
  BY <1>1, NewRunnerFields, WorkerAssumption DEF Init, Types, States
<1>3. ASSUME NEW r \in Runs PROVE RunOK(tasks[r])
  <2>1. ASSUME NEW t \in Tasks PROVE tasks[r][t] = NewTask
    BY <1>1 DEF Init
  <2> QED BY <2>1, PlanTypes DEF RunOK, TaskOK, NewTask
<1>4. ASSUME NEW w \in Workers PROVE WorkerOK(w) /\ runner[w].at = "wait"
  <2>1. runner[w].at = "wait"
    BY NewRunnerFields DEF Init
  <2> QED BY <2>1 DEF WorkerOK
<1>5. ASSUME NEW r \in Runs, NEW t \in Tasks PROVE StartsOK(r, t)
  <2>1. Holders(r, t) = {}
    BY <1>4 DEF Holders
  <2>2. Cardinality(Holders(r, t)) = 0
    BY <2>1, FS_EmptySet
  <2>3. started[r][t] = 0 /\ tasks[r][t].attempts = 0
    BY <1>1 DEF Init, NewTask
  <2> QED BY <2>2, <2>3 DEF StartsOK
<1> QED BY <1>2, <1>3, <1>4, <1>5 DEF WorkerInv

\* The cursor a pass leaves is a run or the beginning.
LEMMA PageOK ==
    ASSUME NEW after \in Nat
    PROVE  NextPage(after) \subseteq Runs /\ CursorAfter(NextPage(after), after) \in Nat
<1> DEFINE page == NextPage(after)
<1>1. page \subseteq Runs
  BY DEF NextPage
<1>2. page = {} => Cardinality(page) < PageSize
  BY FS_EmptySet, WorkerAssumption
<1>3. page # {} => Max(page) \in Nat
  <2> SUFFICES ASSUME page # {} PROVE Max(page) \in Nat
    OBVIOUS
  <2>1. RunCount \in Nat /\ page \in SUBSET (0 .. RunCount)
    BY <1>1, WorkerAssumption DEF Runs
  <2> HIDE DEF page
  <2>2. Max(page) \in page
    BY <2>1, MaxIsMember
  <2>3. Max(page) \in 0 .. RunCount
    BY <2>1, <2>2
  <2> QED BY <2>3
<1> HIDE DEF page
<1>4. CursorAfter(page, after) \in Nat
  BY <1>2, <1>3 DEF CursorAfter
<1> QED BY <1>1, <1>4 DEF page

\* A listed page is of runs, and nothing is remembered of them yet.
LEMMA ListPlansOK ==
    ASSUME WorkerInv, NEW w \in Workers, ListPlans(w)
    PROVE  WorkerInv' /\ Later
<1> DEFINE page == NextPage(runner[w].cursor)
           cursor == CursorAfter(page, runner[w].cursor)
<1>1. page \in SUBSET Runs /\ cursor \in Nat
  <2>1. runner[w].cursor \in Nat
    BY DEF WorkerInv, Types, Runner
  <2> QED BY <2>1, PageOK
<1>2. runner' = [runner EXCEPT ![w] = [NewRunner("observe") EXCEPT !.page = page, !.cursor = cursor]]
  BY DEF ListPlans
<1> HIDE DEF page, cursor
<1>3. /\ runner'[w] = [NewRunner("observe") EXCEPT !.page = page, !.cursor = cursor]
      /\ \A v \in Workers \ {w} : runner'[v] = runner[v]
  BY <1>2 DEF WorkerInv, Types
<1>4. runner'[w] \in Runner /\ runner'[w].at = "observe"
  <2> DEFINE x == NewRunner("observe")
  <2>1. x \in Runner /\ x.at = "observe" /\ runner'[w] = [x EXCEPT !.page = page, !.cursor = cursor]
    BY <1>3, NewRunnerFields
  <2> HIDE DEF x
  <2> QED BY <1>1, <2>1 DEF Runner
<1>5. Moves(w)
  BY <1>2, <1>4 DEF Moves, WorkerInv, Types
<1>6. WorkerOK(w)'
  BY <1>4 DEF WorkerOK
<1>7. Later /\ UNCHANGED <<opened, closed, started>> /\ budget' \in 0 .. Disturbances
  BY SameTasks DEF ListPlans, WorkerInv, Types
<1> QED BY <1>4, <1>5, <1>6, <1>7, QuietStep

\* The end of a pass.
LEMMA PassDoneOK ==
    ASSUME WorkerInv, NEW w \in Workers, PassDone(w)
    PROVE  WorkerInv' /\ Later
<1>1. /\ runner'[w] = [runner[w] EXCEPT !.at = "wait"]
      /\ \A v \in Workers \ {w} : runner'[v] = runner[v]
      /\ runner[w] \in Runner
  BY DEF PassDone, WorkerInv, Types
<1>2. runner'[w] \in Runner /\ runner'[w].at = "wait"
  BY <1>1 DEF Runner
<1>3. Moves(w)
  BY <1>1, <1>2 DEF PassDone, Moves, WorkerInv, Types
<1>4. WorkerOK(w)'
  BY <1>2 DEF WorkerOK
<1>5. Later /\ UNCHANGED <<opened, closed, started>> /\ budget' \in 0 .. Disturbances
  BY SameTasks DEF PassDone, WorkerInv, Types
<1> QED BY <1>2, <1>3, <1>4, <1>5, QuietStep

\* The run as a call finds it, advanced unless it is closed.
LEMMA AdvancedRunOK ==
    ASSUME WorkerInv, NEW r \in Runs
    PROVE  /\ AdvancedRun(r) \in States
           /\ Keeps(tasks[r], AdvancedRun(r))
           /\ RunOK(AdvancedRun(r))
           /\ \A t \in Tasks : AdvancedRun(r)[t].attempts = tasks[r][t].attempts
           /\ r \notin closed => \A t \in Tasks : ~Exhausted(AdvancedRun(r), t)
<1>1. tasks[r] \in States /\ RunOK(tasks[r])
  BY DEF WorkerInv, Types, States
<1>2. CASE r \in closed
  BY <1>1, <1>2 DEF AdvancedRun, Keeps
<1>3. CASE r \notin closed
  BY <1>1, <1>3, AdvancedOK DEF AdvancedRun
<1> QED BY <1>2, <1>3

\* One run going on to a later state is the journal going on.
LEMMA OneRun ==
    ASSUME WorkerInv, NEW r \in Runs, NEW u \in States, tasks' = [tasks EXCEPT ![r] = u],
           Keeps(tasks[r], u), RunOK(u), \A t \in Tasks : u[t].attempts >= tasks[r][t].attempts
    PROVE  Later /\ tasks'[r] = u
<1>1. tasks \in [Runs -> States]
  BY DEF WorkerInv, Types, States
<1>2. tasks' \in [Runs -> States] /\ tasks'[r] = u /\ \A q \in Runs \ {r} : tasks'[q] = tasks[q]
  BY <1>1
<1>3. \A q \in Runs : Keeps(tasks[q], tasks'[q])
  BY <1>2 DEF Keeps
<1>4. \A q \in Runs : RunOK(tasks'[q])
  BY <1>2 DEF WorkerInv
<1>5. \A q \in Runs, t \in Tasks : tasks'[q][t].attempts >= tasks[q][t].attempts
  <2>1. \A q \in Runs, t \in Tasks : tasks[q][t].attempts \in Nat
    BY DEF WorkerInv, Types, TaskState
  <2> QED BY <1>2, <2>1
<1> QED BY <1>2, <1>3, <1>4, <1>5 DEF Later

\* Attempts that are equal are not fewer.
LEMMA SameAttempts ==
    ASSUME NEW s \in States, NEW u \in States, \A t \in Tasks : u[t].attempts = s[t].attempts
    PROVE  \A t \in Tasks : u[t].attempts >= s[t].attempts
BY DEF States, TaskState

----------------------------------------------------------------------------
(* Observing, claiming and starting. *)

\* The receipt is the state of the run: what can be claimed by it has its
\* dependencies settled.
LEMMA ObserveOpenedOK ==
    ASSUME WorkerInv, NEW w \in Workers, Observe(w), Run(w) \in opened
    PROVE  WorkerInv' /\ Later
<1> DEFINE r == Run(w)
           view == AdvancedRun(r)
           todo == {t \in Registered[w] : ClaimCandidate(view, t)}
           page == runner[w].page \ {r}
<1>1. r \in Runs /\ runner[w] \in Runner /\ runner[w].page # {}
  BY RunOf DEF Observe, WorkerInv, Types
<1>2. /\ view \in States /\ Keeps(tasks[r], view) /\ RunOK(view)
      /\ \A t \in Tasks : view[t].attempts >= tasks[r][t].attempts
  <2>1. tasks[r] \in States
    BY <1>1 DEF WorkerInv, Types, States
  <2> QED BY <1>1, <2>1, AdvancedRunOK, SameAttempts
<1>3. /\ todo \in SUBSET Tasks
      /\ \A t \in todo : DependenciesSettled(view, t)
  <2>1. todo \in SUBSET Tasks
    BY WorkerAssumption
  <2> QED BY <1>2, <2>1 DEF RunOK, TaskOK, ClaimCandidate
<1>4. /\ tasks' = [tasks EXCEPT ![r] = view]
      /\ runner' = [runner EXCEPT ![w] =
            IF r \in closed \/ \A t \in Tasks : Settled(view, t)
            THEN [runner[w] EXCEPT !.page = page]
            ELSE [runner[w] EXCEPT !.at = "claim", !.view = view, !.todo = todo]]
      /\ runner[w].at = "observe"
      /\ UNCHANGED <<opened, closed, started, budget>>
  BY DEF Observe
<1>5. page \in SUBSET Runs
  BY <1>1 DEF Runner
<1>7. /\ \/ runner'[w] = [runner[w] EXCEPT !.page = page]
         \/ runner'[w] = [runner[w] EXCEPT !.at = "claim", !.view = view, !.todo = todo]
      /\ \A v \in Workers \ {w} : runner'[v] = runner[v]
  <2> HIDE DEF r, view, todo, page
  <2> QED BY <1>4 DEF WorkerInv, Types
<1> HIDE DEF r, view, todo, page
<1>6. Later /\ tasks'[r] = view
  BY <1>1, <1>2, <1>4, OneRun
<1>8. /\ runner'[w] \in Runner
      /\ \/ runner'[w].at = "observe"
         \/ /\ runner'[w].at = "claim" /\ runner'[w].page = runner[w].page
            /\ runner'[w].view = view /\ runner'[w].todo = todo
  <2>1. CASE runner'[w] = [runner[w] EXCEPT !.page = page]
    BY <1>1, <1>4, <1>5, <2>1 DEF Runner
  <2>2. CASE runner'[w] = [runner[w] EXCEPT !.at = "claim", !.view = view, !.todo = todo]
    BY <1>1, <1>2, <1>3, <2>2 DEF Runner, States
  <2> QED BY <1>7, <2>1, <2>2
<1>9. Moves(w)
  BY <1>4, <1>7, <1>8 DEF Moves, WorkerInv, Types
<1>10. WorkerOK(w)'
  <2>1. CASE runner'[w].at = "observe"
    BY <2>1 DEF WorkerOK
  <2>2. CASE runner'[w].at = "claim" /\ runner'[w].page = runner[w].page
             /\ runner'[w].view = view /\ runner'[w].todo = todo
    <3>1. Run(w)' = r
      BY <2>2 DEF Run, r
    <3>2. Keeps(view, tasks'[r])
      BY <1>6 DEF Keeps
    <3> QED BY <1>1, <1>3, <2>2, <3>1, <3>2 DEF WorkerOK
  <2> QED BY <1>8, <2>1, <2>2
<1>11. budget' \in 0 .. Disturbances /\ UNCHANGED <<opened, closed, started>>
  BY <1>4 DEF WorkerInv, Types
<1> QED BY <1>6, <1>8, <1>9, <1>10, <1>11, QuietStep

\* An execution that ends without a change of the journal.
LEMMA AbandonOK ==
    ASSUME WorkerInv, NEW w \in Workers, GiveUp(w) \/ Leave(w, "failed"),
           UNCHANGED <<tasks, opened, closed, started>>, budget' \in 0 .. Disturbances
    PROVE  WorkerInv' /\ Later
<1>1. Later
  BY SameTasks
<1>2. CASE GiveUp(w)
  BY <1>1, <1>2, GiveUpOK, QuietStep
<1>3. CASE Leave(w, "failed")
  BY <1>1, <1>3, LeaveOK, QuietStep
<1> QED BY <1>2, <1>3

\* A run that is not opened ends the supervisor.
LEMMA ObserveOK ==
    ASSUME WorkerInv, NEW w \in Workers, Observe(w)
    PROVE  WorkerInv' /\ Later
<1>1. CASE Run(w) \in opened
  BY <1>1, ObserveOpenedOK
<1>2. CASE Run(w) \notin opened
  <2>1. GiveUp(w) /\ UNCHANGED <<tasks, opened, closed, started, budget>>
    BY <1>2 DEF Observe
  <2>2. budget' \in 0 .. Disturbances
    BY <2>1 DEF WorkerInv, Types
  <2> QED BY <2>1, <2>2, AbandonOK
<1> QED BY <1>1, <1>2

\* The runner forgets a receipt by which nothing was claimed.
LEMMA NothingToClaimOK ==
    ASSUME WorkerInv, NEW w \in Workers, NothingToClaim(w)
    PROVE  WorkerInv' /\ Later
<1> DEFINE page == runner[w].page \ {Run(w)}
<1>1. runner[w] \in Runner /\ page \in SUBSET Runs /\ NoView \in [Tasks -> TaskState]
  <2>1. NewRunner("wait") \in Runner /\ runner[w] \in Runner
    BY NewRunnerFields DEF WorkerInv, Types
  <2> QED BY <2>1 DEF Runner, NewRunner
<1>2. runner' = [runner EXCEPT ![w] =
          [runner[w] EXCEPT !.at = "observe", !.page = page, !.view = NoView]]
  BY DEF NothingToClaim, Run
<1> HIDE DEF page
<1>3. /\ runner'[w] = [runner[w] EXCEPT !.at = "observe", !.page = page, !.view = NoView]
      /\ \A v \in Workers \ {w} : runner'[v] = runner[v]
  BY <1>2 DEF WorkerInv, Types
<1>4. runner'[w] \in Runner /\ runner'[w].at = "observe"
  BY <1>1, <1>3 DEF Runner
<1>5. Moves(w)
  BY <1>2, <1>4 DEF Moves, WorkerInv, Types
<1>6. WorkerOK(w)'
  BY <1>4 DEF WorkerOK
<1>7. Later /\ UNCHANGED <<opened, closed, started>> /\ budget' \in 0 .. Disturbances
  BY SameTasks DEF NothingToClaim, WorkerInv, Types
<1> QED BY <1>4, <1>5, <1>6, <1>7, QuietStep

\* The run with task t leased for its next attempt.
Granted(s, t) ==
    [s EXCEPT ![t].status = "leased", ![t].attempts = NextAttempt(s, t), ![t].due = FALSE]

\* A lease on a task: the run goes on, with one more attempt of that task.
LEMMA GrantOK ==
    ASSUME NEW s \in States, RunOK(s), NEW t \in Tasks, ~Exhausted(s, t),
           s[t].status = "available" \/ (s[t].status = "leased" /\ s[t].due),
           NEW u, u = Granted(s, t)
    PROVE  /\ u \in States /\ Keeps(s, u) /\ RunOK(u)
           /\ u[t].attempts = s[t].attempts + 1
           /\ \A d \in Tasks : u[d].attempts >= s[d].attempts
<1>1. s[t] \in TaskState /\ MaxAttempts[t] \in Nat /\ s[t].attempts \in Nat
  BY PlanTypes DEF States, TaskState
<1> DEFINE n == NextAttempt(s, t)
<1>n. n \in Nat /\ n = s[t].attempts + 1
  BY <1>1 DEF NextAttempt
<1>2. u = [s EXCEPT ![t] = [s[t] EXCEPT !.status = "leased", !.attempts = n, !.due = FALSE]]
  BY DEF Granted
<1> HIDE DEF n
<1>3. /\ u[t] \in TaskState /\ u[t].status = "leased" /\ u[t].attempts = n
      /\ \A d \in Tasks \ {t} : u[d] = s[d]
  <2>1. /\ u[t] = [s[t] EXCEPT !.status = "leased", !.attempts = n, !.due = FALSE]
        /\ \A d \in Tasks \ {t} : u[d] = s[d]
    BY <1>2 DEF States
  <2>2. u[t] \in TaskState /\ u[t].status = "leased" /\ u[t].attempts = n
    BY <1>1, <1>n, <2>1 DEF TaskState
  <2> QED BY <2>1, <2>2
<1>4. u \in States
  BY <1>2, <1>3 DEF States
<1>5. s[t].attempts < MaxAttempts[t]
  BY <1>1 DEF Exhausted, RunOK, TaskOK
<1>6. Keeps(s, u) /\ RunOK(u)
  <2>1. u[t].attempts <= MaxAttempts[t]
    BY <1>1, <1>n, <1>3, <1>5
  <2>2. ~Settled(s, t) /\ s[t].status # "pending"
    BY DEF Settled
  <2>3. u[t].status \notin {"pending", "skipped", "available", "succeeded"}
    BY <1>3
  <2> QED BY <1>3, <1>4, <2>1, <2>2, <2>3, OneTask
<1>7. \A d \in Tasks : u[d].attempts >= s[d].attempts
  <2>1. \A d \in Tasks : s[d].attempts \in Nat
    BY DEF States, TaskState
  <2>2. u[t].attempts >= s[t].attempts
    BY <1>1, <1>n, <1>3
  <2>3. \A d \in Tasks \ {t} : u[d].attempts >= s[d].attempts
    BY <1>3, <2>1
  <2> QED BY <2>2, <2>3
<1> QED BY <1>n, <1>3, <1>4, <1>6, <1>7

\* A granted attempt has a holder, and no other task has a new one.
LEMMA GrantCounts ==
    ASSUME WorkerInv, Types', Later, NEW w \in Workers, Moves(w), UNCHANGED started,
           NEW r \in Runs, NEW t \in Tasks,
           Run(w)' = r, runner'[w].task = t,
           tasks'[r][t].attempts = tasks[r][t].attempts + 1
    PROVE  \A q \in Runs, d \in Tasks : StartsOK(q, d)'
<1> SUFFICES ASSUME NEW q \in Runs, NEW d \in Tasks PROVE StartsOK(q, d)'
  OBVIOUS
<1>1. Holders(q, d)' \subseteq Holders(q, d) \cup {w}
  <2> SUFFICES ASSUME NEW v \in Workers \ {w}, runner'[v].at = "leased",
                      Min(runner'[v].page) = q, runner'[v].task = d
               PROVE  runner[v].at = "leased" /\ Min(runner[v].page) = q /\ runner[v].task = d
    BY DEF Holders, Run
  <2> QED BY DEF Moves
<1>2. CASE ~(q = r /\ d = t)
  <2>1. w \notin Holders(q, d)'
    BY <1>2 DEF Holders
  <2>2. Holders(q, d)' \subseteq Holders(q, d)
    BY <1>1, <2>1
  <2> QED BY <2>2, CountKept DEF Later
<1>3. CASE q = r /\ d = t
  <2> DEFINE H == Holders(r, t)
             K == Holders(r, t)'
  <2>1. IsFiniteSet(H) /\ Cardinality(H) \in Nat /\ Cardinality(K) \in Nat
    BY FiniteHolders
  <2>2. IsFiniteSet(H \cup {w}) /\ Cardinality(H \cup {w}) <= Cardinality(H) + 1
    <3> HIDE DEF H
    <3>1. /\ IsFiniteSet(H \cup {w})
          /\ Cardinality(H \cup {w}) = IF w \in H THEN Cardinality(H) ELSE Cardinality(H) + 1
      BY <2>1, FS_AddElement
    <3> QED BY <2>1, <3>1
  <2>3. Cardinality(K) <= Cardinality(H \cup {w})
    <3>1. K \subseteq H \cup {w}
      BY <1>1, <1>3
    <3> HIDE DEF H, K
    <3> QED BY <2>2, <3>1, FS_Subset
  <2>4. Cardinality(H \cup {w}) \in Nat
    BY <2>2, FS_CardinalityType
  <2>5. started[r][t] + Cardinality(H) <= tasks[r][t].attempts
    BY DEF WorkerInv, StartsOK
  <2>6. started[r][t] \in Nat /\ tasks[r][t].attempts \in Nat
    BY DEF WorkerInv, Types, TaskState
  <2>7. started'[r][t] + Cardinality(K) <= tasks'[r][t].attempts
    <3> HIDE DEF H, K
    <3> QED BY <2>1, <2>2, <2>3, <2>4, <2>5, <2>6
  <2> QED BY <1>3, <2>7 DEF StartsOK
<1> QED BY <1>2, <1>3

\* A claim that is granted, that conflicts, or that meets a terminal run.
LEMMA ClaimTaskOK ==
    ASSUME WorkerInv, NEW w \in Workers, ClaimTask(w)
    PROVE  WorkerInv' /\ Later
<1> DEFINE r == Run(w)
           t == Min(runner[w].todo)
           s == AdvancedRun(r)
           n == NextAttempt(s, t)
<1>1. /\ r \in Runs /\ t \in Tasks /\ t \in runner[w].todo
      /\ runner[w] \in Runner /\ runner[w].at = "claim"
      /\ UNCHANGED <<opened, closed, started, budget>>
  BY RunOf DEF ClaimTask, WorkerInv, Types, WorkerOK
<1>2. /\ s \in States /\ Keeps(tasks[r], s) /\ RunOK(s)
      /\ \A d \in Tasks : s[d].attempts = tasks[r][d].attempts
      /\ r \notin closed => ~Exhausted(s, t)
  BY <1>1, AdvancedRunOK
<1>3. /\ runner[w].page # {} /\ Keeps(runner[w].view, tasks[r])
      /\ \A d \in runner[w].todo : DependenciesSettled(runner[w].view, d)
  BY <1>1 DEF WorkerInv, WorkerOK
<1>4. budget' \in 0 .. Disturbances
  BY <1>1 DEF WorkerInv, Types
<1>5. \A d \in Tasks : s[d].attempts >= tasks[r][d].attempts
  <2>1. tasks[r] \in States
    BY <1>1 DEF WorkerInv, Types, States
  <2> QED BY <1>2, <2>1, SameAttempts
<1>6. \/ r \in closed /\ GiveUp(w) /\ UNCHANGED tasks
      \/ /\ r \notin closed
         /\ s[t].status = "available" \/ (s[t].status = "leased" /\ s[t].due)
         /\ tasks' = [tasks EXCEPT ![r] = Granted(s, t)]
         /\ runner' = [runner EXCEPT ![w] =
                [runner[w] EXCEPT !.at = "leased", !.task = t, !.attempt = n]]
      \/ /\ tasks' = [tasks EXCEPT ![r] = s]
         /\ runner' = [runner EXCEPT ![w] = [runner[w] EXCEPT !.todo = runner[w].todo \ {t}]]
  BY DEF ClaimTask, Granted
<1> HIDE DEF s, n, t
<1>7. CASE r \in closed /\ GiveUp(w) /\ UNCHANGED tasks
  BY <1>1, <1>4, <1>7, GiveUpOK, SameTasks, QuietStep
<1>8. CASE /\ r \notin closed
           /\ s[t].status = "available" \/ (s[t].status = "leased" /\ s[t].due)
           /\ tasks' = [tasks EXCEPT ![r] = Granted(s, t)]
           /\ runner' = [runner EXCEPT ![w] =
                  [runner[w] EXCEPT !.at = "leased", !.task = t, !.attempt = n]]
  <2> DEFINE u == Granted(s, t)
  <2>1. /\ u \in States /\ Keeps(s, u) /\ RunOK(u)
        /\ u[t].attempts = s[t].attempts + 1
        /\ \A d \in Tasks : u[d].attempts >= s[d].attempts
    BY <1>1, <1>2, <1>8, GrantOK
  <2>2. \A d \in Tasks : u[d].attempts >= tasks[r][d].attempts
    BY <1>2, <2>1
  <2> HIDE DEF u
  <2>3. Keeps(tasks[r], u)
    BY <1>2, <2>1, KeepsTransitive
  <2>4. Later /\ tasks'[r] = u
    <3>1. tasks' = [tasks EXCEPT ![r] = u]
      BY <1>8 DEF u
    <3> HIDE DEF r
    <3> QED BY <1>1, <2>1, <2>2, <2>3, <3>1, OneRun
  <2>5. /\ runner'[w] = [runner[w] EXCEPT !.at = "leased", !.task = t, !.attempt = n]
        /\ \A v \in Workers \ {w} : runner'[v] = runner[v]
    BY <1>8 DEF WorkerInv, Types
  <2>6. n \in Nat
    BY <1>1, <1>2 DEF n, NextAttempt, States, TaskState
  <2>7. /\ runner'[w] \in Runner
        /\ runner'[w].at = "leased" /\ runner'[w].task = t
        /\ runner'[w].page = runner[w].page /\ runner'[w].view = runner[w].view
    BY <1>1, <2>5, <2>6 DEF Runner
  <2>8. Moves(w)
    BY <1>8, <2>5, <2>7 DEF Moves, WorkerInv, Types
  <2>9. Types'
    BY <1>1, <2>4, <2>8 DEF WorkerInv, Types, Later, States, Moves
  <2>10. Run(w)' = r
    BY <2>7 DEF Run
  <2>11. WorkerOK(w)'
    <3>1. Keeps(runner[w].view, tasks'[r])
      BY <1>3, <2>3, <2>4, KeepsTransitive
    <3>2. DependenciesSettled(runner[w].view, t)
      BY <1>1, <1>3
    <3> HIDE DEF r
    <3> QED BY <1>1, <1>3, <2>7, <2>10, <3>1, <3>2 DEF WorkerOK
  <2>12. \A v \in Workers : WorkerOK(v)'
    BY <2>4, <2>8, <2>11, StaysOK DEF Moves
  <2>13. tasks'[r][t].attempts = tasks[r][t].attempts + 1
    BY <1>1, <1>2, <2>1, <2>4
  <2>14. \A q \in Runs, d \in Tasks : StartsOK(q, d)'
    <3> HIDE DEF r
    <3> QED BY <1>1, <2>4, <2>7, <2>8, <2>9, <2>10, <2>13, GrantCounts
  <2> QED BY <2>4, <2>9, <2>12, <2>14 DEF WorkerInv, Later
<1>9. CASE /\ tasks' = [tasks EXCEPT ![r] = s]
           /\ runner' = [runner EXCEPT ![w] = [runner[w] EXCEPT !.todo = runner[w].todo \ {t}]]
  <2> DEFINE todo == runner[w].todo \ {t}
  <2>1. Later /\ tasks'[r] = s
    <3> HIDE DEF r
    <3> QED BY <1>1, <1>2, <1>5, <1>9, OneRun
  <2>2. todo \in SUBSET Tasks
    BY <1>1 DEF Runner
  <2> HIDE DEF todo
  <2>3. /\ runner'[w] = [runner[w] EXCEPT !.todo = todo]
        /\ \A v \in Workers \ {w} : runner'[v] = runner[v]
    BY <1>9 DEF WorkerInv, Types, todo
  <2>4. /\ runner'[w] \in Runner
        /\ runner'[w].at = "claim" /\ runner'[w].todo = todo
        /\ runner'[w].page = runner[w].page /\ runner'[w].view = runner[w].view
    BY <1>1, <2>2, <2>3 DEF Runner
  <2>5. Moves(w)
    BY <1>9, <2>3, <2>4 DEF Moves, WorkerInv, Types
  <2>6. Run(w)' = r
    BY <2>4 DEF Run
  <2>7. WorkerOK(w)'
    <3>1. Keeps(runner[w].view, tasks'[r])
      BY <1>2, <1>3, <2>1, KeepsTransitive
    <3>2. \A d \in todo : DependenciesSettled(runner[w].view, d)
      BY <1>3 DEF todo
    <3> HIDE DEF r
    <3> QED BY <1>3, <2>4, <2>6, <3>1, <3>2 DEF WorkerOK
  <2> QED BY <1>1, <1>4, <2>1, <2>4, <2>5, <2>7, QuietStep
<1> QED BY <1>6, <1>7, <1>8, <1>9

\* A started attempt has a holder less.
LEMMA StartCounts ==
    ASSUME WorkerInv, Types', NEW w \in Workers, Moves(w), UNCHANGED tasks,
           NEW r \in Runs, NEW t \in Tasks,
           w \in Holders(r, t), runner'[w].at = "execute",
           started' = [started EXCEPT ![r][t] = @ + 1]
    PROVE  \A q \in Runs, d \in Tasks : StartsOK(q, d)'
<1> SUFFICES ASSUME NEW q \in Runs, NEW d \in Tasks PROVE StartsOK(q, d)'
  OBVIOUS
<1>1. Holders(q, d)' \subseteq Holders(q, d) \ {w}
  <2> SUFFICES ASSUME NEW v \in Workers, runner'[v].at = "leased",
                      Min(runner'[v].page) = q, runner'[v].task = d
               PROVE  /\ runner[v].at = "leased" /\ Min(runner[v].page) = q
                      /\ runner[v].task = d /\ v # w
    BY DEF Holders, Run
  <2> QED BY DEF Moves
<1>2. /\ started[q][d] \in Nat /\ tasks[q][d].attempts \in Nat
      /\ started \in [Runs -> [Tasks -> Nat]]
  BY DEF WorkerInv, Types, TaskState
<1>3. CASE ~(q = r /\ d = t)
  <2>1. started'[q][d] = started[q][d]
    BY <1>2, <1>3
  <2>2. tasks'[q][d].attempts >= tasks[q][d].attempts
    BY <1>2
  <2> QED BY <1>1, <2>1, <2>2, CountKept
<1>4. CASE q = r /\ d = t
  <2> DEFINE H == Holders(r, t)
             K == Holders(r, t)'
  <2>1. IsFiniteSet(H) /\ Cardinality(H) \in Nat /\ Cardinality(K) \in Nat
    BY FiniteHolders
  <2>2. K \subseteq H \ {w} /\ w \in H
    BY <1>1, <1>4
  <2>3. started[r][t] + Cardinality(H) <= tasks[r][t].attempts
    BY DEF WorkerInv, StartsOK
  <2> HIDE DEF H, K
  <2>4. IsFiniteSet(H \ {w}) /\ Cardinality(H \ {w}) = Cardinality(H) - 1
    BY <2>1, <2>2, FS_RemoveElement
  <2>5. Cardinality(K) <= Cardinality(H \ {w})
    BY <2>2, <2>4, FS_Subset
  <2>6. started'[r][t] = started[r][t] + 1
    BY <1>2
  <2>7. started'[r][t] + Cardinality(K) <= tasks'[r][t].attempts
    BY <1>2, <1>4, <2>1, <2>3, <2>4, <2>5, <2>6
  <2> QED BY <1>4, <2>7 DEF StartsOK, K
<1> QED BY <1>3, <1>4

\* The inputs come from the receipt and are the journal's: their tasks were
\* settled when the receipt was read.
LEMMA StartHandlerOK ==
    ASSUME WorkerInv, NEW w \in Workers, StartHandler(w)
    PROVE  WorkerInv' /\ Later
<1> DEFINE r == Run(w)
           t == runner[w].task
           view == runner[w].view
           inputs == DependencyOutputs(view, t)
<1>1. /\ runner[w].at = "leased" /\ runner[w] \in Runner
      /\ t \in Tasks /\ r \in Runs /\ runner[w].page # {}
      /\ UNCHANGED <<tasks, opened, closed, budget>>
  BY RunOf DEF StartHandler, WorkerInv, Types, WorkerOK
<1>2. Keeps(view, tasks[r]) /\ DependenciesSettled(view, t) /\ view \in States
  BY <1>1 DEF WorkerInv, WorkerOK, Runner, States
<1>3. /\ DependenciesSettled(tasks[r], t)
      /\ inputs = DependencyOutputs(tasks[r], t)
  BY <1>1, <1>2, KeepsInputs
<1>4. inputs \in Inputs
  <2>1. \A d \in Tasks : view[d] \in TaskState
    BY <1>2 DEF States
  <2>2. \A d \in Tasks : view[d].attempts \in Nat /\ view[d].failure \in Failures \cup {"none"}
    BY <2>1 DEF TaskState
  <2> HIDE DEF view
  <2> QED BY <2>2 DEF DependencyOutputs, Inputs, Outcomes, Output, Unavailable, NoInputs
<1>5. NoView \in [Tasks -> TaskState]
  BY NewRunnerFields DEF NewRunner, Runner
<1>6. \/ GiveUp(w) /\ UNCHANGED started
      \/ /\ runner' = [runner EXCEPT ![w] = [runner[w] EXCEPT !.at = "execute",
                !.handler = "running", !.inputs = inputs, !.view = NoView, !.todo = {}]]
         /\ started' = [started EXCEPT ![r][t] = @ + 1]
  BY DEF StartHandler
<1>7. Later /\ budget' \in 0 .. Disturbances
  BY <1>1, SameTasks DEF WorkerInv, Types
<1>8. CASE GiveUp(w) /\ UNCHANGED started
  BY <1>1, <1>7, <1>8, GiveUpOK, QuietStep
<1>9. CASE /\ runner' = [runner EXCEPT ![w] = [runner[w] EXCEPT !.at = "execute",
                  !.handler = "running", !.inputs = inputs, !.view = NoView, !.todo = {}]]
           /\ started' = [started EXCEPT ![r][t] = @ + 1]
  <2> HIDE DEF inputs
  <2>1. /\ runner'[w] = [runner[w] EXCEPT !.at = "execute",
                !.handler = "running", !.inputs = inputs, !.view = NoView, !.todo = {}]
        /\ \A v \in Workers \ {w} : runner'[v] = runner[v]
    BY <1>9 DEF WorkerInv, Types
  <2>2. /\ runner'[w] \in Runner
        /\ runner'[w].at = "execute" /\ runner'[w].inputs = inputs
        /\ runner'[w].page = runner[w].page /\ runner'[w].task = runner[w].task
    BY <1>1, <1>4, <1>5, <2>1 DEF Runner
  <2>3. Moves(w)
    BY <1>9, <2>1, <2>2 DEF Moves, WorkerInv, Types
  <2>4. started' \in [Runs -> [Tasks -> Nat]]
    <3>1. started \in [Runs -> [Tasks -> Nat]]
      BY DEF WorkerInv, Types
    <3> HIDE DEF r, t
    <3> QED BY <1>1, <1>9, <3>1
  <2>5. Types'
    BY <1>1, <1>7, <2>3, <2>4 DEF WorkerInv, Types, Moves
  <2>6. Run(w)' = r
    BY <2>2 DEF Run
  <2>7. WorkerOK(w)'
    BY <1>1, <1>3, <2>2, <2>6 DEF WorkerOK
  <2>8. \A v \in Workers : WorkerOK(v)'
    BY <1>7, <2>3, <2>7, StaysOK DEF Moves
  <2>9. w \in Holders(r, t)
    BY <1>1 DEF Holders
  <2>10. \A q \in Runs, d \in Tasks : StartsOK(q, d)'
    <3> HIDE DEF r, t
    <3> QED BY <1>1, <1>9, <2>2, <2>3, <2>5, <2>9, StartCounts
  <2> QED BY <1>7, <2>5, <2>8, <2>10 DEF WorkerInv, Later
<1> QED BY <1>6, <1>8, <1>9

----------------------------------------------------------------------------
(* Executing. *)

\* A handler that returns changes nothing the journal or its inputs depend on.
LEMMA HandlerReturnsOK ==
    ASSUME WorkerInv, NEW w \in Workers, NEW result \in Results[w], HandlerReturns(w, result)
    PROVE  WorkerInv' /\ Later
<1>1. /\ runner[w] \in Runner
      /\ runner'[w] = [runner[w] EXCEPT !.handler = result]
      /\ \A v \in Workers \ {w} : runner'[v] = runner[v]
  BY DEF HandlerReturns, WorkerInv, Types
<1>2. result \in {"none", "running", "success", "transient", "policy"}
  BY WorkerAssumption
<1>3. /\ runner'[w] \in Runner
      /\ runner'[w].at = runner[w].at /\ runner'[w].page = runner[w].page
      /\ runner'[w].view = runner[w].view /\ runner'[w].todo = runner[w].todo
      /\ runner'[w].task = runner[w].task /\ runner'[w].inputs = runner[w].inputs
  BY <1>1, <1>2 DEF Runner
<1>4. Moves(w)
  BY <1>1, <1>3 DEF HandlerReturns, Moves, WorkerInv, Types
<1>5. UNCHANGED <<tasks, opened, closed, started>> /\ budget' \in 0 .. Disturbances
  BY DEF HandlerReturns, WorkerInv, Types
<1>6. Later
  BY <1>5, SameTasks
<1>7. WorkerOK(w)'
  <2>1. WorkerOK(w) /\ Run(w)' = Run(w)
    BY <1>3 DEF WorkerInv, Run
  <2> QED BY <1>3, <1>5, <2>1 DEF WorkerOK
<1> QED BY <1>3, <1>4, <1>5, <1>6, <1>7, QuietStep

\* A completion under a live lease, on the inputs the dependencies ended with.
LEMMA CompleteTaskOK ==
    ASSUME WorkerInv, NEW r \in Runs, NEW t \in Tasks, NEW n, LeaseLive(r, t, n),
           NEW result \in Failures \cup {"none", "success"}, NEW inputs \in Inputs,
           result = "success" => inputs = DependencyOutputs(tasks[r], t),
           CompleteTask(r, t, result, inputs)
    PROVE  Later
<1> DEFINE s == tasks[r]
           y == IF result = "success"
                THEN [s[t] EXCEPT !.status = "succeeded", !.inputs = inputs]
                ELSE [s[t] EXCEPT !.status = "failed", !.failure = result]
           u == [s EXCEPT ![t] = y]
<1>1. /\ s \in States /\ RunOK(s) /\ s[t] \in TaskState /\ s[t].status = "leased"
  BY DEF WorkerInv, Types, States, LeaseLive
<1>2. tasks' = [tasks EXCEPT ![r] = u]
  BY DEF CompleteTask
<1>3. /\ y \in TaskState /\ y.attempts = s[t].attempts
      /\ y.status \in {"succeeded", "failed"}
      /\ y.status = "succeeded" => y.inputs = DependencyOutputs(s, t)
  <2>1. CASE result = "success"
    <3>1. y = [s[t] EXCEPT !.status = "succeeded", !.inputs = inputs]
      BY <2>1
    <3> HIDE DEF y, s
    <3>2. /\ y \in TaskState /\ y.attempts = s[t].attempts
          /\ y.status = "succeeded" /\ y.inputs = inputs
      BY <1>1, <3>1 DEF TaskState
    <3> QED BY <2>1, <3>2 DEF s
  <2>2. CASE result # "success"
    <3>1. y = [s[t] EXCEPT !.status = "failed", !.failure = result]
      BY <2>2
    <3> HIDE DEF y, s
    <3> QED BY <1>1, <2>2, <3>1 DEF TaskState
  <2> QED BY <2>1, <2>2
<1> HIDE DEF y
<1>4. u \in States /\ u[t] = y /\ \A d \in Tasks \ {t} : u[d] = s[d]
  BY <1>1, <1>3 DEF States
<1> HIDE DEF u
<1>5. \A d \in Tasks : u[d].attempts = s[d].attempts
  BY <1>3, <1>4
<1>6. Keeps(s, u) /\ RunOK(u)
  <2>1. ~Settled(s, t) /\ s[t].status # "pending"
    BY <1>1 DEF Settled
  <2>2. /\ u[t].status \notin {"pending", "skipped", "available"}
        /\ u[t].status = "succeeded" => u[t].inputs = DependencyOutputs(s, t)
    BY <1>3, <1>4
  <2>3. u[t].attempts <= MaxAttempts[t]
    BY <1>1, <1>3, <1>4 DEF RunOK, TaskOK
  <2> HIDE DEF s
  <2> QED BY <1>1, <1>4, <2>1, <2>2, <2>3, OneTask
<1>7. \A d \in Tasks : u[d].attempts >= s[d].attempts
  BY <1>1, <1>4, <1>5, SameAttempts
<1> QED BY <1>2, <1>4, <1>6, <1>7, OneRun

\* A success is recorded with inputs that are still those of the journal.
LEMMA TakeCompletionOK ==
    ASSUME WorkerInv, NEW w \in Workers, TakeCompletion(w)
    PROVE  WorkerInv' /\ Later
<1>1. /\ runner[w].at = "execute" /\ Run(w) \in Runs /\ runner[w].task \in Tasks
      /\ runner[w].inputs = DependencyOutputs(tasks[Run(w)], runner[w].task)
      /\ UNCHANGED <<opened, closed, started>> /\ budget' \in 0 .. Disturbances
  BY RunOf DEF TakeCompletion, WorkerInv, Types, WorkerOK
<1>2. /\ runner[w].handler \in Failures \cup {"none", "success"}
      /\ runner[w].inputs \in Inputs
  BY DEF TakeCompletion, WorkerInv, Types, Runner, Failures
<1>3. Later
  BY <1>1, <1>2, SameTasks, CompleteTaskOK DEF TakeCompletion
<1>4. Leave(w, "worked") \/ Leave(w, "failed")
  BY DEF TakeCompletion
<1> QED BY <1>1, <1>3, <1>4, LeaveOK, QuietStep

\* A refused renewal keeps the task and its run in mind.
LEMMA RenewalRefusedOK ==
    ASSUME WorkerInv, NEW w \in Workers, RenewalRefused(w)
    PROVE  WorkerInv' /\ Later
<1>1. /\ runner[w] \in Runner /\ runner[w].page # {} /\ runner[w].task \in Tasks
      /\ UNCHANGED <<tasks, opened, closed, started>>
  BY DEF RenewalRefused, WorkerInv, Types, WorkerOK
<1>2. budget' \in 0 .. Disturbances
  BY WorkerAssumption DEF RenewalRefused, Disturb, WorkerInv, Types
<1>3. /\ runner'[w] = [runner[w] EXCEPT !.at = "refused"]
      /\ \A v \in Workers \ {w} : runner'[v] = runner[v]
  BY DEF RenewalRefused, WorkerInv, Types
<1>4. /\ runner'[w] \in Runner /\ runner'[w].at = "refused"
      /\ runner'[w].page = runner[w].page /\ runner'[w].task = runner[w].task
  BY <1>1, <1>3 DEF Runner
<1>5. Moves(w)
  BY <1>3, <1>4 DEF RenewalRefused, Moves, WorkerInv, Types
<1>6. WorkerOK(w)'
  BY <1>1, <1>4 DEF WorkerOK
<1> QED BY <1>1, <1>2, <1>4, <1>5, <1>6, SameTasks, QuietStep

\* The task fails under its live lease, or the run is read once more.
LEMMA FailRefusedOK ==
    ASSUME WorkerInv, NEW w \in Workers, FailRefused(w)
    PROVE  WorkerInv' /\ Later
<1> DEFINE r == Run(w)
           s == AdvancedRun(r)
<1>1. /\ r \in Runs /\ runner[w].task \in Tasks
      /\ UNCHANGED <<opened, closed, started>> /\ budget' \in 0 .. Disturbances
  BY RunOf DEF FailRefused, WorkerInv, Types, WorkerOK
<1>2. "resource_limit" \in Failures \cup {"none", "success"} /\ NoInputs \in Inputs
  BY DEF Failures, NoInputs, Inputs, Outcomes, Output
<1>3. CASE LeaseLive(r, runner[w].task, runner[w].attempt)
           /\ CompleteTask(r, runner[w].task, "resource_limit", NoInputs)
  <2>1. Later
    BY <1>1, <1>2, <1>3, CompleteTaskOK
  <2> QED BY <1>1, <2>1, LeaveOK, QuietStep DEF FailRefused
<1>4. CASE tasks' = [tasks EXCEPT ![r] = s]
  <2>1. tasks[r] \in States
    BY <1>1 DEF WorkerInv, Types, States
  <2>2. /\ s \in States /\ Keeps(tasks[r], s) /\ RunOK(s)
        /\ \A t \in Tasks : s[t].attempts >= tasks[r][t].attempts
    BY <1>1, <2>1, AdvancedRunOK, SameAttempts
  <2> HIDE DEF s
  <2>3. Later
    <3> HIDE DEF r
    <3> QED BY <1>1, <1>4, <2>2, OneRun
  <2> QED BY <1>1, <2>3, LeaveOK, QuietStep DEF FailRefused
<1> QED BY <1>3, <1>4 DEF FailRefused

\* After the drain the runner observes its page again, or gives up.
LEMMA DrainedOK ==
    ASSUME WorkerInv, NEW w \in Workers, Drained(w)
    PROVE  WorkerInv' /\ Later
<1>1. UNCHANGED <<tasks, opened, closed, started>> /\ budget' \in 0 .. Disturbances
  BY DEF Drained, WorkerInv, Types
<1>2. CASE GiveUp(w)
  BY <1>1, <1>2, AbandonOK
<1>3. CASE runner' = [runner EXCEPT ![w] = [NewRunner("observe") EXCEPT
                          !.page = runner[w].page, !.cursor = runner[w].cursor]]
  <2> DEFINE x == NewRunner("observe")
             page == runner[w].page
             cursor == runner[w].cursor
  <2>1. x \in Runner /\ x.at = "observe" /\ page \in SUBSET Runs /\ cursor \in Nat
    BY NewRunnerFields DEF WorkerInv, Types, Runner
  <2>2. runner' = [runner EXCEPT ![w] = [x EXCEPT !.page = page, !.cursor = cursor]]
    BY <1>3
  <2> HIDE DEF x, page, cursor
  <2>3. /\ runner'[w] = [x EXCEPT !.page = page, !.cursor = cursor]
        /\ \A v \in Workers \ {w} : runner'[v] = runner[v]
    BY <2>2 DEF WorkerInv, Types
  <2>4. runner'[w] \in Runner /\ runner'[w].at = "observe"
    BY <2>1, <2>3 DEF Runner
  <2>5. Moves(w) /\ WorkerOK(w)'
    BY <2>2, <2>4 DEF Moves, WorkerOK, WorkerInv, Types
  <2> QED BY <1>1, <2>4, <2>5, SameTasks, QuietStep
<1> QED BY <1>2, <1>3 DEF Drained

\* A process that starts again remembers nothing.
LEMMA RestartOK ==
    ASSUME WorkerInv, NEW w \in Workers, Restart(w)
    PROVE  WorkerInv' /\ Later
<1>1. /\ runner'[w] = NewRunner("wait")
      /\ runner'[w] \in Runner /\ runner'[w].at = "wait"
  BY NewRunnerFields DEF Restart, WorkerInv, Types
<1>2. Moves(w) /\ WorkerOK(w)'
  BY <1>1 DEF Restart, Moves, WorkerOK, WorkerInv, Types
<1>3. UNCHANGED <<tasks, opened, closed, started>> /\ budget' \in 0 .. Disturbances
  BY DEF Restart, WorkerInv, Types
<1> QED BY <1>1, <1>2, <1>3, SameTasks, QuietStep

----------------------------------------------------------------------------
(* Beside the workers. *)

\* A step that moves no worker.
LEMMA StillStep ==
    ASSUME WorkerInv, Later, UNCHANGED <<runner, started>>,
           closed' \subseteq opened', opened' \subseteq Runs,
           budget' \in 0 .. Disturbances
    PROVE  WorkerInv' /\ Later
<1>1. Types'
  BY DEF WorkerInv, Types, Later, States
<1>2. \A v \in Workers : WorkerOK(v)'
  BY StaysOK
<1>3. ASSUME NEW r \in Runs, NEW t \in Tasks PROVE StartsOK(r, t)'
  <2>1. Holders(r, t)' = Holders(r, t)
    BY DEF Holders, Run
  <2> QED BY <1>1, <2>1, CountKept DEF Later
<1> QED BY <1>1, <1>2, <1>3 DEF WorkerInv, Later

\* Time passes for leases and retries, never for a settled task.
LEMMA TimePassesOK ==
    ASSUME WorkerInv, NEW r \in Runs, NEW t \in Tasks, TimePasses(r, t)
    PROVE  WorkerInv' /\ Later
<1> DEFINE s == tasks[r]
           y == [s[t] EXCEPT !.due = TRUE]
           u == [s EXCEPT ![t] = y]
<1>1. /\ s \in States /\ RunOK(s) /\ s[t] \in TaskState
  BY DEF WorkerInv, Types, States
<1>2. tasks' = [tasks EXCEPT ![r] = u]
  BY DEF TimePasses
<1>3. s[t].status = "leased" \/ (s[t].status = "failed" /\ MayRetry(s, t))
  BY DEF TimePasses
<1>4. y \in TaskState /\ y.attempts = s[t].attempts /\ y.status = s[t].status
  <2> HIDE DEF s
  <2> QED BY <1>1 DEF TaskState
<1> HIDE DEF y
<1>5. u \in States /\ u[t] = y /\ \A d \in Tasks \ {t} : u[d] = s[d]
  BY <1>1, <1>4 DEF States
<1> HIDE DEF u
<1>6. \A d \in Tasks : u[d].attempts = s[d].attempts
  BY <1>4, <1>5
<1>7. Keeps(s, u) /\ RunOK(u)
  <2>1. ~Settled(s, t) /\ s[t].status # "pending"
    BY <1>3 DEF Settled
  <2>2. u[t].status \notin {"pending", "skipped", "available", "succeeded"}
    BY <1>3, <1>4, <1>5
  <2>3. u[t].attempts <= MaxAttempts[t]
    BY <1>1, <1>4, <1>5 DEF RunOK, TaskOK
  <2> HIDE DEF s
  <2> QED BY <1>1, <1>5, <2>1, <2>2, <2>3, OneTask
<1>8. \A d \in Tasks : u[d].attempts >= s[d].attempts
  BY <1>1, <1>5, <1>6, SameAttempts
<1>9. Later
  BY <1>2, <1>5, <1>7, <1>8, OneRun
<1> QED BY <1>9, StillStep DEF TimePasses, WorkerInv, Types

\* Opening or closing a run changes none of its tasks.
LEMMA CloseOK ==
    ASSUME WorkerInv, NEW r \in Runs, OpenRun(r) \/ Finalize(r) \/ CancelRun(r)
    PROVE  WorkerInv' /\ Later
<1>1. /\ UNCHANGED <<tasks, runner, started>>
      /\ \/ UNCHANGED closed /\ opened' = opened \cup {r}
         \/ UNCHANGED opened /\ closed' = closed \cup {r} /\ r \in opened
      /\ budget' = budget \/ (budget > 0 /\ budget' = budget - 1)
  BY DEF OpenRun, Finalize, CancelRun, Disturb
<1>2. closed' \subseteq opened' /\ opened' \subseteq Runs
  BY <1>1 DEF WorkerInv, Types
<1>3. budget' \in 0 .. Disturbances
  BY <1>1, WorkerAssumption DEF WorkerInv, Types
<1> QED BY <1>1, <1>2, <1>3, SameTasks, StillStep

----------------------------------------------------------------------------
(* Theorems. *)

\* Every step keeps the invariant, and the journal goes on.
LEMMA StepOK == WorkerInv /\ [Next]_vars => WorkerInv' /\ Later
<1> SUFFICES ASSUME WorkerInv, [Next]_vars PROVE WorkerInv' /\ Later
  OBVIOUS
<1>1. ASSUME NEW w \in Workers, Proceed(w) PROVE WorkerInv' /\ Later
  <2>1. CASE RenewalFails(w) \/ ExecutionTimeout(w) \/ DrainFails(w)
    <3>1. /\ GiveUp(w) \/ Leave(w, "failed")
          /\ UNCHANGED <<tasks, opened, closed, started>> /\ budget' = budget
      BY <2>1 DEF RenewalFails, ExecutionTimeout, DrainFails
    <3>2. budget' \in 0 .. Disturbances
      BY <3>1 DEF WorkerInv, Types
    <3> QED BY <3>1, <3>2, AbandonOK
  <2>2. CASE ListPlans(w) BY <2>2, ListPlansOK
  <2>3. CASE PassDone(w) BY <2>3, PassDoneOK
  <2>4. CASE Observe(w) BY <2>4, ObserveOK
  <2>5. CASE NothingToClaim(w) BY <2>5, NothingToClaimOK
  <2>6. CASE ClaimTask(w) BY <2>6, ClaimTaskOK
  <2>7. CASE StartHandler(w) BY <2>7, StartHandlerOK
  <2>8. CASE TakeCompletion(w) BY <2>8, TakeCompletionOK
  <2>9. CASE Drained(w) BY <2>9, DrainedOK
  <2>10. CASE Restart(w) BY <2>10, RestartOK
  <2>11. CASE FailRefused(w) BY <2>11, FailRefusedOK
  <2> QED BY <1>1, <2>1, <2>2, <2>3, <2>4, <2>5, <2>6, <2>7, <2>8, <2>9, <2>10, <2>11
     DEF Proceed
<1>2. ASSUME NEW w \in Workers, NEW result \in Results[w], HandlerReturns(w, result)
      PROVE  WorkerInv' /\ Later
  BY <1>2, HandlerReturnsOK
<1>3. ASSUME NEW w \in Workers, RenewalRefused(w) PROVE WorkerInv' /\ Later
  BY <1>3, RenewalRefusedOK
<1>4. ASSUME NEW w \in Workers, ControlFails(w) \/ Stop(w) PROVE WorkerInv' /\ Later
  <2>1. /\ GiveUp(w) \/ Leave(w, "failed")
        /\ UNCHANGED <<tasks, opened, closed, started>> /\ budget > 0 /\ budget' = budget - 1
    BY <1>4 DEF ControlFails, Stop, Disturb
  <2>2. budget' \in 0 .. Disturbances
    BY <2>1, WorkerAssumption DEF WorkerInv, Types
  <2> QED BY <2>1, <2>2, AbandonOK
<1>5. ASSUME NEW r \in Runs, OpenRun(r) \/ Finalize(r) \/ CancelRun(r) PROVE WorkerInv' /\ Later
  BY <1>5, CloseOK
<1>6. ASSUME NEW r \in Runs, NEW t \in Tasks, TimePasses(r, t) PROVE WorkerInv' /\ Later
  BY <1>6, TimePassesOK
<1>7. CASE UNCHANGED vars
  <2>1. UNCHANGED <<tasks, opened, closed, runner, started, budget>>
    BY <1>7 DEF vars
  <2>2. closed' \subseteq opened' /\ opened' \subseteq Runs /\ budget' \in 0 .. Disturbances
    BY <2>1 DEF WorkerInv, Types
  <2> QED BY <2>1, <2>2, SameTasks, StillStep
<1> QED BY <1>1, <1>2, <1>3, <1>4, <1>5, <1>6, <1>7 DEF Next, WorkerStep, RunStep

\* The invariant of the workers and their runs holds in every reachable state.
THEOREM WorkerInvariant == Spec => []WorkerInv
<1> QED BY InitOK, StepOK, PTL DEF Spec

\* The workers' state is of its types, and no task exceeds its attempts
\* (worker/runner.go and worker/local_supervisor.go, over any plan).
THEOREM WorkerTypes == Spec => []TypeOK
<1>1. WorkerInv => TypeOK
  BY DEF WorkerInv, Types, TypeOK, RunOK, TaskOK
<1> QED BY <1>1, WorkerInvariant, PTL

\* Whatever happened between the receipt a runner read and the claim it was
\* granted, the dependency outputs it gives the handler are those the journal
\* ended with, and so are those of every recorded success (execute of
\* worker/runner.go, the dependency outputs of controlplane/task_handler.go).
THEOREM WorkerInputsSettled == Spec => []InputsAreSettled
<1>1. WorkerInv => InputsAreSettled
  BY DEF WorkerInv, WorkerOK, RunOK, TaskOK, InputsAreSettled
<1> QED BY <1>1, WorkerInvariant, PTL

\* A settled task never changes again: not its outcome, its attempts nor the
\* inputs it had (no late completion, renewal or expiry reopens it), and no
\* step of anybody takes an attempt back.
OutcomesFinal ==
    \A r \in Runs, t \in Tasks :
        /\ Settled(tasks[r], t) => tasks'[r][t] = tasks[r][t]
        /\ tasks'[r][t].attempts >= tasks[r][t].attempts

\* Outcomes are final in every step of the workers, the finalizer, time and
\* cancellation (ClaimTask, CompleteTask and Advance of the coordinator, as
\* the runners of worker/runner.go call them).
THEOREM WorkerOutcomesFinal == Spec => [][OutcomesFinal]_vars
<1>1. Later => OutcomesFinal
  BY DEF Later, Keeps, OutcomesFinal
<1>2. WorkerInv /\ [Next]_vars => [OutcomesFinal]_vars
  BY <1>1, StepOK
<1> QED BY <1>2, WorkerInvariant, PTL DEF Spec

\* However workers stop, leases expire and tasks are claimed again, a task's
\* handler is started no more often than the task has attempts (ClaimTask of
\* the coordinator and execute of worker/runner.go): once, for a publication.
THEOREM WorkerExecutionsBounded == Spec => []ExecutionsBounded
<1>1. ASSUME WorkerInv, NEW r \in Runs, NEW t \in Tasks
      PROVE  started[r][t] <= tasks[r][t].attempts /\ tasks[r][t].attempts <= MaxAttempts[t]
  <2>1. started[r][t] + Cardinality(Holders(r, t)) <= tasks[r][t].attempts
    BY <1>1 DEF WorkerInv, StartsOK
  <2>2. Cardinality(Holders(r, t)) \in Nat
    BY FiniteHolders
  <2>3. started[r][t] \in Nat /\ tasks[r][t].attempts \in Nat
    BY <1>1 DEF WorkerInv, Types, TaskState
  <2>4. tasks[r][t].attempts <= MaxAttempts[t]
    BY <1>1 DEF WorkerInv, RunOK, TaskOK
  <2> QED BY <2>1, <2>2, <2>3, <2>4
<1>2. WorkerInv => ExecutionsBounded
  BY <1>1 DEF ExecutionsBounded
<1> QED BY <1>2, WorkerInvariant, PTL
==============================================================================
