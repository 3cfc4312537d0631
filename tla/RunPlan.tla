------------------------------- MODULE RunPlan -------------------------------
(***************************************************************************)
(* The immutable plan of one review run (controlplane/run_plan.go): a      *)
(* bounded acyclic graph of tasks, each with its kind, dependencies,       *)
(* attempt limit, retry delay and lease duration.  A plan never changes    *)
(* once it is saved, so it is a set of constants here; PlanAssumption says *)
(* that NewReviewRunPlan accepted it.                                      *)
(*                                                                         *)
(* A task is its position in plan order, which is the order of the task    *)
(* keys (run_plan.go sorts the canonical tasks by key).                    *)
(***************************************************************************)
EXTENDS Naturals, FiniteSets

CONSTANTS N,              \* number of tasks of the plan
          Kind,           \* task -> its kind, as the ordered values below
          Deps,           \* task -> the set of tasks it depends on
          Required,       \* the tasks whose completion is required
          MaxAttempts,    \* task -> attempts it may be leased for
          RetryDelay,     \* task -> delay before a failed attempt is retried
          LeaseDuration,  \* task -> how long one lease lasts
          Publishes       \* the run mode is "required": publication allowed

Tasks == 1 .. N

\* The closed task kinds, in review-stage order.
AcquireSource == 1
BuildChange == 2
InspectDeterministic == 3
RetrieveContext == 4
AssembleContext == 5
GenerateCandidates == 6
VerifyCandidates == 7
EvaluatePublication == 8
PublishResult == 9
TaskKinds == AcquireSource .. PublishResult

MaxReviewRunTasks == 64
MaxReviewTaskDependencies == 16
MaxReviewTaskAttempts == 5

----------------------------------------------------------------------------
(***************************************************************************)
(* NewTaskDefinition: the bounds each task satisfies on its own.           *)
(***************************************************************************)
ValidTask(t) ==
    /\ Kind[t] \in TaskKinds
    /\ MaxAttempts[t] \in 1 .. MaxReviewTaskAttempts
    /\ RetryDelay[t] \in Nat
    /\ LeaseDuration[t] \in Nat \ {0}
    /\ t \notin Deps[t]
    /\ Cardinality(Deps[t]) <= MaxReviewTaskDependencies

(***************************************************************************)
(* Ancestors[t]: every task reachable from t along dependencies, by        *)
(* following at most n of them, n up to the number of tasks.  The depth-   *)
(* first visit of validateReviewRunGraph and the search of                 *)
(* taskHasAncestorKind both walk this relation.                            *)
(***************************************************************************)
Reach[n \in 0 .. N] ==
    [t \in Tasks |->
        IF n = 0 THEN Deps[t]
        ELSE Reach[n - 1][t] \cup UNION {Deps[d] : d \in Reach[n - 1][t]}]

Ancestors(t) == Reach[N][t]

HasAncestorKind(t, k) == \E a \in Ancestors(t) : Kind[a] = k

\* validateReviewRunGraph: dependencies exist and no task reaches itself.
ValidGraph ==
    \A t \in Tasks : Deps[t] \subseteq Tasks /\ t \notin Ancestors(t)

\* The kind each kind must descend from; source acquisition is the root.
RequiredAncestor(k) ==
    CASE k = BuildChange -> AcquireSource
      [] k \in {InspectDeterministic, RetrieveContext, AssembleContext} -> BuildChange
      [] OTHER -> k - 1

KindCount(k) == Cardinality({t \in Tasks : Kind[t] = k})

\* resultTaskFromDefinitions: the required tasks of the highest stage.
ResultTasks ==
    {t \in Required : \A u \in Required : Kind[u] <= Kind[t]}

\* The unique result task of a plan validateReviewRunSafety accepted.
ResultTask == CHOOSE t \in ResultTasks : TRUE

\* validateReviewRunSafety: the structural safety rules of a review graph.
ValidSafety ==
    /\ KindCount(AcquireSource) > 0
    /\ KindCount(PublishResult) <= 1
    /\ KindCount(EvaluatePublication) <= 1
    /\ ~Publishes => KindCount(PublishResult) = 0
    /\ \A t \in Tasks :
        /\ Kind[t] \notin {InspectDeterministic, RetrieveContext} => t \in Required
        /\ Kind[t] = PublishResult => MaxAttempts[t] = 1
        /\ IF Kind[t] = AcquireSource
           THEN Deps[t] = {}
           ELSE HasAncestorKind(t, RequiredAncestor(Kind[t]))
    /\ Cardinality(ResultTasks) = 1

ValidPlan ==
    /\ N \in 1 .. MaxReviewRunTasks
    /\ \A t \in Tasks : ValidTask(t)
    /\ ValidGraph
    /\ ValidSafety

ASSUME PlanTypes ==
    /\ N \in Nat \ {0}
    /\ Deps \in [Tasks -> SUBSET Tasks]
    /\ Required \subseteq Tasks
    /\ MaxAttempts \in [Tasks -> Nat \ {0}]
    /\ RetryDelay \in [Tasks -> Nat]
    /\ LeaseDuration \in [Tasks -> Nat \ {0}]

ASSUME PlanAssumption == ValidPlan
=============================================================================
