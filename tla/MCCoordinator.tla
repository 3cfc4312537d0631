---------------------------- MODULE MCCoordinator ----------------------------
(***************************************************************************)
(* Small plans and call sets for model-checking Coordinator.               *)
(***************************************************************************)
EXTENDS Coordinator, TLC

CONSTANTS c1, c2, w1, o1, o2

CallSymmetry == Permutations({c1, c2})

(***************************************************************************)
(* Plan "chain": source acquisition, then change construction, which has a *)
(* second attempt.                                                         *)
(***************************************************************************)
ChainKind == <<AcquireSource, BuildChange>>
ChainDeps == <<{}, {1}>>
ChainAttempts == <<1, 2>>

(***************************************************************************)
(* Plan "graph": an optional inspection beside the required path; task     *)
(* keys do not follow the dependency order.                                *)
(***************************************************************************)
GraphKind == <<AssembleContext, InspectDeterministic, BuildChange, AcquireSource>>
GraphDeps == <<{2, 3}, {3}, {4}, {}>>
GraphAttempts == <<1, 2, 1, 1>>

\* Plan "through": the only path to the last task runs through the optional one.
ThroughKind == <<AcquireSource, BuildChange, InspectDeterministic, AssembleContext>>
ThroughDeps == <<{}, {1}, {2}, {3}>>
ThroughAttempts == <<1, 1, 1, 1>>

OneTick == [t \in 1 .. N |-> 1]
NoDelay == [t \in 1 .. N |-> 0]

ChainResults == {Success(o1), Success(o2), Failure("transient")}
GraphResults == {Success(o1), Failure("transient"), Failure("policy")}
=============================================================================
