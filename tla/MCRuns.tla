------------------------------- MODULE MCRuns --------------------------------
(***************************************************************************)
(* The runs of a repository, for model checking: one run in detail, over   *)
(* the graph with an optional task (Coordinator), and two runs as their    *)
(* supervisor sees them (RunSupervisor).  They share no state, so a        *)
(* behaviour is one of a single subject, and the other stays as it is at   *)
(* first.                                                                  *)
(***************************************************************************)
EXTENDS MCCoordinator

CONSTANTS RunCount, Rounds, MaximumRetries, Stops, Faults

VARIABLES subject, runs, notices, requests, daemon, pass, budget

ASSUME SupervisorAssumption ==
    /\ RunCount \in Nat \ {0}
    /\ Rounds \in Nat
    /\ MaximumRetries \in Nat \ {0}
    /\ Stops \in Nat
    /\ Faults \in Nat

\* Opens end with their append; RunSupervisorOpen.cfg has the others.
Supervising == INSTANCE RunSupervisor WITH OpenInterrupted <- FALSE

supervisorVars == <<runs, notices, requests, daemon, pass, budget>>
allVars == <<subject, vars, supervisorVars>>

MCInit ==
    /\ subject \in {"run", "supervisor"}
    /\ Init /\ Supervising!Init

OfSupervisor(A) ==
    /\ subject = "supervisor"
    /\ A
    /\ UNCHANGED <<subject, vars>>

MCNext ==
    \/ /\ subject = "run"
       /\ Next
       /\ UNCHANGED <<subject, supervisorVars>>
    \/ OfSupervisor(Supervising!Next)

\* The fairness of RunSupervisor, for its subject.
MCFairness ==
    /\ WF_allVars(OfSupervisor(Supervising!Supervise))
    /\ WF_allVars(OfSupervisor(Supervising!Restart))
    /\ \A r \in 1 .. RunCount : WF_allVars(OfSupervisor(Supervising!ServeRequest(r)))

MCSpec == MCInit /\ [][MCNext]_allVars /\ MCFairness

----------------------------------------------------------------------------
(* Properties, as RunSupervisor states them. *)

\* A settled run becomes terminal, whatever stops or fails (ReconcileRun of
\* the finalizer, reconcileWithRetry of the supervisor).
SettledCloses == Supervising!SettledCloses

\* Ready work is announced to the workers (ReconcileRun of the scheduler).
ReadyIsNotified == Supervising!ReadyIsNotified
==============================================================================
