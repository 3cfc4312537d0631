----------------------------- MODULE MCServices -----------------------------
(***************************************************************************)
(* The services around a run's tasks, for model checking: the queue of     *)
(* scheduling hints, the model investigation and the publication of a      *)
(* review.  They share no state, so a behaviour is one of a single         *)
(* service, its subject, and the others stay as they are at first.  The    *)
(* instances: two notices of one scope, the second available later; an     *)
(* investigation of up to three turns and two tool calls, with two         *)
(* callers; two executions that publish one plan.  The modules are taken   *)
(* with their theorems, which ServicesProofs carries over.                 *)
(***************************************************************************)
EXTENDS TaskNotificationQueue

CONSTANTS run,
          Executions, GrantIDs, MaxAttempts, MaxConflicts, PublicationFaults,
          Callers, MaxTurns, MaxTools, Budget, Reservation, Costs, InvestigationFaults

VARIABLES subject,
          readiness, scopeLedger, guard, wire, reviews, refused, head, exec, publicationBudget,
          pipe, root, active, calls, source, controller, account, journal, ledger, captures,
          effects, accepted, budget

MCScope == <<run, run>>
MCAvailableAt == <<1, 2>>

Publishing == INSTANCE PublicationProofs
    WITH Authorizations <- GrantIDs, Disturbances <- PublicationFaults,
         ledger <- scopeLedger, budget <- publicationBudget
Investigating == INSTANCE InvestigationProofs WITH Disturbances <- InvestigationFaults

publicationVars ==
    <<readiness, scopeLedger, guard, wire, reviews, refused, head, exec, publicationBudget>>
investigationVars ==
    <<pipe, root, active, calls, source, controller, account, journal, ledger, captures,
      effects, accepted, budget>>
allVars == <<subject, vars, publicationVars, investigationVars>>

MCInit ==
    /\ subject \in {"queue", "publication", "investigation"}
    /\ Init /\ Publishing!Init /\ Investigating!Init
    /\ subject = "publication" \/ readiness = "ready"

OfInvestigation(A) ==
    /\ subject = "investigation"
    /\ A
    /\ UNCHANGED <<subject, vars, publicationVars>>

\* A publication or an investigation comes to its end.
MCNext ==
    \/ /\ subject = "queue"
       /\ Next
       /\ UNCHANGED <<subject, publicationVars, investigationVars>>
    \/ /\ subject = "publication"
       /\ Publishing!Next
       /\ UNCHANGED <<subject, vars, investigationVars>>
    \/ OfInvestigation(Investigating!Next)

\* The fairness of Investigation, for its subject.
MCFairness == \A c \in Callers : WF_allVars(OfInvestigation(Investigating!Step(c)))

MCSpec == MCInit /\ [][MCNext]_allVars /\ MCFairness

----------------------------------------------------------------------------
(* Properties, as their modules state them. *)

\* Every service's variables have their types, within its limits (deliveries
\* of a notice, tries of an audit event, turns of an investigation).
ServicesTypeOK == TypeOK /\ Publishing!TypeOK /\ Investigating!TypeOK

\* One caller owns the claim of a publication plan (ClaimPublication).
OneOwner == Publishing!OneOwner

\* The pull request never gets the review twice (ClaimPublicationAttempt).
ReviewedOnce == Publishing!ReviewedOnce

\* A POST follows its authorization, claim and current head (Execute).
SentUnderGate == Publishing!SentUnderGate

\* A publication that is reported happened (RecordPublicationResult).
ReportedHappened == Publishing!ReportedHappened

\* Doubt about a model call ends the investigation (InvestigationRouteOwner.Dispatch).
StopsAfterDoubt == Investigating!StopsAfterDoubt

\* No model call beyond the cost limit (InvestigationRouteOwner.Dispatch).
AdmittedWithinBudget == Investigating!AdmittedWithinBudget

\* A reported success accounts for every model call (view).
SuccessIsAccounted == Investigating!SuccessIsAccounted

\* Close waits for the operation that uses what it releases (Close).
ReleasedAfterUse == Investigating!ReleasedAfterUse

\* Every Close ends (Close).
CloseEnds == Investigating!CloseEnds
=============================================================================
