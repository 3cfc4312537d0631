------------------------------ MODULE MCWorker -------------------------------
(***************************************************************************)
(* Plans and catalogs for model-checking Worker, on a repository whose     *)
(* two runs are on a page each.  A pair of workers with overlapping        *)
(* catalogs shares the first run; the second was cancelled before.  Or one *)
(* worker has both runs.                                                   *)
(***************************************************************************)
EXTENDS Worker

CONSTANTS w1, w2, w3

VARIABLE subject

allVars == <<subject, vars>>

\* An optional inspection, with a second attempt, beside the required path.
PlanKind == <<AcquireSource, BuildChange, InspectDeterministic, AssembleContext>>
PlanDeps == <<{}, {1}, {2}, {2, 3}>>
PlanAttempts == <<1, 1, 2, 1>>
OneTick == [t \in 1 .. N |-> 1]
NoDelay == [t \in 1 .. N |-> 0]

Catalogs == [w \in Workers |-> IF w = w1 THEN {1, 2, 3} ELSE IF w = w2 THEN {3, 4} ELSE Tasks]

\* The handlers of the single worker succeed unless they are late.
Completions == [w \in Workers |-> IF w = w3 THEN {"success"} ELSE {"success", "transient"}]

\* The workers of the subject; the others do not take a step.
Deployed(w) == IF w = w3 THEN subject = "pages" ELSE subject = "pair"

MCInit ==
    /\ subject \in {"pair", "pages"}
    /\ Init
    /\ IF subject = "pair"
       THEN opened = Runs /\ closed = {2} /\ budget = Disturbances
       ELSE opened = {} /\ budget = 0

MCNext ==
    /\ \/ \E w \in Workers : Deployed(w) /\ WorkerStep(w)
       \/ \E r \in Runs : RunStep(r)
    /\ UNCHANGED subject

\* The fairness of Worker, for the workers of the subject.
MCFairness ==
    /\ \A w \in Workers : WF_allVars(Deployed(w) /\ Proceed(w) /\ UNCHANGED subject)
    /\ WF_allVars((\E r \in Runs : Finalize(r)) /\ UNCHANGED subject)
    /\ WF_allVars((\E r \in Runs, t \in Tasks : TimePasses(r, t)) /\ UNCHANGED subject)

MCSpec == MCInit /\ [][MCNext]_allVars /\ MCFairness
==============================================================================
