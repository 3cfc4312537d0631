---------------------------- MODULE ArtifactStore ----------------------------
(***************************************************************************)
(* The local artifact store (artifact/store.go, FileStore): storing and    *)
(* deleting artifacts of one scope under process stops, power losses and   *)
(* file operations that fail.                                              *)
(*                                                                         *)
(* A file's content is synced before the file is renamed into place, so a  *)
(* power loss leaves each directory entry as it is seen or as it was at    *)
(* the last directory sync, each on its own.  The store's mutex makes its  *)
(* operations exclusive and its lock makes its process the only one.  An   *)
(* artifact's identity is its content's, so an entry is there or it is not.*)
(***************************************************************************)
EXTENDS Naturals, FiniteSets

CONSTANTS Artifacts, Authorizations,
          MaxArtifacts,    \* maxStoreArtifacts
          Disturbances     \* bound on stops, power losses and faults

VARIABLES seen,       \* directory entries as the process sees them
          durable,    \* directory entries at the last directory sync
          store,      \* what the process is doing
          puts,       \* artifacts a Put reported as stored
          receipts,   \* <<artifact, authorization>> of reported receipts
          failures,   \* file operations that failed
          budget

vars == <<seen, durable, store, puts, receipts, failures, budget>>

\* An artifact's file and its deletion record: {} or who authorized it.
Records == [auth : Authorizations, completed : {"yes", "no"}]
Entries == [file : SUBSET {"artifact"}, record : SUBSET Records]
NoEntries == [file |-> {}, record |-> {}]

(***************************************************************************)
(* at: closed, opening (before syncRoot), recover (recoverDeletions, which *)
(* todo is left of), idle, or a step of Put, Delete or completeDeletion on *)
(* artifact of, after which it goes back to "recover" or "idle".           *)
(***************************************************************************)
Steps == {"put", "prepared", "complete", "removed", "completed"}
Store ==
    [at : {"closed", "opening", "recover", "idle"} \cup Steps,
     back : {"recover", "idle"}, of : SUBSET Artifacts,
     auth : SUBSET Authorizations, todo : SUBSET Artifacts]
At(place) == store.at = place
Closed == [at |-> "closed", back |-> "idle", of |-> {}, auth |-> {}, todo |-> {}]
Idle == [Closed EXCEPT !.at = "idle"]

Init ==
    /\ seen = [a \in Artifacts |-> NoEntries]
    /\ durable = seen
    /\ store = Closed
    /\ puts = {}
    /\ receipts = {}
    /\ failures = 0
    /\ budget = Disturbances

reports == <<puts, receipts>>

Present(a) == seen[a].file # {}
Record(a) == CHOOSE r \in seen[a].record : TRUE
Incomplete(a) == seen[a].record # {} /\ Record(a).completed = "no"

----------------------------------------------------------------------------
(* NewFileStore. *)

Open ==
    /\ At("closed")
    /\ store' = [Closed EXCEPT !.at = "opening"]
    /\ UNCHANGED <<seen, durable, reports, failures, budget>>

Opened ==
    /\ At("opening")
    /\ durable' = seen
    /\ store' = [store EXCEPT !.at = "recover", !.todo = {a \in Artifacts : seen[a].record # {}}]
    /\ UNCHANGED <<seen, reports, failures, budget>>

\* Deletions recovery has to finish: also a completed one whose file is back.
RecoversPrepared(a) == Incomplete(a)
Recovers(a) == Incomplete(a) \/ Present(a)

RecoverDeletion(a) ==
    /\ At("recover")
    /\ a \in store.todo
    /\ store' = IF Recovers(a)
                THEN [store EXCEPT !.at = "complete", !.back = "recover", !.of = {a},
                                   !.auth = {Record(a).auth}, !.todo = store.todo \ {a}]
                ELSE [store EXCEPT !.todo = store.todo \ {a}]
    /\ UNCHANGED <<seen, durable, reports, failures, budget>>

Recovered ==
    /\ At("recover")
    /\ store.todo = {}
    /\ store' = Idle
    /\ UNCHANGED <<seen, durable, reports, failures, budget>>

----------------------------------------------------------------------------
(* Put, Delete and completeDeletion. *)

\* Both suffixes end in .json, so deletion records count as well.
Count == Cardinality({a \in Artifacts : Present(a)})
             + Cardinality({a \in Artifacts : seen[a].record # {}})

Deleted(a) == seen[a].record # {}

\* Put of a stored artifact answers at once, of a deleted one not at all.
PutStored(a) ==
    /\ At("idle")
    /\ ~Deleted(a) /\ Present(a)
    /\ puts' = puts \cup {a}
    /\ UNCHANGED <<seen, durable, store, receipts, failures, budget>>

PutUnsynced(a) ==
    /\ At("idle")
    /\ ~Deleted(a) /\ ~Present(a)
    /\ Count < MaxArtifacts
    /\ seen' = [seen EXCEPT ![a].file = {"artifact"}]
    /\ puts' = puts \cup {a}
    /\ UNCHANGED <<durable, store, receipts, failures, budget>>
Put(a) ==
    /\ At("idle")
    /\ ~Deleted(a) /\ ~Present(a)
    /\ Count < MaxArtifacts
    /\ seen' = [seen EXCEPT ![a].file = {"artifact"}]
    /\ store' = [Idle EXCEPT !.at = "put", !.of = {a}]
    /\ UNCHANGED <<durable, reports, failures, budget>>

Working(place, a, x) == [Idle EXCEPT !.at = place, !.of = {a}, !.auth = {x}]

\* A deletion recorded before is completed if need be, whoever asks.
DeleteRecorded(a, x) ==
    /\ At("idle")
    /\ Deleted(a)
    /\ IF Incomplete(a)
       THEN store' = Working("complete", a, x) /\ UNCHANGED receipts
       ELSE /\ receipts' = receipts \cup (IF Record(a).auth = x THEN {<<a, x>>} ELSE {})
            /\ UNCHANGED store
    /\ UNCHANGED <<seen, durable, puts, failures, budget>>

\* The prepared record is written before anything is removed.
Delete(a, x) ==
    /\ At("idle")
    /\ ~Deleted(a) /\ Present(a)
    /\ seen' = [seen EXCEPT ![a].record = {[auth |-> x, completed |-> "no"]}]
    /\ store' = Working("prepared", a, x)
    /\ UNCHANGED <<durable, reports, failures, budget>>

\* completeDeletion: the file goes first, with a directory sync of its own.
Complete(a) ==
    IF Present(a)
    THEN /\ seen' = [seen EXCEPT ![a].file = {}]
         /\ store' = [store EXCEPT !.at = "removed"]
    ELSE /\ seen' = [seen EXCEPT ![a].record = {[Record(a) EXCEPT !.completed = "yes"]}]
         /\ store' = [store EXCEPT !.at = "completed"]

CompleteDeletion ==
    /\ At("complete")
    /\ \E a \in store.of : Complete(a)
    /\ UNCHANGED <<durable, reports, failures, budget>>

\* Where a step goes after its directory sync.
Returned == [store EXCEPT !.at = store.back, !.of = {}, !.auth = {}, !.back = "idle"]

\* Delete goes on to completeDeletion once the prepared record is durable.
LeavePrepared == store' = Returned
AfterPrepared == store' = [store EXCEPT !.at = "complete"]

Synced(a) ==
    CASE At("put") -> store' = Returned /\ puts' = puts \cup {a} /\ UNCHANGED receipts
      [] At("prepared") -> AfterPrepared /\ UNCHANGED reports
      [] At("removed") -> store' = [store EXCEPT !.at = "complete"] /\ UNCHANGED reports
      [] At("completed") ->
             /\ store' = Returned
             /\ receipts' = receipts \cup
                    {<<a, x>> : x \in {y \in store.auth : store.back = "idle" /\ Record(a).auth = y}}
             /\ UNCHANGED puts

SyncRoot ==
    /\ store.at \in Steps \ {"complete"}
    /\ durable' = seen
    /\ \E a \in store.of : Synced(a)
    /\ UNCHANGED <<seen, failures, budget>>

----------------------------------------------------------------------------
(* Faults. *)

\* A sync, a removal or a read fails: the call, or NewFileStore, gives up.
OperationFails ==
    /\ budget > 0
    /\ store.at \in {"opening"} \cup Steps
    /\ store' = IF At("opening") \/ store.back = "recover" THEN Closed ELSE Idle
    /\ failures' = failures + 1
    /\ budget' = budget - 1
    /\ UNCHANGED <<seen, durable, reports>>

\* The process closes the store or stops; its lock is released.
Stop ==
    /\ budget > 0
    /\ ~At("closed")
    /\ store' = Closed
    /\ budget' = budget - 1
    /\ UNCHANGED <<seen, durable, reports, failures>>

PowerLoss ==
    /\ budget > 0
    /\ seen' \in {[a \in Artifacts |-> [file |-> IF a \in F THEN seen[a].file ELSE durable[a].file,
                                        record |-> IF a \in R THEN seen[a].record
                                                   ELSE durable[a].record]] :
                    F \in SUBSET Artifacts, R \in SUBSET Artifacts}
    /\ durable' = seen'
    /\ store' = Closed
    /\ budget' = budget - 1
    /\ UNCHANGED <<reports, failures>>

Next ==
    \/ Open \/ Opened \/ Recovered
    \/ \E a \in Artifacts : RecoverDeletion(a) \/ PutStored(a) \/ Put(a)
    \/ \E a \in Artifacts, x \in Authorizations : DeleteRecorded(a, x) \/ Delete(a, x)
    \/ CompleteDeletion \/ SyncRoot
    \/ OperationFails \/ Stop \/ PowerLoss

Fairness == WF_vars(Open) /\ WF_vars(Opened) /\ WF_vars(Recovered)
              /\ \A a \in Artifacts : WF_vars(RecoverDeletion(a))
              /\ WF_vars(CompleteDeletion) /\ WF_vars(SyncRoot)

Spec == Init /\ [][Next]_vars /\ Fairness

----------------------------------------------------------------------------
(* Properties. *)

\* The variables have their types, and deleted artifacts keep their place
\* in the store's capacity.
TypeOK ==
    /\ seen \in [Artifacts -> Entries]
    /\ durable \in [Artifacts -> Entries]
    /\ \A a \in Artifacts : Cardinality(seen[a].record) <= 1
    /\ Cardinality({a \in Artifacts : Present(a) \/ Deleted(a)}) <= MaxArtifacts
    /\ store \in Store
    /\ puts \subseteq Artifacts
    /\ receipts \subseteq Artifacts \X Authorizations
    /\ failures \in 0 .. Disturbances

(***************************************************************************)
(* Once a deletion receipt is reported the artifact is never readable or   *)
(* stored again, over stops, power losses, repeated requests and fewer     *)
(* than three failed operations (each sync of a deletion can fail); and no  *)
(* artifact has receipts of two authorizations.                            *)
(***************************************************************************)
DeletionFinal ==
    failures < 3 =>
        \A r \in receipts :
            /\ At("idle") => ~Present(r[1])
            /\ \A q \in receipts : q[1] = r[1] => q = r

(***************************************************************************)
(* A reported Put survives until somebody asks to delete the artifact, as  *)
(* long as no file operation failed.                                      *)
(***************************************************************************)
StoredSurvives ==
    failures = 0 => \A a \in puts : Present(a) \/ Deleted(a)

(***************************************************************************)
(* A deletion that is durably prepared is carried out: by its own call, or *)
(* by recoverDeletions after the process stopped between two of its steps. *)
(* (A record is never removed, so what holds again and again holds for     *)
(* every prepared deletion in time.)                                       *)
(***************************************************************************)
PreparedIsDeleted ==
    []<>(failures = 0 => \A a \in Artifacts : durable[a].record # {} => ~Present(a))

=============================================================================
