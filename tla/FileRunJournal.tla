--------------------------- MODULE FileRunJournal ----------------------------
(***************************************************************************)
(* The durable local journal (controlplane/file_run_journal.go) of one run *)
(* under process stops and power loss.                                     *)
(*                                                                         *)
(* Every write replaces a whole file: the new content goes to a temporary  *)
(* file, is synced, renamed over the old file, and the directory is        *)
(* synced.  A process stop loses what the process held in memory; a power  *)
(* loss also loses every rename the directory has not been synced since,   *)
(* and tears a file whose content was never synced.                        *)
(*                                                                         *)
(* An event's identity covers its plan and its whole prefix (it is hash    *)
(* chained), so a stream is the sequence of its event values, whose first  *)
(* is the plan it opened, and the identity of an event is the stream that  *)
(* ends with it.                                                           *)
(***************************************************************************)
EXTENDS Naturals, Sequences

CONSTANTS Procs,              \* processes that may open the journal root
          Plans,              \* plan identities of the run's scope
          Values,             \* event values after the opening one
          StreamLimit,        \* maxRunJournalStreamEvents
          DirectorySyncFails, \* the directory sync may return an error
          None

VARIABLES visible,   \* file -> content that processes read
          durable,   \* file -> content that a power loss leaves
          temporary, \* the holder's temporary file
          lock,      \* the process that holds the writer lock, or None
          ops,       \* process -> what it is doing with the journal
          reported,  \* streams an Append or a Read, plans a SavePlan or a
                     \* LoadPlan returned to a caller without error
          syncFailed \* the directory sync after some rename returned an error

files == <<visible, durable, temporary, lock, ops, reported>>
vars == <<files, syncFailed>>

Files == {"plan", "stream"}

\* What a file holds: a plan or a stream, and whether its data was synced.
Streams == UNION {[1 .. n -> Plans \cup Values] : n \in 0 .. StreamLimit}
NoFile == [data |-> <<>>, synced |-> TRUE]
Torn == [data |-> None, synced |-> TRUE]
Contents == [data : Streams \cup {None}, synced : BOOLEAN]

ASSUME FileRunJournalAssumption ==
    /\ StreamLimit \in Nat \ {0}
    /\ DirectorySyncFails \in BOOLEAN
    /\ None \notin Procs /\ None \notin Streams
    /\ Plans \cap Values = {}

\* closed: no handle; the others are the stages of opening and of a write.
Stages == {"closed", "opening", "idle", "write", "written", "synced", "renamed"}
Op == [stage : Stages, file : Files \cup {None}, data : Streams]
Closed == [stage |-> "closed", file |-> None, data |-> <<>>]
Idle == [stage |-> "idle", file |-> None, data |-> <<>>]

TypeOK ==
    /\ visible \in [Files -> Contents]
    /\ durable \in [Files -> Contents]
    /\ temporary \in Contents
    /\ lock \in Procs \cup {None}
    /\ ops \in [Procs -> Op]
    /\ reported \in [Files -> SUBSET Streams]
    /\ syncFailed \in BOOLEAN

Init ==
    /\ visible = [f \in Files |-> NoFile]
    /\ durable = visible
    /\ temporary = NoFile
    /\ lock = None
    /\ ops = [p \in Procs |-> Closed]
    /\ reported = [f \in Files |-> {}]
    /\ syncFailed = FALSE

----------------------------------------------------------------------------
\* The plan file holds the one-element stream that the plan opens.
Stored(f) == visible[f].data
PlanFound == Stored("plan") # <<>>

\* The operation of process p returns, having reported data of file f.
Report(p, f, data) ==
    /\ reported' = [reported EXCEPT ![f] = @ \cup {data}]
    /\ ops' = [ops EXCEPT ![p] = Idle]

Return(p) ==
    /\ ops' = [ops EXCEPT ![p] = Idle]
    /\ UNCHANGED <<visible, durable, lock, reported>>

\* NewFileRunJournal: the lock is acquired, then the directory is synced.
Open(p) ==
    /\ ops[p].stage = "closed"
    /\ lock = None
    /\ lock' = p
    /\ ops' = [ops EXCEPT ![p] = [Closed EXCEPT !.stage = "opening"]]
    /\ UNCHANGED <<visible, durable, temporary, reported>>

\* syncRoot: the directory as processes see it becomes durable.
SyncRoot == durable' = visible

SyncNothing == UNCHANGED durable
SyncOnOpen == SyncRoot

Opened(p) ==
    /\ ops[p].stage = "opening"
    /\ SyncOnOpen
    /\ ops' = [ops EXCEPT ![p] = Idle]
    /\ UNCHANGED <<visible, temporary, lock, reported>>

OpenFailed(p) ==
    /\ DirectorySyncFails
    /\ ops[p].stage = "opening"
    /\ lock' = None
    /\ ops' = [ops EXCEPT ![p] = Closed]
    /\ UNCHANGED <<visible, durable, temporary, reported>>

\* Close releases the lock before it syncs the directory, which may fail.
Close(p) ==
    /\ ops[p].stage = "idle"
    /\ lock' = None
    /\ ops' = [ops EXCEPT ![p] = Closed]
    /\ SyncRoot \/ (DirectorySyncFails /\ UNCHANGED durable)
    /\ UNCHANGED <<visible, temporary, reported>>

----------------------------------------------------------------------------
(* SavePlan and Append up to the write.  The handle's mutex is held to the *)
(* end of the write, so a process does one operation at a time.            *)

StartWrite(p, f, data) ==
    /\ ops' = [ops EXCEPT ![p] = [stage |-> "write", file |-> f, data |-> data]]
    /\ UNCHANGED <<visible, durable, temporary, lock, reported>>

\* The stream of another plan refuses this one.
AnyStream(plan) == FALSE
OtherStream(plan) == Stored("stream") # <<>> /\ Stored("stream")[1] # plan

SavePlan(p, plan) ==
    /\ ops[p].stage = "idle"
    /\ Stored("plan") # None /\ Stored("stream") # None
    /\ \/ /\ Stored("plan") = <<plan>>
          /\ Report(p, "plan", <<plan>>)
          /\ UNCHANGED <<visible, durable, temporary, lock>>
       \/ /\ ~PlanFound
          /\ ~OtherStream(plan)
          /\ StartWrite(p, "plan", <<plan>>)

HasRoom(stream) == Len(stream) < StreamLimit

\* The event that ends stream e is appended against the head before it.
AppendEvent(p, e) ==
    LET stream == Stored("stream") IN
    /\ ops[p].stage = "idle"
    /\ Stored("plan") # None /\ stream # None
    /\ PlanFound => Stored("plan") = <<e[1]>>
    /\ IF stream = e
       THEN /\ Report(p, "stream", e)
            /\ UNCHANGED <<visible, durable, temporary, lock>>
       ELSE /\ stream = SubSeq(e, 1, Len(e) - 1)
            /\ HasRoom(stream)
            /\ StartWrite(p, "stream", e)

\* Read and LoadPlan return what is stored, or an error when it is torn.
Read(p, f) ==
    /\ ops[p].stage = "idle"
    /\ Stored(f) \notin {None, <<>>}
    /\ Report(p, f, Stored(f))
    /\ UNCHANGED <<visible, durable, temporary, lock>>

----------------------------------------------------------------------------
(* replacePlan and replaceStream. *)

Step(p, stage) == ops' = [ops EXCEPT ![p].stage = stage]

WriteTemporary(p) ==
    /\ ops[p].stage = "write"
    /\ temporary' = [data |-> ops[p].data, synced |-> FALSE]
    /\ Step(p, "written")
    /\ UNCHANGED <<visible, durable, lock, reported>>

KeepTemporary == UNCHANGED temporary
FlushTemporary == temporary' = [temporary EXCEPT !.synced = TRUE]

SyncTemporary(p) ==
    /\ ops[p].stage = "written"
    /\ FlushTemporary
    /\ Step(p, "synced")
    /\ UNCHANGED <<visible, durable, lock, reported>>

Rename(p) ==
    /\ ops[p].stage = "synced"
    /\ visible' = [visible EXCEPT ![ops[p].file] = temporary]
    /\ temporary' = NoFile
    /\ Step(p, "renamed")
    /\ UNCHANGED <<durable, lock, reported>>

\* The operation succeeds once the directory is synced.
Replaced(p) ==
    /\ ops[p].stage = "renamed"
    /\ SyncRoot
    /\ Report(p, ops[p].file, ops[p].data)
    /\ UNCHANGED <<visible, temporary, lock>>

\* An error before the rename removes the temporary file; after it, the new
\* content stays visible although the caller is told that the write failed.
WriteFailed(p) ==
    /\ ops[p].stage \in {"write", "written", "synced"}
    /\ temporary' = NoFile
    /\ Return(p)

SyncRootFailed(p) ==
    /\ DirectorySyncFails
    /\ ops[p].stage = "renamed"
    /\ syncFailed' = TRUE
    /\ Return(p) /\ UNCHANGED temporary

----------------------------------------------------------------------------
(* The environment. *)

\* An advisory lock is the process's: it goes with the process.
ProcessStop(p) ==
    /\ ops[p].stage # "closed"
    /\ ops' = [ops EXCEPT ![p] = Closed]
    /\ lock' = None
    /\ temporary' = NoFile
    /\ UNCHANGED <<visible, durable, reported>>

\* The system may write a directory entry back before it is asked to.
WriteBack(f) ==
    /\ durable[f] # visible[f]
    /\ durable' = [durable EXCEPT ![f] = visible[f]]
    /\ UNCHANGED <<visible, temporary, lock, ops, reported>>

PowerLoss ==
    /\ visible' = [f \in Files |-> IF durable[f].synced THEN durable[f] ELSE Torn]
    /\ durable' = visible'
    /\ temporary' = NoFile
    /\ lock' = None
    /\ ops' = [p \in Procs |-> Closed]
    /\ UNCHANGED reported

\* The streams callers may ask to extend the journal to, one beyond its limit.
Proposals ==
    UNION {{e \in [1 .. n -> Plans \cup Values] :
                e[1] \in Plans /\ \A i \in 2 .. n : e[i] \in Values} :
            n \in 1 .. StreamLimit + 1}

OtherStep ==
    \/ \E p \in Procs :
        \/ Open(p) \/ Opened(p) \/ OpenFailed(p) \/ Close(p)
        \/ \E plan \in Plans : SavePlan(p, plan)
        \/ \E e \in Proposals : AppendEvent(p, e)
        \/ \E f \in Files : Read(p, f)
        \/ WriteTemporary(p) \/ SyncTemporary(p) \/ Rename(p) \/ Replaced(p)
        \/ WriteFailed(p) \/ ProcessStop(p)
    \/ \E f \in Files : WriteBack(f)
    \/ PowerLoss

Next ==
    \/ OtherStep /\ UNCHANGED syncFailed
    \/ \E p \in Procs : SyncRootFailed(p)

Spec == Init /\ [][Next]_vars

----------------------------------------------------------------------------
(* Properties. *)

Extends(s, e) == Len(e) <= Len(s) /\ \A i \in 1 .. Len(e) : s[i] = e[i]

(***************************************************************************)
(* Nothing that was reported is ever lost: whatever an Append or SavePlan  *)
(* acknowledged, and whatever a Read or LoadPlan returned, is still there  *)
(* after any sequence of process stops and power losses.  A reader must    *)
(* not see a rename that a power loss can undo, which is why opening the   *)
(* journal syncs the directory too.                                        *)
(***************************************************************************)
ReportedSurvives ==
    \A f \in Files : \A d \in reported[f] :
        visible[f].data # None /\ Extends(visible[f].data, d)

(***************************************************************************)
(* The same while no directory sync has failed after a rename, which is    *)
(* what the code can promise: an operation that was told of the failure    *)
(* leaves its content visible, and a retry or a read reports it unsynced.  *)
(***************************************************************************)
ReportedSurvivesStops == ~syncFailed => ReportedSurvives

(***************************************************************************)
(* No stop tears a file: the journal's files always parse, because the     *)
(* content is synced before the rename that makes it reachable.  A torn    *)
(* stream makes every later operation on the run fail.                     *)
(***************************************************************************)
NeverTorn == \A f \in Files : visible[f] # Torn

(***************************************************************************)
(* A stored plan and a stored stream belong together, whichever of Append  *)
(* and SavePlan came first and wherever the process stopped.               *)
(***************************************************************************)
PlanMatchesStream ==
    LET plan == visible["plan"].data
        stream == visible["stream"].data IN
    plan \notin {None, <<>>} /\ stream \notin {None, <<>>} => plan[1] = stream[1]
==============================================================================
