---------------------------- MODULE StorageProofs ----------------------------
(***************************************************************************)
(* The durable local journal keeps its promises for every number of        *)
(* processes, every set of plans and values and every stream limit:        *)
(* nothing a stop or a power loss can do tears a file, parts a plan from   *)
(* its stream or, while no directory sync has failed after a rename, loses *)
(* what was reported.                                                      *)
(*                                                                         *)
(* The argument: what is durable is always a prefix of what is visible and *)
(* both are complete, so a power loss goes back to an earlier state of the *)
(* journal and never to a mixture of two.  A handle that is idle or before *)
(* its rename has the directory synced, so what it reads or confirms is    *)
(* durable.                                                                *)
(*                                                                         *)
(* The artifact store and the rate limiter of the shared database follow.  *)
(* The stores share no state, so what is proved of each alone holds beside *)
(* the others.                                                             *)
(***************************************************************************)
EXTENDS MCStorage, FiniteSetTheorems, TLAPS

BeforeRename == {"write", "written", "synced"}
Writing == BeforeRename \cup {"renamed"}

\* The contents that the operations write to a file.
Holdable(f) ==
    IF f = "plan" THEN {<<plan>> : plan \in Plans}
    ELSE {e \in Streams : e # <<>> /\ e[1] \in Plans}

\* A complete file, or none.
Sound(f) == [data : {<<>>} \cup Holdable(f), synced : {TRUE}]
FilesSound == \A f \in Files : visible[f] \in Sound(f) /\ durable[f] \in Sound(f)

\* A power loss takes a file back, never elsewhere.
DurableIsPrefix == \A f \in Files : Extends(visible[f].data, durable[f].data)

OneHolder == \A p \in Procs : ops[p].stage # "closed" => lock = p

\* What the holder is about to write goes on from what is visible.
Continues(p) ==
    LET x == ops[p] IN
    /\ Extends(x.data, visible[x.file].data)
    /\ x.file = "plan" /\ visible["stream"].data # <<>> => visible["stream"].data[1] = x.data[1]
    /\ x.file = "stream" /\ visible["plan"].data # <<>> => visible["plan"].data[1] = x.data[1]

WriteOK(p) ==
    LET x == ops[p] IN
    /\ x.stage \in Writing => x.file \in Files /\ x.data \in Holdable(x.file)
    /\ x.stage \in BeforeRename => Continues(p)
    /\ x.stage = "written" => temporary.data = x.data
    /\ x.stage = "synced" => temporary = [data |-> x.data, synced |-> TRUE]
    /\ x.stage = "renamed" => visible[x.file].data = x.data

\* While no directory sync failed after a rename.
SyncedWhenIdle(p) ==
    ~syncFailed /\ ops[p].stage \in {"idle"} \cup BeforeRename => durable = visible
ReportedDurable ==
    ~syncFailed => \A f \in Files : \A d \in reported[f] : Extends(durable[f].data, d)

JournalInv ==
    /\ TypeOK
    /\ FilesSound
    /\ DurableIsPrefix
    /\ OneHolder
    /\ \A p \in Procs : WriteOK(p) /\ SyncedWhenIdle(p)
    /\ PlanMatchesStream
    /\ ReportedDurable

----------------------------------------------------------------------------
(* Streams. *)

\* A stream is a sequence within the journal's limit.
LEMMA StreamsAreSequences ==
    \A s \in Streams : s \in Seq(Plans \cup Values) /\ Len(s) <= StreamLimit
<1> SUFFICES ASSUME NEW n \in 0 .. StreamLimit, NEW s \in [1 .. n -> Plans \cup Values]
             PROVE  s \in Seq(Plans \cup Values) /\ Len(s) <= StreamLimit
  BY DEF Streams
<1>1. n \in Nat /\ n <= StreamLimit
  BY FileRunJournalAssumption
<1> QED
  BY <1>1

LEMMA SequencesAreStreams ==
    ASSUME NEW s \in Seq(Plans \cup Values), Len(s) <= StreamLimit
    PROVE  s \in Streams
<1>1. Len(s) \in 0 .. StreamLimit /\ s \in [1 .. Len(s) -> Plans \cup Values]
  BY FileRunJournalAssumption
<1> QED
  BY <1>1 DEF Streams

LEMMA EmptyStream == <<>> \in Streams
<1>1. <<>> \in Seq(Plans \cup Values) /\ Len(<<>>) = 0 /\ 0 <= StreamLimit
  BY FileRunJournalAssumption
<1> QED
  BY <1>1, SequencesAreStreams

LEMMA PlanStream ==
    ASSUME NEW plan \in Plans
    PROVE  <<plan>> \in Streams /\ <<plan>> \in Holdable("plan")
<1>1. <<plan>> \in Seq(Plans \cup Values) /\ Len(<<plan>>) <= StreamLimit
  BY FileRunJournalAssumption
<1> QED
  BY <1>1, SequencesAreStreams DEF Holdable

LEMMA HoldableStreams ==
    ASSUME NEW f \in Files, NEW d \in Holdable(f)
    PROVE  d \in Streams /\ d # <<>> /\ d[1] \in Plans
<1>1. CASE f = "plan"
  BY <1>1, PlanStream DEF Holdable
<1>2. CASE f = "stream"
  BY <1>2 DEF Holdable
<1> QED
  BY <1>1, <1>2 DEF Files

\* What a complete file holds.
LEMMA SoundData ==
    ASSUME NEW f \in Files, NEW c \in Sound(f)
    PROVE  /\ c.data \in Streams /\ c.data # None /\ c.data \in Seq(Plans \cup Values)
           /\ c.synced = TRUE /\ c \in Contents /\ c # Torn
           /\ c.data = <<>> \/ c.data \in Holdable(f)
<1>1. c.data = <<>> \/ c.data \in Holdable(f)
  BY DEF Sound
<1>2. c.data \in Streams
  BY <1>1, EmptyStream, HoldableStreams
<1>3. c.data # None /\ c.data \in Seq(Plans \cup Values)
  BY <1>2, StreamsAreSequences, FileRunJournalAssumption
<1>4. c = [data |-> c.data, synced |-> c.synced] /\ c.synced = TRUE
  BY DEF Sound
<1>5. c \in Contents
  BY <1>2, <1>4 DEF Contents
<1>6. c # Torn
  BY <1>3 DEF Torn
<1> QED
  BY <1>1, <1>2, <1>3, <1>4, <1>5, <1>6

LEMMA ExtendsItself == \A s \in Seq(Plans \cup Values) : Extends(s, s)
  BY DEF Extends

LEMMA ExtendsEmpty == \A s \in Seq(Plans \cup Values) : Extends(s, <<>>)
  BY DEF Extends

LEMMA ExtendsOn ==
    ASSUME NEW s \in Seq(Plans \cup Values), NEW t \in Seq(Plans \cup Values),
           NEW u \in Seq(Plans \cup Values), Extends(s, t), Extends(t, u)
    PROVE  Extends(s, u)
  BY DEF Extends

LEMMA ExtendsOpening ==
    ASSUME NEW s \in Seq(Plans \cup Values), NEW t \in Seq(Plans \cup Values),
           Extends(s, t), t # <<>>
    PROVE  s # <<>> /\ s[1] = t[1]
<1>1. Len(t) >= 1
  BY DEF Extends
<1>2. Len(s) >= 1 /\ s[1] = t[1]
  BY <1>1 DEF Extends
<1> QED
  BY <1>2

----------------------------------------------------------------------------
(* Steps of one process. *)

\* The process that moves holds the lock or nobody does: the others have no
\* handle, so nothing is asked of them.
LEMMA OneMoves ==
    ASSUME JournalInv, NEW p \in Procs, ops[p].stage # "closed" \/ lock = None,
           NEW y \in Op, ops' = [ops EXCEPT ![p] = y],
           lock' \in {p, None}, y.stage # "closed" => lock' = p,
           WriteOK(p)', SyncedWhenIdle(p)'
    PROVE  /\ ops' \in [Procs -> Op]
           /\ lock' \in Procs \cup {None}
           /\ OneHolder'
           /\ \A q \in Procs : WriteOK(q)' /\ SyncedWhenIdle(q)'
<1>1. ops \in [Procs -> Op]
  BY DEF JournalInv, TypeOK
<1>2. \A q \in Procs : q # p => ops'[q] = ops[q] /\ ops[q].stage = "closed"
  BY <1>1, FileRunJournalAssumption DEF JournalInv, OneHolder
<1>3. ops' \in [Procs -> Op] /\ ops'[p] = y
  BY <1>1
<1>4. OneHolder'
  BY <1>2, <1>3 DEF OneHolder
<1>5. ASSUME NEW q \in Procs, q # p
      PROVE  WriteOK(q)' /\ SyncedWhenIdle(q)'
  <2>1. ops'[q].stage = "closed"
    BY <1>2, <1>5
  <2> QED
    BY <2>1 DEF WriteOK, SyncedWhenIdle, Writing, BeforeRename
<1> QED
  BY <1>3, <1>4, <1>5

\* A step that leaves the files and the reports alone.
LEMMA QuietStep ==
    ASSUME JournalInv, NEW p \in Procs, ops[p].stage # "closed" \/ lock = None,
           NEW y \in Op, ops' = [ops EXCEPT ![p] = y],
           lock' \in {p, None}, y.stage # "closed" => lock' = p,
           WriteOK(p)', SyncedWhenIdle(p)',
           temporary' \in Contents, syncFailed' \in BOOLEAN, syncFailed => syncFailed',
           UNCHANGED <<visible, durable, reported>>
    PROVE  JournalInv'
<1>1. /\ ops' \in [Procs -> Op] /\ lock' \in Procs \cup {None} /\ OneHolder'
      /\ \A q \in Procs : WriteOK(q)' /\ SyncedWhenIdle(q)'
  BY OneMoves
<1>2. TypeOK'
  BY <1>1 DEF JournalInv, TypeOK
<1>3. FilesSound' /\ DurableIsPrefix'
  BY DEF JournalInv, FilesSound, DurableIsPrefix
<1>4. PlanMatchesStream'
  BY DEF JournalInv, PlanMatchesStream
<1>5. ReportedDurable'
  BY DEF JournalInv, ReportedDurable
<1> QED
  BY <1>1, <1>2, <1>3, <1>4, <1>5 DEF JournalInv

\* A step after which nothing is being written or read.
LEMMA NotWriting ==
    ASSUME NEW p \in Procs, ops'[p] = Closed \/ ops'[p] = Idle \/ ops'[p].stage = "opening"
    PROVE  /\ WriteOK(p)'
           /\ ops'[p].stage # "idle" => SyncedWhenIdle(p)'
           /\ (syncFailed \/ durable = visible)' => SyncedWhenIdle(p)'
<1>1. ops'[p].stage \in {"closed", "idle", "opening"}
  BY DEF Closed, Idle
<1> QED
  BY <1>1 DEF WriteOK, SyncedWhenIdle, Writing, BeforeRename

LEMMA OpOfIdle ==
    /\ Closed \in Op /\ Idle \in Op /\ [Closed EXCEPT !.stage = "opening"] \in Op
    /\ Closed.stage = "closed" /\ Idle.stage = "idle"
    /\ [Closed EXCEPT !.stage = "opening"].stage = "opening"
    /\ NoFile \in Contents
  BY EmptyStream DEF Closed, Idle, Op, Stages, NoFile, Contents

\* Opening the journal, closing it without a sync, giving up a write, the
\* failed sync and a process stop.
LEMMA HandleStep ==
    ASSUME JournalInv, NEW p \in Procs,
           Open(p) \/ OpenFailed(p) \/ WriteFailed(p) \/ ProcessStop(p), UNCHANGED syncFailed
    PROVE  JournalInv'
<1> USE OpOfIdle
<1>1. ops \in [Procs -> Op] /\ temporary \in Contents
      /\ syncFailed \in BOOLEAN /\ lock \in Procs \cup {None}
  BY DEF JournalInv, TypeOK
<1>2. CASE Open(p)
  <2>1. ops' = [ops EXCEPT ![p] = [Closed EXCEPT !.stage = "opening"]]
        /\ lock = None /\ lock' = p /\ UNCHANGED <<visible, durable, reported, temporary>>
    BY <1>2 DEF Open
  <2>2. ops'[p].stage = "opening"
    BY <1>1, <2>1
  <2>3. WriteOK(p)' /\ SyncedWhenIdle(p)'
    BY <2>2, NotWriting
  <2> QED
    BY <1>1, <2>1, <2>3, QuietStep
<1>3. CASE OpenFailed(p) \/ ProcessStop(p)
  <2>1. ops' = [ops EXCEPT ![p] = Closed] /\ lock' = None /\ ops[p].stage # "closed"
        /\ UNCHANGED <<visible, durable, reported>> /\ temporary' \in Contents
    BY <1>1, <1>3 DEF OpenFailed, ProcessStop
  <2>2. ops'[p] = Closed
    BY <1>1, <2>1
  <2>3. WriteOK(p)' /\ SyncedWhenIdle(p)'
    BY <2>2, NotWriting
  <2> QED
    BY <1>1, <2>1, <2>3, QuietStep
<1>4. CASE WriteFailed(p)
  <2>1. ops' = [ops EXCEPT ![p] = Idle] /\ UNCHANGED lock /\ ops[p].stage \in BeforeRename
        /\ UNCHANGED <<visible, durable, reported>> /\ temporary' = NoFile
    BY <1>4 DEF WriteFailed, Return, BeforeRename
  <2>2. ops'[p] = Idle /\ ops[p].stage # "closed" /\ lock = p
    BY <1>1, <2>1 DEF BeforeRename, JournalInv, OneHolder
  <2>3. syncFailed \/ durable = visible
    BY <2>1 DEF JournalInv, SyncedWhenIdle
  <2>4. WriteOK(p)' /\ SyncedWhenIdle(p)'
    BY <2>1, <2>2, <2>3, NotWriting
  <2> QED
    BY <1>1, <2>1, <2>2, <2>4, QuietStep
<1> QED
  BY <1>2, <1>3, <1>4

\* The directory sync after a rename failed: the content stays visible.
LEMMA SyncRootFailedStep ==
    ASSUME JournalInv, NEW p \in Procs, SyncRootFailed(p)
    PROVE  JournalInv'
<1> USE OpOfIdle
<1>1. ops \in [Procs -> Op] /\ temporary \in Contents
  BY DEF JournalInv, TypeOK
<1>2. ops' = [ops EXCEPT ![p] = Idle] /\ UNCHANGED <<lock, visible, durable, reported, temporary>>
      /\ ops[p].stage = "renamed" /\ syncFailed' = TRUE
  BY DEF SyncRootFailed, Return
<1>3. ops'[p] = Idle /\ lock = p
  BY <1>1, <1>2 DEF JournalInv, OneHolder
<1>4. WriteOK(p)' /\ SyncedWhenIdle(p)'
  BY <1>2, <1>3, NotWriting
<1> QED
  BY <1>1, <1>2, <1>3, <1>4, QuietStep

\* SavePlan and Append decide to write.
LEMMA StartStep ==
    ASSUME JournalInv, NEW p \in Procs, ops[p].stage = "idle",
           NEW f \in Files, NEW d \in Holdable(f), StartWrite(p, f, d), UNCHANGED syncFailed,
           Extends(d, visible[f].data),
           f = "plan" /\ visible["stream"].data # <<>> => visible["stream"].data[1] = d[1],
           f = "stream" /\ visible["plan"].data # <<>> => visible["plan"].data[1] = d[1]
    PROVE  JournalInv'
<1> DEFINE y == [stage |-> "write", file |-> f, data |-> d]
<1>1. y \in Op /\ y.stage = "write" /\ y.file = f /\ y.data = d
  BY HoldableStreams DEF Op, Stages
<1>2. ops' = [ops EXCEPT ![p] = y] /\ UNCHANGED <<visible, durable, temporary, lock, reported>>
  BY DEF StartWrite
<1> HIDE DEF y
<1>3. ops \in [Procs -> Op] /\ temporary \in Contents /\ syncFailed \in BOOLEAN /\ lock = p
  BY DEF JournalInv, TypeOK, OneHolder
<1>4. ops'[p] = y
  BY <1>2, <1>3
<1>5. WriteOK(p)'
  BY <1>1, <1>2, <1>4 DEF WriteOK, Continues, Writing, BeforeRename
<1>6. SyncedWhenIdle(p)'
  BY <1>1, <1>2, <1>4 DEF SyncedWhenIdle, BeforeRename, JournalInv
<1> QED
  BY <1>1, <1>2, <1>3, <1>5, <1>6, QuietStep

\* The write to the temporary file and its sync.
LEMMA TemporaryStep ==
    ASSUME JournalInv, NEW p \in Procs, WriteTemporary(p) \/ SyncTemporary(p), UNCHANGED syncFailed
    PROVE  JournalInv'
<1>1. PICK stage \in {"written", "synced"} :
          /\ ops' = [ops EXCEPT ![p].stage = stage]
          /\ ops[p].stage \in BeforeRename
          /\ temporary' = [data |-> ops[p].data, synced |-> stage = "synced"]
  <2>1. CASE WriteTemporary(p)
    BY <2>1 DEF WriteTemporary, Step, BeforeRename
  <2>2. CASE SyncTemporary(p)
    <3>1. ops[p].stage = "written" /\ temporary' = [temporary EXCEPT !.synced = TRUE]
          /\ ops' = [ops EXCEPT ![p].stage = "synced"]
      BY <2>2 DEF SyncTemporary, FlushTemporary, Step
    <3>2. temporary \in Contents /\ temporary.data = ops[p].data
      BY <3>1 DEF JournalInv, TypeOK, WriteOK
    <3>3. temporary' = [data |-> ops[p].data, synced |-> TRUE]
      BY <3>1, <3>2 DEF Contents
    <3> QED
      BY <3>1, <3>3 DEF BeforeRename
  <2> QED
    BY <2>1, <2>2
<1>2. UNCHANGED <<visible, durable, lock, reported>>
  BY DEF WriteTemporary, SyncTemporary
<1>3. ops \in [Procs -> Op] /\ ops[p] \in Op /\ lock = p /\ syncFailed \in BOOLEAN
  BY <1>1 DEF JournalInv, TypeOK, OneHolder, BeforeRename
<1> DEFINE y == [ops[p] EXCEPT !.stage = stage]
<1>4. y \in Op /\ y.stage = stage /\ y.file = ops[p].file /\ y.data = ops[p].data
  BY <1>1, <1>3 DEF Op, Stages
<1>5. ops' = [ops EXCEPT ![p] = y]
  BY <1>1, <1>3
<1> HIDE DEF y
<1>6. ops'[p] = y
  BY <1>3, <1>5
<1>7. temporary' \in Contents
  BY <1>1, <1>3 DEF Contents, Op
<1>8. WriteOK(p)
  BY DEF JournalInv
<1>9. ops[p].file \in Files /\ ops[p].data \in Holdable(ops[p].file) /\ Continues(p)
  BY <1>1, <1>8 DEF WriteOK, Writing
<1>10. Continues(p)'
  BY <1>2, <1>4, <1>6, <1>9 DEF Continues
<1>11. WriteOK(p)'
  BY <1>1, <1>4, <1>6, <1>9, <1>10 DEF WriteOK, Writing, BeforeRename
<1>12. SyncedWhenIdle(p)'
  BY <1>1, <1>2, <1>4, <1>6 DEF SyncedWhenIdle, BeforeRename, JournalInv
<1> QED
  BY <1>1, <1>2, <1>3, <1>4, <1>5, <1>7, <1>11, <1>12, QuietStep DEF BeforeRename

\* The rename makes a complete content visible that goes on from the one
\* before, so what is durable is still a prefix.
LEMMA RenameStep ==
    ASSUME JournalInv, NEW p \in Procs, Rename(p), UNCHANGED syncFailed
    PROVE  JournalInv'
<1> DEFINE f == ops[p].file
           d == ops[p].data
           y == [ops[p] EXCEPT !.stage = "renamed"]
<1>1. /\ ops[p].stage = "synced" /\ visible' = [visible EXCEPT ![f] = temporary]
      /\ temporary' = NoFile /\ ops' = [ops EXCEPT ![p].stage = "renamed"]
      /\ UNCHANGED <<durable, lock, reported>>
  BY DEF Rename, Step
<1>2. /\ ops \in [Procs -> Op] /\ ops[p] \in Op /\ lock = p /\ syncFailed \in BOOLEAN
      /\ visible \in [Files -> Contents]
  BY <1>1 DEF JournalInv, TypeOK, OneHolder
<1>3. /\ f \in Files /\ d \in Holdable(f) /\ temporary = [data |-> d, synced |-> TRUE]
      /\ Continues(p)
  BY <1>1 DEF JournalInv, WriteOK, Writing, BeforeRename
<1>4. temporary \in Sound(f) /\ temporary.data = d
  BY <1>3 DEF Sound
<1>5. /\ visible'[f] = temporary /\ visible' \in [Files -> Contents]
      /\ \A g \in Files : g # f => visible'[g] = visible[g]
  BY <1>1, <1>2, <1>3, <1>4, SoundData
<1>6. /\ y \in Op /\ y.stage = "renamed" /\ y.file = f /\ y.data = d
      /\ ops' = [ops EXCEPT ![p] = y] /\ ops'[p] = y
  BY <1>1, <1>2 DEF Op, Stages
<1> HIDE DEF y
<1>7. WriteOK(p)' /\ SyncedWhenIdle(p)'
  BY <1>3, <1>4, <1>5, <1>6 DEF WriteOK, Writing, BeforeRename, SyncedWhenIdle
<1>8. /\ ops' \in [Procs -> Op] /\ lock' \in Procs \cup {None} /\ OneHolder'
      /\ \A q \in Procs : WriteOK(q)' /\ SyncedWhenIdle(q)'
  BY <1>1, <1>2, <1>6, <1>7, OneMoves
<1>9. TypeOK'
  BY <1>1, <1>5, <1>8, OpOfIdle DEF JournalInv, TypeOK
<1>10. FilesSound'
  BY <1>1, <1>4, <1>5 DEF JournalInv, FilesSound
<1>11. DurableIsPrefix'
  <2> SUFFICES ASSUME NEW g \in Files PROVE Extends(visible'[g].data, durable[g].data)
    BY <1>1 DEF DurableIsPrefix
  <2>1. Extends(visible[g].data, durable[g].data)
    BY DEF JournalInv, DurableIsPrefix
  <2>2. CASE g = f
    <3>1. visible[g].data \in Seq(Plans \cup Values) /\ durable[g].data \in Seq(Plans \cup Values)
      BY SoundData DEF JournalInv, FilesSound
    <3>2. d \in Seq(Plans \cup Values)
      BY <1>3, HoldableStreams, StreamsAreSequences
    <3>3. Extends(d, visible[g].data)
      BY <1>3, <2>2 DEF Continues
    <3> HIDE DEF d, f
    <3>4. Extends(d, durable[g].data)
      BY <2>1, <3>1, <3>2, <3>3, ExtendsOn
    <3> QED
      BY <1>4, <1>5, <2>2, <3>4
  <2> QED
    BY <1>5, <2>1, <2>2
<1>12. PlanMatchesStream'
  <2>1. CASE f = "plan"
    BY <1>3, <1>4, <1>5, <2>1 DEF PlanMatchesStream, Continues, Files
  <2>2. CASE f = "stream"
    BY <1>3, <1>4, <1>5, <2>2 DEF PlanMatchesStream, Continues, Files
  <2> QED
    BY <1>3, <2>1, <2>2 DEF Files
<1>13. ReportedDurable'
  BY <1>1 DEF JournalInv, ReportedDurable
<1> QED
  BY <1>8, <1>9, <1>10, <1>11, <1>12, <1>13 DEF JournalInv

\* An operation ends with the directory synced, and may report what a file
\* holds.
LEMMA EndStep ==
    ASSUME JournalInv, NEW p \in Procs, ops[p].stage # "closed",
           NEW y \in {Idle, Closed}, ops' = [ops EXCEPT ![p] = y],
           lock' \in {p, None}, y = Idle => lock' = p,
           UNCHANGED <<visible, temporary, syncFailed>>,
           durable' = visible \/ (syncFailed /\ UNCHANGED durable),
           NEW f \in Files,
           UNCHANGED reported \/ reported' = [reported EXCEPT ![f] = @ \cup {visible[f].data}]
    PROVE  JournalInv'
<1>1. ops \in [Procs -> Op] /\ durable \in [Files -> Contents]
      /\ visible \in [Files -> Contents] /\ reported \in [Files -> SUBSET Streams]
  BY DEF JournalInv, TypeOK
<1>2. ops'[p] = y /\ y \in Op /\ (y.stage # "closed" => lock' = p)
  BY <1>1, OpOfIdle
<1>3. WriteOK(p)' /\ SyncedWhenIdle(p)'
  BY <1>2, NotWriting
<1>4. /\ ops' \in [Procs -> Op] /\ lock' \in Procs \cup {None} /\ OneHolder'
      /\ \A q \in Procs : WriteOK(q)' /\ SyncedWhenIdle(q)'
  BY <1>2, <1>3, OneMoves
<1>5. \A g \in Files : /\ visible[g].data \in Streams
                       /\ visible[g].data \in Seq(Plans \cup Values)
                       /\ durable[g].data \in Seq(Plans \cup Values)
  BY SoundData DEF JournalInv, FilesSound
<1>6. /\ reported' \in [Files -> SUBSET Streams]
      /\ \A g \in Files : \A d \in reported'[g] : d \in reported[g] \/ d = visible[g].data
  <2>1. CASE UNCHANGED reported
    BY <1>1, <2>1
  <2>2. CASE reported' = [reported EXCEPT ![f] = @ \cup {visible[f].data}]
    <3>1. \A g \in Files : reported'[g] = IF g = f THEN reported[f] \cup {visible[f].data} ELSE reported[g]
      BY <1>1, <2>2
    <3>2. DOMAIN reported' = Files /\ reported' = [g \in Files |-> reported'[g]]
      BY <1>1, <2>2
    <3>3. \A g \in Files : reported'[g] \subseteq Streams
      BY <1>1, <1>5, <3>1
    <3> QED
      BY <3>1, <3>2, <3>3
  <2> QED
    BY <2>1, <2>2
<1>7. TypeOK'
  BY <1>1, <1>4, <1>6 DEF JournalInv, TypeOK
<1>8. FilesSound'
  BY DEF JournalInv, FilesSound
<1>9. DurableIsPrefix'
  BY <1>5, ExtendsItself DEF JournalInv, DurableIsPrefix
<1>10. PlanMatchesStream'
  BY DEF JournalInv, PlanMatchesStream
<1>11. ReportedDurable'
  <2> SUFFICES ASSUME ~syncFailed, NEW g \in Files, NEW d \in reported'[g]
               PROVE  Extends(visible[g].data, d)
    BY DEF ReportedDurable
  <2>1. CASE d = visible[g].data
    BY <1>5, <2>1, ExtendsItself
  <2>2. CASE d \in reported[g]
    <3>1. Extends(durable[g].data, d) /\ Extends(visible[g].data, durable[g].data)
      BY <2>2 DEF JournalInv, ReportedDurable, DurableIsPrefix
    <3>2. d \in Seq(Plans \cup Values)
      BY <1>1, <2>2, StreamsAreSequences
    <3> QED
      BY <1>5, <3>1, <3>2, ExtendsOn
  <2> QED
    BY <1>6, <2>1, <2>2
<1> QED
  BY <1>4, <1>7, <1>8, <1>9, <1>10, <1>11 DEF JournalInv

\* What an idle handle finds in the files it may report.
LEMMA ReportStep ==
    ASSUME JournalInv, NEW p \in Procs, ops[p].stage = "idle", NEW f \in Files,
           Report(p, f, visible[f].data),
           UNCHANGED <<visible, durable, temporary, lock, syncFailed>>
    PROVE  JournalInv'
<1>1. lock = p /\ (syncFailed \/ durable = visible)
  BY DEF JournalInv, OneHolder, SyncedWhenIdle
<1>2. ops' = [ops EXCEPT ![p] = Idle]
      /\ reported' = [reported EXCEPT ![f] = @ \cup {visible[f].data}]
  BY DEF Report
<1> QED
  BY <1>1, <1>2, EndStep

LEMMA SyncStep ==
    ASSUME JournalInv, NEW p \in Procs, Opened(p) \/ Close(p) \/ Replaced(p), UNCHANGED syncFailed
    PROVE  JournalInv'
<1>1. CASE Opened(p)
  <2>1. /\ ops[p].stage = "opening" /\ durable' = visible /\ ops' = [ops EXCEPT ![p] = Idle]
        /\ UNCHANGED <<visible, temporary, lock, reported>>
    BY <1>1 DEF Opened, SyncOnOpen, SyncRoot
  <2>2. lock = p
    BY <2>1 DEF JournalInv, OneHolder
  <2>3. "plan" \in Files
    BY DEF Files
  <2> QED
    BY <2>1, <2>2, <2>3, EndStep
<1>2. CASE Close(p)
  <2>1. /\ ops[p].stage = "idle" /\ lock' = None /\ ops' = [ops EXCEPT ![p] = Closed]
        /\ UNCHANGED <<visible, temporary, reported>>
        /\ durable' = visible \/ UNCHANGED durable
    BY <1>2 DEF Close, SyncRoot
  <2>2. syncFailed \/ durable = visible
    BY <2>1 DEF JournalInv, SyncedWhenIdle
  <2>3. "plan" \in Files /\ Closed # Idle
    BY DEF Files, Closed, Idle
  <2> QED
    BY <2>1, <2>2, <2>3, EndStep
<1>3. CASE Replaced(p)
  <2> DEFINE f == ops[p].file
  <2>1. /\ ops[p].stage = "renamed" /\ durable' = visible
        /\ Report(p, f, ops[p].data) /\ UNCHANGED <<visible, temporary, lock>>
    BY <1>3 DEF Replaced, SyncRoot
  <2>2. lock = p /\ f \in Files /\ visible[f].data = ops[p].data
    BY <2>1 DEF JournalInv, OneHolder, WriteOK, Writing
  <2>3. /\ ops' = [ops EXCEPT ![p] = Idle]
        /\ reported' = [reported EXCEPT ![f] = @ \cup {visible[f].data}]
    BY <2>1, <2>2 DEF Report
  <2> QED
    BY <2>1, <2>2, <2>3, EndStep
<1> QED
  BY <1>1, <1>2, <1>3

LEMMA SavePlanStep ==
    ASSUME JournalInv, NEW p \in Procs, NEW plan \in Plans, SavePlan(p, plan), UNCHANGED syncFailed
    PROVE  JournalInv'
<1>1. ops[p].stage = "idle" /\ "plan" \in Files /\ "stream" \in Files
  BY DEF SavePlan, Files
<1>2. CASE /\ Stored("plan") = <<plan>> /\ Report(p, "plan", <<plan>>)
           /\ UNCHANGED <<visible, durable, temporary, lock>>
  BY <1>1, <1>2, ReportStep DEF Stored
<1>3. CASE ~PlanFound /\ ~OtherStream(plan) /\ StartWrite(p, "plan", <<plan>>)
  <2>1. visible["plan"].data = <<>> /\ <<plan>> \in Holdable("plan")
    BY <1>3, PlanStream DEF PlanFound, Stored
  <2>2. Extends(<<plan>>, visible["plan"].data)
    BY <2>1, PlanStream, StreamsAreSequences, ExtendsEmpty
  <2>3. visible["stream"].data # <<>> => visible["stream"].data[1] = <<plan>>[1]
    BY <1>3 DEF OtherStream, Stored
  <2> QED
    BY <1>1, <1>3, <2>1, <2>2, <2>3, StartStep
<1> QED
  BY <1>2, <1>3 DEF SavePlan

LEMMA ProposalsOK ==
    ASSUME NEW e \in Proposals
    PROVE  e \in Seq(Plans \cup Values) /\ Len(e) >= 1 /\ e[1] \in Plans /\ Len(e) <= StreamLimit + 1
<1>1. PICK n \in 1 .. StreamLimit + 1 : e \in [1 .. n -> Plans \cup Values] /\ e[1] \in Plans
  BY DEF Proposals
<1>2. n \in Nat /\ n >= 1 /\ n <= StreamLimit + 1
  BY FileRunJournalAssumption
<1> QED
  BY <1>1, <1>2

LEMMA AppendStep ==
    ASSUME JournalInv, NEW p \in Procs, NEW e \in Proposals, AppendEvent(p, e), UNCHANGED syncFailed
    PROVE  JournalInv'
<1> DEFINE s == visible["stream"].data
<1>1. /\ ops[p].stage = "idle" /\ "plan" \in Files /\ "stream" \in Files
      /\ visible["plan"].data # <<>> => visible["plan"].data = <<e[1]>>
  BY DEF AppendEvent, Files, PlanFound, Stored
<1>2. CASE s = e
  <2>1. Report(p, "stream", s) /\ UNCHANGED <<visible, durable, temporary, lock>>
    BY <1>2 DEF AppendEvent, Stored
  <2> QED
    BY <1>1, <2>1, ReportStep
<1>3. CASE s # e
  <2>1. s = SubSeq(e, 1, Len(e) - 1) /\ Len(s) < StreamLimit /\ StartWrite(p, "stream", e)
    BY <1>3 DEF AppendEvent, Stored, HasRoom
  <2>2. e \in Seq(Plans \cup Values) /\ Len(e) >= 1 /\ e[1] \in Plans
    BY ProposalsOK
  <2>3. Len(s) = Len(e) - 1 /\ Extends(e, s)
    <3>1. PICK n \in Nat : n = Len(e) - 1
      BY <2>2
    <3>2. s = SubSeq(e, 1, n) /\ n <= Len(e)
      BY <2>1, <2>2, <3>1
    <3> HIDE DEF s
    <3>3. Len(s) = n /\ \A i \in 1 .. n : s[i] = e[i]
      BY <2>2, <3>2
    <3> QED
      BY <3>1, <3>2, <3>3 DEF Extends
  <2>4. Len(e) <= StreamLimit
    BY <2>1, <2>2, <2>3, FileRunJournalAssumption
  <2>5. e \in Holdable("stream")
    BY <2>2, <2>4, SequencesAreStreams DEF Holdable
  <2>6. visible["plan"].data # <<>> => visible["plan"].data[1] = e[1]
    BY <1>1
  <2> QED
    BY <1>1, <2>1, <2>3, <2>5, <2>6, StartStep
<1> QED
  BY <1>2, <1>3

----------------------------------------------------------------------------
(* Steps of the system. *)

LEMMA WriteBackStep ==
    ASSUME JournalInv, NEW f \in Files, WriteBack(f), UNCHANGED syncFailed
    PROVE  JournalInv'
<1>1. /\ durable' = [durable EXCEPT ![f] = visible[f]]
      /\ UNCHANGED <<visible, temporary, lock, ops, reported>>
  BY DEF WriteBack
<1>2. visible \in [Files -> Contents] /\ durable \in [Files -> Contents]
  BY DEF JournalInv, TypeOK
<1>3. durable'[f] = visible[f] /\ \A g \in Files : g # f => durable'[g] = durable[g]
  BY <1>1, <1>2
<1>4. \A g \in Files : /\ visible[g].data \in Seq(Plans \cup Values)
                       /\ durable[g].data \in Seq(Plans \cup Values)
  BY SoundData DEF JournalInv, FilesSound
<1>5. TypeOK'
  BY <1>1, <1>2 DEF JournalInv, TypeOK
<1>6. FilesSound' /\ DurableIsPrefix'
  BY <1>1, <1>3, <1>4, ExtendsItself DEF JournalInv, FilesSound, DurableIsPrefix
<1>7. OneHolder' /\ PlanMatchesStream'
  BY <1>1 DEF JournalInv, OneHolder, PlanMatchesStream
<1>8. ASSUME NEW p \in Procs PROVE WriteOK(p)' /\ SyncedWhenIdle(p)'
  <2>1. WriteOK(p)'
    BY <1>1 DEF JournalInv, WriteOK, Continues
  <2>2. SyncedWhenIdle(p)'
    BY <1>1, <1>2 DEF JournalInv, SyncedWhenIdle
  <2> QED
    BY <2>1, <2>2
<1>9. ReportedDurable'
  <2> SUFFICES ASSUME ~syncFailed, NEW g \in Files, NEW d \in reported[g]
               PROVE  Extends(durable'[g].data, d)
    BY <1>1 DEF ReportedDurable
  <2>1. Extends(durable[g].data, d) /\ Extends(visible[g].data, durable[g].data)
    BY DEF JournalInv, ReportedDurable, DurableIsPrefix
  <2>2. d \in Seq(Plans \cup Values)
    BY StreamsAreSequences DEF JournalInv, TypeOK
  <2>3. Extends(visible[g].data, d)
    BY <1>4, <2>1, <2>2, ExtendsOn
  <2> QED
    BY <1>3, <2>1, <2>3
<1> QED
  BY <1>5, <1>6, <1>7, <1>8, <1>9 DEF JournalInv

LEMMA PowerLossStep ==
    ASSUME JournalInv, PowerLoss, UNCHANGED syncFailed
    PROVE  JournalInv'
<1>1. durable \in [Files -> Contents] /\ \A f \in Files : durable[f].synced = TRUE
  BY SoundData DEF JournalInv, TypeOK, FilesSound
<1>2. /\ visible' = [f \in Files |-> IF durable[f].synced THEN durable[f] ELSE Torn]
      /\ durable' = visible' /\ temporary' = NoFile /\ lock' = None
      /\ ops' = [p \in Procs |-> Closed] /\ UNCHANGED reported
  BY DEF PowerLoss
<1>3. \A f \in Files : visible'[f] = durable[f]
  BY <1>1, <1>2
<1>4. visible' = durable
  BY <1>1, <1>2, <1>3
<1>5. TypeOK'
  BY <1>1, <1>2, <1>4, OpOfIdle DEF JournalInv, TypeOK
<1>6. \A f \in Files : /\ visible[f].data \in Seq(Plans \cup Values)
                       /\ durable[f].data \in Seq(Plans \cup Values)
  BY SoundData DEF JournalInv, FilesSound
<1>7. FilesSound' /\ DurableIsPrefix'
  BY <1>2, <1>4, <1>6, ExtendsItself DEF JournalInv, FilesSound, DurableIsPrefix
<1>8. OneHolder' /\ \A p \in Procs : WriteOK(p)' /\ SyncedWhenIdle(p)'
  BY <1>2, OpOfIdle DEF OneHolder, WriteOK, SyncedWhenIdle, Writing, BeforeRename
<1>9. PlanMatchesStream'
  <2> DEFINE plan == durable["plan"].data
             stream == durable["stream"].data
  <2> SUFFICES ASSUME plan \notin {None, <<>>}, stream \notin {None, <<>>} PROVE plan[1] = stream[1]
    BY <1>4 DEF PlanMatchesStream
  <2>1. "plan" \in Files /\ "stream" \in Files
    BY DEF Files
  <2>2. /\ visible["plan"].data # <<>> /\ visible["plan"].data[1] = plan[1]
        /\ visible["stream"].data # <<>> /\ visible["stream"].data[1] = stream[1]
    BY <1>6, <2>1, ExtendsOpening DEF JournalInv, DurableIsPrefix
  <2>3. visible["plan"].data # None /\ visible["stream"].data # None
    BY <2>1, SoundData DEF JournalInv, FilesSound
  <2> QED
    BY <2>2, <2>3 DEF JournalInv, PlanMatchesStream
<1>10. ReportedDurable'
  BY <1>2, <1>4 DEF JournalInv, ReportedDurable
<1> QED
  BY <1>5, <1>7, <1>8, <1>9, <1>10 DEF JournalInv

----------------------------------------------------------------------------
LEMMA JournalInit == Init => JournalInv
<1> SUFFICES ASSUME Init PROVE JournalInv
  OBVIOUS
<1>1. /\ visible = [f \in Files |-> NoFile] /\ durable = visible /\ temporary = NoFile
      /\ lock = None /\ ops = [p \in Procs |-> Closed]
      /\ reported = [f \in Files |-> {}] /\ syncFailed = FALSE
  BY DEF Init
<1>2. TypeOK
  BY <1>1, OpOfIdle DEF TypeOK
<1>3. \A f \in Files : visible[f] = NoFile /\ visible[f].data = <<>>
  BY <1>1 DEF NoFile
<1>4. NoFile \in Sound("plan") /\ NoFile \in Sound("stream")
  BY DEF NoFile, Sound
<1>5. FilesSound /\ DurableIsPrefix
  BY <1>1, <1>3, <1>4 DEF FilesSound, DurableIsPrefix, Extends, Files
<1>6. OneHolder /\ \A p \in Procs : WriteOK(p) /\ SyncedWhenIdle(p)
  BY <1>1, OpOfIdle DEF OneHolder, WriteOK, SyncedWhenIdle, Writing, BeforeRename
<1>7. PlanMatchesStream /\ ReportedDurable
  BY <1>1, <1>3 DEF PlanMatchesStream, ReportedDurable, Files
<1> QED
  BY <1>2, <1>5, <1>6, <1>7 DEF JournalInv

LEMMA JournalNext == JournalInv /\ [Next]_vars => JournalInv'
<1> SUFFICES ASSUME JournalInv, [Next]_vars PROVE JournalInv'
  OBVIOUS
<1>1. CASE UNCHANGED vars
  BY <1>1 DEF vars, files, JournalInv, TypeOK, FilesSound, DurableIsPrefix, OneHolder, WriteOK,
              Continues, SyncedWhenIdle, PlanMatchesStream, ReportedDurable
<1>2. CASE OtherStep /\ UNCHANGED syncFailed
  <2>1. CASE \E f \in Files : WriteBack(f)
    BY <1>2, <2>1, WriteBackStep
  <2>2. CASE PowerLoss
    BY <1>2, <2>2, PowerLossStep
  <2>3. ASSUME NEW p \in Procs, Open(p) \/ OpenFailed(p) \/ WriteFailed(p) \/ ProcessStop(p)
        PROVE  JournalInv'
    BY <1>2, <2>3, HandleStep
  <2>4. ASSUME NEW p \in Procs, Opened(p) \/ Close(p) \/ Replaced(p)
        PROVE  JournalInv'
    BY <1>2, <2>4, SyncStep
  <2>5. ASSUME NEW p \in Procs, WriteTemporary(p) \/ SyncTemporary(p) \/ Rename(p)
        PROVE  JournalInv'
    BY <1>2, <2>5, TemporaryStep, RenameStep
  <2>6. ASSUME NEW p \in Procs, NEW plan \in Plans, SavePlan(p, plan)
        PROVE  JournalInv'
    BY <1>2, <2>6, SavePlanStep
  <2>7. ASSUME NEW p \in Procs, NEW e \in Proposals, AppendEvent(p, e)
        PROVE  JournalInv'
    BY <1>2, <2>7, AppendStep
  <2>8. ASSUME NEW p \in Procs, NEW f \in Files, Read(p, f)
        PROVE  JournalInv'
    BY <1>2, <2>8, ReportStep DEF Read, Stored
  <2> QED
    BY <1>2, <2>1, <2>2, <2>3, <2>4, <2>5, <2>6, <2>7, <2>8 DEF OtherStep
<1>3. CASE \E p \in Procs : SyncRootFailed(p)
  BY <1>3, SyncRootFailedStep
<1> QED
  BY <1>1, <1>2, <1>3 DEF Next

LEMMA JournalAlways == Spec => []JournalInv
  BY JournalInit, JournalNext, PTL DEF Spec

\* No stop and no power loss tears a file of the journal: its content is
\* synced before the rename (replacePlan, replaceStream).
THEOREM JournalNeverTorn == Spec => []NeverTorn
<1>1. JournalInv => NeverTorn
  BY SoundData DEF JournalInv, FilesSound, NeverTorn
<1> QED
  BY <1>1, JournalAlways, PTL

\* A stored plan and a stored stream belong together in every order of
\* SavePlan and Append and after every stop and power loss.
THEOREM JournalPlanMatchesStream == Spec => []PlanMatchesStream
<1>1. JournalInv => PlanMatchesStream
  BY DEF JournalInv
<1> QED
  BY <1>1, JournalAlways, PTL

\* What an operation reported survives every stop and power loss, as long
\* as no directory sync failed after a rename (Append, SavePlan, Read,
\* LoadPlan and the sync of NewFileRunJournal).
THEOREM JournalReportedSurvives == Spec => []ReportedSurvivesStops
<1>1. JournalInv => ReportedSurvivesStops
  <2> SUFFICES ASSUME JournalInv, ~syncFailed, NEW f \in Files, NEW d \in reported[f]
               PROVE  visible[f].data # None /\ Extends(visible[f].data, d)
    BY DEF ReportedSurvivesStops, ReportedSurvives
  <2>1. Extends(durable[f].data, d) /\ Extends(visible[f].data, durable[f].data)
    BY DEF JournalInv, ReportedDurable, DurableIsPrefix
  <2>2. d \in Seq(Plans \cup Values)
    BY StreamsAreSequences DEF JournalInv, TypeOK
  <2>3. /\ visible[f].data \in Seq(Plans \cup Values) /\ durable[f].data \in Seq(Plans \cup Values)
        /\ visible[f].data # None
    BY SoundData DEF JournalInv, FilesSound
  <2> QED
    BY <2>1, <2>2, <2>3, ExtendsOn
<1> QED
  BY <1>1, JournalAlways, PTL

----------------------------------------------------------------------------
(***************************************************************************)
(* The local artifact store, as the composition instantiates it, for every *)
(* set of artifacts, every capacity and every number of faults: a reported *)
(* Put is kept and a reported deletion is final.                           *)
(*                                                                         *)
(* The argument for deletions: a deletion record is never removed, so it   *)
(* can only be lost by a power loss while it is not durable.  Each step of *)
(* a deletion ends with a directory sync of its own, so a record that is   *)
(* not durable has survived as many failed syncs as the deletion has       *)
(* steps behind it: after fewer than three failures a completed record is  *)
(* durable.  And a store that was opened has completed what its records    *)
(* say before it serves anybody.                                           *)
(***************************************************************************)
Types ==
    /\ seen \in [Artifacts -> Storing!Entries]
    /\ synced \in [Artifacts -> Storing!Entries]
    /\ store \in Storing!Store
    /\ receipts \subseteq Artifacts \X DeletionIDs
    /\ puts \subseteq Artifacts
    /\ failures \in Nat

\* Recovering, and serving calls: each with the steps it goes back from.
RecoverPhase == Storing!At("recover") \/ (store.at \in Storing!Steps /\ store.back = "recover")
IdlePhase == Storing!At("idle") \/ (store.at \in Storing!Steps /\ store.back = "idle")

\* What an artifact's directory entries e say.
Finished(e) == e.record # {} /\ \A r \in e.record : r.completed = "yes"
Started(e) == e.record # {} /\ \A r \in e.record : r.completed = "no"
Gone(e) == Finished(e) /\ e.file = {}

\* The store's fields go together with what its step is about.
StoreOK ==
    /\ store.at \in Storing!Steps => \E a \in Artifacts : store.of = {a}
    /\ store.at \notin Storing!Steps => store.of = {}
    /\ store.at \in {"idle", "put", "prepared"} => store.back = "idle"
    /\ \A a \in store.of :
           /\ Storing!At("put") => seen[a].record = {} /\ seen[a].file # {}
           /\ store.at \in Storing!Steps \ {"put"} => seen[a].record # {}
           /\ Storing!At("prepared") => seen[a].file # {}
           /\ store.at \in {"removed", "completed"} => seen[a].file = {}
           /\ store.back = "idle" /\ store.at \in {"prepared", "complete", "removed"} => Started(seen[a])
           /\ Storing!At("completed") => Finished(seen[a])
    /\ RecoverPhase => \A a \in store.todo : seen[a].record # {}

\* A durable record is there to be seen, with the same authorization.
RecordsOK(a) ==
    /\ seen[a].record = {} \/ \E r \in Storing!Records : seen[a].record = {r}
    /\ synced[a].record = {} \/ \E r \in Storing!Records : synced[a].record = {r}
    /\ synced[a].record # {} => seen[a].record # {}
    /\ \A r \in seen[a].record, s \in synced[a].record : r.auth = s.auth

\* The failed syncs that a record which is not durable has behind it.
Behind(a) ==
    (IF Finished(seen[a]) THEN 3 ELSE IF seen[a].file # {} THEN 1 ELSE 2)
        - (IF a \in store.of /\ store.at \in {"prepared", "removed", "completed"} THEN 1 ELSE 0)
UnsyncedOK(a) ==
    seen[a].record # {} /\ synced[a].record = {} =>
        /\ ~RecoverPhase
        /\ IdlePhase => failures >= Behind(a)

\* A completed deletion has no file, unless recovery has still to remove it.
FinishedOK(a) ==
    Finished(seen[a]) =>
        /\ IdlePhase => seen[a].file = {}
        /\ RecoverPhase => seen[a].file = {} \/ a \in store.todo \/ a \in store.of

ReceiptOK(a, x) ==
    <<a, x>> \in receipts /\ failures < 3 =>
        /\ synced[a].record # {}
        /\ \A r \in seen[a].record \cup synced[a].record : r.auth = x
        /\ IdlePhase => Gone(seen[a])
        /\ RecoverPhase => Gone(seen[a]) \/ a \in store.todo \/ a \in store.of

\* As long as no file operation failed.
CalmOK ==
    failures = 0 =>
        /\ store.at \in {"recover", "idle", "complete"} => synced = seen
        /\ \A a \in puts : \/ seen[a].file # {} /\ synced[a].file # {}
                           \/ seen[a].record # {} /\ synced[a].record # {}

StoreInv ==
    /\ Types
    /\ StoreOK
    /\ \A a \in Artifacts : RecordsOK(a) /\ UnsyncedOK(a) /\ FinishedOK(a)
    /\ \A a \in Artifacts, x \in DeletionIDs : ReceiptOK(a, x)
    /\ CalmOK

----------------------------------------------------------------------------
(* Lemmas about the operators. *)

\* The record an operation reads is the only one there is, and it says
\* whether the deletion is completed.
LEMMA OneRecord ==
    ASSUME StoreInv, NEW a \in Artifacts, seen[a].record # {}
    PROVE  /\ Storing!Record(a) \in Storing!Records
           /\ seen[a].record = {Storing!Record(a)}
           /\ Storing!Incomplete(a) => Started(seen[a])
           /\ ~Storing!Incomplete(a) => Finished(seen[a])
  <1>1. PICK r \in Storing!Records : seen[a].record = {r}
    BY DEF StoreInv, RecordsOK
  <1>2. Storing!Record(a) \in seen[a].record
    BY <1>1 DEF Storing!Record
  <1>3. Storing!Record(a) = r
    BY <1>1, <1>2
  <1>4. r.completed \in {"yes", "no"}
    BY DEF Storing!Records
  <1> QED
    BY <1>1, <1>3, <1>4 DEF Storing!Incomplete, Started, Finished

\* The store's phases exclude one another, and a closed or opening store is
\* in neither.
LEMMA Phases ==
    ASSUME Types
    PROVE  /\ ~(RecoverPhase /\ IdlePhase)
           /\ store.at \in {"closed", "opening"} => ~RecoverPhase /\ ~IdlePhase
           /\ Storing!At("recover") => RecoverPhase
           /\ Storing!At("idle") => IdlePhase
  BY DEF Types, Storing!Store, RecoverPhase, IdlePhase, Storing!At, Storing!Steps

\* Closing or opening the store keeps what is known about its entries.
LEMMA ClosedKeeps ==
    ASSUME StoreInv, store' \in {Storing!Closed, [Storing!Closed EXCEPT !.at = "opening"]},
           UNCHANGED <<seen, synced, puts, receipts>>,
           failures' \in Nat, failures' >= failures
    PROVE  StoreInv'
  <1>1. /\ store' \in Storing!Store
        /\ store'.at \in {"closed", "opening"}
        /\ store'.back = "idle"
        /\ store'.of = {}
        /\ store'.todo = {}
    BY DEF Storing!Closed, Storing!Store
  <1>2. Types'
    BY <1>1 DEF StoreInv, Types
  <1>3. ~RecoverPhase' /\ ~IdlePhase'
    BY <1>1 DEF RecoverPhase, IdlePhase, Storing!At, Storing!Steps
  <1>4. StoreOK'
    BY <1>1, <1>3 DEF StoreOK, Storing!At, Storing!Steps
  <1>5. \A a \in Artifacts : (RecordsOK(a) /\ UnsyncedOK(a) /\ FinishedOK(a))'
    BY <1>3 DEF StoreInv, RecordsOK, UnsyncedOK, FinishedOK
  <1>6. \A a \in Artifacts, x \in DeletionIDs : ReceiptOK(a, x)'
    <2> SUFFICES ASSUME NEW a \in Artifacts, NEW x \in DeletionIDs,
                        <<a, x>> \in receipts, failures' < 3
                 PROVE  /\ synced[a].record # {}
                        /\ \A r \in seen[a].record \cup synced[a].record : r.auth = x
      BY <1>3 DEF ReceiptOK
    <2>1. failures < 3
      BY DEF StoreInv, Types
    <2> QED
      BY <2>1 DEF StoreInv, ReceiptOK
  <1>7. CalmOK'
    <2>1. failures' = 0 => failures = 0
      BY DEF StoreInv, Types
    <2> QED
      BY <1>1, <2>1 DEF StoreInv, CalmOK
  <1> QED
    BY <1>2, <1>4, <1>5, <1>6, <1>7 DEF StoreInv

----------------------------------------------------------------------------
(* Opening the store. *)

LEMMA InitEstablishes == Storing!Init => StoreInv
  <1> SUFFICES ASSUME Storing!Init PROVE StoreInv
    OBVIOUS
  <1>1. /\ store \in Storing!Store
        /\ store.at = "closed"
        /\ store.of = {}
        /\ store.todo = {}
    BY DEF Storing!Init, Storing!Closed, Storing!Store
  <1>2. /\ seen \in [Artifacts -> Storing!Entries]
        /\ synced = seen
        /\ \A a \in Artifacts : seen[a].file = {} /\ seen[a].record = {}
    BY DEF Storing!Init, Storing!NoEntries, Storing!Entries
  <1>3. Types
    BY <1>1, <1>2 DEF Storing!Init, Types
  <1>4. StoreOK
    BY <1>1, <1>3, Phases DEF StoreOK, Storing!Steps, Storing!At
  <1>5. \A a \in Artifacts : RecordsOK(a) /\ UnsyncedOK(a) /\ FinishedOK(a)
    BY <1>2 DEF RecordsOK, UnsyncedOK, FinishedOK, Finished
  <1>6. \A a \in Artifacts, x \in DeletionIDs : ReceiptOK(a, x)
    BY DEF Storing!Init, ReceiptOK
  <1>7. CalmOK
    BY <1>1 DEF Storing!Init, CalmOK
  <1> QED
    BY <1>3, <1>4, <1>5, <1>6, <1>7 DEF StoreInv

LEMMA OpenPreserves == ASSUME StoreInv, Storing!Open PROVE StoreInv'
  <1>1. failures \in Nat /\ failures' = failures
    BY DEF StoreInv, Types, Storing!Open
  <1>2. failures' >= failures
    BY <1>1
  <1>3. store' \in {Storing!Closed, [Storing!Closed EXCEPT !.at = "opening"]}
    BY DEF Storing!Open
  <1>4. UNCHANGED <<seen, synced, puts, receipts>>
    BY DEF Storing!Open, Storing!reports
  <1> QED
    BY <1>1, <1>2, <1>3, <1>4, ClosedKeeps

LEMMA OpenedPreserves == ASSUME StoreInv, Storing!Opened PROVE StoreInv'
  <1>1. /\ store \in Storing!Store
        /\ store.at = "opening"
        /\ store.of = {}
    BY DEF StoreInv, Types, StoreOK, Storing!Opened, Storing!At, Storing!Steps
  <1>2. /\ store' \in Storing!Store
        /\ store'.at = "recover"
        /\ store'.of = {}
        /\ store'.todo = {a \in Artifacts : seen[a].record # {}}
    BY <1>1 DEF Storing!Opened, Storing!Store
  <1>3. seen' = seen /\ synced' = seen /\ UNCHANGED <<puts, receipts, failures>>
    BY DEF Storing!Opened, Storing!reports
  <1>4. RecoverPhase' /\ ~IdlePhase'
    BY <1>2 DEF RecoverPhase, IdlePhase, Storing!At, Storing!Steps
  <1>5. Types'
    BY <1>2, <1>3 DEF StoreInv, Types
  <1>6. StoreOK'
    BY <1>2, <1>3 DEF StoreOK, Storing!At, Storing!Steps
  <1>7. \A a \in Artifacts : (RecordsOK(a) /\ UnsyncedOK(a) /\ FinishedOK(a))'
    <2> SUFFICES ASSUME NEW a \in Artifacts
                 PROVE  (RecordsOK(a) /\ UnsyncedOK(a) /\ FinishedOK(a))'
      OBVIOUS
    <2>1. seen[a].record = {} \/ \E r \in Storing!Records : seen[a].record = {r}
      BY DEF StoreInv, RecordsOK
    <2>2. RecordsOK(a)'
      BY <1>3, <2>1 DEF RecordsOK
    <2>3. UnsyncedOK(a)'
      BY <1>3 DEF UnsyncedOK
    <2>4. FinishedOK(a)'
      BY <1>2, <1>3, <1>4 DEF FinishedOK, Finished
    <2> QED
      BY <2>2, <2>3, <2>4
  <1>8. \A a \in Artifacts, x \in DeletionIDs : ReceiptOK(a, x)'
    <2> SUFFICES ASSUME NEW a \in Artifacts, NEW x \in DeletionIDs,
                        <<a, x>> \in receipts, failures < 3
                 PROVE  /\ seen[a].record # {}
                        /\ \A r \in seen[a].record : r.auth = x
                        /\ a \in store'.todo
      BY <1>3, <1>4 DEF ReceiptOK
    <2>1. synced[a].record # {} /\ \A r \in seen[a].record : r.auth = x
      BY DEF StoreInv, ReceiptOK
    <2>2. seen[a].record # {}
      BY <2>1 DEF StoreInv, RecordsOK
    <2> QED
      BY <1>2, <2>1, <2>2
  <1>9. CalmOK'
    BY <1>3 DEF StoreInv, CalmOK
  <1> QED
    BY <1>5, <1>6, <1>7, <1>8, <1>9 DEF StoreInv

LEMMA RecoveredPreserves == ASSUME StoreInv, Storing!Recovered PROVE StoreInv'
  <1>1. /\ store.at = "recover"
        /\ store.of = {}
        /\ store.todo = {}
        /\ RecoverPhase
    BY DEF StoreInv, StoreOK, Storing!Recovered, Storing!At, Storing!Steps, RecoverPhase
  <1>2. /\ store' \in Storing!Store
        /\ store'.at = "idle"
        /\ store'.back = "idle"
        /\ store'.of = {}
    BY DEF Storing!Recovered, Storing!Idle, Storing!Closed, Storing!Store
  <1>3. UNCHANGED <<seen, synced, puts, receipts, failures>>
    BY DEF Storing!Recovered, Storing!reports
  <1>4. ~RecoverPhase'
    BY <1>2 DEF RecoverPhase, Storing!At, Storing!Steps
  <1>5. Types'
    BY <1>2, <1>3 DEF StoreInv, Types
  <1>6. StoreOK'
    BY <1>2, <1>4 DEF StoreOK, Storing!At, Storing!Steps
  <1>7. \A a \in Artifacts : (RecordsOK(a) /\ UnsyncedOK(a) /\ FinishedOK(a))'
    BY <1>1, <1>3, <1>4 DEF StoreInv, RecordsOK, UnsyncedOK, FinishedOK
  <1>8. \A a \in Artifacts, x \in DeletionIDs : ReceiptOK(a, x)'
    BY <1>1, <1>3, <1>4 DEF StoreInv, ReceiptOK
  <1>9. CalmOK'
    BY <1>1, <1>3 DEF StoreInv, CalmOK
  <1> QED
    BY <1>5, <1>6, <1>7, <1>8, <1>9 DEF StoreInv

LEMMA RecoverDeletionPreserves ==
    ASSUME StoreInv, NEW a \in Artifacts, Storing!RecoverDeletion(a)
    PROVE  StoreInv'
  <1>1. /\ store \in Storing!Store
        /\ store.at = "recover"
        /\ store.of = {}
        /\ RecoverPhase
        /\ a \in store.todo
        /\ seen[a].record # {}
    BY DEF StoreInv, Types, StoreOK, Storing!RecoverDeletion, Storing!At, Storing!Steps, RecoverPhase
  <1>2. UNCHANGED <<seen, synced, puts, receipts, failures>>
    BY DEF Storing!RecoverDeletion, Storing!reports
  <1>3. \A b \in Artifacts : synced[b].record # {} \/ seen[b].record = {}
    BY <1>1 DEF StoreInv, UnsyncedOK
  <1>4. /\ store' \in Storing!Store
        /\ store'.todo = store.todo \ {a}
        /\ \/ /\ store'.at = "complete"
              /\ store'.back = "recover"
              /\ store'.of = {a}
           \/ store'.at = "recover" /\ store'.of = {} /\ Gone(seen[a])
    <2>1. CASE Storing!Recovers(a)
      <3>1. Storing!Record(a).auth \in DeletionIDs
        BY <1>1, OneRecord DEF Storing!Records
      <3>2. store' = [store EXCEPT !.at = "complete", !.back = "recover", !.of = {a},
                                   !.auth = {Storing!Record(a).auth}, !.todo = store.todo \ {a}]
        BY <2>1 DEF Storing!RecoverDeletion
      <3> QED
        BY <1>1, <3>1, <3>2 DEF Storing!Store, Storing!Steps
    <2>2. CASE ~Storing!Recovers(a)
      <3>1. Gone(seen[a])
        <4>1. ~Storing!Incomplete(a) /\ ~Storing!Present(a)
          BY <2>2 DEF Storing!Recovers
        <4>2. Finished(seen[a])
          BY <1>1, <4>1, OneRecord
        <4> QED
          BY <4>1, <4>2 DEF Gone, Storing!Present
      <3>2. store' = [store EXCEPT !.todo = store.todo \ {a}]
        BY <2>2 DEF Storing!RecoverDeletion
      <3> QED
        BY <1>1, <3>1, <3>2 DEF Storing!Store
    <2> QED
      BY <2>1, <2>2
  <1>5. RecoverPhase' /\ ~IdlePhase'
    BY <1>4 DEF RecoverPhase, IdlePhase, Storing!At, Storing!Steps
  <1>6. Types'
    BY <1>2, <1>4 DEF StoreInv, Types
  <1>7. StoreOK'
    <2>1. \A b \in store'.todo : seen'[b].record # {}
      BY <1>1, <1>2, <1>4 DEF StoreInv, StoreOK
    <2> QED
      BY <1>1, <1>2, <1>4, <2>1 DEF StoreOK, Storing!At, Storing!Steps
  <1>8. \A b \in Artifacts : (RecordsOK(b) /\ UnsyncedOK(b) /\ FinishedOK(b))'
    <2> SUFFICES ASSUME NEW b \in Artifacts
                 PROVE  (RecordsOK(b) /\ UnsyncedOK(b) /\ FinishedOK(b))'
      OBVIOUS
    <2>1. RecordsOK(b)'
      BY <1>2 DEF StoreInv, RecordsOK
    <2>2. UnsyncedOK(b)'
      BY <1>2, <1>3 DEF UnsyncedOK
    <2>3. FinishedOK(b)'
      BY <1>1, <1>2, <1>4, <1>5 DEF StoreInv, FinishedOK, Gone
    <2> QED
      BY <2>1, <2>2, <2>3
  <1>9. \A b \in Artifacts, x \in DeletionIDs : ReceiptOK(b, x)'
    BY <1>1, <1>2, <1>4, <1>5 DEF StoreInv, ReceiptOK
  <1>10. CalmOK'
    BY <1>1, <1>2, <1>4 DEF StoreInv, CalmOK
  <1> QED
    BY <1>6, <1>7, <1>8, <1>9, <1>10 DEF StoreInv

----------------------------------------------------------------------------
(* Put and Delete. *)

\* What holds of a store that waits for a call.
LEMMA WhenIdle ==
    ASSUME StoreInv, Storing!At("idle")
    PROVE  /\ store \in Storing!Store
           /\ store.of = {} /\ store.back = "idle"
           /\ IdlePhase /\ ~RecoverPhase
  BY DEF StoreInv, Types, StoreOK, Storing!At, Storing!Steps, IdlePhase, RecoverPhase

\* The record that says x prepares a deletion.
LEMMA WorkingFields ==
    ASSUME NEW a \in Artifacts, NEW x \in DeletionIDs, NEW place \in Storing!Steps
    PROVE  /\ Storing!Working(place, a, x) \in Storing!Store
           /\ Storing!Working(place, a, x).at = place
           /\ Storing!Working(place, a, x).back = "idle"
           /\ Storing!Working(place, a, x).of = {a}
  BY DEF Storing!Working, Storing!Idle, Storing!Closed, Storing!Store

LEMMA PutStoredPreserves ==
    ASSUME StoreInv, NEW a \in Artifacts, Storing!PutStored(a)
    PROVE  StoreInv'
  <1>1. UNCHANGED <<seen, synced, store, receipts, failures>> /\ puts' = puts \cup {a}
    BY DEF Storing!PutStored
  <1>2. UNCHANGED <<RecoverPhase, IdlePhase, StoreOK>>
    BY <1>1 DEF RecoverPhase, IdlePhase, StoreOK, Storing!At
  <1>3. Types'
    BY <1>1 DEF StoreInv, Types
  <1>4. \A b \in Artifacts : (RecordsOK(b) /\ UnsyncedOK(b) /\ FinishedOK(b))'
    BY <1>1, <1>2 DEF StoreInv, RecordsOK, UnsyncedOK, FinishedOK, Behind
  <1>5. \A b \in Artifacts, x \in DeletionIDs : ReceiptOK(b, x)'
    BY <1>1, <1>2 DEF StoreInv, ReceiptOK
  <1>6. CalmOK'
    <2>1. failures = 0 => synced = seen /\ seen[a].file # {}
      BY DEF StoreInv, CalmOK, Storing!PutStored, Storing!Present, Storing!At
    <2> QED
      BY <1>1, <2>1 DEF StoreInv, CalmOK
  <1> QED
    BY <1>2, <1>3, <1>4, <1>5, <1>6 DEF StoreInv

LEMMA PutPreserves ==
    ASSUME StoreInv, NEW a \in Artifacts, Storing!Put(a)
    PROVE  StoreInv'
  <1>1. /\ Storing!At("idle")
        /\ seen[a].record = {}
        /\ seen' = [seen EXCEPT ![a].file = {"artifact"}]
        /\ UNCHANGED <<synced, puts, receipts, failures>>
    BY DEF Storing!Put, Storing!reports, Storing!Deleted
  <1>2. seen \in [Artifacts -> Storing!Entries] /\ synced \in [Artifacts -> Storing!Entries]
    BY DEF StoreInv, Types
  <1>3. /\ seen' \in [Artifacts -> Storing!Entries]
        /\ seen'[a].record = {} /\ seen'[a].file # {}
        /\ \A b \in Artifacts \ {a} : seen'[b] = seen[b]
    BY <1>1, <1>2 DEF Storing!Entries
  <1>4. /\ store' \in Storing!Store
        /\ store'.at = "put"
        /\ store'.back = "idle"
        /\ store'.of = {a}
    BY DEF Storing!Put, Storing!Idle, Storing!Closed, Storing!Store, Storing!Steps
  <1>5. store.of = {} /\ IdlePhase /\ IdlePhase' /\ ~RecoverPhase'
    BY <1>1, <1>4, WhenIdle DEF RecoverPhase, IdlePhase, Storing!At, Storing!Steps
  <1>6. synced[a].record = {}
    BY <1>1 DEF StoreInv, RecordsOK
  <1>7. Types'
    BY <1>1, <1>3, <1>4 DEF StoreInv, Types
  <1>8. StoreOK'
    BY <1>3, <1>4, <1>5 DEF StoreOK, Storing!At, Storing!Steps
  <1>9. \A b \in Artifacts : (RecordsOK(b) /\ UnsyncedOK(b) /\ FinishedOK(b))'
    <2> SUFFICES ASSUME NEW b \in Artifacts
                 PROVE  (RecordsOK(b) /\ UnsyncedOK(b) /\ FinishedOK(b))'
      OBVIOUS
    <2>1. CASE b = a
      BY <1>1, <1>3, <1>6, <2>1 DEF RecordsOK, UnsyncedOK, FinishedOK, Finished
    <2>2. CASE b # a
      <3>1. seen'[b] = seen[b] /\ synced'[b] = synced[b] /\ failures' = failures
        BY <1>1, <1>3, <2>2
      <3>2. Behind(b)' = Behind(b)
        BY <1>4, <1>5, <2>2, <3>1 DEF Behind
      <3> QED
        BY <1>5, <3>1, <3>2 DEF StoreInv, RecordsOK, UnsyncedOK, FinishedOK
    <2> QED
      BY <2>1, <2>2
  <1>10. \A b \in Artifacts, x \in DeletionIDs : ReceiptOK(b, x)'
    <2> SUFFICES ASSUME NEW b \in Artifacts, NEW x \in DeletionIDs
                 PROVE  ReceiptOK(b, x)'
      OBVIOUS
    <2>1. ReceiptOK(b, x)
      BY DEF StoreInv
    <2>2. CASE b = a
      BY <1>1, <1>6, <2>1, <2>2 DEF ReceiptOK
    <2>3. CASE b # a
      BY <1>1, <1>3, <1>5, <2>1, <2>3 DEF ReceiptOK
    <2> QED
      BY <2>2, <2>3
  <1>11. CalmOK'
    <2>1. store'.at \notin {"recover", "idle", "complete"}
      BY <1>4
    <2>2. ASSUME failures = 0, NEW b \in puts
          PROVE  \/ seen'[b].file # {} /\ synced'[b].file # {}
                 \/ seen'[b].record # {} /\ synced'[b].record # {}
      <3>1. /\ b \in Artifacts
            /\ \/ seen[b].file # {} /\ synced[b].file # {}
               \/ seen[b].record # {} /\ synced[b].record # {}
        BY <2>2 DEF StoreInv, Types, CalmOK
      <3> QED
        BY <1>1, <1>3, <1>6, <3>1
    <2> QED
      BY <1>1, <2>1, <2>2 DEF CalmOK
  <1> QED
    BY <1>7, <1>8, <1>9, <1>10, <1>11 DEF StoreInv

LEMMA DeletePreserves ==
    ASSUME StoreInv, NEW a \in Artifacts, NEW x \in DeletionIDs, Storing!Delete(a, x)
    PROVE  StoreInv'
  <1> DEFINE r == [auth |-> x, completed |-> "no"]
  <1>1. /\ Storing!At("idle")
        /\ seen[a].record = {} /\ seen[a].file # {}
        /\ seen' = [seen EXCEPT ![a].record = {r}]
        /\ UNCHANGED <<synced, puts, receipts, failures>>
    BY DEF Storing!Delete, Storing!reports, Storing!Deleted, Storing!Present
  <1>2. seen \in [Artifacts -> Storing!Entries] /\ synced \in [Artifacts -> Storing!Entries]
    BY DEF StoreInv, Types
  <1>r. r \in Storing!Records /\ r.completed = "no"
    BY DEF Storing!Records
  <1> HIDE DEF r
  <1>3. /\ seen' \in [Artifacts -> Storing!Entries]
        /\ seen'[a].record = {r} /\ seen'[a].file = seen[a].file
        /\ \A b \in Artifacts \ {a} : seen'[b] = seen[b]
    BY <1>1, <1>2, <1>r DEF Storing!Entries
  <1>4. /\ store' \in Storing!Store
        /\ store'.at = "prepared"
        /\ store'.back = "idle"
        /\ store'.of = {a}
    BY WorkingFields DEF Storing!Delete, Storing!Steps
  <1>5. store.of = {} /\ IdlePhase /\ IdlePhase' /\ ~RecoverPhase'
    BY <1>1, <1>4, WhenIdle DEF RecoverPhase, IdlePhase, Storing!At, Storing!Steps
  <1>6. synced[a].record = {}
    BY <1>1 DEF StoreInv, RecordsOK
  <1>7. Types'
    BY <1>1, <1>3, <1>4 DEF StoreInv, Types
  <1>8. StoreOK'
    <2>1. Started(seen'[a]) /\ ~Finished(seen'[a])
      BY <1>3, <1>r DEF Started, Finished
    <2> QED
      BY <1>1, <1>3, <1>4, <1>5, <2>1 DEF StoreOK, Storing!At, Storing!Steps
  <1>9. \A b \in Artifacts : (RecordsOK(b) /\ UnsyncedOK(b) /\ FinishedOK(b))'
    <2> SUFFICES ASSUME NEW b \in Artifacts
                 PROVE  (RecordsOK(b) /\ UnsyncedOK(b) /\ FinishedOK(b))'
      OBVIOUS
    <2>1. CASE b = a
      <3>1. ~Finished(seen'[a])
        BY <1>3, <1>r DEF Finished
      <3>2. Behind(a)' = 0
        BY <1>1, <1>3, <1>4, <3>1 DEF Behind
      <3>3. failures' >= Behind(a)'
        BY <1>1, <3>2 DEF StoreInv, Types
      <3>4. RecordsOK(a)'
        BY <1>1, <1>3, <1>6, <1>r DEF RecordsOK
      <3> QED
        BY <1>5, <2>1, <3>1, <3>3, <3>4 DEF UnsyncedOK, FinishedOK
    <2>2. CASE b # a
      <3>1. seen'[b] = seen[b] /\ synced'[b] = synced[b] /\ failures' = failures
        BY <1>1, <1>3, <2>2
      <3>2. Behind(b)' = Behind(b)
        BY <1>4, <1>5, <2>2, <3>1 DEF Behind
      <3> QED
        BY <1>5, <3>1, <3>2 DEF StoreInv, RecordsOK, UnsyncedOK, FinishedOK
    <2> QED
      BY <2>1, <2>2
  <1>10. \A b \in Artifacts, y \in DeletionIDs : ReceiptOK(b, y)'
    <2> SUFFICES ASSUME NEW b \in Artifacts, NEW y \in DeletionIDs
                 PROVE  ReceiptOK(b, y)'
      OBVIOUS
    <2>1. ReceiptOK(b, y)
      BY DEF StoreInv
    <2>2. CASE b = a
      BY <1>1, <1>6, <2>1, <2>2 DEF ReceiptOK
    <2>3. CASE b # a
      BY <1>1, <1>3, <1>5, <2>1, <2>3 DEF ReceiptOK
    <2> QED
      BY <2>2, <2>3
  <1>11. CalmOK'
    <2>1. store'.at \notin {"recover", "idle", "complete"}
      BY <1>4
    <2>2. ASSUME failures = 0, NEW b \in puts
          PROVE  \/ seen'[b].file # {} /\ synced'[b].file # {}
                 \/ seen'[b].record # {} /\ synced'[b].record # {}
      <3>1. /\ b \in Artifacts
            /\ \/ seen[b].file # {} /\ synced[b].file # {}
               \/ seen[b].record # {} /\ synced[b].record # {}
        BY <2>2 DEF StoreInv, Types, CalmOK
      <3> QED
        BY <1>1, <1>3, <1>6, <3>1
    <2> QED
      BY <1>1, <2>1, <2>2 DEF CalmOK
  <1> QED
    BY <1>7, <1>8, <1>9, <1>10, <1>11 DEF StoreInv

LEMMA DeleteRecordedPreserves ==
    ASSUME StoreInv, NEW a \in Artifacts, NEW x \in DeletionIDs, Storing!DeleteRecorded(a, x)
    PROVE  StoreInv'
  <1>1. /\ Storing!At("idle") /\ store.at = "idle"
        /\ seen[a].record # {}
        /\ UNCHANGED <<seen, synced, puts, failures>>
    BY DEF Storing!DeleteRecorded, Storing!Deleted, Storing!At
  <1>2. /\ store \in Storing!Store
        /\ store.of = {} /\ store.back = "idle"
        /\ IdlePhase /\ ~RecoverPhase
    BY <1>1, WhenIdle
  <1>3. /\ Storing!Record(a) \in Storing!Records
        /\ seen[a].record = {Storing!Record(a)}
        /\ Storing!Incomplete(a) => Started(seen[a])
        /\ ~Storing!Incomplete(a) => Finished(seen[a])
    BY <1>1, OneRecord
  <1>4. CASE Storing!Incomplete(a)
    <2>1. UNCHANGED receipts /\ store' = Storing!Working("complete", a, x)
      BY <1>4 DEF Storing!DeleteRecorded
    <2>2. /\ store' \in Storing!Store
          /\ store'.at = "complete"
          /\ store'.back = "idle"
          /\ store'.of = {a}
      BY <2>1, WorkingFields DEF Storing!Steps
    <2>3. IdlePhase' /\ ~RecoverPhase'
      BY <2>2 DEF IdlePhase, RecoverPhase, Storing!At, Storing!Steps
    <2>4. Types'
      BY <1>1, <2>1, <2>2 DEF StoreInv, Types
    <2>5. StoreOK'
      BY <1>1, <1>3, <1>4, <2>2, <2>3 DEF StoreOK, Storing!At, Storing!Steps
    <2>6. \A b \in Artifacts : (RecordsOK(b) /\ UnsyncedOK(b) /\ FinishedOK(b))'
      <3>1. \A b \in Artifacts : Behind(b)' = Behind(b)
        BY <1>1, <1>2, <2>2 DEF Behind
      <3> QED
        BY <1>1, <1>2, <2>3, <3>1 DEF StoreInv, RecordsOK, UnsyncedOK, FinishedOK
    <2>7. \A b \in Artifacts, y \in DeletionIDs : ReceiptOK(b, y)'
      BY <1>1, <1>2, <2>1, <2>3 DEF StoreInv, ReceiptOK
    <2>8. CalmOK'
      BY <1>1 DEF StoreInv, CalmOK
    <2> QED
      BY <2>4, <2>5, <2>6, <2>7, <2>8 DEF StoreInv
  <1>5. CASE ~Storing!Incomplete(a)
    <2>1. /\ UNCHANGED store
          /\ receipts' = receipts \cup (IF Storing!Record(a).auth = x THEN {<<a, x>>} ELSE {})
      BY <1>5 DEF Storing!DeleteRecorded
    <2>2. UNCHANGED <<IdlePhase, RecoverPhase, StoreOK, CalmOK>>
      BY <1>1, <2>1 DEF IdlePhase, RecoverPhase, StoreOK, CalmOK, Storing!At
    <2>3. Types'
      BY <1>1, <2>1 DEF StoreInv, Types
    <2>4. \A b \in Artifacts : (RecordsOK(b) /\ UnsyncedOK(b) /\ FinishedOK(b))'
      BY <1>1, <2>1, <2>2 DEF StoreInv, RecordsOK, UnsyncedOK, FinishedOK, Behind
    <2>5. failures < 3 => synced[a].record # {}
      <3>1. Behind(a) = 3
        BY <1>2, <1>3, <1>5 DEF Behind
      <3> QED
        BY <1>1, <1>2, <3>1 DEF StoreInv, UnsyncedOK, Types
    <2>6. Gone(seen[a])
      BY <1>2, <1>3, <1>5 DEF StoreInv, FinishedOK, Gone
    <2>7. \A s \in synced[a].record : s.auth = Storing!Record(a).auth
      BY <1>3 DEF StoreInv, RecordsOK
    <2>8. \A b \in Artifacts, y \in DeletionIDs : ReceiptOK(b, y)'
      <3> SUFFICES ASSUME NEW b \in Artifacts, NEW y \in DeletionIDs,
                          <<b, y>> \in receipts', failures < 3
                   PROVE  /\ synced[b].record # {}
                          /\ \A s \in seen[b].record \cup synced[b].record : s.auth = y
                          /\ Gone(seen[b])
        BY <1>1, <2>2 DEF ReceiptOK
      <3>1. CASE <<b, y>> \in receipts
        BY <1>2, <3>1 DEF StoreInv, ReceiptOK
      <3>2. CASE b = a /\ y = x /\ Storing!Record(a).auth = x
        BY <1>3, <2>5, <2>6, <2>7, <3>2
      <3> QED
        BY <2>1, <3>1, <3>2
    <2> QED
      BY <2>2, <2>3, <2>4, <2>8 DEF StoreInv
  <1> QED
    BY <1>4, <1>5

----------------------------------------------------------------------------
(* completeDeletion and the directory syncs. *)

LEMMA CompleteDeletionPreserves == ASSUME StoreInv, Storing!CompleteDeletion PROVE StoreInv'
  <1>1. /\ store \in Storing!Store
        /\ store.at = "complete"
        /\ UNCHANGED <<synced, puts, receipts, failures>>
    BY DEF StoreInv, Types, Storing!CompleteDeletion, Storing!reports, Storing!At
  <1>2. PICK a \in store.of : Storing!Complete(a)
    BY DEF Storing!CompleteDeletion
  <1>3. a \in Artifacts /\ store.of = {a} /\ seen[a].record # {}
    BY <1>1, <1>2 DEF StoreInv, StoreOK, Storing!Steps, Storing!Store
  <1>4. /\ Storing!Record(a) \in Storing!Records
        /\ seen[a].record = {Storing!Record(a)}
    BY <1>3, OneRecord
  <1>5. seen \in [Artifacts -> Storing!Entries] /\ synced \in [Artifacts -> Storing!Entries]
    BY DEF StoreInv, Types
  <1> DEFINE done == [Storing!Record(a) EXCEPT !.completed = "yes"]
  <1>6. done \in Storing!Records /\ done.completed = "yes" /\ done.auth = Storing!Record(a).auth
    BY <1>4 DEF Storing!Records
  <1> HIDE DEF done
  <1>7. /\ store' \in Storing!Store
        /\ store'.back = store.back
        /\ store'.of = {a}
        /\ store'.todo = store.todo
        /\ seen' \in [Artifacts -> Storing!Entries]
        /\ seen'[a].file = {}
        /\ \A b \in Artifacts \ {a} : seen'[b] = seen[b]
        /\ \/ /\ store'.at = "removed"
              /\ seen[a].file # {}
              /\ seen'[a].record = seen[a].record
           \/ /\ store'.at = "completed"
              /\ seen[a].file = {}
              /\ seen'[a].record = {done}
    <2>1. CASE Storing!Present(a)
      <3>1. /\ seen' = [seen EXCEPT ![a].file = {}]
            /\ store' = [store EXCEPT !.at = "removed"]
        BY <1>2, <2>1 DEF Storing!Complete
      <3>2. /\ store' \in Storing!Store
            /\ store'.at = "removed" /\ store'.back = store.back
            /\ store'.of = store.of /\ store'.todo = store.todo
        BY <1>1, <3>1 DEF Storing!Store, Storing!Steps
      <3>3. /\ seen' \in [Artifacts -> Storing!Entries]
            /\ seen'[a].file = {} /\ seen'[a].record = seen[a].record
            /\ \A b \in Artifacts \ {a} : seen'[b] = seen[b]
        BY <1>3, <1>5, <3>1 DEF Storing!Entries
      <3> QED
        BY <1>3, <2>1, <3>2, <3>3 DEF Storing!Present
    <2>2. CASE ~Storing!Present(a)
      <3>1. /\ seen' = [seen EXCEPT ![a].record = {done}]
            /\ store' = [store EXCEPT !.at = "completed"]
        BY <1>2, <2>2 DEF Storing!Complete, done
      <3>2. /\ store' \in Storing!Store
            /\ store'.at = "completed" /\ store'.back = store.back
            /\ store'.of = store.of /\ store'.todo = store.todo
        BY <1>1, <3>1 DEF Storing!Store, Storing!Steps
      <3>3. {done} \subseteq Storing!Records
        BY <1>6
      <3>4. /\ seen' \in [Artifacts -> Storing!Entries]
            /\ seen'[a].file = seen[a].file /\ seen'[a].record = {done}
            /\ \A b \in Artifacts \ {a} : seen'[b] = seen[b]
        BY <1>3, <1>5, <3>1, <3>3 DEF Storing!Entries
      <3> QED
        BY <1>3, <2>2, <3>2, <3>4 DEF Storing!Present
    <2> QED
      BY <2>1, <2>2
  <1>8. (RecoverPhase' <=> RecoverPhase) /\ (IdlePhase' <=> IdlePhase)
    BY <1>1, <1>7 DEF RecoverPhase, IdlePhase, Storing!At, Storing!Steps
  <1>9. \A r \in seen'[a].record : r \in Storing!Records /\ r.auth = Storing!Record(a).auth
    BY <1>4, <1>6, <1>7
  <1>10. store'.at = "completed" => Finished(seen'[a])
    BY <1>6, <1>7 DEF Finished
  <1>11. store'.at = "removed" => (Started(seen'[a]) <=> Started(seen[a]))
    BY <1>7 DEF Started
  <1>12. IdlePhase => Started(seen[a])
    BY <1>1, <1>3 DEF StoreInv, StoreOK, IdlePhase, Storing!At, Storing!Steps
  <1>13. seen'[a].record # {}
    BY <1>3, <1>7
  <1>14. Types'
    BY <1>1, <1>7 DEF StoreInv, Types
  <1>15. StoreOK'
    <2>1. store'.at \in {"removed", "completed"}
      BY <1>7
    <2>2. RecoverPhase' => \A b \in store'.todo : seen'[b].record # {}
      <3> SUFFICES ASSUME RecoverPhase, NEW b \in store.todo
                   PROVE  seen'[b].record # {}
        BY <1>7, <1>8
      <3>1. seen[b].record # {} /\ b \in Artifacts
        BY <1>1 DEF StoreInv, StoreOK, Storing!Store
      <3> QED
        BY <1>7, <1>13, <3>1
    <2>3. store'.back = "idle" /\ store'.at = "removed" => Started(seen'[a])
      BY <1>1, <1>7, <1>11, <1>12 DEF IdlePhase, Storing!Steps
    <2> QED
      BY <1>3, <1>7, <1>10, <1>13, <2>1, <2>2, <2>3 DEF StoreOK, Storing!At, Storing!Steps
  <1>16. \A b \in Artifacts : (RecordsOK(b) /\ UnsyncedOK(b) /\ FinishedOK(b))'
    <2> SUFFICES ASSUME NEW b \in Artifacts
                 PROVE  (RecordsOK(b) /\ UnsyncedOK(b) /\ FinishedOK(b))'
      OBVIOUS
    <2>1. CASE b = a
      <3>1. RecordsOK(a)'
        <4>1. \A s \in synced[a].record : s.auth = Storing!Record(a).auth
          BY <1>3, <1>4 DEF StoreInv, RecordsOK
        <4>2. synced[a].record = {} \/ \E r \in Storing!Records : synced[a].record = {r}
          BY <1>3 DEF StoreInv, RecordsOK
        <4>3. \E r \in Storing!Records : seen'[a].record = {r}
          BY <1>4, <1>6, <1>7
        <4> QED
          BY <1>1, <1>9, <4>1, <4>2, <4>3 DEF RecordsOK
      <3>2. UnsyncedOK(a)'
        <4> SUFFICES ASSUME synced[a].record = {}
                     PROVE  ~RecoverPhase' /\ (IdlePhase' => failures' >= Behind(a)')
          BY <1>1 DEF UnsyncedOK
        <4>1. ~RecoverPhase /\ (IdlePhase => failures >= Behind(a))
          BY <1>3 DEF StoreInv, UnsyncedOK
        <4>2. IdlePhase => ~Finished(seen[a])
          BY <1>4, <1>12 DEF Finished, Started
        <4>3. IdlePhase => Behind(a) = IF seen[a].file # {} THEN 1 ELSE 2
          BY <1>1, <4>2 DEF Behind
        <4>4. IdlePhase /\ store'.at = "removed" => Behind(a)' = 1
          <5>1. IdlePhase /\ store'.at = "removed" => ~Finished(seen'[a])
            BY <1>7, <4>2 DEF Finished
          <5> QED
            BY <1>7, <5>1 DEF Behind
        <4>5. store'.at = "completed" => Behind(a)' = 2
          BY <1>7, <1>10 DEF Behind
        <4> QED
          BY <1>1, <1>7, <1>8, <4>1, <4>3, <4>4, <4>5
      <3>3. FinishedOK(a)'
        BY <1>7 DEF FinishedOK
      <3> QED
        BY <2>1, <3>1, <3>2, <3>3
    <2>2. CASE b # a
      <3>1. seen'[b] = seen[b] /\ synced'[b] = synced[b] /\ failures' = failures
        BY <1>1, <1>7, <2>2
      <3>2. Behind(b)' = Behind(b)
        BY <1>3, <1>7, <2>2, <3>1 DEF Behind
      <3>3. b \in store'.todo <=> b \in store.todo
        BY <1>7
      <3>4. b \in store'.of <=> b \in store.of
        BY <1>3, <1>7
      <3> QED
        BY <1>8, <3>1, <3>2, <3>3, <3>4 DEF StoreInv, RecordsOK, UnsyncedOK, FinishedOK
    <2> QED
      BY <2>1, <2>2
  <1>17. \A b \in Artifacts, x \in DeletionIDs : ReceiptOK(b, x)'
    <2> SUFFICES ASSUME NEW b \in Artifacts, NEW x \in DeletionIDs
                 PROVE  ReceiptOK(b, x)'
      OBVIOUS
    <2>1. ReceiptOK(b, x)
      BY DEF StoreInv
    <2>2. CASE b = a
      <3> SUFFICES ASSUME <<a, x>> \in receipts, failures < 3
                   PROVE  /\ synced[a].record # {}
                          /\ \A r \in seen'[a].record \cup synced[a].record : r.auth = x
                          /\ ~IdlePhase
        BY <1>1, <1>7, <1>8, <2>2 DEF ReceiptOK
      <3>1. /\ synced[a].record # {}
            /\ \A r \in seen[a].record \cup synced[a].record : r.auth = x
            /\ IdlePhase => Gone(seen[a])
        BY <2>1, <2>2 DEF ReceiptOK
      <3>2. ~IdlePhase
        BY <1>4, <1>12, <3>1 DEF Gone, Started, Finished
      <3>3. Storing!Record(a).auth = x
        BY <1>4, <3>1
      <3> QED
        BY <1>9, <3>1, <3>2, <3>3
    <2>3. CASE b # a
      <3>1. seen'[b] = seen[b] /\ synced'[b] = synced[b] /\ failures' = failures
        BY <1>1, <1>7, <2>3
      <3>2. b \notin store.of
        BY <1>3, <2>3
      <3> QED
        BY <1>1, <1>7, <1>8, <2>1, <3>1, <3>2 DEF ReceiptOK
    <2> QED
      BY <2>2, <2>3
  <1>18. CalmOK'
    <2>1. store'.at \notin {"recover", "idle", "complete"}
      BY <1>7
    <2>2. ASSUME failures = 0, NEW b \in puts
          PROVE  \/ seen'[b].file # {} /\ synced'[b].file # {}
                 \/ seen'[b].record # {} /\ synced'[b].record # {}
      <3>1. /\ b \in Artifacts
            /\ \/ seen[b].file # {} /\ synced[b].file # {}
               \/ seen[b].record # {} /\ synced[b].record # {}
            /\ synced = seen
        BY <1>1, <2>2 DEF StoreInv, Types, CalmOK
      <3> QED
        BY <1>1, <1>3, <1>7, <1>13, <3>1
    <2> QED
      BY <1>1, <2>1, <2>2 DEF CalmOK
  <1> QED
    BY <1>14, <1>15, <1>16, <1>17, <1>18 DEF StoreInv

\* What a directory sync does to the store, by the step it ends.
LEMMA SyncFields ==
    ASSUME StoreInv, Storing!SyncRoot
    PROVE  /\ UNCHANGED <<seen, failures>> /\ synced' = seen
           /\ store.at \in {"put", "prepared", "removed", "completed"}
           /\ store' \in Storing!Store
           /\ store'.todo = store.todo
           /\ \E a \in Artifacts :
                 /\ store.of = {a}
                 /\ puts' = puts \/ (puts' = puts \cup {a} /\ seen[a].file # {})
                 /\ \A r \in receipts' \ receipts :
                       /\ r \in {a} \X DeletionIDs
                       /\ store.at = "completed" /\ store.back = "idle"
                       /\ Storing!Record(a).auth = r[2]
                 /\ receipts \subseteq receipts'
                 /\ \/ /\ store.at \in {"prepared", "removed"}
                       /\ store'.at = "complete" /\ store'.back = store.back /\ store'.of = {a}
                    \/ /\ store.at \in {"put", "completed"}
                       /\ store'.at = store.back /\ store'.back = "idle" /\ store'.of = {}
  <1>1. /\ UNCHANGED <<seen, failures>> /\ synced' = seen
        /\ store.at \in {"put", "prepared", "removed", "completed"}
        /\ store \in Storing!Store
    BY DEF Storing!SyncRoot, Storing!Steps, StoreInv, Types
  <1>2. PICK a \in store.of : Storing!Synced(a)
    BY DEF Storing!SyncRoot
  <1>3. a \in Artifacts /\ store.of = {a}
    BY <1>1, <1>2 DEF Storing!Store, StoreInv, StoreOK, Storing!Steps
  <1>4. /\ [store EXCEPT !.at = "complete"] \in Storing!Store
        /\ [store EXCEPT !.at = "complete"].at = "complete"
        /\ [store EXCEPT !.at = "complete"].back = store.back
        /\ [store EXCEPT !.at = "complete"].of = store.of
        /\ [store EXCEPT !.at = "complete"].todo = store.todo
    BY <1>1 DEF Storing!Store, Storing!Steps
  <1>5. /\ Storing!Returned \in Storing!Store
        /\ Storing!Returned.at = store.back
        /\ Storing!Returned.back = "idle"
        /\ Storing!Returned.of = {}
        /\ Storing!Returned.todo = store.todo
    BY <1>1 DEF Storing!Store, Storing!Returned
  <1>6. CASE store.at = "put"
    <2>1. store' = Storing!Returned /\ puts' = puts \cup {a} /\ UNCHANGED receipts
      BY <1>2, <1>6 DEF Storing!Synced, Storing!At
    <2>2. seen[a].file # {}
      BY <1>2, <1>6 DEF StoreInv, StoreOK, Storing!At
    <2> QED
      BY <1>1, <1>3, <1>5, <1>6, <2>1, <2>2
  <1>7. CASE store.at \in {"prepared", "removed"}
    <2>1. store' = [store EXCEPT !.at = "complete"] /\ UNCHANGED <<puts, receipts>>
      BY <1>2, <1>7 DEF Storing!Synced, Storing!At, Storing!AfterPrepared, Storing!reports
    <2> QED
      BY <1>1, <1>3, <1>4, <1>7, <2>1
  <1>8. CASE store.at = "completed"
    <2>1. /\ store' = Storing!Returned
          /\ receipts' = receipts \cup
                {<<a, x>> : x \in {y \in store.auth : store.back = "idle" /\ Storing!Record(a).auth = y}}
          /\ UNCHANGED puts
      BY <1>2, <1>8 DEF Storing!Synced, Storing!At
    <2>2. store.auth \subseteq DeletionIDs
      BY <1>1 DEF Storing!Store
    <2>3. \A r \in receipts' \ receipts :
             /\ r \in {a} \X DeletionIDs
             /\ store.back = "idle"
             /\ Storing!Record(a).auth = r[2]
      BY <2>1, <2>2
    <2>4. receipts \subseteq receipts'
      BY <2>1
    <2>5. store' = Storing!Returned /\ UNCHANGED puts
      BY <2>1
    <2> QED
      BY <1>1, <1>3, <1>5, <1>8, <2>3, <2>4, <2>5
  <1> QED
    BY <1>1, <1>6, <1>7, <1>8

LEMMA SyncRootPreserves == ASSUME StoreInv, Storing!SyncRoot PROVE StoreInv'
  <1>1. /\ UNCHANGED <<seen, failures>> /\ synced' = seen
        /\ store.at \in {"put", "prepared", "removed", "completed"}
        /\ store' \in Storing!Store
        /\ store'.todo = store.todo
    BY SyncFields
  <1>2. PICK a \in Artifacts :
            /\ store.of = {a}
            /\ puts' = puts \/ (puts' = puts \cup {a} /\ seen[a].file # {})
            /\ \A r \in receipts' \ receipts :
                  /\ r \in {a} \X DeletionIDs
                  /\ store.at = "completed" /\ store.back = "idle"
                  /\ Storing!Record(a).auth = r[2]
            /\ receipts \subseteq receipts'
            /\ \/ /\ store.at \in {"prepared", "removed"}
                  /\ store'.at = "complete" /\ store'.back = store.back /\ store'.of = {a}
               \/ /\ store.at \in {"put", "completed"}
                  /\ store'.at = store.back /\ store'.back = "idle" /\ store'.of = {}
    BY SyncFields
  <1>3. /\ store \in Storing!Store
        /\ seen \in [Artifacts -> Storing!Entries]
        /\ failures \in Nat
        /\ puts \subseteq Artifacts
        /\ receipts \subseteq Artifacts \X DeletionIDs
    BY DEF StoreInv, Types
  <1>4. store.back \in {"recover", "idle"}
    BY <1>3 DEF Storing!Store
  <1>5. (RecoverPhase' <=> RecoverPhase) /\ (IdlePhase' <=> IdlePhase)
    BY <1>1, <1>2, <1>4 DEF RecoverPhase, IdlePhase, Storing!At, Storing!Steps
  <1>6. /\ store.at # "put" => seen[a].record # {}
        /\ store.at = "prepared" => store.back = "idle"
        /\ store.at \in {"prepared", "removed"} /\ store.back = "idle" => Started(seen[a])
        /\ store.at = "completed" => Gone(seen[a])
        /\ store.at = "put" => store.back = "idle" /\ seen[a].record = {}
    BY <1>1, <1>2 DEF StoreInv, StoreOK, Storing!At, Storing!Steps, Gone
  <1>7. Types'
    <2>1. receipts' \subseteq Artifacts \X DeletionIDs
      BY <1>2, <1>3
    <2>2. puts' \subseteq Artifacts
      BY <1>2, <1>3
    <2> QED
      BY <1>1, <1>3, <2>1, <2>2 DEF Types
  <1>8. StoreOK'
    <2>1. RecoverPhase' => \A b \in store'.todo : seen'[b].record # {}
      BY <1>1, <1>5 DEF StoreInv, StoreOK
    <2> QED
      BY <1>1, <1>2, <1>4, <1>6, <2>1 DEF StoreOK, Storing!At, Storing!Steps
  <1>9. \A b \in Artifacts : (RecordsOK(b) /\ UnsyncedOK(b) /\ FinishedOK(b))'
    <2> SUFFICES ASSUME NEW b \in Artifacts
                 PROVE  (RecordsOK(b) /\ UnsyncedOK(b) /\ FinishedOK(b))'
      OBVIOUS
    <2>1. seen[b].record = {} \/ \E r \in Storing!Records : seen[b].record = {r}
      BY DEF StoreInv, RecordsOK
    <2>2. RecordsOK(b)'
      BY <1>1, <2>1 DEF RecordsOK
    <2>3. UnsyncedOK(b)'
      BY <1>1 DEF UnsyncedOK
    <2>4. FinishedOK(b)'
      <3>1. /\ Finished(seen[b]) /\ IdlePhase => seen[b].file = {}
            /\ Finished(seen[b]) /\ RecoverPhase => seen[b].file = {} \/ b \in store.todo \/ b \in store.of
        BY DEF StoreInv, FinishedOK
      <3>2. b \in store.of /\ b \notin store'.of /\ Finished(seen[b]) => seen[b].file = {}
        BY <1>1, <1>2, <1>6 DEF Gone, Finished
      <3> QED
        BY <1>1, <1>5, <3>1, <3>2 DEF FinishedOK
    <2> QED
      BY <2>2, <2>3, <2>4
  <1>10. \A b \in Artifacts, x \in DeletionIDs : ReceiptOK(b, x)'
    <2> SUFFICES ASSUME NEW b \in Artifacts, NEW x \in DeletionIDs,
                        <<b, x>> \in receipts', failures < 3
                 PROVE  /\ seen[b].record # {}
                        /\ \A r \in seen[b].record : r.auth = x
                        /\ IdlePhase => Gone(seen[b])
                        /\ RecoverPhase => Gone(seen[b]) \/ b \in store'.todo \/ b \in store'.of
      BY <1>1, <1>5 DEF ReceiptOK
    <2>1. CASE <<b, x>> \in receipts
      <3>1. /\ synced[b].record # {}
            /\ \A r \in seen[b].record : r.auth = x
            /\ IdlePhase => Gone(seen[b])
            /\ RecoverPhase => Gone(seen[b]) \/ b \in store.todo \/ b \in store.of
        BY <2>1 DEF StoreInv, ReceiptOK
      <3>2. seen[b].record # {}
        BY <3>1 DEF StoreInv, RecordsOK
      <3>3. b \in store.of => b \in store'.of \/ Gone(seen[b])
        BY <1>1, <1>2, <1>6, <3>2
      <3> QED
        BY <1>1, <3>1, <3>2, <3>3
    <2>2. CASE <<b, x>> \notin receipts
      <3>1. b = a /\ store.at = "completed" /\ Storing!Record(a).auth = x
        BY <1>2, <2>2
      <3>2. seen[a].record = {Storing!Record(a)}
        BY <1>6, <3>1, OneRecord
      <3> QED
        BY <1>6, <3>1, <3>2
    <2> QED
      BY <2>1, <2>2
  <1>11. CalmOK'
    <2>1. ASSUME failures = 0, NEW b \in puts'
          PROVE  seen[b].file # {} \/ seen[b].record # {}
      BY <1>2, <2>1 DEF StoreInv, CalmOK
    <2> QED
      BY <1>1, <2>1 DEF CalmOK
  <1> QED
    BY <1>7, <1>8, <1>9, <1>10, <1>11 DEF StoreInv

----------------------------------------------------------------------------
(* Faults. *)

LEMMA OperationFailsPreserves == ASSUME StoreInv, Storing!OperationFails PROVE StoreInv'
  <1>1. /\ store.at \in {"opening"} \cup Storing!Steps
        /\ failures \in Nat /\ failures' = failures + 1
        /\ UNCHANGED <<seen, synced, puts, receipts>>
    BY DEF Storing!OperationFails, Storing!reports, StoreInv, Types
  <1>2. failures' \in Nat /\ failures' >= failures
    BY <1>1
  <1>3. CASE Storing!At("opening") \/ store.back = "recover"
    <2>1. store' = Storing!Closed
      BY <1>3 DEF Storing!OperationFails
    <2> QED
      BY <1>1, <1>2, <2>1, ClosedKeeps
  <1>4. CASE ~(Storing!At("opening") \/ store.back = "recover")
    <2>1. store.at \in Storing!Steps /\ store.back = "idle" /\ store' = Storing!Idle
      BY <1>1, <1>4 DEF Storing!OperationFails, Storing!At, StoreInv, Types, Storing!Store
    <2>2. /\ store' \in Storing!Store
          /\ store'.at = "idle"
          /\ store'.back = "idle"
          /\ store'.of = {}
      BY <2>1 DEF Storing!Idle, Storing!Closed, Storing!Store
    <2>3. IdlePhase /\ IdlePhase' /\ ~RecoverPhase'
      BY <2>1, <2>2 DEF IdlePhase, RecoverPhase, Storing!At, Storing!Steps
    <2>4. Types'
      BY <1>1, <1>2, <2>2 DEF StoreInv, Types
    <2>5. StoreOK'
      BY <2>2, <2>3 DEF StoreOK, Storing!At, Storing!Steps
    <2>6. \A b \in Artifacts : (RecordsOK(b) /\ UnsyncedOK(b) /\ FinishedOK(b))'
      <3> SUFFICES ASSUME NEW b \in Artifacts
                   PROVE  (RecordsOK(b) /\ UnsyncedOK(b) /\ FinishedOK(b))'
        OBVIOUS
      <3>1. Behind(b)' <= Behind(b) + 1
        BY <1>1, <2>2 DEF Behind
      <3>2. Behind(b) \in Nat /\ Behind(b)' \in Nat
        BY DEF Behind
      <3>3. UnsyncedOK(b)'
        <4> SUFFICES ASSUME seen[b].record # {}, synced[b].record = {}
                     PROVE  failures' >= Behind(b)'
          BY <1>1, <2>3 DEF UnsyncedOK
        <4>1. failures >= Behind(b)
          BY <2>3 DEF StoreInv, UnsyncedOK
        <4> QED
          BY <1>1, <3>1, <3>2, <4>1
      <3>4. RecordsOK(b)'
        BY <1>1 DEF StoreInv, RecordsOK
      <3>5. FinishedOK(b)'
        BY <1>1, <2>3 DEF StoreInv, FinishedOK
      <3> QED
        BY <3>3, <3>4, <3>5
    <2>7. \A b \in Artifacts, x \in DeletionIDs : ReceiptOK(b, x)'
      <3>1. failures' < 3 => failures < 3
        BY <1>1
      <3> QED
        BY <1>1, <2>3, <3>1 DEF StoreInv, ReceiptOK
    <2>8. CalmOK'
      <3>1. failures' # 0
        BY <1>1
      <3> QED
        BY <3>1 DEF CalmOK
    <2> QED
      BY <2>4, <2>5, <2>6, <2>7, <2>8 DEF StoreInv
  <1> QED
    BY <1>3, <1>4

LEMMA StopPreserves == ASSUME StoreInv, Storing!Stop PROVE StoreInv'
  <1>1. failures \in Nat /\ failures' = failures
    BY DEF StoreInv, Types, Storing!Stop
  <1>2. failures' >= failures
    BY <1>1
  <1>3. store' = Storing!Closed /\ UNCHANGED <<seen, synced, puts, receipts>>
    BY DEF Storing!Stop, Storing!reports
  <1> QED
    BY <1>1, <1>2, <1>3, ClosedKeeps

LEMMA PowerLossPreserves == ASSUME StoreInv, Storing!PowerLoss PROVE StoreInv'
  <1>1. /\ synced' = seen' /\ store' = Storing!Closed
        /\ UNCHANGED <<puts, receipts, failures>>
    BY DEF Storing!PowerLoss, Storing!reports
  <1>2. seen \in [Artifacts -> Storing!Entries] /\ synced \in [Artifacts -> Storing!Entries]
    BY DEF StoreInv, Types
  <1>3. PICK F \in SUBSET Artifacts, R \in SUBSET Artifacts :
            seen' = [a \in Artifacts |-> [file |-> IF a \in F THEN seen[a].file ELSE synced[a].file,
                                          record |-> IF a \in R THEN seen[a].record
                                                     ELSE synced[a].record]]
    BY DEF Storing!PowerLoss
  <1>4. /\ seen' \in [Artifacts -> Storing!Entries]
        /\ \A a \in Artifacts : seen'[a].file \in {seen[a].file, synced[a].file}
        /\ \A a \in Artifacts : seen'[a].record \in {seen[a].record, synced[a].record}
    BY <1>2, <1>3 DEF Storing!Entries
  <1>5. /\ store' \in Storing!Store
        /\ store'.at = "closed"
        /\ store'.of = {}
    BY <1>1 DEF Storing!Closed, Storing!Store
  <1>6. ~RecoverPhase' /\ ~IdlePhase'
    BY <1>5 DEF RecoverPhase, IdlePhase, Storing!At, Storing!Steps
  <1>7. Types'
    BY <1>1, <1>4, <1>5 DEF StoreInv, Types
  <1>8. StoreOK'
    BY <1>5, <1>6 DEF StoreOK, Storing!At, Storing!Steps
  <1>9. \A a \in Artifacts : (RecordsOK(a) /\ UnsyncedOK(a) /\ FinishedOK(a))'
    <2> SUFFICES ASSUME NEW a \in Artifacts
                 PROVE  (RecordsOK(a) /\ UnsyncedOK(a) /\ FinishedOK(a))'
      OBVIOUS
    <2>1. /\ seen[a].record = {} \/ \E r \in Storing!Records : seen[a].record = {r}
          /\ synced[a].record = {} \/ \E r \in Storing!Records : synced[a].record = {r}
      BY DEF StoreInv, RecordsOK
    <2>2. seen'[a].record = {} \/ \E r \in Storing!Records : seen'[a].record = {r}
      BY <1>4, <2>1
    <2>3. RecordsOK(a)'
      BY <1>1, <2>2 DEF RecordsOK
    <2> QED
      BY <1>1, <1>6, <2>3 DEF UnsyncedOK, FinishedOK
  <1>10. \A a \in Artifacts, x \in DeletionIDs : ReceiptOK(a, x)'
    <2> SUFFICES ASSUME NEW a \in Artifacts, NEW x \in DeletionIDs,
                        <<a, x>> \in receipts, failures < 3
                 PROVE  /\ seen'[a].record # {}
                        /\ \A r \in seen'[a].record : r.auth = x
      BY <1>1, <1>6 DEF ReceiptOK
    <2>1. /\ synced[a].record # {}
          /\ \A r \in seen[a].record \cup synced[a].record : r.auth = x
      BY DEF StoreInv, ReceiptOK
    <2>2. seen[a].record # {}
      BY <2>1 DEF StoreInv, RecordsOK
    <2> QED
      BY <1>4, <2>1, <2>2
  <1>11. CalmOK'
    <2>1. ASSUME failures = 0, NEW b \in puts
          PROVE  seen'[b].file # {} \/ seen'[b].record # {}
      <3>1. /\ b \in Artifacts
            /\ \/ seen[b].file # {} /\ synced[b].file # {}
               \/ seen[b].record # {} /\ synced[b].record # {}
        BY <2>1 DEF StoreInv, Types, CalmOK
      <3> QED
        BY <1>4, <3>1
    <2> QED
      BY <1>1, <2>1 DEF CalmOK
  <1> QED
    BY <1>7, <1>8, <1>9, <1>10, <1>11 DEF StoreInv

----------------------------------------------------------------------------
(* Theorems. *)

LEMMA StutterPreserves == ASSUME StoreInv, UNCHANGED Storing!vars PROVE StoreInv'
  BY DEF StoreInv, Types, StoreOK, RecordsOK, UnsyncedOK, FinishedOK, ReceiptOK, CalmOK,
         Behind, RecoverPhase, IdlePhase, Storing!At, Storing!vars

LEMMA StepPreserves == StoreInv /\ [Storing!Next]_(Storing!vars) => StoreInv'
  <1> SUFFICES ASSUME StoreInv, [Storing!Next]_(Storing!vars) PROVE StoreInv'
    OBVIOUS
  <1>1. CASE Storing!Open BY <1>1, OpenPreserves
  <1>2. CASE Storing!Opened BY <1>2, OpenedPreserves
  <1>3. CASE Storing!Recovered BY <1>3, RecoveredPreserves
  <1>4. CASE \E a \in Artifacts : Storing!RecoverDeletion(a)
    BY <1>4, RecoverDeletionPreserves
  <1>5. CASE \E a \in Artifacts : Storing!PutStored(a)
    BY <1>5, PutStoredPreserves
  <1>6. CASE \E a \in Artifacts : Storing!Put(a)
    BY <1>6, PutPreserves
  <1>7. CASE \E a \in Artifacts, x \in DeletionIDs : Storing!DeleteRecorded(a, x)
    BY <1>7, DeleteRecordedPreserves
  <1>8. CASE \E a \in Artifacts, x \in DeletionIDs : Storing!Delete(a, x)
    BY <1>8, DeletePreserves
  <1>9. CASE Storing!CompleteDeletion BY <1>9, CompleteDeletionPreserves
  <1>10. CASE Storing!SyncRoot BY <1>10, SyncRootPreserves
  <1>11. CASE Storing!OperationFails BY <1>11, OperationFailsPreserves
  <1>12. CASE Storing!Stop BY <1>12, StopPreserves
  <1>13. CASE Storing!PowerLoss BY <1>13, PowerLossPreserves
  <1>14. CASE UNCHANGED Storing!vars BY <1>14, StutterPreserves
  <1> QED
    BY <1>1, <1>2, <1>3, <1>4, <1>5, <1>6, <1>7, <1>8, <1>9, <1>10, <1>11, <1>12,
       <1>13, <1>14 DEF Storing!Next

\* The inductive invariant holds in every reachable state of the store.
THEOREM StoreInvariant == Storing!Init /\ [][Storing!Next]_(Storing!vars) => []StoreInv
  <1> QED
    BY InitEstablishes, StepPreserves, PTL

\* Once Delete has reported a receipt, an open store never shows the artifact
\* again and no other authorization gets a receipt for it, over any number of
\* stops and power losses and fewer than three failed operations.
THEOREM StoreDeletionFinal == Storing!Init /\ [][Storing!Next]_(Storing!vars) => []Storing!DeletionFinal
  <1>1. StoreInv => Storing!DeletionFinal
    <2> SUFFICES ASSUME StoreInv, failures < 3, NEW r \in receipts
                 PROVE  /\ Storing!At("idle") => ~Storing!Present(r[1])
                        /\ \A q \in receipts : q[1] = r[1] => q = r
      BY DEF Storing!DeletionFinal
    <2>1. PICK a \in Artifacts, x \in DeletionIDs : r = <<a, x>>
      BY DEF StoreInv, Types
    <2>2. /\ synced[a].record # {}
          /\ \A s \in synced[a].record : s.auth = x
          /\ IdlePhase => Gone(seen[a])
      BY <2>1 DEF StoreInv, ReceiptOK
    <2>3. Storing!At("idle") => ~Storing!Present(r[1])
      BY <2>1, <2>2 DEF IdlePhase, Gone, Storing!Present
    <2>4. ASSUME NEW q \in receipts, q[1] = r[1]
          PROVE  q = r
      <3>1. PICK y \in DeletionIDs : q = <<a, y>>
        BY <2>1, <2>4 DEF StoreInv, Types
      <3>2. \A s \in synced[a].record : s.auth = y
        BY <3>1 DEF StoreInv, ReceiptOK
      <3> QED
        BY <2>1, <2>2, <3>1, <3>2
    <2> QED
      BY <2>3, <2>4
  <1> QED
    BY <1>1, StoreInvariant, PTL

\* As long as no file operation failed, an artifact whose Put was reported as
\* stored is there or has a deletion record, whatever stops and power losses
\* came after the report.
THEOREM StorePutSurvives == Storing!Init /\ [][Storing!Next]_(Storing!vars) => []Storing!StoredSurvives
  <1>1. StoreInv => Storing!StoredSurvives
    BY DEF StoreInv, CalmOK, Storing!StoredSurvives, Storing!Present, Storing!Deleted
  <1> QED
    BY <1>1, StoreInvariant, PTL

----------------------------------------------------------------------------
(* The stores side by side. *)

\* Every step of the stores is one of the artifact store or leaves it alone.
LEMMA StoresStore == MCSpec => Storing!Init /\ [][Storing!Next]_(Storing!vars)
<1>1. MCInit => Storing!Init
  BY DEF MCInit
<1>2. [MCNext]_allVars => [Storing!Next]_(Storing!vars)
  BY DEF MCNext, allVars, OfArtifacts, OfLimiter, Storing!vars, storeVars
<1> QED
  BY <1>1, <1>2, PTL DEF MCSpec

\* A reported deletion is never undone nor reported to a second authorization
\* (FileStore.Delete, recoverDeletions), for any artifacts, stops and power
\* losses and fewer than three failed file operations.
THEOREM StorageDeletionFinal == MCSpec => []DeletionFinal
<1>1. Storing!DeletionFinal => DeletionFinal
  BY DEF DeletionFinal
<1> QED
  BY <1>1, StoresStore, StoreDeletionFinal, PTL

\* A reported Put survives stops and power losses until its deletion, as long
\* as no file operation failed (FileStore.Put).
THEOREM StoragePutSurvives == MCSpec => []StoredSurvives
<1>1. Storing!StoredSurvives => StoredSurvives
  BY DEF StoredSurvives
<1> QED
  BY <1>1, StoresStore, StorePutSurvives, PTL

----------------------------------------------------------------------------
(***************************************************************************)
(* The rate limiter: what a transaction has written stays true of the      *)
(* committed rows until it commits, because nobody else may change a key   *)
(* it has written.  A row of the current window counts every request that  *)
(* was admitted in it, and only the holder of the namespace's lock can     *)
(* bring a key into the table.                                             *)
(***************************************************************************)
Changes == UNION {[ks -> SUBSET Limiting!Windows] : ks \in SUBSET Keys}
Transactions ==
    [pc : Limiting!Places, key : Keys, config : Configurations, began : 0 .. MaxTime,
     writes : Changes, allowed : BOOLEAN]

LimiterTypes ==
    /\ rows \in [Keys -> SUBSET Limiting!Windows]
    /\ call \in [Callers -> Transactions]
    /\ now \in 0 .. MaxTime
    /\ admitted \in [Keys -> [0 .. MaxTime -> Nat]]

AtMostOne(s) == \A x, y \in s : x = y

\* The requests of k admitted in the current window, n of them, are in set s.
Counts(s, n) == n = 0 \/ \E row \in s : row.start = now /\ n <= row.count

\* A state of k's row, committed or about to be.
RowSound(s, k) ==
    /\ AtMostOne(s)
    /\ \A row \in s : row.start <= now
    /\ Counts(s, admitted[k][now])

\* The keys with a row once writes w are committed.
Held(w) == {k \in Keys : IF k \in DOMAIN w THEN w[k] # {} ELSE rows[k] # {}}

\* An Allow call at x, where held says that it has the namespace's lock.
TransactionSound(x, held) ==
    LET w == x.writes IN
    /\ x.began <= now
    /\ \A k \in DOMAIN w : RowSound(w[k], k)
    /\ x.pc \notin {"insert", "commit"} => DOMAIN w = {}
    /\ x.pc = "insert" => \A k \in DOMAIN w : w[k] = {}
    /\ x.pc \in {"again", "cleanup", "insert"} => held
    /\ \A k \in DOMAIN w : w[k] # {} /\ rows[k] = {} => held
    /\ x.pc = "commit" =>
        /\ x.key \in DOMAIN w
        /\ x.allowed /\ x.began = now => Counts(w[x.key], admitted[x.key][now] + 1)
        /\ Cardinality(Held(w)) <= MaximumKeys

Apart(c, d) == DOMAIN call[c].writes \cap DOMAIN call[d].writes = {}

LimiterInv ==
    /\ LimiterTypes
    /\ \A k \in Keys : RowSound(rows[k], k)
    /\ \A k \in Keys, w \in 0 .. MaxTime :
        admitted[k][w] <= Limit /\ (now < w => admitted[k][w] = 0)
    /\ \A c \in Callers : TransactionSound(call[c], c \in namespaceLock)
    /\ \A c, d \in Callers : c # d => Apart(c, d)
    /\ AtMostOne(namespaceLock)
    /\ Cardinality({k \in Keys : rows[k] # {}}) <= MaximumKeys

\* The writes of a transaction change some keys, each to a set of windows.
LEMMA ChangeOf == \A w \in Changes : DOMAIN w \subseteq Keys /\ w \in [DOMAIN w -> SUBSET Limiting!Windows]
BY DEF Changes

LEMMA ChangeMade ==
    ASSUME NEW ks \in SUBSET Keys, NEW w \in [ks -> SUBSET Limiting!Windows]
    PROVE  w \in Changes
BY DEF Changes

LEMMA HeldIsFinite ==
    ASSUME NEW ks \in SUBSET Keys
    PROVE  IsFiniteSet(ks) /\ Cardinality(ks) \in Nat
BY LimiterAssumption, FS_Subset, FS_CardinalityType

\* Fewer keys need no more room.
LEMMA RoomForFewer ==
    ASSUME NEW ks \in SUBSET Keys, NEW more \in SUBSET Keys, ks \subseteq more,
           Cardinality(more) <= MaximumKeys
    PROVE  Cardinality(ks) <= MaximumKeys
<1>1. Cardinality(ks) <= Cardinality(more)
  BY HeldIsFinite, FS_Subset
<1> QED
  BY <1>1, HeldIsFinite, LimiterAssumption

LEMMA RoomForOneMore ==
    ASSUME NEW ks \in SUBSET Keys, NEW k \in Keys, ~(Cardinality(ks) >= MaximumKeys)
    PROVE  Cardinality(ks \cup {k}) <= MaximumKeys
<1>1. IsFiniteSet(ks) /\ Cardinality(ks) \in Nat
  BY HeldIsFinite
<1>2. Cardinality(ks \cup {k}) = IF k \in ks THEN Cardinality(ks) ELSE Cardinality(ks) + 1
  BY <1>1, FS_AddElement
<1> QED
  BY <1>1, <1>2, LimiterAssumption

LEMMA IdleTransaction ==
    /\ Limiting!Idle \in Transactions
    /\ Limiting!Idle.pc = "idle"
    /\ Limiting!Idle.began = 0
    /\ DOMAIN Limiting!Idle.writes = {}
<1>1. [k \in {} |-> {}] \in Changes
  <2>1. {} \in SUBSET Keys /\ [k \in {} |-> {}] \in [{} -> SUBSET Limiting!Windows]
    OBVIOUS
  <2> QED
    BY <2>1, ChangeMade
<1>2. 0 \in 0 .. MaxTime
  BY LimiterAssumption
<1>3. (CHOOSE k \in Keys : TRUE) \in Keys /\ (CHOOSE f \in Configurations : TRUE) \in Configurations
  BY LimiterAssumption
<1> QED
  BY <1>1, <1>2, <1>3 DEF Limiting!Idle, Transactions, Limiting!Places

\* A transaction without writes that needs no lock is sound.
LEMMA WithoutWrites ==
    ASSUME LimiterInv, NEW x \in Transactions, NEW held,
           x.pc \notin {"insert", "commit"}, DOMAIN x.writes = {}, x.began <= now,
           x.pc \in {"again", "cleanup"} => held
    PROVE  TransactionSound(x, held)
BY DEF TransactionSound

(***************************************************************************)
(* A transaction moves on and commits nothing: the others are as they      *)
(* were, if it has not taken a key or the lock from them.                  *)
(***************************************************************************)
LEMMA TransactionMoves ==
    ASSUME LimiterInv, UNCHANGED <<rows, now, admitted>>,
           NEW c \in Callers, NEW x \in Transactions, call' = [call EXCEPT ![c] = x],
           AtMostOne(namespaceLock'),
           \A d \in Callers \ {c} : d \in namespaceLock => d \in namespaceLock',
           TransactionSound(x, c \in namespaceLock'),
           \A d \in Callers \ {c} : DOMAIN x.writes \cap DOMAIN call[d].writes = {}
    PROVE  LimiterInv'
<1>1. LimiterTypes'
  BY DEF LimiterInv, LimiterTypes
<1>2. call'[c] = x /\ \A d \in Callers \ {c} : call'[d] = call[d]
  BY DEF LimiterInv, LimiterTypes
<1>3. ASSUME NEW d \in Callers
      PROVE  TransactionSound(call[d], d \in namespaceLock)'
  <2>1. CASE d = c
    <3>1. Held(call[c].writes)' = Held(x.writes)
      BY <1>2 DEF Held
    <3>2. \A k \in DOMAIN x.writes : RowSound(x.writes[k], k) => RowSound(call[c].writes[k], k)'
      BY <1>2 DEF RowSound, Counts
    <3>3. TransactionSound(call[c], c \in namespaceLock)'
      BY <1>2, <3>1, <3>2 DEF TransactionSound, Counts
    <3> QED
      BY <2>1, <3>3
  <2>2. CASE d # c
    <3>1. TransactionSound(call[d], d \in namespaceLock)
      BY DEF LimiterInv
    <3> QED
      BY <2>2, <3>1, <1>2 DEF TransactionSound, RowSound, Counts, Held
  <2> QED
    BY <2>1, <2>2
<1>4. ASSUME NEW d \in Callers, NEW e \in Callers, d # e
      PROVE  Apart(d, e)'
  BY <1>2, <1>4 DEF LimiterInv, Apart
<1>5. (\A k \in Keys : RowSound(rows[k], k))'
  BY DEF LimiterInv, RowSound, Counts
<1> QED
  BY <1>1, <1>3, <1>4, <1>5 DEF LimiterInv, AtMostOne

LEMMA BeginStep ==
    ASSUME LimiterInv, NEW c \in Callers, NEW k \in Keys, NEW f \in Configurations,
           Limiting!Begin(c, k, f)
    PROVE  LimiterInv'
<1> DEFINE x == [Limiting!Idle EXCEPT !.pc = "update", !.key = k, !.config = f, !.began = now]
<1>1. x \in Transactions /\ x.pc = "update" /\ DOMAIN x.writes = {} /\ x.began = now
  BY IdleTransaction DEF Transactions, LimiterInv, LimiterTypes, Limiting!Places
<1>2. /\ call' = [call EXCEPT ![c] = x]
      /\ UNCHANGED <<rows, namespaceLock, now, admitted>>
  BY DEF Limiting!Begin
<1> HIDE DEF x
<1>3. x.began <= now
  BY <1>1, LimiterAssumption DEF LimiterInv, LimiterTypes
<1>4. TransactionSound(x, c \in namespaceLock')
  BY <1>1, <1>3, WithoutWrites
<1>5. AtMostOne(namespaceLock')
  BY <1>2 DEF LimiterInv
<1> QED
  BY <1>1, <1>2, <1>4, <1>5, TransactionMoves

\* Rollback gives back the locks of a transaction and changes nothing.
LEMMA RollbackStep ==
    ASSUME LimiterInv, NEW c \in Callers, Limiting!Rollback(c)
    PROVE  LimiterInv'
<1>1. TransactionSound(Limiting!Idle, c \in namespaceLock')
  <2>1. Limiting!Idle.began <= now
    BY IdleTransaction, LimiterAssumption DEF LimiterInv, LimiterTypes
  <2> QED
    BY <2>1, IdleTransaction, WithoutWrites
<1>2. /\ AtMostOne(namespaceLock')
      /\ \A d \in Callers \ {c} : d \in namespaceLock => d \in namespaceLock'
  BY DEF Limiting!Rollback, Limiting!Unlocked, AtMostOne, LimiterInv
<1> QED
  BY <1>1, <1>2, IdleTransaction, TransactionMoves DEF Limiting!Rollback

LEMMA LockNamespaceStep ==
    ASSUME LimiterInv, NEW c \in Callers, Limiting!LockNamespace(c)
    PROVE  LimiterInv'
<1> DEFINE x == [call[c] EXCEPT !.pc = "again"]
<1>1. call[c] \in Transactions /\ TransactionSound(call[c], c \in namespaceLock) /\ call[c].pc = "lock"
  BY DEF LimiterInv, LimiterTypes, Limiting!LockNamespace, Limiting!At
<1>2. /\ x \in Transactions /\ x.pc = "again" /\ x.writes = call[c].writes
      /\ x.began = call[c].began
  BY <1>1 DEF Transactions, Limiting!Places
<1>3. /\ call' = [call EXCEPT ![c] = x]
      /\ namespaceLock' = {c} /\ namespaceLock = {}
      /\ UNCHANGED <<rows, now, admitted>>
  BY DEF Limiting!LockNamespace, Limiting!NamespaceFree
<1>4. DOMAIN x.writes = {} /\ x.began <= now
  BY <1>1, <1>2 DEF TransactionSound
<1>5. TransactionSound(x, c \in namespaceLock')
  BY <1>2, <1>3, <1>4, WithoutWrites
<1> HIDE DEF x
<1> QED
  BY <1>2, <1>3, <1>4, <1>5, TransactionMoves DEF AtMostOne

\* The update statement counts one more request in the row it found, or
\* starts the row's next window.
LEMMA CountedRow ==
    ASSUME LimiterInv, NEW c \in Callers, NEW k \in Keys, NEW row \in rows[k]
    PROVE  LET counted == Limiting!Counted(row, c) IN
           /\ counted \in Limiting!Windows
           /\ RowSound({counted}, k)
           /\ Limiting!Granted(row, c) /\ call[c].began = now =>
                Counts({counted}, admitted[k][now] + 1)
<1> DEFINE n == admitted[k][now]
           began == call[c].began
           counted == Limiting!Counted(row, c)
<1>1. /\ n \in Nat /\ now \in Nat /\ began \in 0 .. MaxTime /\ began <= now
      /\ row \in Limiting!Windows /\ MaxTime \in Nat /\ Limit \in Nat \ {0}
  BY LimiterAssumption DEF LimiterInv, LimiterTypes, TransactionSound, Transactions
<1>2. row.start \in 0 .. MaxTime /\ row.count \in 1 .. Limit
  BY <1>1 DEF Limiting!Windows
<1>3. row.start <= now /\ (n = 0 \/ (row.start = now /\ n <= row.count))
  BY DEF LimiterInv, RowSound, AtMostOne, Counts
<1>4. CASE Limiting!Expired(row, c)
  <2>1. n = 0
    BY <1>1, <1>2, <1>3, <1>4 DEF Limiting!Expired
  <2>2. counted = [row EXCEPT !.start = began, !.count = 1]
    BY <1>4 DEF Limiting!Counted
  <2> HIDE DEF counted
  <2>3. 1 \in 1 .. Limit
    BY <1>1
  <2>4. counted \in Limiting!Windows /\ counted.start = began /\ counted.count = 1
    BY <1>1, <2>2, <2>3 DEF Limiting!Windows
  <2>5. RowSound({counted}, k)
    BY <1>1, <2>1, <2>4 DEF RowSound, AtMostOne, Counts
  <2>6. began = now => Counts({counted}, n + 1)
    BY <1>1, <2>1, <2>4 DEF Counts
  <2> QED
    BY <2>4, <2>5, <2>6 DEF counted
<1>5. CASE ~Limiting!Expired(row, c)
  <2>1. began <= row.start
    BY <1>1, <1>2, <1>5 DEF Limiting!Expired
  <2>2. counted = [row EXCEPT !.count = IF row.count < Limit THEN row.count + 1 ELSE row.count]
    BY <1>5, <1>1 DEF Limiting!Counted, Limiting!Windows
  <2>3. /\ counted \in Limiting!Windows /\ counted.start = row.start
        /\ counted.count = IF row.count < Limit THEN row.count + 1 ELSE row.count
    BY <1>1, <1>2, <2>2 DEF Limiting!Windows
  <2>4. Limiting!Granted(row, c) => row.count < Limit
    BY <1>5 DEF Limiting!Granted
  <2> HIDE DEF counted
  <2>5. RowSound({counted}, k)
    BY <1>1, <1>2, <1>3, <2>3 DEF RowSound, AtMostOne, Counts
  <2>6. Limiting!Granted(row, c) /\ began = now => Counts({counted}, n + 1)
    BY <1>1, <1>2, <1>3, <2>1, <2>3, <2>4 DEF Counts
  <2> QED
    BY <2>3, <2>5, <2>6 DEF counted
<1> QED
  BY <1>4, <1>5

LEMMA UpdateExistingStep ==
    ASSUME LimiterInv, NEW c \in Callers, Limiting!UpdateExisting(c)
    PROVE  LimiterInv'
<1> DEFINE k == call[c].key
           mine == {row \in rows[k] : row.config = call[c].config}
<1>1. /\ call[c] \in Transactions /\ TransactionSound(call[c], c \in namespaceLock)
      /\ call[c].pc \in {"update", "again"} /\ DOMAIN call[c].writes = {}
      /\ UNCHANGED <<rows, namespaceLock, now, admitted>>
  BY DEF LimiterInv, LimiterTypes, Limiting!UpdateExisting, TransactionSound
<1>2. AtMostOne(namespaceLock') /\ k \in Keys
  BY <1>1 DEF LimiterInv, Transactions
<1>3. CASE mine = {}
  <2> DEFINE x == [call[c] EXCEPT !.pc = IF call[c].pc = "update" THEN "lock" ELSE "cleanup"]
  <2>1. call' = [call EXCEPT ![c] = x]
    BY <1>3 DEF Limiting!UpdateExisting
  <2>2. /\ x \in Transactions /\ x.pc = IF call[c].pc = "update" THEN "lock" ELSE "cleanup"
        /\ x.writes = call[c].writes /\ x.began = call[c].began
    BY <1>1 DEF Transactions, Limiting!Places
  <2> HIDE DEF x
  <2>3. x.pc = "cleanup" => c \in namespaceLock'
    BY <1>1, <2>2 DEF TransactionSound
  <2>4. x.began <= now /\ DOMAIN x.writes = {}
    BY <1>1, <2>2 DEF TransactionSound
  <2>5. TransactionSound(x, c \in namespaceLock')
    BY <2>2, <2>3, <2>4, WithoutWrites
  <2> QED
    BY <1>1, <1>2, <2>1, <2>2, <2>4, <2>5, TransactionMoves
<1>4. CASE mine # {}
  <2>1. PICK row \in mine :
            call' = [call EXCEPT ![c].pc = "commit",
                                 ![c].writes = [key \in {k} |-> {Limiting!Counted(row, c)}],
                                 ![c].allowed = Limiting!Granted(row, c)]
    BY <1>4 DEF Limiting!UpdateExisting
  <2> DEFINE w == [key \in {k} |-> {Limiting!Counted(row, c)}]
             x == [call[c] EXCEPT !.pc = "commit", !.writes = w,
                                  !.allowed = Limiting!Granted(row, c)]
  <2>2. ~Limiting!Locked(k, c)
    BY <1>4 DEF Limiting!UpdateExisting, Limiting!MayTake
  <2>3. /\ Limiting!Counted(row, c) \in Limiting!Windows
        /\ RowSound({Limiting!Counted(row, c)}, k)
        /\ Limiting!Granted(row, c) /\ call[c].began = now =>
                Counts({Limiting!Counted(row, c)}, admitted[k][now] + 1)
    BY <1>2, CountedRow
  <2>4. w \in Changes
    BY <1>2, <2>3, ChangeMade
  <2>5. Limiting!Granted(row, c) \in BOOLEAN
    BY DEF Limiting!Granted, Limiting!Expired
  <2>6. call' = [call EXCEPT ![c] = x]
    BY <2>1
  <2>7. /\ x \in Transactions /\ x.pc = "commit" /\ x.writes = w /\ x.key = k
        /\ x.began = call[c].began /\ x.allowed = Limiting!Granted(row, c)
    BY <1>1, <2>4, <2>5 DEF Transactions, Limiting!Places
  <2>8. DOMAIN w = {k} /\ w[k] = {Limiting!Counted(row, c)} /\ rows[k] # {}
    BY <2>1
  <2> HIDE DEF x, w
  <2>9. Held(w) = {j \in Keys : rows[j] # {}}
    BY <2>8 DEF Held
  <2>10. TransactionSound(x, c \in namespaceLock')
    <3>1. Cardinality(Held(w)) <= MaximumKeys
      BY <2>9 DEF LimiterInv
    <3>2. x.began <= now
      BY <1>1, <2>7 DEF TransactionSound
    <3>3. \A j \in DOMAIN w : RowSound(w[j], j) /\ rows[j] # {}
      BY <2>3, <2>8
    <3>4. x.allowed /\ x.began = now => Counts(w[x.key], admitted[x.key][now] + 1)
      BY <2>3, <2>7, <2>8
    <3> QED
      BY <2>7, <2>8, <3>1, <3>2, <3>3, <3>4 DEF TransactionSound
  <2>11. \A d \in Callers \ {c} : DOMAIN x.writes \cap DOMAIN call[d].writes = {}
    BY <2>2, <2>7, <2>8 DEF Limiting!Locked
  <2> QED
    BY <1>1, <1>2, <2>6, <2>7, <2>10, <2>11, TransactionMoves
<1> QED
  BY <1>3, <1>4

\* Nothing admitted in the current window is in a row that has expired.
LEMMA CleanupStep ==
    ASSUME LimiterInv, NEW c \in Callers, Limiting!Cleanup(c)
    PROVE  LimiterInv'
<1> DEFINE expired == {k \in Keys : \E row \in rows[k] : Limiting!Expired(row, c)}
           w == [k \in expired |-> {}]
           x == [call[c] EXCEPT !.pc = "insert", !.writes = w]
<1>1. /\ call[c] \in Transactions /\ TransactionSound(call[c], c \in namespaceLock)
      /\ call[c].pc = "cleanup" /\ call' = [call EXCEPT ![c] = x]
      /\ UNCHANGED <<rows, namespaceLock, now, admitted>>
      /\ \A k \in expired : ~Limiting!Locked(k, c)
  BY DEF LimiterInv, LimiterTypes, Limiting!Cleanup, Limiting!At
<1>2. w \in Changes /\ DOMAIN w = expired /\ \A k \in expired : w[k] = {}
  <2>1. expired \in SUBSET Keys /\ w \in [expired -> SUBSET Limiting!Windows]
    OBVIOUS
  <2> QED
    BY <2>1, ChangeMade
<1>3. ASSUME NEW k \in expired
      PROVE  RowSound({}, k)
  <2>1. PICK row \in rows[k] : Limiting!Expired(row, c)
    OBVIOUS
  <2>2. /\ call[c].began \in 0 .. MaxTime /\ call[c].began <= now /\ now \in Nat /\ MaxTime \in Nat
        /\ row \in Limiting!Windows
    BY <1>1, LimiterAssumption DEF LimiterInv, LimiterTypes, TransactionSound, Transactions
  <2>3. row.start \in Nat /\ row.start < now
    BY <2>1, <2>2 DEF Limiting!Windows, Limiting!Expired
  <2>4. RowSound(rows[k], k)
    BY DEF LimiterInv
  <2>5. admitted[k][now] = 0
    BY <2>3, <2>4 DEF RowSound, AtMostOne, Counts
  <2> QED
    BY <2>5 DEF RowSound, AtMostOne, Counts
<1>4. /\ x \in Transactions /\ x.pc = "insert" /\ x.writes = w /\ x.began = call[c].began
  BY <1>1, <1>2 DEF Transactions, Limiting!Places
<1>5. \A d \in Callers \ {c} : DOMAIN x.writes \cap DOMAIN call[d].writes = {}
  BY <1>1, <1>2, <1>4 DEF Limiting!Locked
<1> HIDE DEF x, w, expired
<1>6. TransactionSound(x, c \in namespaceLock')
  BY <1>1, <1>2, <1>3, <1>4 DEF TransactionSound
<1>7. AtMostOne(namespaceLock')
  BY <1>1 DEF LimiterInv
<1> QED
  BY <1>1, <1>4, <1>5, <1>6, <1>7, TransactionMoves

\* The limiter counts sets as this module does.
LEMMA SameCardinality == \A s : Limiting!Cardinality(s) = Cardinality(s)
BY Zenon DEF Limiting!Cardinality, Cardinality

\* What a transaction sees, and what it would hold once committed.
LEMMA ViewHeld ==
    ASSUME NEW c \in Callers
    PROVE  /\ Limiting!View(c) \in [Keys -> {Limiting!View(c)[k] : k \in Keys}]
           /\ \A k \in Keys : Limiting!View(c)[k] =
                IF k \in DOMAIN call[c].writes THEN call[c].writes[k] ELSE rows[k]
           /\ Limiting!Full(c) <=> Cardinality(Held(call[c].writes)) >= MaximumKeys
<1>1. {k \in Keys : Limiting!View(c)[k] # {}} = Held(call[c].writes)
  BY DEF Limiting!View, Held
<1>2. Limiting!Full(c) <=> Cardinality(Held(call[c].writes)) >= MaximumKeys
  <2>1. Limiting!Cardinality({k \in Keys : Limiting!View(c)[k] # {}})
            = Cardinality(Held(call[c].writes))
    BY <1>1, SameCardinality
  <2> QED
    BY <2>1 DEF Limiting!Full
<1> QED
  BY <1>2 DEF Limiting!View

LEMMA InsertStep ==
    ASSUME LimiterInv, NEW c \in Callers, Limiting!Insert(c)
    PROVE  LimiterInv'
<1> DEFINE k == call[c].key
           old == call[c].writes
           row == [config |-> call[c].config, start |-> call[c].began, count |-> 1]
           w == [key \in DOMAIN old \cup {k} |-> IF key = k THEN {row} ELSE old[key]]
           x == [call[c] EXCEPT !.pc = "commit", !.allowed = TRUE, !.writes = w]
<1>1. CASE Limiting!View(c)[k] # {} \/ Limiting!Full(c)
  BY <1>1, RollbackStep DEF Limiting!Insert
<1>2. CASE ~(Limiting!View(c)[k] # {} \/ Limiting!Full(c))
  <2>1. /\ call[c] \in Transactions /\ TransactionSound(call[c], c \in namespaceLock)
        /\ call[c].pc = "insert" /\ ~Limiting!Locked(k, c)
        /\ UNCHANGED <<rows, namespaceLock, now, admitted>>
    BY <1>2 DEF LimiterInv, LimiterTypes, Limiting!Insert, Limiting!At
  <2>2. call' = [call EXCEPT ![c] = x]
    BY <1>2 DEF Limiting!Insert
  <2>3. /\ k \in Keys /\ old \in Changes /\ call[c].began \in 0 .. MaxTime
        /\ call[c].began <= now /\ c \in namespaceLock
        /\ \A j \in DOMAIN old : old[j] = {} /\ RowSound(old[j], j)
    BY <2>1 DEF Transactions, TransactionSound
  <2>4. now \in Nat /\ MaxTime \in Nat /\ 1 \in 1 .. Limit /\ admitted[k][now] \in Nat
    BY <2>3, LimiterAssumption DEF LimiterInv, LimiterTypes
  <2>5. row \in Limiting!Windows /\ row.start = call[c].began /\ row.count = 1
    BY <2>1, <2>3, <2>4 DEF Limiting!Windows, Transactions
  <2>6. admitted[k][now] = 0
    <3>1. Limiting!View(c)[k] = {}
      BY <1>2
    <3>2. RowSound(rows[k], k)
      BY <2>3 DEF LimiterInv
    <3> QED
      BY <2>3, <3>1, <3>2, ViewHeld DEF RowSound, Counts
  <2>7. w \in Changes
    <3>1. DOMAIN old \cup {k} \in SUBSET Keys /\ old \in [DOMAIN old -> SUBSET Limiting!Windows]
      BY <2>3, ChangeOf
    <3> HIDE DEF old, row, k
    <3>2. w \in [DOMAIN old \cup {k} -> SUBSET Limiting!Windows]
      BY <2>5, <3>1
    <3> QED
      BY <3>1, <3>2, ChangeMade
  <2>8. /\ x \in Transactions /\ x.pc = "commit" /\ x.writes = w /\ x.key = k
        /\ x.began = call[c].began
    BY <2>1, <2>7 DEF Transactions, Limiting!Places
  <2>9. /\ DOMAIN w = DOMAIN old \cup {k} /\ w[k] = {row}
        /\ \A j \in DOMAIN old : j # k => w[j] = {} /\ RowSound({}, j)
    BY <2>3
  <2>10. RowSound({row}, k) /\ (call[c].began = now => Counts({row}, admitted[k][now] + 1))
    <3> HIDE DEF row, k
    <3> QED
      BY <2>3, <2>4, <2>5, <2>6 DEF RowSound, AtMostOne, Counts
  <2> HIDE DEF x, w
  <2>11. Cardinality(Held(w)) <= MaximumKeys
    <3>1. ~(Cardinality(Held(old)) >= MaximumKeys)
      BY <1>2, ViewHeld
    <3>2. Held(w) \subseteq Held(old) \cup {k}
      BY <2>9 DEF Held
    <3>3. Held(old) \in SUBSET Keys /\ Held(w) \in SUBSET Keys
      BY DEF Held
    <3>4. Held(old) \cup {k} \in SUBSET Keys
      BY <2>3, <3>3
    <3>5. Cardinality(Held(old) \cup {k}) <= MaximumKeys
      BY <2>3, <3>1, <3>3, RoomForOneMore
    <3> QED
      BY <3>2, <3>3, <3>4, <3>5, RoomForFewer
  <2>12. TransactionSound(x, c \in namespaceLock')
    <3>1. \A j \in DOMAIN w : RowSound(w[j], j)
      BY <2>9, <2>10
    <3>2. k \in DOMAIN w /\ (x.began = now => Counts(w[x.key], admitted[x.key][now] + 1))
      BY <2>8, <2>9, <2>10
    <3>3. x.began <= now /\ c \in namespaceLock'
      BY <2>1, <2>3, <2>8
    <3> QED
      BY <2>8, <2>11, <3>1, <3>2, <3>3 DEF TransactionSound
  <2>13. \A d \in Callers \ {c} : DOMAIN x.writes \cap DOMAIN call[d].writes = {}
    BY <2>1, <2>8, <2>9 DEF Limiting!Locked, LimiterInv, Apart
  <2>14. AtMostOne(namespaceLock')
    BY <2>1 DEF LimiterInv
  <2> QED
    BY <2>1, <2>2, <2>8, <2>12, <2>13, <2>14, TransactionMoves
<1> QED
  BY <1>1, <1>2

LEMMA LimiterTime ==
    ASSUME LimiterInv, Limiting!TimePasses
    PROVE  LimiterInv'
<1>1. /\ now \in Nat /\ now' = now + 1 /\ now' \in 0 .. MaxTime
      /\ UNCHANGED <<rows, call, namespaceLock, admitted>>
  BY LimiterAssumption DEF LimiterInv, LimiterTypes, Limiting!TimePasses
<1>2. LimiterTypes'
  BY <1>1 DEF LimiterInv, LimiterTypes
<1>3. \A k \in Keys : admitted[k][now'] = 0
  BY <1>1, LimiterAssumption DEF LimiterInv
<1>4. ASSUME NEW k \in Keys, NEW s \in SUBSET Limiting!Windows, RowSound(s, k)
      PROVE  AtMostOne(s) /\ (\A row \in s : row.start <= now') /\ admitted'[k][now'] = 0
  <2>1. \A row \in s : row.start \in Nat
    BY LimiterAssumption DEF Limiting!Windows
  <2> QED
    BY <1>1, <1>3, <1>4, <2>1 DEF RowSound
<1>5. ASSUME NEW k \in Keys
      PROVE  RowSound(rows[k], k)'
  <2>1. rows[k] \in SUBSET Limiting!Windows /\ RowSound(rows[k], k)
    BY DEF LimiterInv, LimiterTypes
  <2> QED
    BY <1>1, <1>4, <2>1 DEF RowSound, AtMostOne, Counts
<1>6. ASSUME NEW c \in Callers
      PROVE  TransactionSound(call[c], c \in namespaceLock)'
  <2>1. call[c] \in Transactions /\ TransactionSound(call[c], c \in namespaceLock)
    BY DEF LimiterInv, LimiterTypes
  <2>2. call[c].began \in Nat /\ call[c].began <= now /\ call[c].writes \in Changes
    BY <2>1, LimiterAssumption DEF Transactions, TransactionSound
  <2>3. ASSUME NEW k \in DOMAIN call[c].writes
        PROVE  RowSound(call[c].writes[k], k)'
    <3>1. k \in Keys /\ call[c].writes[k] \in SUBSET Limiting!Windows
      BY <2>2, ChangeOf
    <3>2. RowSound(call[c].writes[k], k)
      BY <2>1 DEF TransactionSound
    <3>3. /\ AtMostOne(call[c].writes[k]) /\ admitted'[k][now'] = 0
          /\ \A row \in call[c].writes[k] : row.start <= now'
      BY <1>4, <3>1, <3>2
    <3> QED
      BY <1>1, <3>3 DEF RowSound, AtMostOne, Counts
  <2>4. Held(call[c].writes)' = Held(call[c].writes)
    BY <1>1 DEF Held
  <2>5. call[c].began <= now' /\ call[c].began # now'
    BY <1>1, <2>2
  <2> QED
    BY <1>1, <2>1, <2>3, <2>4, <2>5 DEF TransactionSound
<1>7. \A k \in Keys, w \in 0 .. MaxTime :
        admitted'[k][w] <= Limit /\ (now' < w => admitted'[k][w] = 0)
  BY <1>1, LimiterAssumption DEF LimiterInv
<1> QED
  BY <1>1, <1>2, <1>5, <1>6, <1>7 DEF LimiterInv, Apart

(***************************************************************************)
(* A commit replaces the rows the transaction has changed, which nobody    *)
(* else has changed meanwhile.  A request it admits is in its row already. *)
(***************************************************************************)
LEMMA CommitStep ==
    ASSUME LimiterInv, NEW c \in Callers, Limiting!Commit(c)
    PROVE  LimiterInv'
<1> DEFINE key == call[c].key
           w == call[c].writes
           n == admitted[key][now]
<1>1. /\ call[c] \in Transactions /\ TransactionSound(call[c], c \in namespaceLock)
      /\ call[c].pc = "commit" /\ rows' = Limiting!View(c)
      /\ call' = [call EXCEPT ![c] = Limiting!Idle]
      /\ namespaceLock' = namespaceLock \ {c} /\ now' = now
  BY DEF LimiterInv, LimiterTypes, Limiting!Commit, Limiting!At, Limiting!Unlocked
<1>2. /\ key \in Keys /\ w \in Changes /\ key \in DOMAIN w
      /\ \A k \in DOMAIN w : RowSound(w[k], k)
      /\ call[c].allowed /\ call[c].began = now => Counts(w[key], n + 1)
      /\ Cardinality(Held(w)) <= MaximumKeys
  BY <1>1 DEF Transactions, TransactionSound
<1>3. now \in 0 .. MaxTime /\ now \in Nat /\ MaxTime \in Nat /\ Limit \in Nat /\ n \in Nat
  BY <1>2, LimiterAssumption DEF LimiterInv, LimiterTypes
<1>4. DOMAIN w \subseteq Keys /\ w \in [DOMAIN w -> SUBSET Limiting!Windows]
  BY <1>2, ChangeOf
<1>5. \A k \in Keys : rows'[k] = IF k \in DOMAIN w THEN w[k] ELSE rows[k]
  BY <1>1, ViewHeld
<1>6. rows' \in [Keys -> SUBSET Limiting!Windows]
  BY <1>1, <1>4, <1>5 DEF LimiterInv, LimiterTypes, Limiting!View
<1>7. \/ UNCHANGED admitted
      \/ /\ Counts(w[key], n + 1)
         /\ admitted' = [admitted EXCEPT ![key][now] = n + 1]
  <2>1. CASE UNCHANGED admitted
    BY <2>1
  <2>2. CASE admitted' = [admitted EXCEPT ![key][now] = IF Limiting!InTime(c) THEN @ + 1 ELSE @]
    <3>1. CASE Limiting!InTime(c)
      BY <1>2, <2>2, <3>1 DEF Limiting!InTime
    <3>2. CASE ~Limiting!InTime(c)
      <4>1. admitted' = [admitted EXCEPT ![key][now] = n]
        BY <2>2, <3>2
      <4>2. UNCHANGED admitted
        BY <4>1, <1>2, <1>3 DEF LimiterInv, LimiterTypes
      <4> QED
        BY <4>2
    <3> QED
      BY <3>1, <3>2
  <2> QED
    BY <2>1, <2>2 DEF Limiting!Commit
<1>8. /\ admitted' \in [Keys -> [0 .. MaxTime -> Nat]]
      /\ \A k \in Keys, t \in 0 .. MaxTime : k # key \/ t # now => admitted'[k][t] = admitted[k][t]
      /\ Counts(w[key], admitted'[key][now]) /\ admitted'[key][now] \in {n, n + 1}
  <2>1. CASE UNCHANGED admitted
    <3>1. Counts(w[key], n)
      BY <1>2 DEF RowSound
    <3> QED
      BY <2>1, <3>1 DEF LimiterInv, LimiterTypes
  <2>2. CASE Counts(w[key], n + 1) /\ admitted' = [admitted EXCEPT ![key][now] = n + 1]
    BY <2>2, <1>2, <1>3 DEF LimiterInv, LimiterTypes
  <2> QED
    BY <1>7, <2>1, <2>2
<1>9. admitted'[key][now] <= Limit
  <2>1. w[key] \in SUBSET Limiting!Windows
    BY <1>2, <1>4
  <2>2. \A row \in w[key] : row.count \in 1 .. Limit
    BY <2>1 DEF Limiting!Windows
  <2> QED
    BY <1>3, <1>8, <2>2 DEF Counts
<1>10. LimiterTypes'
  BY <1>1, <1>3, <1>6, <1>8, IdleTransaction DEF LimiterInv, LimiterTypes
<1>11. ASSUME NEW k \in Keys
       PROVE  RowSound(rows[k], k)'
  <2>1. CASE k = key
    <3>1. rows'[key] = w[key] /\ RowSound(w[key], key)
      BY <1>2, <1>5
    <3> QED
      BY <2>1, <3>1, <1>1, <1>8 DEF RowSound, Counts
  <2>2. CASE k # key
    <3>1. RowSound(rows'[k], k)
      BY <1>2, <1>5 DEF LimiterInv
    <3>2. admitted'[k][now] = admitted[k][now]
      BY <2>2, <1>3, <1>8
    <3> QED
      BY <3>1, <3>2, <1>1 DEF RowSound, Counts
  <2> QED
    BY <2>1, <2>2
<1>12. ASSUME NEW k \in Keys, NEW t \in 0 .. MaxTime
       PROVE  admitted'[k][t] <= Limit /\ (now' < t => admitted'[k][t] = 0)
  <2>1. CASE k = key /\ t = now
    BY <2>1, <1>1, <1>3, <1>9
  <2>2. CASE k # key \/ t # now
    BY <2>2, <1>1, <1>8 DEF LimiterInv
  <2> QED
    BY <2>1, <2>2
<1>13. call'[c] = Limiting!Idle /\ \A d \in Callers \ {c} : call'[d] = call[d]
  BY <1>1 DEF LimiterInv, LimiterTypes
<1>14. ASSUME NEW d \in Callers \ {c}
       PROVE  TransactionSound(call[d], d \in namespaceLock)'
  <2> DEFINE v == call[d].writes
  <2>1. call[d] \in Transactions /\ TransactionSound(call[d], d \in namespaceLock)
    BY DEF LimiterInv, LimiterTypes
  <2>2. v \in Changes /\ DOMAIN v \subseteq Keys /\ DOMAIN v \cap DOMAIN w = {}
    BY <2>1, ChangeOf DEF Transactions, LimiterInv, Apart
  <2>3. \A k \in DOMAIN v : rows'[k] = rows[k] /\ admitted'[k][now] = admitted[k][now]
    BY <2>2, <1>2, <1>3, <1>5, <1>8
  <2>4. call'[d] = call[d] /\ (d \in namespaceLock' <=> d \in namespaceLock)
    BY <1>1, <1>13
  <2>5. ASSUME NEW k \in DOMAIN v
        PROVE  RowSound(call[d].writes[k], k)'
    <3>1. RowSound(v[k], k)
      BY <2>1 DEF TransactionSound
    <3> QED
      BY <3>1, <2>3, <2>4, <1>1 DEF RowSound, Counts
  <2>6. call[d].pc = "commit" => Cardinality(Held(call[d].writes))' <= MaximumKeys
    <3> SUFFICES ASSUME call[d].pc = "commit"
                 PROVE  Cardinality(Held(call[d].writes)') <= MaximumKeys
      OBVIOUS
    <3>1. Held(call[d].writes)' =
            {k \in Keys : IF k \in DOMAIN v THEN v[k] # {} ELSE rows'[k] # {}}
      BY <2>4 DEF Held
    <3>2. Held(call[d].writes)' \in SUBSET Keys /\ Held(v) \in SUBSET Keys /\ Held(w) \in SUBSET Keys
      BY <3>1 DEF Held
    <3>3. Cardinality(Held(v)) <= MaximumKeys
      BY <2>1 DEF TransactionSound
    <3>4. CASE d \in namespaceLock
      <4>1. c \notin namespaceLock
        BY <3>4 DEF LimiterInv, AtMostOne
      <4>2. \A k \in DOMAIN w : w[k] # {} => rows[k] # {}
        BY <1>1, <4>1 DEF TransactionSound
      <4>3. Held(call[d].writes)' \subseteq Held(v)
        BY <3>1, <1>5, <4>2 DEF Held
      <4> QED
        BY <4>3, <3>2, <3>3, RoomForFewer
    <3>5. CASE d \notin namespaceLock
      <4>1. \A k \in DOMAIN v : v[k] # {} => rows[k] # {}
        BY <2>1, <3>5 DEF TransactionSound
      <4>2. Held(call[d].writes)' \subseteq Held(w)
        BY <3>1, <1>5, <2>2, <4>1 DEF Held
      <4> QED
        BY <4>2, <3>2, <1>2, RoomForFewer
    <3> QED
      BY <3>4, <3>5
  <2>7. /\ call[d].pc = "commit" => call[d].key \in DOMAIN v
        /\ call[d].pc = "commit" /\ call[d].allowed /\ call[d].began = now =>
             Counts(call[d].writes[call[d].key], admitted[call[d].key][now] + 1)'
    <3>1. call[d].pc = "commit" => call[d].key \in DOMAIN v
      BY <2>1 DEF TransactionSound
    <3> SUFFICES ASSUME call[d].pc = "commit", call[d].allowed, call[d].began = now
                 PROVE  Counts(call[d].writes[call[d].key], admitted[call[d].key][now] + 1)'
      BY <3>1
    <3>2. Counts(v[call[d].key], admitted[call[d].key][now] + 1)
      BY <2>1 DEF TransactionSound
    <3> QED
      BY <3>1, <3>2, <2>3, <2>4, <1>1 DEF Counts
  <2> QED
    BY <2>1, <2>3, <2>4, <2>5, <2>6, <2>7, <1>1 DEF TransactionSound
<1>15. TransactionSound(call[c], c \in namespaceLock)'
  BY <1>1, <1>3, <1>13, IdleTransaction DEF TransactionSound
<1>16. \A d, e \in Callers : d # e => Apart(d, e)'
  BY <1>13, IdleTransaction DEF LimiterInv, Apart
<1>17. AtMostOne(namespaceLock)'
  BY <1>1 DEF LimiterInv, AtMostOne
<1>18. Cardinality({k \in Keys : rows'[k] # {}}) <= MaximumKeys
  <2>1. {k \in Keys : rows'[k] # {}} = Held(w)
    BY <1>5 DEF Held
  <2> QED
    BY <2>1, <1>2
<1> QED
  BY <1>10, <1>11, <1>12, <1>14, <1>15, <1>16, <1>17, <1>18 DEF LimiterInv

LEMMA LimiterInit == Limiting!Init => LimiterInv
<1> SUFFICES ASSUME Limiting!Init PROVE LimiterInv
  OBVIOUS
<1>1. MaxTime \in Nat /\ Limit \in Nat /\ MaximumKeys \in Nat /\ 0 \in 0 .. MaxTime
  BY LimiterAssumption
<1>2. LimiterTypes /\ now = 0 /\ namespaceLock = {} /\ \A k \in Keys : rows[k] = {}
  BY <1>1, IdleTransaction DEF Limiting!Init, LimiterTypes
<1>3. \A k \in Keys, t \in 0 .. MaxTime : admitted[k][t] = 0
  BY DEF Limiting!Init
<1>4. \A k \in Keys : RowSound(rows[k], k)
  BY <1>1, <1>2, <1>3 DEF RowSound, AtMostOne, Counts
<1>5. \A c \in Callers : call[c] = Limiting!Idle
  BY DEF Limiting!Init
<1>6. \A c \in Callers : TransactionSound(call[c], c \in namespaceLock)
  BY <1>2, <1>5, IdleTransaction DEF TransactionSound
<1>7. \A c, d \in Callers : Apart(c, d)
  BY <1>5, IdleTransaction DEF Apart
<1>8. Cardinality({k \in Keys : rows[k] # {}}) <= MaximumKeys
  <2>1. {k \in Keys : rows[k] # {}} = {}
    BY <1>2
  <2> QED
    BY <1>1, <2>1, FS_EmptySet
<1> QED
  BY <1>1, <1>2, <1>3, <1>4, <1>6, <1>7, <1>8 DEF LimiterInv, AtMostOne

LEMMA LimiterNext == LimiterInv /\ [Limiting!Next]_(Limiting!vars) => LimiterInv'
<1> SUFFICES ASSUME LimiterInv, [Limiting!Next]_(Limiting!vars) PROVE LimiterInv'
  OBVIOUS
<1>1. CASE Limiting!TimePasses
  BY <1>1, LimiterTime
<1>2. ASSUME NEW c \in Callers, Limiting!Step(c) \/ Limiting!Abort(c)
      PROVE  LimiterInv'
  BY <1>2, UpdateExistingStep, LockNamespaceStep, CleanupStep, InsertStep, CommitStep, RollbackStep
     DEF Limiting!Step, Limiting!Abort
<1>3. ASSUME NEW c \in Callers, NEW k \in Keys, NEW f \in Configurations, Limiting!Begin(c, k, f)
      PROVE  LimiterInv'
  BY <1>3, BeginStep
<1>4. CASE UNCHANGED Limiting!vars
  <2>1. UNCHANGED <<rows, call, namespaceLock, now, admitted>>
    BY <1>4 DEF Limiting!vars
  <2>2. LimiterTypes' /\ (\A c, d \in Callers : c # d => Apart(c, d))' /\ AtMostOne(namespaceLock)'
    BY <2>1 DEF LimiterInv, LimiterTypes, Apart, AtMostOne
  <2>3. (\A k \in Keys : RowSound(rows[k], k))'
    BY <2>1 DEF LimiterInv, RowSound, Counts
  <2>4. ASSUME NEW c \in Callers
        PROVE  TransactionSound(call[c], c \in namespaceLock)'
    <3>1. TransactionSound(call[c], c \in namespaceLock)
      BY DEF LimiterInv
    <3> QED
      BY <2>1, <3>1 DEF TransactionSound, RowSound, Counts, Held
  <2> QED
    BY <2>1, <2>2, <2>3, <2>4 DEF LimiterInv
<1> QED
  BY <1>1, <1>2, <1>3, <1>4 DEF Limiting!Next

\* Every step of the stores is one of the limiter or leaves it alone.
LEMMA StoresLimiter == MCSpec => Limiting!Init /\ [][Limiting!Next]_(Limiting!vars)
<1>1. MCInit => Limiting!Init
  BY DEF MCInit
<1>2. [MCNext]_allVars => [Limiting!Next]_(Limiting!vars)
  BY DEF MCNext, allVars, OfArtifacts, OfLimiter, Limiting!vars, limiterVars
<1> QED
  BY <1>1, <1>2, PTL DEF MCSpec

\* However the Allow calls of several daemons interleave, wait, are aborted or
\* outlast their window, no window admits more than Limit requests of a key,
\* a key has one row and the namespace has MaximumKeys at most
\* (SharedRateLimiter.Allow), for any callers, keys, configurations and limits.
THEOREM StorageWithinLimits == MCSpec => []WithinLimits
<1>1. LimiterInv => WithinLimits
  <2> SUFFICES ASSUME LimiterInv PROVE Limiting!WithinLimits
    BY DEF WithinLimits
  <2>1. \A k \in Keys, t \in 0 .. MaxTime : admitted[k][t] <= Limit
    BY DEF LimiterInv
  <2>2. Limiting!Cardinality({k \in Keys : rows[k] # {}}) <= MaximumKeys
    BY SameCardinality DEF LimiterInv
  <2>3. ASSUME NEW k \in Keys
        PROVE  Limiting!Cardinality(rows[k]) <= 1
    <3>1. rows[k] = {} \/ \E row \in rows[k] : rows[k] = {row}
      BY DEF LimiterInv, RowSound, AtMostOne
    <3>2. Cardinality(rows[k]) \in {0, 1}
      BY <3>1, FS_EmptySet, FS_Singleton
    <3> QED
      BY <3>2, SameCardinality
  <2> QED
    BY <2>1, <2>2, <2>3 DEF Limiting!WithinLimits
<1>2. MCSpec => []LimiterInv
  BY StoresLimiter, LimiterInit, LimiterNext, PTL
<1> QED
  BY <1>1, <1>2, PTL
==============================================================================
