------------------------- MODULE InvestigationProofs -------------------------
(***************************************************************************)
(* A model investigation, for any callers, limits, costs and faults: Close *)
(* takes nothing away from an operation that uses it, a turn in doubt is   *)
(* the last one, the account pays for every turn it admits, and a success  *)
(* accounts for all of them.                                               *)
(*                                                                         *)
(* Two inductive invariants.  CloseInv: one operation at a time, and none  *)
(* once a closer is past its drain.  AccountInv builds on it: while the    *)
(* pipeline has not failed, account, ledger and the model calls made agree *)
(* at every place of a turn; every doubt fails the pipeline, and a failed  *)
(* pipeline admits nothing but readbacks.                                  *)
(***************************************************************************)
EXTENDS Investigation, TLAPS

\* Amounts of money are natural numbers of some unit.
Amounts == Costs \subseteq Nat /\ Budget \in Nat /\ Reservation \in Nat

Modelled == {"generation", "verification"}
Pipe ==
    [started : BOOLEAN, failed : BOOLEAN, closing : BOOLEAN, closed : BOOLEAN, intent : BOOLEAN,
     uncertain : BOOLEAN, attempted : SUBSET Modelled, held : SUBSET Modelled]
Account ==
    [remaining : Nat, known : Nat, turns : Nat, frozen : BOOLEAN, inFlight : BOOLEAN,
     usageKnown : BOOLEAN]
Effect == [turn : Nat, cost : Costs, known : BOOLEAN, ok : BOOLEAN, before : Nat]

Types ==
    /\ pipe \in Pipe
    /\ root \in {"none", "live", "cancelled"}
    /\ active \subseteq Callers
    /\ calls \in [Callers -> [at : Places, role : Roles]]
    /\ source \in {"none", "held", "failed", "closed"}
    /\ controller \in [status : {"none", "live", "failed", "closed"}, tools : SUBSET Nat]
    /\ account \in Account
    /\ journal \in [done : SUBSET Tasks, status : {"active", "succeeded", "failed"}]
    /\ ledger \in Seq(EventKinds \X Nat)
    /\ effects \in Seq(Effect)
    /\ accepted \in BOOLEAN

----------------------------------------------------------------------------
(* Close. *)

\* A closer is past its drain, or something is released already.
Releasing ==
    \/ pipe.closed \/ source = "closed" \/ controller.status = "closed"
    \/ \E c \in Callers : calls[c].at \in {"close_controller", "close_acquisition"}

CloseInv ==
    /\ Types
    /\ \A c \in Callers :
           /\ Working(c) => active = {c}
           /\ calls[c].at \in Closing => pipe.closing \/ pipe.closed
    /\ Releasing => active = {} /\ (pipe.closing \/ pipe.closed)

----------------------------------------------------------------------------
(* The account. *)

\* The places of a turn before and after its request is sent, and all places
\* of the controller.
Unsent == {"selected", "claimed", "send"}
Sent == {"answer", "completed", "reconciled", "settle"}
Turning ==
    {"reserve", "capture", "decide", "read_tool", "capture_tool", "finish", "tool_claimed",
     "tool_completed"} \cup Unsent \cup Sent

\* The first k route events of turn n are in the ledger, in their order.
Ordered(n, k) ==
    /\ \A i \in 1 .. k : <<RouteEvents[i], n>> \in Logged
    /\ \A i, j \in 1 .. k : j = i + 1 => Position(<<RouteEvents[i], n>>) < Position(<<RouteEvents[j], n>>)

\* The route events a turn has recorded when its call is at a place.
Progress(place) ==
    CASE place = "claimed" -> 1
      [] place \in {"send", "answer", "completed"} -> 2
      [] place = "reconciled" -> 3
      [] place = "settle" -> 4
      [] OTHER -> 0

Good(i) == effects[i].known /\ effects[i].ok /\ effects[i].turn = i /\ Ordered(i, 4)

\* Between two turns; a turn that is reserved; and one whose request is sent.
Clean ==
    /\ ~account.inFlight /\ account.usageKnown
    /\ account.turns = Len(effects)
    /\ account.known = Spent
    /\ account.remaining + Spent = Budget
    /\ \A i \in 1 .. Len(effects) : Good(i)
BeforeSend ==
    /\ account.turns = Len(effects) + 1
    /\ account.known = Spent
    /\ account.remaining + Reservation + Spent = Budget
    /\ \A i \in 1 .. Len(effects) : Good(i)
AfterSend ==
    /\ effects # <<>>
    /\ account.turns = Len(effects) /\ Latest.turn = Len(effects)
    /\ account.known = Latest.before
    /\ account.remaining + Reservation + Latest.before = Budget

LedgerOK == \A i, j \in 1 .. Len(ledger) : ledger[i] = ledger[j] => i = j
AllGood == \A i \in 1 .. Len(effects) : i < Len(effects) => Good(i)
Admitted == \A i \in 1 .. Len(effects) : effects[i].before + Reservation <= Budget

\* Tasks that use the model are attempted once, generation before
\* verification, and what is held was attempted.
AttemptsOK ==
    /\ pipe.held \subseteq pipe.attempted
    /\ "verification" \in pipe.attempted => "generation" \in pipe.attempted
    /\ "generation" \notin pipe.attempted => effects = <<>>
    /\ \A c \in Callers :
           /\ calls[c].at \in Turning \cup {"construct"} => Role(c) \in Modelled \cap pipe.attempted
           /\ At(c, "construct") => effects = <<>>
           /\ At(c, "task") => Role(c) \in Tasks

FailedOK == pipe.failed => \A c \in Callers : Working(c) => Role(c) = "readback"

TurnsOK ==
    /\ ~pipe.failed /\ (\A c \in Callers : calls[c].at \notin Unsent \cup Sent) => Clean
    /\ \A c \in Callers :
           /\ calls[c].at \in Unsent => BeforeSend
           /\ calls[c].at \in Sent => AfterSend
           /\ calls[c].at \in Unsent \cup Sent => Ordered(Turn, Progress(calls[c].at))

AcceptedOK ==
    accepted =>
        /\ pipe.attempted = Modelled
        /\ \A c \in Callers : calls[c].at \notin Turning \cup {"construct"}
        /\ account.usageKnown /\ ~account.inFlight
        /\ Len(effects) = account.turns
        /\ Spent = account.known
        /\ \A i \in 1 .. Len(effects) : effects[i].known /\ effects[i].ok

AccountInv ==
    /\ LedgerOK /\ AllGood /\ Admitted
    /\ AttemptsOK /\ FailedOK /\ TurnsOK /\ AcceptedOK

----------------------------------------------------------------------------
(* What the parts of an action do to the variables' fields. *)

Others(c) == \A d \in Callers \ {c} : calls'[d] = calls[d]

\* Nothing is released.
Keeps ==
    /\ pipe'.closed = pipe.closed /\ pipe'.closing = pipe.closing
    /\ source' = "closed" => source = "closed"
    /\ controller'.status = "closed" => controller.status = "closed"

\* A working call goes to another place of its operation, or ends it.
Moves(c) ==
    /\ Working(c) /\ Working(c)'
    /\ Role(c)' = Role(c)
    /\ Others(c)
    /\ active' = active
    /\ Keeps
Ends(c) ==
    /\ Working(c) /\ At(c, "idle")'
    /\ Others(c)
    /\ active' = active \ {c}
    /\ Keeps

LEMMA GoesFields ==
    ASSUME Types, NEW c \in Callers, NEW place \in Places, Goes(c, place)
    PROVE  /\ calls' \in [Callers -> [at : Places, role : Roles]]
           /\ calls'[c].at = place /\ calls'[c].role = calls[c].role
           /\ Others(c)
  BY DEF Types, Goes, Others

LEMMA AccountGivenUpType ==
    ASSUME Types
    PROVE  /\ AccountGivenUp \in Account
           /\ ~account.inFlight => AccountGivenUp = account
  BY DEF Types, AccountGivenUp, Account

LEMMA FailingFields ==
    ASSUME Types, NEW c \in Callers
    PROVE  /\ Failing(c) \in Pipe
           /\ Failing(c).failed <=> pipe.failed \/ FailsPipeline(c)
           /\ Failing(c).closed = pipe.closed /\ Failing(c).closing = pipe.closing
           /\ Failing(c).attempted = pipe.attempted /\ Failing(c).held = pipe.held
  <1>1. pipe \in Pipe /\ (pipe.failed \/ FailsPipeline(c)) \in BOOLEAN
    BY DEF Types, Pipe
  <1>2. Failing(c) = [pipe EXCEPT !.failed = pipe.failed \/ FailsPipeline(c)]
    BY DEF Failing
  <1> HIDE DEF FailsPipeline
  <1> QED
    BY <1>1, <1>2 DEF Pipe

LEMMA FailsFields ==
    ASSUME Types, NEW c \in Callers, Fails(c), Working(c)
    PROVE  /\ calls' \in [Callers -> [at : Places, role : Roles]]
           /\ calls'[c].at = "idle"
           /\ Others(c)
           /\ active' = active \ {c}
           /\ journal' \in [done : SUBSET Tasks, status : {"active", "succeeded", "failed"}]
           /\ root' \in {"none", "live", "cancelled"}
           /\ source' \in {source, "failed"}
           /\ controller' \in [status : {"none", "live", "failed", "closed"}, tools : SUBSET Nat]
           /\ controller'.status = "closed" => controller.status = "closed"
  <1>1. "idle" \in Places
    BY DEF Places
  <1>2. Goes(c, "idle") /\ active' = active \ {c}
    BY DEF Fails, Ended
  <1>3. journal' \in [done : SUBSET Tasks, status : {"active", "succeeded", "failed"}]
    <2>1. journal \in [done : SUBSET Tasks, status : {"active", "succeeded", "failed"}]
      BY DEF Types
    <2>2. journal' \in {journal, [journal EXCEPT !.status = "failed"]}
      BY DEF Fails
    <2> QED
      BY <2>1, <2>2
  <1>4. root' \in {"none", "live", "cancelled"} /\ source' \in {source, "failed"}
    BY DEF Fails, Types
  <1>5. /\ controller' \in [status : {"none", "live", "failed", "closed"}, tools : SUBSET Nat]
        /\ controller'.status = "closed" => controller.status = "closed"
    BY DEF Fails, Types
  <1> QED
    BY <1>1, <1>2, <1>3, <1>4, <1>5, GoesFields

LEMMA SucceedsFields ==
    ASSUME Types, NEW c \in Callers, Succeeds(c)
    PROVE  /\ calls' \in [Callers -> [at : Places, role : Roles]]
           /\ calls'[c].at = "idle"
           /\ Others(c)
           /\ active' = active \ {c}
           /\ journal' \in [done : SUBSET Tasks, status : {"active", "succeeded", "failed"}]
  <1>1. "idle" \in Places
    BY DEF Places
  <1>2. Goes(c, "idle") /\ active' = active \ {c}
    BY DEF Succeeds, Ended
  <1>3. journal' \in [done : SUBSET Tasks, status : {"active", "succeeded", "failed"}]
    <2>1. journal \in [done : SUBSET Tasks, status : {"active", "succeeded", "failed"}]
      BY DEF Types
    <2>2. \/ journal' = journal
          \/ Role(c) \in Tasks /\ journal' = [journal EXCEPT !.done = journal.done \cup {Role(c)}]
      BY DEF Succeeds
    <2> QED
      BY <2>1, <2>2
  <1> QED
    BY <1>1, <1>2, <1>3, GoesFields

\* An operation that fails: the call ends and nothing is released.
FailedStep(c) ==
    /\ Working(c)
    /\ Fails(c)
    /\ pipe'.failed <=> pipe.failed \/ FailsPipeline(c)
    /\ pipe'.attempted = pipe.attempted /\ pipe'.held = pipe.held
    /\ effects' = effects
    /\ account' \in {account, AccountGivenUp}
           \/ (At(c, "settle") /\ account' = Settled(Latest))
    /\ \/ ledger' = ledger
       \/ calls[c].at \in EventKinds /\ ~Unacquired(c) /\ ledger' = Append(ledger, Event(c))
    /\ UNCHANGED accepted

LEMMA FailedEnds ==
    ASSUME Types, NEW c \in Callers, FailedStep(c),
           pipe'.closed = pipe.closed, pipe'.closing = pipe.closing
    PROVE  Ends(c)
  <1>1. Working(c) /\ Fails(c)
    BY DEF FailedStep
  <1> QED
    BY <1>1, FailsFields DEF Ends, At, Keeps, Types
InvestigationInv == CloseInv /\ AccountInv

\* A class of steps that leave account, ledger and model calls alone.
Aside == UNCHANGED <<account, ledger, effects>>

\* The pipeline's fields that other operations go by.
PipeKept ==
    /\ pipe' \in Pipe
    /\ pipe'.closed = pipe.closed /\ pipe'.closing = pipe.closing
    /\ pipe'.failed = pipe.failed
    /\ pipe'.attempted = pipe.attempted

LEMMA SettledType ==
    ASSUME Amounts, Types, NEW e \in Effect
    PROVE  Settled(e) \in Account
  <1>1. /\ account.remaining \in Nat /\ account.known \in Nat
        /\ e.cost \in Nat /\ Reservation \in Nat /\ e.ok \in BOOLEAN
    BY DEF Amounts, Types, Account, Effect
  <1>2. Remaining(e.cost) \in Nat /\ account.known + e.cost \in Nat
    BY <1>1 DEF Remaining, Before
  <1>3. (~e.ok \/ e.cost > Before) \in BOOLEAN
    OBVIOUS
  <1>4. account \in Account
    BY DEF Types
  <1>5. Settled(e) = [account EXCEPT !.known = account.known + e.cost, !.remaining = Remaining(e.cost),
                        !.inFlight = FALSE, !.usageKnown = TRUE, !.frozen = ~e.ok \/ e.cost > Before]
    BY DEF Settled
  <1> HIDE DEF Remaining, Before
  <1> QED
    BY <1>2, <1>3, <1>4, <1>5 DEF Account

LEMMA SettleHasEffect ==
    ASSUME InvestigationInv, NEW c \in Callers, At(c, "settle")
    PROVE  effects # <<>> /\ Latest \in Effect /\ Len(effects) \in Nat \ {0}
  <1>1. effects # <<>> /\ effects \in Seq(Effect)
    BY DEF InvestigationInv, CloseInv, Types, AccountInv, TurnsOK, AfterSend, At, Sent
  <1> QED
    BY <1>1 DEF Latest

LEMMA EventTyped ==
    ASSUME Types, NEW c \in Callers, calls[c].at \in EventKinds
    PROVE  /\ Event(c) \in EventKinds \X Nat
           /\ Append(ledger, Event(c)) \in Seq(EventKinds \X Nat)
  <1>1. Event(c) \in EventKinds \X Nat /\ ledger \in Seq(EventKinds \X Nat)
    BY DEF Types, Event, Turn, Account
  <1> QED
    BY <1>1

LEMMA FailedTypes ==
    ASSUME Amounts, InvestigationInv, NEW c \in Callers, FailedStep(c), pipe' \in Pipe
    PROVE  Types'
  <1>1. Types /\ Working(c) /\ Fails(c)
    BY DEF InvestigationInv, CloseInv, FailedStep
  <1>2. account' \in Account
    <2>1. account \in Account /\ AccountGivenUp \in Account
      BY <1>1, AccountGivenUpType DEF Types
    <2>2. At(c, "settle") => Settled(Latest) \in Account
      BY <1>1, SettleHasEffect, SettledType
    <2> QED
      BY <2>1, <2>2 DEF FailedStep
  <1>3. ledger' \in Seq(EventKinds \X Nat)
    BY <1>1, EventTyped DEF FailedStep, Types
  <1>4. UNCHANGED <<effects, accepted>>
    BY DEF FailedStep
  <1>5. active' \subseteq Callers /\ source' \in {"none", "held", "failed", "closed"}
    BY <1>1, FailsFields DEF Types
  <1>6. /\ calls' \in [Callers -> [at : Places, role : Roles]]
        /\ journal' \in [done : SUBSET Tasks, status : {"active", "succeeded", "failed"}]
        /\ root' \in {"none", "live", "cancelled"}
        /\ controller' \in [status : {"none", "live", "failed", "closed"}, tools : SUBSET Nat]
    BY <1>1, FailsFields
  <1> QED
    BY <1>1, <1>2, <1>3, <1>4, <1>5, <1>6 DEF Types

\* Every failure of a working call is one such step.
LEMMA PlainFailure ==
    ASSUME Types, NEW c \in Callers, Working(c), Fails(c), pipe' = Failing(c),
           account' \in {account, AccountGivenUp}
               \/ (At(c, "settle") /\ account' = Settled(Latest)),
           UNCHANGED <<world, accepted>>
    PROVE  /\ FailedStep(c) /\ pipe' \in Pipe
           /\ pipe'.closed = pipe.closed /\ pipe'.closing = pipe.closing
  <1>1. UNCHANGED <<ledger, effects, accepted>>
    BY DEF world
  <1> QED
    BY <1>1, FailingFields DEF FailedStep

----------------------------------------------------------------------------
(* Each action is a step of one of these classes. *)

LEMMA BeginFields ==
    ASSUME InvestigationInv, NEW c \in Callers, NEW role \in Roles, Begin(c, role)
    PROVE  /\ Types' /\ Aside /\ UNCHANGED <<pipe, source, controller, accepted>>
           /\ \/ UNCHANGED <<calls, active>>
              \/ /\ active = {} /\ active' = {c}
                 /\ ~pipe.closed /\ ~pipe.closing
                 /\ At(c, "idle") /\ Others(c)
                 /\ calls'[c].at \in {"start", "view", "task"}
                 /\ pipe.failed => calls'[c].role = "readback"
                 /\ calls'[c].at = "task" => calls'[c].role \in Tasks
  <1>1. Types
    BY DEF InvestigationInv, CloseInv
  <1>2. UNCHANGED <<pipe, root, source, controller, account, ledger, effects, accepted>>
    BY DEF Begin, owned, world
  <1>3. CASE Admits(role)
    <2>1. /\ UNCHANGED journal
          /\ active = {} /\ active' = {c}
          /\ ~pipe.closed /\ ~pipe.closing
          /\ At(c, "idle")
          /\ pipe.failed => role = "readback"
      BY <1>3 DEF Begin, Admits
    <2>2. PICK place \in {"start", "view", "task"} :
              /\ calls' = [calls EXCEPT ![c] = [at |-> place, role |-> role]]
              /\ place = "task" => role \in Tasks
      BY <1>3 DEF Begin, Roles
    <2>3. /\ calls' \in [Callers -> [at : Places, role : Roles]]
          /\ calls'[c].at = place /\ calls'[c].role = role
          /\ Others(c)
      BY <1>1, <2>2 DEF Types, Places, Others
    <2>4. Types'
      BY <1>1, <1>2, <2>1, <2>3 DEF Types
    <2> QED
      BY <1>2, <2>1, <2>2, <2>3, <2>4 DEF Aside
  <1>4. CASE ~Admits(role)
    <2>1. /\ UNCHANGED <<active, calls>>
          /\ journal' = [journal EXCEPT !.status = "failed"]
      BY <1>4 DEF Begin
    <2>2. journal' \in [done : SUBSET Tasks, status : {"active", "succeeded", "failed"}]
      BY <1>1, <2>1 DEF Types
    <2>3. Types'
      BY <1>1, <1>2, <2>1, <2>2 DEF Types
    <2> QED
      BY <1>2, <2>1, <2>3 DEF Aside
  <1> QED
    BY <1>3, <1>4

\* StartRun, Acquire, Prepare and Finish end their call with a result.
LEMMA EndFields ==
    ASSUME InvestigationInv, NEW c \in Callers,
           StartRun(c) \/ Acquire(c) \/ Prepare(c) \/ Finish(c)
    PROVE  /\ Types' /\ Ends(c) /\ Aside /\ PipeKept
           /\ UNCHANGED accepted
           /\ pipe'.held = pipe.held \/ (At(c, "finish") /\ pipe'.held = pipe.held \cup {Role(c)})
  <1>1. Types /\ pipe \in Pipe
    BY DEF InvestigationInv, CloseInv, Types
  <1>2. /\ Succeeds(c)
        /\ UNCHANGED <<controller, account, ledger, effects, accepted>>
        /\ root' \in {root, "live"} /\ source' \in {source, "held"}
    BY DEF StartRun, Acquire, Prepare, Finish, owned, world
  <1>3. Working(c)
    BY DEF StartRun, Acquire, Prepare, Finish, At, Working, Closing
  <1>4. /\ PipeKept
        /\ pipe'.held = pipe.held \/ (At(c, "finish") /\ pipe'.held = pipe.held \cup {Role(c)})
    <2>1. CASE StartRun(c) BY <1>1, <2>1 DEF StartRun, PipeKept, Pipe
    <2>2. CASE Acquire(c) BY <1>1, <2>2 DEF Acquire, PipeKept, Pipe
    <2>3. CASE Prepare(c) BY <1>1, <2>3 DEF Prepare, PipeKept, Pipe
    <2>4. CASE Finish(c)
      <3>1. At(c, "finish") /\ pipe' = [pipe EXCEPT !.held = pipe.held \cup {Role(c)}]
        BY <2>4 DEF Finish
      <3>2. Role(c) \in Modelled
        BY <3>1 DEF InvestigationInv, AccountInv, AttemptsOK, At, Turning
      <3>3. pipe.held \cup {Role(c)} \in SUBSET Modelled
        BY <1>1, <3>2 DEF Pipe
      <3> QED
        BY <1>1, <3>1, <3>3 DEF PipeKept, Pipe
    <2> QED
      BY <2>1, <2>2, <2>3, <2>4
  <1>5. /\ calls' \in [Callers -> [at : Places, role : Roles]]
        /\ calls'[c].at = "idle"
        /\ Others(c)
        /\ active' = active \ {c}
        /\ journal' \in [done : SUBSET Tasks, status : {"active", "succeeded", "failed"}]
    BY <1>1, <1>2, SucceedsFields
  <1>6. Types'
    <2>1. active' \subseteq Callers /\ root' \in {"none", "live", "cancelled"}
          /\ source' \in {"none", "held", "failed", "closed"}
      BY <1>1, <1>2, <1>5 DEF Types
    <2> QED
      BY <1>1, <1>2, <1>4, <1>5, <2>1 DEF Types, PipeKept
  <1>7. Ends(c)
    BY <1>2, <1>3, <1>4, <1>5 DEF Ends, At, Keeps, PipeKept
  <1> QED
    BY <1>2, <1>4, <1>6, <1>7 DEF Aside
\* A call that goes on to another place of its operation.
LEMMA MoveFields ==
    ASSUME InvestigationInv, NEW c \in Callers, NEW place \in Places \ ({"idle"} \cup Closing),
           Working(c), Goes(c, place), UNCHANGED <<active, root, source, journal, accepted>>,
           pipe' \in Pipe, pipe'.closed = pipe.closed, pipe'.closing = pipe.closing,
           controller' \in [status : {"none", "live", "failed", "closed"}, tools : SUBSET Nat],
           controller'.status \in {controller.status, "live"},
           account' \in Account, ledger' \in Seq(EventKinds \X Nat), effects' \in Seq(Effect)
    PROVE  /\ Types' /\ Moves(c)
           /\ calls'[c].at = place /\ calls'[c].role = calls[c].role
  <1>1. Types
    BY DEF InvestigationInv, CloseInv
  <1>2. /\ calls' \in [Callers -> [at : Places, role : Roles]]
        /\ calls'[c].at = place /\ calls'[c].role = calls[c].role
        /\ Others(c)
    BY <1>1, GoesFields
  <1>3. Types'
    BY <1>1, <1>2 DEF Types
  <1>4. Moves(c)
    BY <1>2 DEF Moves, Keeps, Working, Role
  <1> QED
    BY <1>2, <1>3, <1>4

LEMMA TaskFields ==
    ASSUME Amounts, InvestigationInv, NEW c \in Callers, Task(c)
    PROVE  /\ Types'
           /\ \/ FailedStep(c) /\ Ends(c)
              \/ /\ Moves(c) /\ Aside /\ At(c, "task")
                 /\ UNCHANGED accepted
                 /\ pipe'.failed = pipe.failed /\ pipe'.held = pipe.held
                 /\ \/ /\ calls'[c].at \in {"acquire", "prepare", "view"}
                       /\ pipe'.attempted = pipe.attempted
                    \/ /\ Role(c) = "generation" /\ calls'[c].at = "construct"
                       /\ "generation" \notin pipe.attempted
                       /\ pipe'.attempted = pipe.attempted \cup {"generation"}
                    \/ /\ Role(c) = "verification" /\ calls'[c].at = "reserve"
                       /\ "verification" \notin pipe.attempted /\ "generation" \in pipe.held
                       /\ pipe'.attempted = pipe.attempted \cup {"verification"}
  <1>1. Types /\ pipe \in Pipe
    BY DEF InvestigationInv, CloseInv, Types
  <1>2. At(c, "task") /\ Working(c) /\ Role(c) \in Tasks
    BY DEF Task, At, Working, Closing, InvestigationInv, AccountInv, AttemptsOK
  <1>3. UNCHANGED <<account, world, ledger, effects, accepted>>
    BY DEF Task, world
  <1>4. CASE journal.status = "active" /\ TaskChecked(c) # "refused"
    <2>1. /\ Goes(c, TaskChecked(c))
          /\ pipe' = [pipe EXCEPT !.attempted = pipe.attempted \cup ({Role(c)} \cap {"generation", "verification"})]
          /\ UNCHANGED <<root, active, source, controller, journal>>
      BY <1>4 DEF Task
    <2>2. /\ TaskChecked(c) \in Places \ ({"idle"} \cup Closing)
          /\ \/ /\ Role(c) \notin Modelled
                /\ TaskChecked(c) \in {"acquire", "prepare", "view"}
             \/ /\ Role(c) = "generation" /\ TaskChecked(c) = "construct"
                /\ "generation" \notin pipe.attempted
             \/ /\ Role(c) = "verification" /\ TaskChecked(c) = "reserve"
                /\ "verification" \notin pipe.attempted /\ "generation" \in pipe.held
      <3>1. CASE Role(c) = "source" BY <1>4, <3>1 DEF TaskChecked, Places, Closing, Modelled
      <3>2. CASE Role(c) = "context" BY <1>4, <3>2 DEF TaskChecked, Places, Closing, Modelled
      <3>3. CASE Role(c) = "generation" BY <1>4, <3>3 DEF TaskChecked, Places, Closing, Modelled
      <3>4. CASE Role(c) = "verification" BY <1>4, <3>4 DEF TaskChecked, Places, Closing, Modelled
      <3>5. CASE Role(c) = "readiness" BY <1>4, <3>5 DEF TaskChecked, Places, Closing, Modelled
      <3> QED
        BY <1>2, <3>1, <3>2, <3>3, <3>4, <3>5 DEF Tasks
    <2>3. pipe.attempted \cup ({Role(c)} \cap {"generation", "verification"}) \in SUBSET Modelled
      BY <1>1 DEF Pipe, Modelled
    <2>4. /\ pipe' \in Pipe
          /\ pipe'.closed = pipe.closed /\ pipe'.closing = pipe.closing
          /\ pipe'.failed = pipe.failed /\ pipe'.held = pipe.held
          /\ pipe'.attempted = pipe.attempted \cup ({Role(c)} \cap {"generation", "verification"})
      BY <1>1, <2>1, <2>3 DEF Pipe
    <2>5. /\ controller' \in [status : {"none", "live", "failed", "closed"}, tools : SUBSET Nat]
          /\ controller'.status \in {controller.status, "live"}
          /\ account' \in Account /\ ledger' \in Seq(EventKinds \X Nat) /\ effects' \in Seq(Effect)
          /\ UNCHANGED <<active, root, source, journal, accepted>>
      BY <1>1, <1>3, <2>1 DEF Types
    <2>6. /\ Types' /\ Moves(c)
          /\ calls'[c].at = TaskChecked(c)
      BY <1>2, <2>1, <2>2, <2>4, <2>5, MoveFields
    <2>7. /\ Role(c) \notin Modelled => pipe'.attempted = pipe.attempted
          /\ Role(c) \in Modelled => pipe'.attempted = pipe.attempted \cup {Role(c)}
      BY <2>4 DEF Modelled
    <2> QED
      BY <1>2, <1>3, <2>2, <2>4, <2>6, <2>7 DEF Aside, Modelled
  <1>5. CASE ~(journal.status = "active" /\ TaskChecked(c) # "refused")
    <2>1. Fails(c) /\ pipe' = Failing(c)
      BY <1>5 DEF Task
    <2>2. /\ FailedStep(c) /\ pipe' \in Pipe
          /\ pipe'.closed = pipe.closed /\ pipe'.closing = pipe.closing
      BY <1>1, <1>2, <1>3, <2>1, PlainFailure
    <2> QED
      BY <1>1, <2>2, FailedTypes, FailedEnds
  <1> QED
    BY <1>4, <1>5

LEMMA ConstructFields ==
    ASSUME Amounts, InvestigationInv, NEW c \in Callers, Construct(c)
    PROVE  /\ Types' /\ Moves(c) /\ At(c, "construct") /\ calls'[c].at = "reserve"
           /\ UNCHANGED <<pipe, ledger, effects, accepted>>
           /\ account' = NoAccount
  <1>1. Types /\ At(c, "construct") /\ Working(c)
    BY DEF InvestigationInv, CloseInv, Construct, At, Working, Closing
  <1>2. /\ Goes(c, "reserve")
        /\ UNCHANGED <<pipe, root, active, source, journal, ledger, effects, accepted>>
        /\ account' = NoAccount
        /\ controller' = [status |-> "live", tools |-> {}]
    BY DEF Construct, world
  <1>3. /\ account' \in Account
        /\ controller' \in [status : {"none", "live", "failed", "closed"}, tools : SUBSET Nat]
        /\ controller'.status = "live"
        /\ "reserve" \in Places \ ({"idle"} \cup Closing)
    BY <1>2 DEF NoAccount, Account, Amounts, Places, Closing
  <1>4. pipe' \in Pipe /\ ledger' \in Seq(EventKinds \X Nat) /\ effects' \in Seq(Effect)
    BY <1>1, <1>2 DEF Types
  <1>5. Types' /\ Moves(c) /\ calls'[c].at = "reserve"
    BY <1>1, <1>2, <1>3, <1>4, MoveFields
  <1> QED
    BY <1>1, <1>2, <1>5

LEMMA ReserveFields ==
    ASSUME Amounts, InvestigationInv, NEW c \in Callers, Reserve(c)
    PROVE  /\ Types' /\ At(c, "reserve")
           /\ \/ FailedStep(c) /\ Ends(c)
              \/ /\ Moves(c) /\ calls'[c].at = "selected"
                 /\ UNCHANGED <<pipe, ledger, effects, accepted>>
                 /\ Reservation <= account.remaining
                 /\ account' = [account EXCEPT !.inFlight = TRUE, !.usageKnown = FALSE,
                                  !.turns = account.turns + 1,
                                  !.remaining = account.remaining - Reservation]
  <1>1. Types /\ At(c, "reserve") /\ Working(c)
    BY DEF InvestigationInv, CloseInv, Reserve, At, Working, Closing
  <1>2. UNCHANGED <<world, ledger, effects, accepted>>
    BY DEF Reserve, world
  <1>3. CASE MayReserve
    <2>1. /\ Goes(c, "selected")
          /\ UNCHANGED <<pipe, root, active, source, controller, journal>>
          /\ account' = [account EXCEPT !.inFlight = TRUE, !.usageKnown = FALSE,
                           !.turns = account.turns + 1, !.remaining = account.remaining - Reservation]
          /\ Reservation <= account.remaining
      BY <1>3 DEF Reserve, MayReserve
    <2>2. account' \in Account
      <3>1. /\ account \in Account
            /\ account.turns + 1 \in Nat
            /\ account.remaining - Reservation \in Nat
        BY <1>1, <2>1 DEF Types, Account, Amounts
      <3> QED
        BY <2>1, <3>1 DEF Account
    <2>3. /\ pipe' \in Pipe /\ ledger' \in Seq(EventKinds \X Nat) /\ effects' \in Seq(Effect)
          /\ controller' \in [status : {"none", "live", "failed", "closed"}, tools : SUBSET Nat]
          /\ controller'.status \in {controller.status, "live"}
          /\ "selected" \in Places \ ({"idle"} \cup Closing)
      BY <1>1, <1>2, <2>1 DEF Types, Places, EventKinds, Closing
    <2>4. Types' /\ Moves(c) /\ calls'[c].at = "selected"
      BY <1>1, <1>2, <2>1, <2>2, <2>3, MoveFields
    <2> QED
      BY <1>1, <1>2, <2>1, <2>4
  <1>4. CASE ~MayReserve
    <2>1. Fails(c) /\ pipe' = Failing(c) /\ UNCHANGED account
      BY <1>4 DEF Reserve
    <2>2. /\ FailedStep(c) /\ pipe' \in Pipe
          /\ pipe'.closed = pipe.closed /\ pipe'.closing = pipe.closing
      BY <1>1, <1>2, <2>1, PlainFailure
    <2> QED
      BY <1>1, <2>2, FailedTypes, FailedEnds
  <1> QED
    BY <1>3, <1>4

LEMMA RecordFields ==
    ASSUME Amounts, InvestigationInv, NEW c \in Callers, Record(c)
    PROVE  /\ Types' /\ calls[c].at \in EventKinds
           /\ \/ FailedStep(c) /\ Ends(c)
              \/ /\ Moves(c) /\ calls'[c].at = AfterEvent(c)
                 /\ UNCHANGED <<pipe, account, effects, accepted>>
                 /\ ~Unacquired(c) /\ ledger' = Append(ledger, Event(c))
  <1>1. Types /\ calls[c].at \in EventKinds /\ Working(c)
    BY DEF InvestigationInv, CloseInv, Record, EventKinds, Working, Closing
  <1>2. UNCHANGED <<captures, effects, accepted>>
    BY DEF Record
  <1>3. CASE ~Unacquired(c)
    <2>1. /\ Goes(c, AfterEvent(c))
          /\ UNCHANGED <<pipe, root, active, source, account, journal>>
          /\ ledger' = Append(ledger, Event(c))
          /\ controller' = [controller EXCEPT !.tools =
                 IF At(c, "tool_completed") THEN controller.tools \cup {Turn} ELSE controller.tools]
      BY <1>3 DEF Record
    <2>2. /\ controller' \in [status : {"none", "live", "failed", "closed"}, tools : SUBSET Nat]
          /\ controller'.status \in {controller.status, "live"}
      <3>1. Turn \in Nat
        BY <1>1 DEF Types, Turn, Account
      <3> QED
        BY <1>1, <2>1, <3>1 DEF Types
    <2>3. AfterEvent(c) \in Places \ ({"idle"} \cup Closing)
      BY <1>1 DEF EventKinds, AfterEvent, At, Places, Closing
    <2>4. /\ pipe' \in Pipe /\ ledger' \in Seq(EventKinds \X Nat) /\ effects' \in Seq(Effect)
          /\ account' \in Account
      BY <1>1, <1>2, <2>1, EventTyped DEF Types
    <2>5. Types' /\ Moves(c) /\ calls'[c].at = AfterEvent(c)
      BY <1>1, <1>2, <2>1, <2>2, <2>3, <2>4, MoveFields
    <2> QED
      BY <1>1, <1>2, <1>3, <2>1, <2>5
  <1>4. CASE Unacquired(c)
    <2>1. Fails(c) /\ pipe' = Failing(c) /\ account' = AccountGivenUp /\ UNCHANGED ledger
      BY <1>4 DEF Record
    <2>2. /\ FailedStep(c) /\ pipe' \in Pipe
          /\ pipe'.closed = pipe.closed /\ pipe'.closing = pipe.closing
      BY <1>1, <1>2, <2>1, PlainFailure DEF world
    <2> QED
      BY <1>1, <2>2, FailedTypes, FailedEnds
  <1> QED
    BY <1>3, <1>4
LEMMA SpentType == ASSUME Amounts, Types PROVE Spent \in Nat
  <1>1. effects \in Seq(Effect)
    BY DEF Types
  <1>2. CASE effects = <<>> BY <1>2 DEF Spent
  <1>3. CASE effects # <<>>
    <2>1. Latest \in Effect
      BY <1>1, <1>3 DEF Latest
    <2>2. Latest.before \in Nat /\ Latest.cost \in Nat
      BY <2>1 DEF Effect, Amounts
    <2> QED
      BY <1>3, <2>2 DEF Spent
  <1> QED
    BY <1>2, <1>3

LEMMA SendFields ==
    ASSUME Amounts, InvestigationInv, NEW c \in Callers, Send(c)
    PROVE  /\ Types' /\ Moves(c) /\ At(c, "send") /\ calls'[c].at = "answer"
           /\ UNCHANGED <<pipe, account, ledger, accepted>>
           /\ \E e \in Effect : /\ effects' = Append(effects, e)
                                /\ e.turn = Turn /\ e.before = Spent
  <1>1. Types /\ At(c, "send") /\ Working(c)
    BY DEF InvestigationInv, CloseInv, Send, At, Working, Closing
  <1>2. /\ Goes(c, "answer")
        /\ UNCHANGED <<pipe, root, active, source, controller, account, journal, ledger, accepted>>
    BY DEF Send, owned
  <1>3. PICK e \in Effects : effects' = Append(effects, e)
    BY DEF Send
  <1>4. e \in Effect /\ e.turn = Turn /\ e.before = Spent
    <2>1. Turn \in Nat /\ Spent \in Nat
      BY <1>1, SpentType DEF Types, Turn, Account
    <2> HIDE DEF Turn, Spent
    <2> QED
      BY <2>1 DEF Effects, Effect
  <1>5. effects' \in Seq(Effect)
    BY <1>1, <1>3, <1>4 DEF Types
  <1>6. /\ pipe' \in Pipe /\ ledger' \in Seq(EventKinds \X Nat) /\ account' \in Account
        /\ controller' \in [status : {"none", "live", "failed", "closed"}, tools : SUBSET Nat]
        /\ controller'.status \in {controller.status, "live"}
        /\ "answer" \in Places \ ({"idle"} \cup Closing)
    BY <1>1, <1>2 DEF Types, Places, Closing
  <1>7. Types' /\ Moves(c) /\ calls'[c].at = "answer"
    BY <1>1, <1>2, <1>5, <1>6, MoveFields
  <1> QED
    BY <1>1, <1>2, <1>3, <1>4, <1>7

LEMMA SettleFields ==
    ASSUME Amounts, InvestigationInv, NEW c \in Callers, Settle(c)
    PROVE  /\ Types' /\ At(c, "settle")
           /\ \/ FailedStep(c) /\ Ends(c)
              \/ /\ Moves(c) /\ calls'[c].at = "capture"
                 /\ UNCHANGED <<pipe, ledger, effects, accepted>>
                 /\ Latest.known /\ Latest.ok /\ ~(Latest.cost > Before)
                 /\ account' = Settled(Latest)
  <1>1. Types /\ At(c, "settle") /\ Working(c)
    BY DEF InvestigationInv, CloseInv, Settle, At, Working, Closing
  <1>2. /\ UNCHANGED <<world, ledger, effects, accepted>>
        /\ account' = IF Latest.known THEN Settled(Latest) ELSE AccountGivenUp
    BY DEF Settle, world
  <1>3. CASE ~Unsettled(Latest)
    <2>1. /\ Goes(c, "capture")
          /\ UNCHANGED <<pipe, root, active, source, controller, journal>>
      BY <1>3 DEF Settle
    <2>2. Latest.known /\ Latest.ok /\ ~(Latest.cost > Before) /\ account' = Settled(Latest)
      BY <1>2, <1>3 DEF Unsettled
    <2>3. account' \in Account
      BY <1>1, <2>2, SettleHasEffect, SettledType
    <2>4. /\ pipe' \in Pipe /\ ledger' \in Seq(EventKinds \X Nat) /\ effects' \in Seq(Effect)
          /\ controller' \in [status : {"none", "live", "failed", "closed"}, tools : SUBSET Nat]
          /\ controller'.status \in {controller.status, "live"}
          /\ "capture" \in Places \ ({"idle"} \cup Closing)
      BY <1>1, <1>2, <2>1 DEF Types, Places, Closing
    <2>5. Types' /\ Moves(c) /\ calls'[c].at = "capture"
      BY <1>1, <1>2, <2>1, <2>3, <2>4, MoveFields
    <2> QED
      BY <1>1, <1>2, <2>1, <2>2, <2>5
  <1>4. CASE Unsettled(Latest)
    <2>1. Fails(c) /\ pipe' = Failing(c)
      BY <1>4 DEF Settle
    <2>2. /\ FailedStep(c) /\ pipe' \in Pipe
          /\ pipe'.closed = pipe.closed /\ pipe'.closing = pipe.closing
      BY <1>1, <1>2, <2>1, PlainFailure
    <2> QED
      BY <1>1, <2>2, FailedTypes, FailedEnds
  <1> QED
    BY <1>3, <1>4

\* Answer, Capture, ReadTool and Decide, where it does not fail.
LEMMA PlainMoveFields ==
    ASSUME InvestigationInv, NEW c \in Callers, NEW from \in Turning, NEW place \in Turning,
           At(c, from), Goes(c, place),
           UNCHANGED <<pipe, root, active, source, controller, account, journal, ledger, effects, accepted>>
    PROVE  /\ Types' /\ Moves(c) /\ Aside
           /\ calls'[c].at = place
  <1>1. Types /\ Working(c)
    BY DEF InvestigationInv, CloseInv, At, Working, Closing, Turning, Unsent, Sent
  <1>2. /\ pipe' \in Pipe /\ ledger' \in Seq(EventKinds \X Nat) /\ effects' \in Seq(Effect)
        /\ account' \in Account
        /\ controller' \in [status : {"none", "live", "failed", "closed"}, tools : SUBSET Nat]
        /\ controller'.status \in {controller.status, "live"}
        /\ pipe'.closed = pipe.closed /\ pipe'.closing = pipe.closing
    BY <1>1 DEF Types
  <1>3. place \in Places \ ({"idle"} \cup Closing)
    BY DEF Turning, Unsent, Sent, Places, EventKinds, Closing
  <1>4. Types' /\ Moves(c) /\ calls'[c].at = place
    BY <1>1, <1>2, <1>3, MoveFields
  <1> QED
    BY <1>4 DEF Aside

Resting == Turning \ (Unsent \cup Sent)

LEMMA AnswerFields ==
    ASSUME InvestigationInv, NEW c \in Callers, Answer(c)
    PROVE  /\ Types' /\ Moves(c) /\ Aside /\ At(c, "answer") /\ calls'[c].at = "completed"
           /\ UNCHANGED <<pipe, accepted>>
  <1>1. "answer" \in Turning /\ "completed" \in Turning
    BY DEF Turning, Sent
  <1>2. /\ At(c, "answer") /\ Goes(c, "completed")
        /\ UNCHANGED <<pipe, root, active, source, controller, account, journal, ledger, effects, accepted>>
    BY DEF Answer, owned, world
  <1>3. Types' /\ Moves(c) /\ Aside /\ calls'[c].at = "completed"
    BY <1>1, <1>2, PlainMoveFields
  <1> QED
    BY <1>2, <1>3

LEMMA RestMoveFields ==
    ASSUME InvestigationInv, NEW c \in Callers, Capture(c) \/ ReadTool(c)
    PROVE  /\ Types' /\ Moves(c) /\ Aside
           /\ calls[c].at \in Resting /\ calls'[c].at \in Resting
           /\ UNCHANGED <<pipe, accepted>>
  <1>1. UNCHANGED <<pipe, root, active, source, controller, account, journal, ledger, effects, accepted>>
    BY DEF Capture, ReadTool, owned, world
  <1>2. PICK place \in Resting : Goes(c, place)
    BY DEF Capture, ReadTool, Resting, Turning, Unsent, Sent
  <1>3. calls[c].at \in Resting
    BY DEF Capture, ReadTool, At, Resting, Turning, Unsent, Sent
  <1>4. Resting \subseteq Turning /\ At(c, calls[c].at)
    BY DEF Resting, At
  <1>5. Types' /\ Moves(c) /\ Aside /\ calls'[c].at = place
    BY <1>1, <1>2, <1>3, <1>4, PlainMoveFields
  <1> QED
    BY <1>1, <1>2, <1>3, <1>5

LEMMA DecideFields ==
    ASSUME Amounts, InvestigationInv, NEW c \in Callers, Decide(c)
    PROVE  /\ Types'
           /\ \/ FailedStep(c) /\ Ends(c)
              \/ /\ Moves(c) /\ Aside
                 /\ calls[c].at \in Resting /\ calls'[c].at \in Resting
                 /\ UNCHANGED <<pipe, accepted>>
  <1>1. Types /\ At(c, "decide") /\ Working(c)
    BY DEF InvestigationInv, CloseInv, Decide, At, Working, Closing
  <1>2. UNCHANGED <<account, world, ledger, effects, accepted>>
    BY DEF Decide, world
  <1>3. CASE Fails(c) /\ pipe' = Failing(c)
    <2>1. /\ FailedStep(c) /\ pipe' \in Pipe
          /\ pipe'.closed = pipe.closed /\ pipe'.closing = pipe.closing
      BY <1>1, <1>2, <1>3, PlainFailure
    <2> QED
      BY <1>1, <2>1, FailedTypes, FailedEnds
  <1>4. CASE ~(Fails(c) /\ pipe' = Failing(c))
    <2>1. /\ Goes(c, "tool_claimed") \/ Goes(c, "finish")
          /\ UNCHANGED <<pipe, root, active, source, controller, journal>>
      BY <1>4 DEF Decide
    <2>2. PICK place \in {"tool_claimed", "finish"} : Goes(c, place)
      BY <2>1
    <2>3. place \in Turning /\ place \in Resting /\ "decide" \in Turning /\ "decide" \in Resting
      BY DEF Turning, Resting, Unsent, Sent
    <2>4. Types' /\ Moves(c) /\ Aside /\ calls'[c].at = place
      BY <1>1, <1>2, <2>1, <2>2, <2>3, PlainMoveFields
    <2> QED
      BY <1>1, <1>2, <2>1, <2>3, <2>4 DEF At
  <1> QED
    BY <1>3, <1>4

LEMMA ViewFields ==
    ASSUME Amounts, InvestigationInv, NEW c \in Callers, View(c)
    PROVE  /\ Types' /\ Ends(c) /\ At(c, "view")
           /\ \/ FailedStep(c)
              \/ /\ Aside /\ UNCHANGED pipe /\ accepted'
                 /\ ~pipe.failed /\ pipe.held = Modelled
  <1>1. Types /\ At(c, "view") /\ Working(c)
    BY DEF InvestigationInv, CloseInv, View, At, Working, Closing
  <1>2. UNCHANGED <<account, world, ledger, effects>>
    BY DEF View, world
  <1> DEFINE ok == ViewSucceeds /\ journal.status \in (IF Role(c) = "readiness" THEN {"active"} ELSE {"succeeded"})
  <1>3. CASE ok
    <2>1. /\ accepted' = TRUE
          /\ Succeeds(c)
          /\ UNCHANGED <<pipe, root, source, controller>>
      BY <1>3 DEF View
    <2>2. ~pipe.failed /\ pipe.held = Modelled
      BY <1>3 DEF ViewSucceeds, Modelled
    <2>3. /\ calls' \in [Callers -> [at : Places, role : Roles]]
          /\ calls'[c].at = "idle"
          /\ Others(c)
          /\ active' = active \ {c}
          /\ journal' \in [done : SUBSET Tasks, status : {"active", "succeeded", "failed"}]
      BY <1>1, <2>1, SucceedsFields
    <2>4. active' \subseteq Callers
      BY <1>1, <2>3 DEF Types
    <2>5. Types'
      BY <1>1, <1>2, <2>1, <2>3, <2>4 DEF Types
    <2>6. Ends(c)
      BY <1>1, <2>1, <2>3 DEF Ends, Keeps, At
    <2> QED
      BY <1>1, <1>2, <2>1, <2>2, <2>5, <2>6 DEF Aside
  <1>4. CASE ~ok
    <2>1. Fails(c) /\ pipe' = Failing(c) /\ UNCHANGED accepted
      BY <1>4 DEF View
    <2>2. /\ FailedStep(c) /\ pipe' \in Pipe
          /\ pipe'.closed = pipe.closed /\ pipe'.closing = pipe.closing
      BY <1>1, <1>2, <2>1, PlainFailure
    <2> QED
      BY <1>1, <2>2, FailedTypes, FailedEnds
  <1> QED
    BY <1>3, <1>4
\* Interrupted, Faulted and InDoubt.
LEMMA DisturbedFields ==
    ASSUME Amounts, InvestigationInv, NEW c \in Callers,
           Interrupted(c) \/ Faulted(c) \/ InDoubt(c)
    PROVE  Types' /\ FailedStep(c) /\ Ends(c)
  <1>1. Types /\ pipe \in Pipe
    BY DEF InvestigationInv, CloseInv, Types
  <1>2. Working(c)
    BY DEF Interrupted, Faulted, InDoubt, Working, EventKinds, Closing
  <1>3. Fails(c) /\ account' = AccountGivenUp /\ UNCHANGED <<effects, accepted>>
    BY DEF Interrupted, Faulted, InDoubt, world
  <1>4. \/ ledger' = ledger
        \/ calls[c].at \in EventKinds /\ ~Unacquired(c) /\ ledger' = Append(ledger, Event(c))
    BY DEF Interrupted, Faulted, InDoubt, world
  <1>5. \/ pipe' = Failing(c)
        \/ \E doubt \in BOOLEAN : pipe' = [Failing(c) EXCEPT !.uncertain = doubt]
    <2>1. CASE Interrupted(c) BY <2>1 DEF Interrupted
    <2>2. CASE Faulted(c)
      <3>1. pipe' = [Failing(c) EXCEPT !.uncertain = @ \/ calls[c].at \in {"capture", "capture_tool"}]
        BY <2>2 DEF Faulted
      <3>2. (Failing(c).uncertain \/ calls[c].at \in {"capture", "capture_tool"}) \in BOOLEAN
        OBVIOUS
      <3> QED
        BY <3>1, <3>2
    <2>3. CASE InDoubt(c) BY <2>3 DEF InDoubt
    <2> QED
      BY <2>1, <2>2, <2>3
  <1>6. /\ pipe' \in Pipe
        /\ pipe'.failed <=> pipe.failed \/ FailsPipeline(c)
        /\ pipe'.closed = pipe.closed /\ pipe'.closing = pipe.closing
        /\ pipe'.attempted = pipe.attempted /\ pipe'.held = pipe.held
    <2>1. /\ Failing(c) \in Pipe
          /\ Failing(c).failed <=> pipe.failed \/ FailsPipeline(c)
          /\ Failing(c).closed = pipe.closed /\ Failing(c).closing = pipe.closing
          /\ Failing(c).attempted = pipe.attempted /\ Failing(c).held = pipe.held
      BY <1>1, FailingFields
    <2> HIDE DEF Failing
    <2>2. ASSUME NEW doubt \in BOOLEAN, pipe' = [Failing(c) EXCEPT !.uncertain = doubt]
          PROVE  /\ pipe' \in Pipe
                 /\ pipe'.failed = Failing(c).failed
                 /\ pipe'.closed = Failing(c).closed /\ pipe'.closing = Failing(c).closing
                 /\ pipe'.attempted = Failing(c).attempted /\ pipe'.held = Failing(c).held
      BY <2>1, <2>2 DEF Pipe
    <2> QED
      BY <1>5, <2>1, <2>2
  <1>7. FailedStep(c)
    BY <1>2, <1>3, <1>4, <1>6 DEF FailedStep
  <1> QED
    BY <1>1, <1>6, <1>7, FailedTypes, FailedEnds

\* Steps of a closer, and of the control plane: no operation takes part.
LEMMA CloserFields ==
    ASSUME InvestigationInv, NEW c \in Callers,
           Close(c) \/ Drain(c) \/ DrainEnds(c) \/ CloseController(c) \/ CloseAcquisition(c)
    PROVE  /\ Types' /\ Aside /\ UNCHANGED <<active, accepted>>
           /\ ~Working(c) /\ ~Working(c)'
           /\ Others(c)
           /\ pipe'.failed = pipe.failed /\ pipe'.attempted = pipe.attempted
           /\ pipe'.held \subseteq pipe.held
           /\ pipe.closing \/ pipe.closed => pipe'.closing \/ pipe'.closed
           /\ calls'[c].at \in Closing => pipe'.closing \/ pipe'.closed
           /\ Releasing' => \/ Releasing
                            \/ active = {} /\ (pipe.closing \/ pipe.closed) /\ At(c, "drain")
  <1>1. Types /\ pipe \in Pipe
    BY DEF InvestigationInv, CloseInv, Types
  <1>2. UNCHANGED <<active, account, journal, ledger, effects, accepted>>
    BY DEF Close, Drain, DrainEnds, CloseController, CloseAcquisition, owned, world
  <1>3. CASE Close(c)
    <2>1. /\ At(c, "idle")
          /\ pipe' = [pipe EXCEPT !.closing = TRUE]
          /\ calls' = [calls EXCEPT ![c] = [at |-> "drain", role |-> "readback"]]
          /\ root' \in {root, "cancelled"}
          /\ UNCHANGED <<source, controller>>
      BY <1>3 DEF Close, owned
    <2>2. /\ calls' \in [Callers -> [at : Places, role : Roles]]
          /\ calls'[c].at = "drain"
          /\ Others(c)
      BY <1>1, <2>1 DEF Types, Places, Closing, Roles, Others
    <2>3. /\ pipe' \in Pipe
          /\ pipe'.closing /\ pipe'.closed = pipe.closed
          /\ pipe'.failed = pipe.failed /\ pipe'.attempted = pipe.attempted /\ pipe'.held = pipe.held
      BY <1>1, <2>1 DEF Pipe
    <2>4. Types'
      BY <1>1, <1>2, <2>1, <2>2, <2>3 DEF Types
    <2>5. Releasing' => Releasing
      BY <2>1, <2>2, <2>3 DEF Releasing, Others
    <2> QED
      BY <1>2, <2>1, <2>2, <2>3, <2>4, <2>5 DEF Aside, Working, At, Closing
  <1>4. CASE Drain(c)
    <2>1. /\ At(c, "drain") /\ active = {} /\ Goes(c, "close_controller")
          /\ UNCHANGED <<pipe, root, source, controller>>
      BY <1>4 DEF Drain, Drained, owned
    <2>2. pipe.closing \/ pipe.closed
      BY <2>1 DEF InvestigationInv, CloseInv, At, Closing
    <2>3. /\ calls' \in [Callers -> [at : Places, role : Roles]]
          /\ calls'[c].at = "close_controller"
          /\ Others(c)
      BY <1>1, <2>1, GoesFields DEF Places, Closing
    <2>4. Types'
      BY <1>1, <1>2, <2>1, <2>3 DEF Types
    <2> QED
      BY <1>2, <2>1, <2>2, <2>3, <2>4 DEF Aside, Working, At, Closing
  <1>5. CASE DrainEnds(c)
    <2>1. /\ At(c, "drain") /\ Goes(c, "idle")
          /\ UNCHANGED <<pipe, root, source, controller>>
      BY <1>5 DEF DrainEnds, owned
    <2>2. /\ calls' \in [Callers -> [at : Places, role : Roles]]
          /\ calls'[c].at = "idle"
          /\ Others(c)
      BY <1>1, <2>1, GoesFields DEF Places
    <2>3. Types'
      BY <1>1, <1>2, <2>1, <2>2 DEF Types
    <2>4. Releasing' => Releasing
      BY <2>1, <2>2 DEF Releasing, Others
    <2> QED
      BY <1>2, <2>1, <2>2, <2>3, <2>4 DEF Aside, Working, At, Closing
  <1>6. CASE CloseController(c)
    <2>1. /\ At(c, "close_controller") /\ Goes(c, "close_acquisition")
          /\ UNCHANGED <<pipe, root, source>>
          /\ controller' \in {controller, [status |-> "closed", tools |-> {}]}
      BY <1>6 DEF CloseController
    <2>2. /\ calls' \in [Callers -> [at : Places, role : Roles]]
          /\ calls'[c].at = "close_acquisition"
          /\ Others(c)
      BY <1>1, <2>1, GoesFields DEF Places, Closing
    <2>3. controller' \in [status : {"none", "live", "failed", "closed"}, tools : SUBSET Nat]
      BY <1>1, <2>1 DEF Types
    <2>4. Types'
      BY <1>1, <1>2, <2>1, <2>2, <2>3 DEF Types
    <2>5. Releasing /\ (pipe.closing \/ pipe.closed)
      BY <2>1 DEF Releasing, At, InvestigationInv, CloseInv
    <2> QED
      BY <1>2, <2>1, <2>2, <2>4, <2>5 DEF Aside, Working, At, Closing
  <1>7. CASE CloseAcquisition(c)
    <2>1. /\ At(c, "close_acquisition") /\ Goes(c, "idle")
          /\ source' = "closed"
          /\ pipe' = [pipe EXCEPT !.closed = TRUE, !.closing = FALSE, !.held = {}]
          /\ UNCHANGED <<root, controller>>
      BY <1>7 DEF CloseAcquisition
    <2>2. /\ calls' \in [Callers -> [at : Places, role : Roles]]
          /\ calls'[c].at = "idle"
          /\ Others(c)
      BY <1>1, <2>1, GoesFields DEF Places
    <2>3. /\ pipe' \in Pipe
          /\ pipe'.closed
          /\ pipe'.failed = pipe.failed /\ pipe'.attempted = pipe.attempted /\ pipe'.held = {}
      BY <1>1, <2>1 DEF Pipe
    <2>4. Types'
      BY <1>1, <1>2, <2>1, <2>2, <2>3 DEF Types
    <2>5. Releasing
      BY <2>1 DEF Releasing, At
    <2> QED
      BY <1>2, <2>1, <2>2, <2>3, <2>4, <2>5 DEF Aside, Working, At, Closing
  <1> QED
    BY <1>3, <1>4, <1>5, <1>6, <1>7

LEMMA ControlFields ==
    ASSUME InvestigationInv, RootEnds \/ RunCloses \/ UNCHANGED vars
    PROVE  Types' /\ Aside /\ UNCHANGED <<pipe, active, calls, source, controller, accepted>>
  <1>1. Types
    BY DEF InvestigationInv, CloseInv
  <1>2. /\ UNCHANGED <<pipe, active, calls, source, controller, account, ledger, effects, accepted>>
        /\ root' \in {root, "cancelled"}
    BY DEF RootEnds, RunCloses, vars, owned, world
  <1>3. journal' \in [done : SUBSET Tasks, status : {"active", "succeeded", "failed"}]
    <2>1. journal \in [done : SUBSET Tasks, status : {"active", "succeeded", "failed"}]
      BY <1>1 DEF Types
    <2>2. journal' \in {journal, [journal EXCEPT !.status = "succeeded"], [journal EXCEPT !.status = "failed"]}
      BY DEF RootEnds, RunCloses, vars
    <2> QED
      BY <2>1, <2>2
  <1>4. Types'
    BY <1>1, <1>2, <1>3 DEF Types
  <1> QED
    BY <1>2, <1>4 DEF Aside

----------------------------------------------------------------------------
(* One operation at a time, and nothing is released under it. *)

\* The other calls are not in an operation while c is.
LEMMA Alone ==
    ASSUME CloseInv, NEW c \in Callers, NEW d \in Callers, Working(c), Working(d)
    PROVE  c = d
  BY DEF CloseInv

LEMMA MovesKeepClose ==
    ASSUME CloseInv, NEW c \in Callers, Types', Moves(c) \/ Ends(c)
    PROVE  CloseInv'
  <1>1. Working(c) /\ active = {c} /\ ~Releasing
    BY DEF CloseInv, Moves, Ends
  <1>2. Others(c) /\ Keeps
    BY DEF Moves, Ends
  <1>3. \A d \in Callers \ {c} : ~Working(d)
    BY <1>1 DEF CloseInv
  <1>4. \A d \in Callers \ {c} : ~Working(d)' /\ calls'[d] = calls[d]
    BY <1>2, <1>3 DEF Others, Working
  <1>5. Working(c)' => active' = {c}
    BY <1>1 DEF Moves, Ends, At, Working
  <1>6. calls'[c].at \notin {"close_controller", "close_acquisition"}
    BY DEF Moves, Ends, At, Working, Closing
  <1>7. ~Releasing'
    BY <1>1, <1>2, <1>4, <1>6 DEF Releasing, Keeps
  <1>8. \A d \in Callers : Working(d)' => active' = {d}
    BY <1>4, <1>5
  <1>9. \A d \in Callers : calls'[d].at \in Closing => pipe'.closing \/ pipe'.closed
    <2>1. calls'[c].at \notin Closing
      BY DEF Moves, Ends, At, Working, Closing
    <2> QED
      BY <1>2, <1>4, <2>1 DEF CloseInv, Keeps
  <1> QED
    BY <1>7, <1>8, <1>9 DEF CloseInv

LEMMA BeginKeepsClose ==
    ASSUME InvestigationInv, NEW c \in Callers, NEW role \in Roles, Begin(c, role)
    PROVE  CloseInv'
  <1>1. CloseInv
    BY DEF InvestigationInv
  <1>2. Types' /\ UNCHANGED <<pipe, source, controller>>
    BY BeginFields
  <1>3. CASE UNCHANGED <<calls, active>>
    BY <1>1, <1>2, <1>3 DEF CloseInv, Releasing, Working
  <1>4. CASE ~UNCHANGED <<calls, active>>
    <2>1. /\ active = {} /\ active' = {c}
          /\ ~pipe.closed /\ ~pipe.closing
          /\ Others(c)
          /\ calls'[c].at \in {"start", "view", "task"}
      BY <1>4, BeginFields
    <2>2. ~Releasing
      BY <1>1, <2>1 DEF CloseInv
    <2>3. \A d \in Callers \ {c} : ~Working(d) /\ calls'[d] = calls[d]
      BY <1>1, <2>1 DEF CloseInv, Others
    <2>4. ~Releasing'
      BY <1>2, <2>1, <2>2, <2>3 DEF Releasing
    <2>5. \A d \in Callers \ {c} : ~Working(d)'
      BY <2>3 DEF Working
    <2>6. \A d \in Callers : calls'[d].at \notin Closing
      BY <1>1, <2>1, <2>3 DEF CloseInv, Closing
    <2> QED
      BY <1>2, <2>1, <2>4, <2>5, <2>6 DEF CloseInv
  <1> QED
    BY <1>3, <1>4

LEMMA CloserKeepsClose ==
    ASSUME InvestigationInv, NEW c \in Callers,
           Close(c) \/ Drain(c) \/ DrainEnds(c) \/ CloseController(c) \/ CloseAcquisition(c)
    PROVE  CloseInv'
  <1>1. CloseInv
    BY DEF InvestigationInv
  <1>2. /\ Types' /\ UNCHANGED active
        /\ ~Working(c)' /\ Others(c)
        /\ pipe.closing \/ pipe.closed => pipe'.closing \/ pipe'.closed
        /\ calls'[c].at \in Closing => pipe'.closing \/ pipe'.closed
        /\ Releasing' => \/ Releasing
                         \/ active = {} /\ (pipe.closing \/ pipe.closed) /\ At(c, "drain")
    BY CloserFields
  <1>3. \A d \in Callers :
            /\ Working(d)' => active' = {d}
            /\ calls'[d].at \in Closing => pipe'.closing \/ pipe'.closed
    BY <1>1, <1>2 DEF CloseInv, Others, Working
  <1>4. Releasing' => active' = {} /\ (pipe'.closing \/ pipe'.closed)
    BY <1>1, <1>2 DEF CloseInv
  <1> QED
    BY <1>2, <1>3, <1>4 DEF CloseInv
----------------------------------------------------------------------------
(* The ledger. *)

LEMMA PositionOf ==
    ASSUME Types, LedgerOK, NEW i \in 1 .. Len(ledger)
    PROVE  Position(ledger[i]) = i
  <1>1. DOMAIN ledger = 1 .. Len(ledger)
    BY DEF Types
  <1>2. Position(ledger[i]) \in DOMAIN ledger /\ ledger[Position(ledger[i])] = ledger[i]
    BY <1>1 DEF Position
  <1> QED
    BY <1>1, <1>2 DEF LedgerOK

LEMMA LoggedPosition ==
    ASSUME Types, LedgerOK, NEW x \in Logged
    PROVE  Position(x) \in 1 .. Len(ledger) /\ ledger[Position(x)] = x
  <1>1. PICK i \in 1 .. Len(ledger) : x = ledger[i]
    BY DEF Types, Logged
  <1> QED
    BY <1>1, PositionOf

\* A new event comes after all others and moves none of them.
LEMMA AppendOrder ==
    ASSUME Types, LedgerOK, NEW e \in EventKinds \X Nat, e \notin Logged, ledger' = Append(ledger, e)
    PROVE  /\ LedgerOK'
           /\ Logged' = Logged \cup {e}
           /\ \A x \in Logged : Position(x)' = Position(x) /\ Position(x) \in 1 .. Len(ledger)
           /\ Position(e)' = Len(ledger) + 1
           /\ Len(ledger) \in Nat
  <1>1. /\ ledger \in Seq(EventKinds \X Nat)
        /\ Len(ledger) \in Nat
        /\ DOMAIN ledger = 1 .. Len(ledger)
    BY DEF Types
  <1>2. /\ Len(ledger') = Len(ledger) + 1
        /\ DOMAIN ledger' = 1 .. Len(ledger) + 1
        /\ \A i \in 1 .. Len(ledger) : ledger'[i] = ledger[i]
        /\ ledger'[Len(ledger) + 1] = e
    BY <1>1
  <1>3. \A i \in 1 .. Len(ledger) : ledger[i] # e
    BY <1>1 DEF Logged
  <1>4. LedgerOK'
    <2> SUFFICES ASSUME NEW i \in 1 .. Len(ledger) + 1, NEW j \in 1 .. Len(ledger) + 1,
                        ledger'[i] = ledger'[j]
                 PROVE  i = j
      BY <1>2 DEF LedgerOK
    <2>1. CASE i \in 1 .. Len(ledger) /\ j \in 1 .. Len(ledger)
      BY <1>2, <2>1 DEF LedgerOK
    <2>2. CASE i = Len(ledger) + 1 \/ j = Len(ledger) + 1
      <3>1. i \in 1 .. Len(ledger) \/ i = Len(ledger) + 1
        BY <1>1
      <3>2. j \in 1 .. Len(ledger) \/ j = Len(ledger) + 1
        BY <1>1
      <3> QED
        BY <1>2, <1>3, <2>2, <3>1, <3>2
    <2> QED
      BY <1>1, <2>1, <2>2
  <1>5. Logged' = Logged \cup {e}
    <2>1. \A x : x \in Logged' <=> \E i \in 1 .. Len(ledger) + 1 : x = ledger'[i]
      BY <1>2 DEF Logged
    <2>2. \A x : x \in Logged <=> \E i \in 1 .. Len(ledger) : x = ledger[i]
      BY <1>1 DEF Logged
    <2>3. \A i \in 1 .. Len(ledger) + 1 : i \in 1 .. Len(ledger) \/ i = Len(ledger) + 1
      BY <1>1
    <2>4. \A i \in 1 .. Len(ledger) : i \in 1 .. Len(ledger) + 1
      BY <1>1
    <2>5. Len(ledger) + 1 \in 1 .. Len(ledger) + 1
      BY <1>1
    <2> QED
      BY <1>2, <2>1, <2>2, <2>3, <2>4, <2>5
  <1>6. ASSUME NEW i \in 1 .. Len(ledger) + 1, NEW x, x = ledger'[i] PROVE Position(x)' = i
    <2>1. Position(x)' \in DOMAIN ledger' /\ ledger'[Position(x)'] = x
      BY <1>2, <1>6 DEF Position
    <2> QED
      BY <1>2, <1>4, <1>6, <2>1 DEF LedgerOK
  <1>7. Position(e)' = Len(ledger) + 1
    <2>1. Len(ledger) + 1 \in 1 .. Len(ledger) + 1
      BY <1>1
    <2> QED
      BY <1>2, <1>6, <2>1
  <1>8. ASSUME NEW x \in Logged
        PROVE  Position(x)' = Position(x) /\ Position(x) \in 1 .. Len(ledger)
    <2>1. PICK i \in 1 .. Len(ledger) : x = ledger[i]
      BY <1>1 DEF Logged
    <2>2. Position(x) = i
      BY <2>1, PositionOf
    <2>3. i \in 1 .. Len(ledger) + 1 /\ x = ledger'[i]
      BY <1>1, <1>2, <2>1
    <2>4. Position(x)' = i
      BY <1>6, <2>3
    <2> QED
      BY <2>1, <2>2, <2>4
  <1> QED
    BY <1>1, <1>4, <1>5, <1>7, <1>8

LEMMA OrderedKept ==
    ASSUME Types, LedgerOK, NEW e \in EventKinds \X Nat, e \notin Logged, ledger' = Append(ledger, e),
           NEW n, NEW k \in 0 .. 4, Ordered(n, k)
    PROVE  Ordered(n, k)'
  <1>1. /\ Logged' = Logged \cup {e}
        /\ \A x \in Logged : Position(x)' = Position(x)
    BY AppendOrder
  <1>2. /\ \A i \in 1 .. k : <<RouteEvents[i], n>> \in Logged
        /\ \A i, j \in 1 .. k : j = i + 1 => Position(<<RouteEvents[i], n>>) < Position(<<RouteEvents[j], n>>)
    BY DEF Ordered
  <1>3. \A i \in 1 .. k : Position(<<RouteEvents[i], n>>)' = Position(<<RouteEvents[i], n>>)
    BY <1>1, <1>2
  <1>4. \A i \in 1 .. k : <<RouteEvents[i], n>> \in Logged'
    BY <1>1, <1>2
  <1>5. \A i, j \in 1 .. k : j = i + 1 => Position(<<RouteEvents[i], n>>)' < Position(<<RouteEvents[j], n>>)'
    BY <1>2, <1>3
  <1> QED
    BY <1>4, <1>5 DEF Ordered

LEMMA OrderedGrows ==
    ASSUME Types, LedgerOK, NEW n \in Nat, NEW k \in 0 .. 3, Ordered(n, k),
           <<RouteEvents[k + 1], n>> \in EventKinds \X Nat,
           <<RouteEvents[k + 1], n>> \notin Logged, ledger' = Append(ledger, <<RouteEvents[k + 1], n>>)
    PROVE  Ordered(n, k + 1)'
  <1> DEFINE e == <<RouteEvents[k + 1], n>>
  <1>1. /\ Logged' = Logged \cup {e}
        /\ \A x \in Logged : Position(x)' = Position(x) /\ Position(x) \in 1 .. Len(ledger)
        /\ Position(e)' = Len(ledger) + 1
        /\ Len(ledger) \in Nat
    BY AppendOrder
  <1>2. /\ \A i \in 1 .. k : <<RouteEvents[i], n>> \in Logged
        /\ \A i, j \in 1 .. k : j = i + 1 => Position(<<RouteEvents[i], n>>) < Position(<<RouteEvents[j], n>>)
    BY DEF Ordered
  <1>3. \A i \in 1 .. k : /\ Position(<<RouteEvents[i], n>>)' = Position(<<RouteEvents[i], n>>)
                          /\ Position(<<RouteEvents[i], n>>) \in 1 .. Len(ledger)
    BY <1>1, <1>2
  <1>4. \A i \in 1 .. k + 1 : i \in 1 .. k \/ i = k + 1
    OBVIOUS
  <1>5. \A i \in 1 .. k + 1 : <<RouteEvents[i], n>> \in Logged'
    BY <1>1, <1>2, <1>4
  <1>6. ASSUME NEW i \in 1 .. k + 1, NEW j \in 1 .. k + 1, j = i + 1
        PROVE  Position(<<RouteEvents[i], n>>)' < Position(<<RouteEvents[j], n>>)'
    <2>1. i \in 1 .. k
      BY <1>6
    <2>2. CASE j \in 1 .. k
      BY <1>2, <1>3, <1>6, <2>1, <2>2
    <2>3. CASE j = k + 1
      <3>1. Position(<<RouteEvents[j], n>>)' = Len(ledger) + 1
        BY <1>1, <2>3
      <3>2. /\ Position(<<RouteEvents[i], n>>)' = Position(<<RouteEvents[i], n>>)
            /\ Position(<<RouteEvents[i], n>>) \in 1 .. Len(ledger)
        BY <1>3, <2>1
      <3> QED
        BY <1>1, <3>1, <3>2
    <2> QED
      BY <1>4, <2>2, <2>3
  <1> QED
    BY <1>5, <1>6 DEF Ordered
----------------------------------------------------------------------------
(* Account, ledger and model calls agree. *)

\* Steps that leave all three alone.
LEMMA AsideFacts ==
    ASSUME AccountInv, Aside
    PROVE  /\ LedgerOK' /\ AllGood' /\ Admitted'
           /\ Clean' <=> Clean
           /\ BeforeSend' <=> BeforeSend
           /\ AfterSend' <=> AfterSend
           /\ Spent' = Spent /\ Turn' = Turn
           /\ \A n, k : Ordered(n, k)' <=> Ordered(n, k)
  <1>1. UNCHANGED <<account, ledger, effects>>
    BY DEF Aside
  <1>2. \A n, k : Ordered(n, k)' <=> Ordered(n, k)
    BY <1>1 DEF Ordered, Logged, Position
  <1>3. Spent' = Spent /\ Turn' = Turn /\ Latest' = Latest
    BY <1>1 DEF Spent, Latest, Turn
  <1>4. \A i : Good(i)' <=> Good(i)
    BY <1>1, <1>2 DEF Good
  <1>5. LedgerOK' /\ AllGood' /\ Admitted'
    BY <1>1, <1>4 DEF AccountInv, LedgerOK, AllGood, Admitted
  <1>6. Clean' <=> Clean
    BY <1>1, <1>3, <1>4 DEF Clean
  <1>7. BeforeSend' <=> BeforeSend
    BY <1>1, <1>3, <1>4 DEF BeforeSend
  <1>8. AfterSend' <=> AfterSend
    BY <1>1, <1>3 DEF AfterSend
  <1> QED
    BY <1>2, <1>3, <1>5, <1>6, <1>7, <1>8

\* ... and move no call into or out of a turn.
LEMMA AsideKeeps ==
    ASSUME InvestigationInv, Aside, accepted' = accepted,
           pipe'.failed = pipe.failed, pipe'.attempted = pipe.attempted,
           pipe'.held \subseteq pipe'.attempted,
           \A d \in Callers :
              \/ calls'[d] = calls[d]
              \/ /\ calls[d].at \notin Unsent \cup Sent
                 /\ calls'[d].at \notin Unsent \cup Sent \cup {"construct"}
                 /\ calls'[d].at \in Turning => calls[d].at \in Turning /\ calls'[d].role = calls[d].role
                 /\ Working(d)' /\ pipe.failed => calls'[d].role = "readback"
                 /\ calls'[d].at = "task" => calls'[d].role \in Tasks
    PROVE  AccountInv'
  <1>1. AccountInv
    BY DEF InvestigationInv
  <1>2. /\ LedgerOK' /\ AllGood' /\ Admitted'
        /\ Clean' <=> Clean
        /\ BeforeSend' <=> BeforeSend
        /\ AfterSend' <=> AfterSend
        /\ Spent' = Spent /\ Turn' = Turn
        /\ \A n, k : Ordered(n, k)' <=> Ordered(n, k)
    BY <1>1, AsideFacts
  <1>3. AttemptsOK'
    <2>1. effects' = effects
      BY DEF Aside
    <2>2. ASSUME NEW d \in Callers
          PROVE  /\ calls'[d].at \in Turning \cup {"construct"} => calls'[d].role \in Modelled \cap pipe'.attempted
                 /\ calls'[d].at = "construct" => effects' = <<>>
                 /\ calls'[d].at = "task" => calls'[d].role \in Tasks
      BY <1>1, <2>1 DEF AccountInv, AttemptsOK, Role, At
    <2>3. /\ "verification" \in pipe'.attempted => "generation" \in pipe'.attempted
          /\ "generation" \notin pipe'.attempted => effects' = <<>>
      BY <1>1, <2>1 DEF AccountInv, AttemptsOK
    <2> QED
      BY <2>2, <2>3 DEF AttemptsOK, Role, At
  <1>4. FailedOK'
    BY <1>1 DEF AccountInv, FailedOK, Role, Working
  <1>5. TurnsOK'
    <2>1. \A d \in Callers :
              /\ calls'[d].at \in Unsent <=> calls[d].at \in Unsent
              /\ calls'[d].at \in Sent <=> calls[d].at \in Sent
              /\ calls'[d].at \in Unsent \cup Sent => calls'[d] = calls[d]
      OBVIOUS
    <2>2. ~pipe'.failed /\ (\A d \in Callers : calls'[d].at \notin Unsent \cup Sent) => Clean'
      BY <1>1, <1>2, <2>1 DEF AccountInv, TurnsOK
    <2>3. ASSUME NEW d \in Callers
          PROVE  /\ calls'[d].at \in Unsent => BeforeSend'
                 /\ calls'[d].at \in Sent => AfterSend'
                 /\ calls'[d].at \in Unsent \cup Sent => Ordered(Turn, Progress(calls[d].at))'
      <3>1. /\ calls'[d].at \in Unsent => BeforeSend'
            /\ calls'[d].at \in Sent => AfterSend'
        BY <1>1, <1>2, <2>1 DEF AccountInv, TurnsOK
      <3>2. ASSUME calls'[d].at \in Unsent \cup Sent
            PROVE  Ordered(Turn, Progress(calls[d].at))'
        <4>1. UNCHANGED <<calls[d], Turn, ledger>>
          BY <1>2, <2>1, <3>2 DEF Aside
        <4>2. Ordered(Turn, Progress(calls[d].at))
          BY <1>1, <2>1, <3>2 DEF AccountInv, TurnsOK
        <4> QED
          BY <4>1, <4>2 DEF Ordered, Progress, Logged, Position
      <3> QED
        BY <3>1, <3>2
    <2> QED
      BY <2>2, <2>3 DEF TurnsOK
  <1>6. AcceptedOK'
    <2> SUFFICES ASSUME accepted
                 PROVE  /\ pipe'.attempted = Modelled
                        /\ \A d \in Callers : calls'[d].at \notin Turning \cup {"construct"}
                        /\ account'.usageKnown /\ ~account'.inFlight
                        /\ Len(effects') = account'.turns
                        /\ Spent' = account'.known
                        /\ \A i \in 1 .. Len(effects') : effects'[i].known /\ effects'[i].ok
      BY DEF AcceptedOK
    <2>1. /\ pipe.attempted = Modelled
          /\ \A d \in Callers : calls[d].at \notin Turning \cup {"construct"}
          /\ account.usageKnown /\ ~account.inFlight
          /\ Len(effects) = account.turns
          /\ Spent = account.known
          /\ \A i \in 1 .. Len(effects) : effects[i].known /\ effects[i].ok
      BY <1>1 DEF AccountInv, AcceptedOK
    <2>2. \A d \in Callers : calls'[d].at \notin Turning \cup {"construct"}
      BY <2>1
    <2> QED
      BY <1>2, <2>1, <2>2 DEF Aside
  <1> QED
    BY <1>2, <1>3, <1>4, <1>5, <1>6 DEF AccountInv

\* While c is in an operation no other call is, before and after its step.
LEMMA OthersRest ==
    ASSUME CloseInv, NEW c \in Callers, Working(c), Others(c)
    PROVE  \A d \in Callers \ {c} : /\ calls'[d] = calls[d] /\ ~Working(d)
                                    /\ calls[d].at \notin Turning \cup {"construct", "task"}
  <1>1. \A d \in Callers \ {c} : calls'[d] = calls[d] /\ ~Working(d)
    BY DEF CloseInv, Others
  <1> QED
    BY <1>1 DEF Working, Turning, Unsent, Sent, Closing

LEMMA FailedKeeps ==
    ASSUME Amounts, InvestigationInv, NEW c \in Callers, FailedStep(c), Ends(c)
    PROVE  AccountInv'
  <1>1. Types /\ CloseInv /\ AccountInv /\ Working(c) /\ Others(c) /\ calls'[c].at = "idle"
    BY DEF InvestigationInv, CloseInv, Ends, At
  <1>2. \A d \in Callers \ {c} : /\ calls'[d] = calls[d] /\ ~Working(d)
                                 /\ calls[d].at \notin Turning \cup {"construct", "task"}
    BY <1>1, OthersRest
  <1>3. \A d \in Callers : calls'[d].at \notin Turning \cup {"construct", "task"} /\ ~Working(d)'
    BY <1>1, <1>2 DEF Turning, Unsent, Sent, Working
  <1>4. /\ pipe'.failed <=> pipe.failed \/ FailsPipeline(c)
        /\ pipe'.attempted = pipe.attempted /\ pipe'.held = pipe.held
        /\ effects' = effects /\ accepted' = accepted
    BY DEF FailedStep
  <1>5. calls[c].at \in Turning \cup {"construct"} => pipe'.failed /\ ~accepted
    <2>1. calls[c].at \in Turning \cup {"construct"} => Role(c) \in Modelled /\ ~accepted
      BY <1>1 DEF AccountInv, AttemptsOK, AcceptedOK
    <2> QED
      BY <1>4, <2>1 DEF FailsPipeline, Modelled
  <1>6. EventKinds \subseteq Turning /\ "settle" \in Turning
    BY DEF EventKinds, Turning, Unsent, Sent
  <1>7. /\ LedgerOK'
        /\ \A n : Ordered(n, 4) => Ordered(n, 4)'
    <2>1. CASE ledger' = ledger
      BY <1>1, <2>1 DEF AccountInv, LedgerOK, Ordered, Logged, Position
    <2>2. CASE calls[c].at \in EventKinds /\ ~Unacquired(c) /\ ledger' = Append(ledger, Event(c))
      <3>1. Event(c) \in EventKinds \X Nat /\ Event(c) \notin Logged /\ LedgerOK
        BY <1>1, <2>2, EventTyped DEF Unacquired, AccountInv
      <3>2. PICK e : e = Event(c)
        OBVIOUS
      <3>3. e \in EventKinds \X Nat /\ e \notin Logged /\ ledger' = Append(ledger, e)
        BY <2>2, <3>1, <3>2
      <3>4. LedgerOK'
        BY <1>1, <3>1, <3>3, AppendOrder
      <3>5. ASSUME NEW n, Ordered(n, 4) PROVE Ordered(n, 4)'
        BY <1>1, <3>1, <3>3, <3>5, OrderedKept
      <3> QED
        BY <3>4, <3>5
    <2> QED
      BY <2>1, <2>2 DEF FailedStep
  <1>8. AllGood' /\ Admitted'
    BY <1>1, <1>4, <1>7 DEF AccountInv, AllGood, Admitted, Good
  <1>9. AttemptsOK'
    BY <1>1, <1>3, <1>4 DEF AccountInv, AttemptsOK, At, Role
  <1>10. FailedOK'
    BY <1>3 DEF FailedOK, Working
  <1>11. calls[c].at \notin Turning => ledger' = ledger /\ account' \in {account, AccountGivenUp}
    BY <1>6 DEF FailedStep, At
  <1>12. TurnsOK'
    <2>1. ASSUME ~pipe'.failed PROVE Clean'
      <3>1. calls[c].at \notin Turning \cup {"construct"} /\ ~pipe.failed
        BY <1>4, <1>5, <2>1
      <3>2. \A d \in Callers : calls[d].at \notin Unsent \cup Sent
        BY <1>2, <3>1 DEF Turning
      <3>3. Clean
        BY <1>1, <3>1, <3>2 DEF AccountInv, TurnsOK
      <3>4. account' = account /\ ledger' = ledger
        BY <1>1, <1>11, <3>1, <3>3, AccountGivenUpType DEF Clean
      <3> QED
        BY <1>1, <1>4, <3>3, <3>4, AsideFacts DEF Aside
    <2> QED
      BY <1>3, <2>1 DEF TurnsOK, Turning
  <1>13. AcceptedOK'
    <2> SUFFICES ASSUME accepted
                 PROVE  /\ pipe'.attempted = Modelled
                        /\ account'.usageKnown /\ ~account'.inFlight
                        /\ Len(effects') = account'.turns
                        /\ Spent' = account'.known
                        /\ \A i \in 1 .. Len(effects') : effects'[i].known /\ effects'[i].ok
      BY <1>3, <1>4 DEF AcceptedOK
    <2>1. calls[c].at \notin Turning \cup {"construct"}
      BY <1>5
    <2>2. /\ pipe.attempted = Modelled
          /\ account.usageKnown /\ ~account.inFlight
          /\ Len(effects) = account.turns
          /\ Spent = account.known
          /\ \A i \in 1 .. Len(effects) : effects[i].known /\ effects[i].ok
      BY <1>1 DEF AccountInv, AcceptedOK
    <2>3. account' = account
      BY <1>1, <1>11, <2>1, <2>2, AccountGivenUpType
    <2>4. Spent' = Spent
      BY <1>4 DEF Spent, Latest
    <2> QED
      BY <1>4, <2>2, <2>3, <2>4
  <1> QED
    BY <1>7, <1>8, <1>9, <1>10, <1>12, <1>13 DEF AccountInv
\* A step of a turn keeps the invariant if it keeps what is said of its place.
LEMMA TurnKeeps ==
    ASSUME InvestigationInv, NEW c \in Callers, Moves(c), calls'[c].at \in Turning,
           Role(c) \in Modelled \cap pipe'.attempted, ~accepted, UNCHANGED accepted,
           pipe'.failed = pipe.failed, pipe'.held \subseteq pipe'.attempted,
           "generation" \in pipe'.attempted,
           LedgerOK' /\ AllGood' /\ Admitted',
           calls'[c].at \notin Unsent \cup Sent => Clean',
           calls'[c].at \in Unsent => BeforeSend',
           calls'[c].at \in Sent => AfterSend',
           calls'[c].at \in Unsent \cup Sent => Ordered(Turn, Progress(calls[c].at))'
    PROVE  AccountInv'
  <1>1. CloseInv /\ AccountInv /\ Working(c) /\ Others(c) /\ calls'[c].role = Role(c)
    BY DEF InvestigationInv, Moves, Role
  <1>2. \A d \in Callers \ {c} : /\ calls'[d] = calls[d] /\ ~Working(d)
                                 /\ calls[d].at \notin Turning \cup {"construct", "task"}
    BY <1>1, OthersRest
  <1>3. \A d \in Callers \ {c} : ~Working(d)' /\ calls'[d].at \notin Turning \cup {"construct", "task"}
    BY <1>2 DEF Working
  <1>4. calls'[c].at \notin {"construct", "task"}
    BY DEF Turning, Unsent, Sent
  <1>5. AttemptsOK'
    BY <1>1, <1>3, <1>4 DEF AttemptsOK, At, Role
  <1>6. FailedOK'
    <2>1. ~pipe.failed
      BY <1>1 DEF AccountInv, FailedOK, Modelled
    <2> QED
      BY <2>1 DEF FailedOK
  <1>7. TurnsOK'
    <2>1. \A d \in Callers \ {c} : calls'[d].at \notin Unsent \cup Sent
      BY <1>3 DEF Turning
    <2>2. ~pipe'.failed /\ (\A d \in Callers : calls'[d].at \notin Unsent \cup Sent) => Clean'
      OBVIOUS
    <2>3. \A d \in Callers :
              /\ calls'[d].at \in Unsent => BeforeSend'
              /\ calls'[d].at \in Sent => AfterSend'
      BY <2>1
    <2>4. ASSUME NEW d \in Callers, calls'[d].at \in Unsent \cup Sent
          PROVE  Ordered(Turn, Progress(calls[d].at))'
      BY <2>1, <2>4
    <2> QED
      BY <2>2, <2>3, <2>4 DEF TurnsOK
  <1>8. AcceptedOK'
    BY DEF AcceptedOK
  <1> QED
    BY <1>5, <1>6, <1>7, <1>8 DEF AccountInv

\* A turn under way in the pipeline: what the step lemmas need of it.
LEMMA InTurn ==
    ASSUME InvestigationInv, NEW c \in Callers, calls[c].at \in Turning \cup {"construct"}
    PROVE  /\ Types /\ AccountInv /\ Working(c)
           /\ ~pipe.failed /\ ~accepted
           /\ Role(c) \in Modelled \cap pipe.attempted
           /\ pipe.held \subseteq pipe.attempted
           /\ "generation" \in pipe.attempted
           /\ LedgerOK /\ AllGood /\ Admitted
           /\ calls[c].at \notin Unsent \cup Sent => Clean
           /\ calls[c].at \in Unsent => BeforeSend
           /\ calls[c].at \in Sent => AfterSend
           /\ calls[c].at \in Unsent \cup Sent => Ordered(Turn, Progress(calls[c].at))
  <1>1. Types /\ CloseInv /\ AccountInv
    BY DEF InvestigationInv, CloseInv
  <1>2. Working(c)
    BY DEF Working, Turning, Unsent, Sent, Closing
  <1>3. Role(c) \in Modelled \cap pipe.attempted
    BY <1>1 DEF AccountInv, AttemptsOK
  <1>4. ~pipe.failed /\ ~accepted
    BY <1>1, <1>2, <1>3 DEF AccountInv, FailedOK, AcceptedOK, Modelled
  <1>5. /\ "generation" \in pipe.attempted
        /\ pipe.held \subseteq pipe.attempted
    BY <1>1, <1>3 DEF AccountInv, AttemptsOK, Modelled
  <1>6. \A d \in Callers : d # c => calls[d].at \notin Unsent \cup Sent
    <2>1. \A d \in Callers : d # c => ~Working(d)
      BY <1>1, <1>2, Alone
    <2> QED
      BY <2>1 DEF Working, Unsent, Sent, Closing
  <1>7. calls[c].at \notin Unsent \cup Sent => Clean
    BY <1>1, <1>4, <1>6 DEF AccountInv, TurnsOK
  <1>8. /\ calls[c].at \in Unsent => BeforeSend
        /\ calls[c].at \in Sent => AfterSend
        /\ calls[c].at \in Unsent \cup Sent => Ordered(Turn, Progress(calls[c].at))
    BY <1>1 DEF AccountInv, TurnsOK
  <1>9. LedgerOK /\ AllGood /\ Admitted
    BY <1>1 DEF AccountInv
  <1> QED
    BY <1>1, <1>2, <1>3, <1>4, <1>5, <1>7, <1>8, <1>9

LEMMA ConstructKeeps ==
    ASSUME Amounts, InvestigationInv, NEW c \in Callers, Construct(c)
    PROVE  AccountInv'
  <1>1. /\ Types' /\ Moves(c) /\ At(c, "construct") /\ calls'[c].at = "reserve"
        /\ UNCHANGED <<pipe, ledger, effects, accepted>>
        /\ account' = NoAccount
    BY ConstructFields
  <1>2. calls[c].at \in Turning \cup {"construct"}
    BY <1>1 DEF At
  <1>3. effects = <<>>
    BY <1>1 DEF InvestigationInv, AccountInv, AttemptsOK
  <1>4. LedgerOK' /\ AllGood' /\ Admitted'
    BY <1>1, <1>2, <1>3, InTurn DEF LedgerOK, AllGood, Admitted
  <1>5. Clean'
    <2>1. effects' = <<>> /\ Spent' = 0
      BY <1>1, <1>3 DEF Spent
    <2>2. /\ account'.inFlight = FALSE /\ account'.usageKnown = TRUE
          /\ account'.turns = 0 /\ account'.known = 0 /\ account'.remaining = Budget
      BY <1>1 DEF NoAccount
    <2> QED
      BY <2>1, <2>2 DEF Clean, Amounts
  <1>6. calls'[c].at \in Turning /\ calls'[c].at \notin Unsent \cup Sent
    BY <1>1 DEF Turning, Unsent, Sent
  <1>7. /\ Role(c) \in Modelled \cap pipe'.attempted /\ ~accepted
        /\ pipe'.failed = pipe.failed /\ pipe'.held \subseteq pipe'.attempted
        /\ "generation" \in pipe'.attempted
    BY <1>1, <1>2, InTurn
  <1> QED
    BY <1>1, <1>4, <1>5, <1>6, <1>7, TurnKeeps

LEMMA ReserveKeeps ==
    ASSUME Amounts, InvestigationInv, NEW c \in Callers, Reserve(c), Moves(c),
           calls'[c].at = "selected", At(c, "reserve"),
           UNCHANGED <<pipe, ledger, effects, accepted>>,
           Reservation <= account.remaining,
           account' = [account EXCEPT !.inFlight = TRUE, !.usageKnown = FALSE,
                         !.turns = account.turns + 1, !.remaining = account.remaining - Reservation]
    PROVE  AccountInv'
  <1>1. calls[c].at \in Turning \cup {"construct"} /\ calls[c].at \notin Unsent \cup Sent
    BY DEF At, Turning, Unsent, Sent
  <1>2. /\ Types /\ ~pipe.failed /\ ~accepted
        /\ Role(c) \in Modelled \cap pipe.attempted
        /\ pipe.held \subseteq pipe.attempted
        /\ "generation" \in pipe.attempted
        /\ LedgerOK /\ AllGood /\ Admitted /\ Clean
    BY <1>1, InTurn
  <1>3. \A n, k : Ordered(n, k)' <=> Ordered(n, k)
    BY DEF Ordered, Logged, Position
  <1>4. Spent' = Spent /\ \A i : Good(i)' <=> Good(i)
    BY <1>3 DEF Spent, Latest, Good
  <1>5. LedgerOK' /\ AllGood' /\ Admitted'
    BY <1>2, <1>4 DEF LedgerOK, AllGood, Admitted
  <1>6. BeforeSend'
    <2>1. /\ account.remaining \in Nat /\ account.turns \in Nat /\ Spent \in Nat
          /\ Reservation \in Nat /\ account.turns = Len(effects)
          /\ account.known = Spent /\ account.remaining + Spent = Budget
      BY <1>2, SpentType DEF Types, Account, Amounts, Clean
    <2>2. /\ account'.turns = account.turns + 1 /\ account'.known = account.known
          /\ account'.remaining = account.remaining - Reservation
      BY <1>2 DEF Types, Account
    <2>3. account'.remaining + Reservation + Spent = Budget
      BY <2>1, <2>2
    <2>4. \A i \in 1 .. Len(effects') : Good(i)'
      BY <1>2, <1>4 DEF Clean
    <2> QED
      BY <1>4, <2>1, <2>2, <2>3, <2>4 DEF BeforeSend
  <1>7. Ordered(Turn, Progress(calls[c].at))'
    BY DEF Ordered, Progress
  <1>8. calls'[c].at \in Turning /\ calls'[c].at \in Unsent /\ calls'[c].at \notin Sent
    BY DEF Turning, Unsent, Sent
  <1> QED
    BY <1>2, <1>5, <1>6, <1>7, <1>8, TurnKeeps
LEMMA RecordKeeps ==
    ASSUME Amounts, InvestigationInv, NEW c \in Callers, Moves(c), calls[c].at \in EventKinds,
           calls'[c].at = AfterEvent(c), UNCHANGED <<pipe, account, effects, accepted>>,
           ~Unacquired(c), ledger' = Append(ledger, Event(c))
    PROVE  AccountInv'
  <1>1. calls[c].at \in Turning \cup {"construct"}
    BY DEF EventKinds, Turning, Unsent, Sent
  <1>2. /\ Types /\ ~pipe.failed /\ ~accepted
        /\ Role(c) \in Modelled \cap pipe.attempted
        /\ pipe.held \subseteq pipe.attempted
        /\ "generation" \in pipe.attempted
        /\ LedgerOK /\ AllGood /\ Admitted
    BY <1>1, InTurn
  <1>3. PICK n \in Nat : n = Turn
    BY <1>2 DEF Types, Account, Turn
  <1>4. PICK e \in EventKinds \X Nat : e = <<calls[c].at, n>>
    OBVIOUS
  <1>5. e = Event(c) /\ e \notin Logged /\ ledger' = Append(ledger, e)
    BY <1>3, <1>4 DEF Event, Unacquired
  <1>6. ASSUME NEW m, NEW k \in 0 .. 4, Ordered(m, k) PROVE Ordered(m, k)'
    BY <1>2, <1>5, <1>6, OrderedKept
  <1>7. Spent' = Spent /\ Turn' = n /\ Latest' = Latest
    BY <1>3 DEF Spent, Latest, Turn
  <1>8. \A i : Good(i) => Good(i)'
    BY <1>6 DEF Good
  <1>9. LedgerOK' /\ AllGood' /\ Admitted'
    <2>1. LedgerOK'
      BY <1>2, <1>5, AppendOrder
    <2> QED
      BY <1>2, <1>8, <2>1 DEF AllGood, Admitted
  <1>10. ASSUME NEW k \in 0 .. 3, calls[c].at = RouteEvents[k + 1], Progress(calls[c].at) = k,
                calls[c].at \in Unsent \cup Sent
         PROVE  Ordered(n, k + 1)'
    <2>1. Ordered(n, k)
      BY <1>1, <1>3, <1>10, InTurn
    <2>2. e = <<RouteEvents[k + 1], n>>
      BY <1>4, <1>10
    <2> QED
      BY <1>2, <1>4, <1>5, <2>1, <2>2, OrderedGrows
  <1>11. /\ BeforeSend => BeforeSend'
         /\ AfterSend => AfterSend'
         /\ Clean => Clean'
    BY <1>7, <1>8 DEF BeforeSend, AfterSend, Clean
  <1>12. CASE calls[c].at \in {"tool_claimed", "tool_completed"}
    <2>1. /\ calls'[c].at \in Turning
          /\ calls'[c].at \notin Unsent \cup Sent
          /\ calls[c].at \notin Unsent \cup Sent
      BY <1>12 DEF AfterEvent, At, Turning, Unsent, Sent
    <2>2. Clean'
      BY <1>1, <1>11, <2>1, InTurn
    <2> QED
      BY <1>2, <1>9, <2>1, <2>2, TurnKeeps
  <1>13. CASE calls[c].at \in {"selected", "claimed"}
    <2>1. /\ calls'[c].at \in Turning
          /\ calls'[c].at \in Unsent /\ calls'[c].at \notin Sent
          /\ calls[c].at \in Unsent /\ calls[c].at \in Unsent \cup Sent
      BY <1>13 DEF AfterEvent, At, Turning, Unsent, Sent
    <2>2. BeforeSend'
      BY <1>1, <1>11, <2>1, InTurn
    <2>3. Ordered(Turn, Progress(calls[c].at))'
      <3>1. CASE calls[c].at = "selected"
        <4>1. calls[c].at = RouteEvents[0 + 1] /\ Progress(calls[c].at) = 0 /\ calls'[c].at = "claimed"
          BY <3>1 DEF RouteEvents, Progress, AfterEvent, At
        <4>2. Ordered(n, 0 + 1)'
          BY <1>10, <2>1, <4>1
        <4>3. Progress(calls'[c].at) = 0 + 1
          BY <4>1 DEF Progress
        <4> QED
          BY <1>7, <4>2, <4>3 DEF Ordered
      <3>2. CASE calls[c].at = "claimed"
        <4>1. calls[c].at = RouteEvents[1 + 1] /\ Progress(calls[c].at) = 1 /\ calls'[c].at = "send"
          BY <3>2 DEF RouteEvents, Progress, AfterEvent, At
        <4>2. Ordered(n, 1 + 1)'
          BY <1>10, <2>1, <4>1
        <4>3. Progress(calls'[c].at) = 1 + 1
          BY <4>1 DEF Progress
        <4> QED
          BY <1>7, <4>2, <4>3 DEF Ordered
      <3> QED
        BY <1>13, <3>1, <3>2
    <2> QED
      BY <1>2, <1>9, <2>1, <2>2, <2>3, TurnKeeps
  <1>14. CASE calls[c].at \in {"completed", "reconciled"}
    <2>1. /\ calls'[c].at \in Turning
          /\ calls'[c].at \in Sent /\ calls'[c].at \notin Unsent
          /\ calls[c].at \in Sent /\ calls[c].at \in Unsent \cup Sent
      BY <1>14 DEF AfterEvent, At, Turning, Unsent, Sent
    <2>2. AfterSend'
      BY <1>1, <1>11, <2>1, InTurn
    <2>3. Ordered(Turn, Progress(calls[c].at))'
      <3>1. CASE calls[c].at = "completed"
        <4>1. calls[c].at = RouteEvents[2 + 1] /\ Progress(calls[c].at) = 2 /\ calls'[c].at = "reconciled"
          BY <3>1 DEF RouteEvents, Progress, AfterEvent, At
        <4>2. Ordered(n, 2 + 1)'
          BY <1>10, <2>1, <4>1
        <4>3. Progress(calls'[c].at) = 2 + 1
          BY <4>1 DEF Progress
        <4> QED
          BY <1>7, <4>2, <4>3 DEF Ordered
      <3>2. CASE calls[c].at = "reconciled"
        <4>1. calls[c].at = RouteEvents[3 + 1] /\ Progress(calls[c].at) = 3 /\ calls'[c].at = "settle"
          BY <3>2 DEF RouteEvents, Progress, AfterEvent, At
        <4>2. Ordered(n, 3 + 1)'
          BY <1>10, <2>1, <4>1
        <4>3. Progress(calls'[c].at) = 3 + 1
          BY <4>1 DEF Progress
        <4> QED
          BY <1>7, <4>2, <4>3 DEF Ordered
      <3> QED
        BY <1>14, <3>1, <3>2
    <2> QED
      BY <1>2, <1>9, <2>1, <2>2, <2>3, TurnKeeps
  <1> QED
    BY <1>12, <1>13, <1>14 DEF EventKinds

LEMMA SendKeeps ==
    ASSUME Amounts, InvestigationInv, NEW c \in Callers, Send(c)
    PROVE  AccountInv'
  <1>1. /\ Moves(c) /\ At(c, "send") /\ calls'[c].at = "answer"
        /\ UNCHANGED <<pipe, account, ledger, accepted>>
    BY SendFields
  <1>2. PICK e \in Effect : effects' = Append(effects, e) /\ e.turn = Turn /\ e.before = Spent
    BY SendFields
  <1>3. calls[c].at \in Turning \cup {"construct"} /\ calls[c].at \in Unsent
    BY <1>1 DEF At, Turning, Unsent
  <1>4. /\ Types /\ ~pipe.failed /\ ~accepted
        /\ Role(c) \in Modelled \cap pipe.attempted
        /\ pipe.held \subseteq pipe.attempted
        /\ "generation" \in pipe.attempted
        /\ LedgerOK /\ AllGood /\ Admitted /\ BeforeSend
        /\ Ordered(Turn, Progress(calls[c].at))
    BY <1>3, InTurn
  <1>5. effects \in Seq(Effect) /\ Len(effects) \in Nat
    BY <1>4 DEF Types
  <1>6. /\ Len(effects') = Len(effects) + 1 /\ effects' # <<>>
        /\ \A i \in 1 .. Len(effects) : effects'[i] = effects[i]
        /\ effects'[Len(effects) + 1] = e
    BY <1>2, <1>5
  <1>7. Latest' = e
    BY <1>6 DEF Latest
  <1>8. \A n, k : Ordered(n, k)' <=> Ordered(n, k)
    BY <1>1 DEF Ordered, Logged, Position
  <1>9. \A i \in 1 .. Len(effects) : Good(i)'
    BY <1>4, <1>6, <1>8 DEF BeforeSend, Good
  <1>10. AllGood'
    BY <1>5, <1>6, <1>9 DEF AllGood
  <1>11. /\ account.remaining \in Nat /\ Spent \in Nat /\ Reservation \in Nat
         /\ account.turns = Len(effects) + 1 /\ account.known = Spent
         /\ account.remaining + Reservation + Spent = Budget
    BY <1>4, SpentType DEF Types, Account, Amounts, BeforeSend
  <1>12. Admitted'
    <2>1. Spent + Reservation <= Budget
      BY <1>11
    <2>2. \A i \in 1 .. Len(effects) + 1 : i \in 1 .. Len(effects) \/ i = Len(effects) + 1
      BY <1>5
    <2> QED
      BY <1>2, <1>4, <1>6, <2>1, <2>2 DEF Admitted
  <1>13. AfterSend'
    BY <1>1, <1>2, <1>6, <1>7, <1>11 DEF AfterSend, Turn
  <1>14. Ordered(Turn, Progress(calls[c].at))'
    <2>1. Progress(calls'[c].at) = Progress(calls[c].at) /\ Turn' = Turn
      BY <1>1 DEF Progress, Turn, At
    <2>2. PICK n, k : n = Turn /\ k = Progress(calls[c].at)
      OBVIOUS
    <2>3. Ordered(n, k)'
      BY <1>4, <1>8, <2>2
    <2> QED
      BY <2>1, <2>2, <2>3 DEF Ordered
  <1>15. LedgerOK'
    BY <1>1, <1>4 DEF LedgerOK
  <1>16. calls'[c].at \in Turning /\ calls'[c].at \in Sent /\ calls'[c].at \notin Unsent
    BY <1>1 DEF Turning, Unsent, Sent
  <1> QED
    BY <1>1, <1>4, <1>10, <1>12, <1>13, <1>14, <1>15, <1>16, TurnKeeps

LEMMA AnswerKeeps ==
    ASSUME InvestigationInv, NEW c \in Callers, Answer(c)
    PROVE  AccountInv'
  <1>1. /\ Moves(c) /\ Aside /\ At(c, "answer") /\ calls'[c].at = "completed"
        /\ UNCHANGED <<pipe, accepted>>
    BY AnswerFields
  <1>2. calls[c].at \in Turning \cup {"construct"} /\ calls[c].at \in Sent
    BY <1>1 DEF At, Turning, Sent
  <1>3. /\ AccountInv /\ ~pipe.failed /\ ~accepted
        /\ Role(c) \in Modelled \cap pipe.attempted
        /\ pipe.held \subseteq pipe.attempted
        /\ "generation" \in pipe.attempted
        /\ AfterSend /\ Ordered(Turn, Progress(calls[c].at))
    BY <1>2, InTurn
  <1>4. /\ LedgerOK' /\ AllGood' /\ Admitted' /\ AfterSend'
        /\ Turn' = Turn
        /\ \A n, k : Ordered(n, k)' <=> Ordered(n, k)
    BY <1>1, <1>3, AsideFacts
  <1>5. Ordered(Turn, Progress(calls[c].at))'
    <2>1. Progress(calls'[c].at) = Progress(calls[c].at)
      BY <1>1 DEF Progress, At
    <2>2. PICK n, k : n = Turn /\ k = Progress(calls[c].at)
      OBVIOUS
    <2>3. Ordered(n, k)'
      BY <1>3, <1>4, <2>2
    <2> QED
      BY <1>4, <2>1, <2>2, <2>3 DEF Ordered
  <1>6. calls'[c].at \in Turning /\ calls'[c].at \in Sent /\ calls'[c].at \notin Unsent
    BY <1>1 DEF Turning, Unsent, Sent
  <1> QED
    BY <1>1, <1>3, <1>4, <1>5, <1>6, TurnKeeps

LEMMA SettleKeeps ==
    ASSUME Amounts, InvestigationInv, NEW c \in Callers, Moves(c),
           At(c, "settle"), calls'[c].at = "capture", UNCHANGED <<pipe, ledger, effects, accepted>>,
           Latest.known, Latest.ok, ~(Latest.cost > Before), account' = Settled(Latest)
    PROVE  AccountInv'
  <1>1. calls[c].at \in Turning \cup {"construct"} /\ calls[c].at \in Sent
    BY DEF At, Turning, Sent
  <1>2. /\ Types /\ ~pipe.failed /\ ~accepted
        /\ Role(c) \in Modelled \cap pipe.attempted
        /\ pipe.held \subseteq pipe.attempted
        /\ "generation" \in pipe.attempted
        /\ LedgerOK /\ AllGood /\ Admitted /\ AfterSend
        /\ Ordered(Turn, Progress(calls[c].at))
    BY <1>1, InTurn
  <1>3. effects # <<>> /\ Latest \in Effect /\ Len(effects) \in Nat \ {0}
    BY SettleHasEffect
  <1>4. \A n, k : Ordered(n, k)' <=> Ordered(n, k)
    BY DEF Ordered, Logged, Position
  <1>5. Spent' = Spent /\ \A i : Good(i)' <=> Good(i)
    BY <1>4 DEF Spent, Latest, Good
  <1>6. LedgerOK' /\ AllGood' /\ Admitted'
    BY <1>2, <1>5 DEF LedgerOK, AllGood, Admitted
  <1>7. /\ account'.inFlight = FALSE /\ account'.usageKnown = TRUE
        /\ account'.turns = account.turns
        /\ account'.known = account.known + Latest.cost
        /\ account'.remaining = Remaining(Latest.cost)
    <2>1. account \in Account
      BY <1>2 DEF Types
    <2>2. account' = [account EXCEPT !.known = account.known + Latest.cost,
                        !.remaining = Remaining(Latest.cost), !.inFlight = FALSE,
                        !.usageKnown = TRUE, !.frozen = ~Latest.ok \/ Latest.cost > Before]
      BY DEF Settled
    <2> HIDE DEF Remaining, Before, Latest
    <2> QED
      BY <2>1, <2>2 DEF Account
  <1>8. /\ account.remaining \in Nat /\ Latest.cost \in Nat /\ Latest.before \in Nat
        /\ Reservation \in Nat
        /\ Latest.cost <= account.remaining + Reservation
        /\ account.known = Latest.before
        /\ account.remaining + Reservation + Latest.before = Budget
    <2>1. account.remaining \in Nat /\ Reservation \in Nat
      BY <1>2 DEF Types, Account, Amounts
    <2>2. Latest.cost \in Nat /\ Latest.before \in Nat
      BY <1>3 DEF Effect, Amounts
    <2>3. Latest.cost <= account.remaining + Reservation
      BY <2>1, <2>2 DEF Before
    <2> QED
      BY <1>2, <2>1, <2>2, <2>3 DEF AfterSend
  <1>9. Spent = Latest.before + Latest.cost
    BY <1>3 DEF Spent
  <1>10. account'.known = Spent /\ account'.remaining + Spent = Budget
    <2>1. Remaining(Latest.cost) = account.remaining + Reservation - Latest.cost
      BY <1>8 DEF Remaining, Before
    <2> QED
      BY <1>7, <1>8, <1>9, <2>1
  <1>11. Good(Len(effects))
    <2>1. Ordered(Turn, 4)
      <3>1. Progress(calls[c].at) = 4
        BY DEF Progress, At
      <3> QED
        BY <1>2, <3>1
    <2>2. Turn = Len(effects) /\ Latest.turn = Len(effects)
      BY <1>2 DEF AfterSend, Turn
    <2> QED
      BY <2>1, <2>2 DEF Good, Latest
  <1>12. \A i \in 1 .. Len(effects) : Good(i)
    BY <1>2, <1>3, <1>11 DEF AllGood
  <1>13. Clean'
    <2>1. account.turns = Len(effects)
      BY <1>2 DEF AfterSend
    <2> QED
      BY <1>5, <1>7, <1>10, <1>12, <2>1 DEF Clean
  <1>14. calls'[c].at \in Turning /\ calls'[c].at \notin Unsent \cup Sent
    BY DEF Turning, Unsent, Sent
  <1> QED
    BY <1>2, <1>6, <1>13, <1>14, TurnKeeps

\* A caller that begins, moves between places at rest, ends well or closes.
LEMMA RestMoveKeeps ==
    ASSUME InvestigationInv, NEW c \in Callers, Moves(c), Aside,
           calls[c].at \in Resting, calls'[c].at \in Resting, UNCHANGED <<pipe, accepted>>
    PROVE  AccountInv'
  <1>1. /\ Resting \subseteq Turning
        /\ Resting \cap (Unsent \cup Sent \cup {"construct", "task"}) = {}
    BY DEF Resting, Turning, Unsent, Sent
  <1>2. /\ ~pipe.failed /\ pipe.held \subseteq pipe.attempted
    BY <1>1, InTurn
  <1>3. Others(c) /\ calls'[c].role = calls[c].role
    BY DEF Moves, Role
  <1> QED
    BY <1>1, <1>2, <1>3, AsideKeeps DEF Others

LEMMA BeginKeeps ==
    ASSUME InvestigationInv, NEW c \in Callers, NEW role \in Roles, Begin(c, role)
    PROVE  AccountInv'
  <1>1. pipe.held \subseteq pipe.attempted
    BY DEF InvestigationInv, AccountInv, AttemptsOK
  <1>2. Aside /\ UNCHANGED <<pipe, accepted>>
    BY BeginFields
  <1>3. CASE UNCHANGED <<calls, active>>
    BY <1>1, <1>2, <1>3, AsideKeeps
  <1>4. CASE ~UNCHANGED <<calls, active>>
    <2>1. /\ At(c, "idle") /\ Others(c)
          /\ calls'[c].at \in {"start", "view", "task"}
          /\ pipe.failed => calls'[c].role = "readback"
          /\ calls'[c].at = "task" => calls'[c].role \in Tasks
      BY <1>4, BeginFields
    <2>2. /\ "idle" \notin Unsent \cup Sent
          /\ {"start", "view", "task"} \cap (Turning \cup Unsent \cup Sent \cup {"construct"}) = {}
      BY DEF Turning, Unsent, Sent
    <2> QED
      BY <1>1, <1>2, <2>1, <2>2, AsideKeeps DEF Others, At
  <1> QED
    BY <1>3, <1>4

LEMMA EndKeeps ==
    ASSUME InvestigationInv, NEW c \in Callers, Ends(c), Aside, PipeKept, UNCHANGED accepted,
           calls[c].at \notin Unsent \cup Sent,
           pipe'.held = pipe.held \/ (At(c, "finish") /\ pipe'.held = pipe.held \cup {Role(c)})
    PROVE  AccountInv'
  <1>1. pipe.held \subseteq pipe.attempted
    BY DEF InvestigationInv, AccountInv, AttemptsOK
  <1>2. At(c, "finish") => Role(c) \in pipe.attempted
    BY InTurn DEF At, Turning
  <1>3. pipe'.held \subseteq pipe'.attempted
    BY <1>1, <1>2 DEF PipeKept
  <1>4. Others(c) /\ calls'[c].at = "idle" /\ ~(Working(c)')
    BY DEF Ends, At, Working
  <1>5. "idle" \notin Turning \cup Unsent \cup Sent \cup {"construct"}
    BY DEF Turning, Unsent, Sent
  <1> QED
    BY <1>3, <1>4, <1>5, AsideKeeps DEF Others, PipeKept

LEMMA CloserKeeps ==
    ASSUME InvestigationInv, NEW c \in Callers,
           Close(c) \/ Drain(c) \/ DrainEnds(c) \/ CloseController(c) \/ CloseAcquisition(c)
    PROVE  AccountInv'
  <1>1. /\ Aside /\ UNCHANGED accepted
        /\ ~Working(c) /\ ~(Working(c)')
        /\ Others(c)
        /\ pipe'.failed = pipe.failed /\ pipe'.attempted = pipe.attempted
        /\ pipe'.held \subseteq pipe.held
    BY CloserFields
  <1>2. pipe'.held \subseteq pipe'.attempted
    BY <1>1 DEF InvestigationInv, AccountInv, AttemptsOK
  <1>3. calls[c].at \in {"idle"} \cup Closing /\ calls'[c].at \in {"idle"} \cup Closing
    BY <1>1 DEF Working
  <1>4. ({"idle"} \cup Closing) \cap (Turning \cup Unsent \cup Sent \cup {"construct", "task"}) = {}
    BY DEF Closing, Turning, Unsent, Sent
  <1> QED
    BY <1>1, <1>2, <1>3, <1>4, AsideKeeps DEF Others

LEMMA ControlKeeps ==
    ASSUME InvestigationInv, RootEnds \/ RunCloses \/ UNCHANGED vars
    PROVE  InvestigationInv'
  <1>1. Types' /\ Aside /\ UNCHANGED <<pipe, active, calls, source, controller, accepted>>
    BY ControlFields
  <1>2. pipe.held \subseteq pipe.attempted
    BY DEF InvestigationInv, AccountInv, AttemptsOK
  <1>3. AccountInv'
    BY <1>1, <1>2, AsideKeeps
  <1>4. CloseInv'
    BY <1>1 DEF InvestigationInv, CloseInv, Working, Releasing
  <1> QED
    BY <1>3, <1>4 DEF InvestigationInv

\* A task that passed its checks: it is new to the pipeline, so nothing was
\* accepted yet, and no turn is under way.
LEMMA TaskKeeps ==
    ASSUME Amounts, InvestigationInv, NEW c \in Callers, Task(c), Moves(c), Aside, At(c, "task"),
           UNCHANGED accepted, pipe'.failed = pipe.failed, pipe'.held = pipe.held,
           \/ calls'[c].at \in {"acquire", "prepare", "view"} /\ pipe'.attempted = pipe.attempted
           \/ /\ Role(c) = "generation" /\ calls'[c].at = "construct"
              /\ "generation" \notin pipe.attempted
              /\ pipe'.attempted = pipe.attempted \cup {"generation"}
           \/ /\ Role(c) = "verification" /\ calls'[c].at = "reserve"
              /\ "verification" \notin pipe.attempted /\ "generation" \in pipe.held
              /\ pipe'.attempted = pipe.attempted \cup {"verification"}
    PROVE  AccountInv'
  <1>1. /\ CloseInv /\ AccountInv /\ Working(c) /\ Others(c) /\ calls'[c].role = Role(c)
        /\ AttemptsOK /\ FailedOK /\ TurnsOK /\ AcceptedOK
    BY DEF InvestigationInv, AccountInv, Moves, Role
  <1>2. \A d \in Callers \ {c} : /\ calls'[d] = calls[d] /\ ~Working(d)
                                 /\ calls[d].at \notin Turning \cup {"construct", "task"}
    BY <1>1, OthersRest
  <1>3. /\ Role(c) \in Tasks /\ Role(c) # "readback"
        /\ pipe.held \subseteq pipe.attempted
    BY <1>1 DEF AttemptsOK, Tasks
  <1>4. ~pipe.failed
    BY <1>1, <1>3 DEF FailedOK
  <1>5. \A d \in Callers : calls[d].at \notin Turning \cup {"construct"}
    BY <1>2 DEF At, Turning, Unsent, Sent
  <1>6. Clean
    BY <1>1, <1>4, <1>5 DEF TurnsOK, Turning
  <1>7. LedgerOK' /\ AllGood' /\ Admitted' /\ Clean'
    BY <1>1, <1>6, AsideFacts
  <1>8. CASE /\ calls'[c].at \in {"acquire", "prepare", "view"}
             /\ pipe'.attempted = pipe.attempted
    <2>1. {"acquire", "prepare", "view"} \cap (Turning \cup Unsent \cup Sent \cup {"construct", "task"}) = {}
      BY DEF Turning, Unsent, Sent
    <2>2. calls[c].at \notin Unsent \cup Sent
      BY <1>5 DEF Turning
    <2> QED
      BY <1>1, <1>3, <1>4, <1>8, <2>1, <2>2, AsideKeeps DEF Others
  <1>9. CASE /\ Role(c) = "verification" /\ calls'[c].at = "reserve"
             /\ "verification" \notin pipe.attempted /\ "generation" \in pipe.held
             /\ pipe'.attempted = pipe.attempted \cup {"verification"}
    <2>1. ~accepted
      BY <1>1, <1>9 DEF AcceptedOK, Modelled
    <2>2. /\ Role(c) \in Modelled \cap pipe'.attempted
          /\ pipe'.held \subseteq pipe'.attempted
          /\ "generation" \in pipe'.attempted
      BY <1>3, <1>9 DEF Modelled
    <2>3. calls'[c].at \in Turning /\ calls'[c].at \notin Unsent \cup Sent
      BY <1>9 DEF Turning, Unsent, Sent
    <2> QED
      BY <1>7, <2>1, <2>2, <2>3, TurnKeeps
  <1>10. CASE /\ Role(c) = "generation" /\ calls'[c].at = "construct"
              /\ "generation" \notin pipe.attempted
              /\ pipe'.attempted = pipe.attempted \cup {"generation"}
    <2>1. ~accepted /\ effects = <<>> /\ effects' = <<>>
      BY <1>1, <1>10 DEF AcceptedOK, AttemptsOK, Modelled, Aside
    <2>2. \A d \in Callers \ {c} : ~(Working(d)') /\ calls'[d].at \notin Turning \cup {"construct", "task"}
      BY <1>2 DEF Working
    <2>3. "construct" \notin Turning \cup {"task"}
      BY DEF Turning, Unsent, Sent
    <2>4. AttemptsOK'
      <3>1. Role(c) \in Modelled \cap pipe'.attempted
        BY <1>10 DEF Modelled
      <3>2. \A d \in Callers :
               /\ calls'[d].at \in Turning \cup {"construct"} => calls'[d].role \in Modelled \cap pipe'.attempted
               /\ calls'[d].at # "task"
        BY <1>1, <1>10, <2>2, <2>3, <3>1
      <3> QED
        BY <1>3, <1>10, <2>1, <3>2 DEF AttemptsOK, At, Role
    <2>5. FailedOK'
      BY <1>4 DEF FailedOK
    <2>6. TurnsOK'
      <3>1. \A d \in Callers : calls'[d].at \notin Unsent \cup Sent
        BY <1>10, <2>2, <2>3 DEF Turning
      <3> QED
        BY <1>7, <3>1 DEF TurnsOK
    <2>7. AcceptedOK'
      BY <2>1 DEF AcceptedOK
    <2> QED
      BY <1>7, <2>4, <2>5, <2>6, <2>7 DEF AccountInv
  <1> QED
    BY <1>8, <1>9, <1>10

\* A view that succeeds: both tasks ended, so the account is between turns.
LEMMA ViewKeeps ==
    ASSUME InvestigationInv, NEW c \in Callers, Ends(c), At(c, "view"), Aside,
           UNCHANGED pipe, accepted', ~pipe.failed, pipe.held = Modelled
    PROVE  AccountInv'
  <1>1. /\ CloseInv /\ AccountInv /\ Working(c) /\ Others(c) /\ calls'[c].at = "idle"
        /\ AttemptsOK /\ TurnsOK
    BY DEF InvestigationInv, AccountInv, Ends, At
  <1>2. \A d \in Callers \ {c} : /\ calls'[d] = calls[d] /\ ~Working(d)
                                 /\ calls[d].at \notin Turning \cup {"construct", "task"}
    BY <1>1, OthersRest
  <1>3. /\ \A d \in Callers : calls[d].at \notin Turning \cup {"construct", "task"}
        /\ \A d \in Callers : calls'[d].at \notin Turning \cup {"construct", "task"}
    BY <1>1, <1>2 DEF At, Turning, Unsent, Sent
  <1>4. Clean
    BY <1>1, <1>3 DEF TurnsOK, Turning
  <1>5. LedgerOK' /\ AllGood' /\ Admitted' /\ Clean'
    BY <1>1, <1>4, AsideFacts
  <1>6. pipe.attempted = Modelled
    BY <1>1 DEF AttemptsOK, CloseInv, Types, Pipe
  <1>7. AttemptsOK'
    BY <1>1, <1>3, <1>6 DEF AttemptsOK, At, Modelled
  <1>8. FailedOK'
    BY DEF FailedOK
  <1>9. TurnsOK'
    BY <1>3, <1>5 DEF TurnsOK, Turning
  <1>10. AcceptedOK'
    BY <1>3, <1>5, <1>6 DEF AcceptedOK, Clean, Good
  <1> QED
    BY <1>5, <1>7, <1>8, <1>9, <1>10 DEF AccountInv

----------------------------------------------------------------------------
(* The invariant. *)

LEMMA InitEstablishes ==
    ASSUME Amounts, Init
    PROVE  InvestigationInv
  <1>1. NoAccount \in Account
    BY DEF NoAccount, Account, Amounts
  <1>2. pipe \in Pipe
    BY DEF Init, Pipe
  <1>3. ledger \in Seq(EventKinds \X Nat) /\ effects \in Seq(Effect)
    BY DEF Init
  <1>4. calls \in [Callers -> [at : Places, role : Roles]]
    BY DEF Init, Places, Roles
  <1>5. controller \in [status : {"none", "live", "failed", "closed"}, tools : SUBSET Nat]
    BY DEF Init
  <1>6. journal \in [done : SUBSET Tasks, status : {"active", "succeeded", "failed"}]
    BY DEF Init
  <1>7. Types
    BY <1>1, <1>2, <1>3, <1>4, <1>5, <1>6 DEF Init, Types
  <1>8. \A c \in Callers : calls[c].at = "idle"
    BY DEF Init
  <1>9. CloseInv
    BY <1>7, <1>8 DEF Init, CloseInv, Working, Releasing, Closing
  <1>10. /\ effects = <<>> /\ Len(effects) = 0 /\ ledger = <<>> /\ Len(ledger) = 0
         /\ account = NoAccount /\ ~accepted /\ Spent = 0
         /\ pipe.held = {} /\ pipe.attempted = {} /\ ~pipe.failed
    BY DEF Init, Spent
  <1>11. LedgerOK /\ AllGood /\ Admitted
    BY <1>10 DEF LedgerOK, AllGood, Admitted
  <1>12. AttemptsOK /\ FailedOK /\ AcceptedOK
    BY <1>8, <1>10 DEF AttemptsOK, FailedOK, AcceptedOK, At, Turning, Unsent, Sent
  <1>13. TurnsOK
    <2>1. Clean
      BY <1>10 DEF Clean, NoAccount, Amounts
    <2> QED
      BY <1>8, <2>1 DEF TurnsOK, Unsent, Sent
  <1> QED
    BY <1>9, <1>11, <1>12, <1>13 DEF InvestigationInv, AccountInv

\* The operations of a turn, and those around it.
LEMMA TurnPreserves ==
    ASSUME Amounts, InvestigationInv, NEW c \in Callers,
           \/ Construct(c) \/ Reserve(c) \/ Record(c) \/ Send(c) \/ Answer(c) \/ Settle(c)
           \/ Capture(c) \/ Decide(c) \/ ReadTool(c)
    PROVE  InvestigationInv'
  <1>1. CloseInv
    BY DEF InvestigationInv
  <1>2. CASE Construct(c)
    <2>1. Types' /\ Moves(c)
      BY <1>2, ConstructFields
    <2> QED
      BY <1>1, <1>2, <2>1, MovesKeepClose, ConstructKeeps DEF InvestigationInv
  <1>3. CASE Reserve(c)
    <2>1. Types' /\ (Moves(c) \/ Ends(c))
      BY <1>3, ReserveFields
    <2>2. CloseInv'
      BY <1>1, <2>1, MovesKeepClose
    <2>3. AccountInv'
      BY <1>3, ReserveFields, FailedKeeps, ReserveKeeps
    <2> QED
      BY <2>2, <2>3 DEF InvestigationInv
  <1>4. CASE Record(c)
    <2>1. Types' /\ (Moves(c) \/ Ends(c))
      BY <1>4, RecordFields
    <2>2. CloseInv'
      BY <1>1, <2>1, MovesKeepClose
    <2>3. AccountInv'
      BY <1>4, RecordFields, FailedKeeps, RecordKeeps
    <2> QED
      BY <2>2, <2>3 DEF InvestigationInv
  <1>5. CASE Send(c)
    <2>1. Types' /\ Moves(c)
      BY <1>5, SendFields
    <2> QED
      BY <1>1, <1>5, <2>1, MovesKeepClose, SendKeeps DEF InvestigationInv
  <1>6. CASE Answer(c)
    <2>1. Types' /\ Moves(c)
      BY <1>6, AnswerFields
    <2> QED
      BY <1>1, <1>6, <2>1, MovesKeepClose, AnswerKeeps DEF InvestigationInv
  <1>7. CASE Settle(c)
    <2>1. Types' /\ (Moves(c) \/ Ends(c))
      BY <1>7, SettleFields
    <2>2. CloseInv'
      BY <1>1, <2>1, MovesKeepClose
    <2>3. AccountInv'
      BY <1>7, SettleFields, FailedKeeps, SettleKeeps
    <2> QED
      BY <2>2, <2>3 DEF InvestigationInv
  <1>8. CASE Capture(c) \/ ReadTool(c)
    <2>1. Types' /\ Moves(c)
      BY <1>8, RestMoveFields
    <2>2. CloseInv'
      BY <1>1, <2>1, MovesKeepClose
    <2>3. AccountInv'
      BY <1>8, RestMoveFields, RestMoveKeeps
    <2> QED
      BY <2>2, <2>3 DEF InvestigationInv
  <1>9. CASE Decide(c)
    <2>1. Types' /\ (Moves(c) \/ Ends(c))
      BY <1>9, DecideFields
    <2>2. CloseInv'
      BY <1>1, <2>1, MovesKeepClose
    <2>3. AccountInv'
      BY <1>9, DecideFields, FailedKeeps, RestMoveKeeps
    <2> QED
      BY <2>2, <2>3 DEF InvestigationInv
  <1> QED
    BY <1>2, <1>3, <1>4, <1>5, <1>6, <1>7, <1>8, <1>9

LEMMA CallPreserves ==
    ASSUME Amounts, InvestigationInv, NEW c \in Callers,
           \/ StartRun(c) \/ Task(c) \/ Acquire(c) \/ Prepare(c) \/ Finish(c) \/ View(c)
           \/ Interrupted(c) \/ Faulted(c) \/ InDoubt(c)
    PROVE  InvestigationInv'
  <1>1. CloseInv
    BY DEF InvestigationInv
  <1>2. CASE StartRun(c) \/ Acquire(c) \/ Prepare(c) \/ Finish(c)
    <2>1. /\ Types' /\ Ends(c) /\ Aside /\ PipeKept
          /\ UNCHANGED accepted
          /\ pipe'.held = pipe.held \/ (At(c, "finish") /\ pipe'.held = pipe.held \cup {Role(c)})
      BY <1>2, EndFields
    <2>2. calls[c].at \in {"start", "acquire", "prepare", "finish"}
      BY <1>2 DEF StartRun, Acquire, Prepare, Finish, At
    <2>3. calls[c].at \notin Unsent \cup Sent
      BY <2>2 DEF Unsent, Sent
    <2>4. CloseInv' /\ AccountInv'
      BY <1>1, <2>1, <2>3, MovesKeepClose, EndKeeps
    <2> QED
      BY <2>4 DEF InvestigationInv
  <1>3. CASE Task(c)
    <2>1. Types' /\ (Moves(c) \/ Ends(c))
      BY <1>3, TaskFields
    <2>2. CloseInv'
      BY <1>1, <2>1, MovesKeepClose
    <2>3. AccountInv'
      BY <1>3, TaskFields, FailedKeeps, TaskKeeps
    <2> QED
      BY <2>2, <2>3 DEF InvestigationInv
  <1>4. CASE View(c)
    <2>1. Types' /\ Ends(c)
      BY <1>4, ViewFields
    <2>2. CloseInv'
      BY <1>1, <2>1, MovesKeepClose
    <2>3. AccountInv'
      BY <1>4, ViewFields, FailedKeeps, ViewKeeps
    <2> QED
      BY <2>2, <2>3 DEF InvestigationInv
  <1>5. CASE Interrupted(c) \/ Faulted(c) \/ InDoubt(c)
    <2>1. Types' /\ FailedStep(c) /\ Ends(c)
      BY <1>5, DisturbedFields
    <2> QED
      BY <1>1, <2>1, MovesKeepClose, FailedKeeps DEF InvestigationInv
  <1> QED
    BY <1>2, <1>3, <1>4, <1>5

\* Every step keeps the invariant.
LEMMA StepPreserves ==
    ASSUME Amounts, InvestigationInv, [Next]_vars
    PROVE  InvestigationInv'
  <1>1. CASE RootEnds \/ RunCloses \/ UNCHANGED vars
    BY <1>1, ControlKeeps
  <1>2. ASSUME NEW c \in Callers, NEW role \in Roles, Begin(c, role)
        PROVE  InvestigationInv'
    BY <1>2, BeginKeepsClose, BeginKeeps DEF InvestigationInv
  <1>3. ASSUME NEW c \in Callers,
               Close(c) \/ Drain(c) \/ DrainEnds(c) \/ CloseController(c) \/ CloseAcquisition(c)
        PROVE  InvestigationInv'
    BY <1>3, CloserKeepsClose, CloserKeeps DEF InvestigationInv
  <1>4. ASSUME NEW c \in Callers, Step(c) \/ Faulted(c) \/ InDoubt(c)
        PROVE  InvestigationInv'
    BY <1>3, <1>4, TurnPreserves, CallPreserves DEF Step
  <1> QED
    BY <1>1, <1>2, <1>3, <1>4 DEF Next

(***************************************************************************)
(* Close and account, for any set of callers, any turn, tool and cost      *)
(* limits and any number of faults.                                        *)
(***************************************************************************)
THEOREM InvestigationInvariant ==
    ASSUME Amounts
    PROVE  Init /\ [][Next]_vars => []InvestigationInv
  <1>1. Init => InvestigationInv
    BY InitEstablishes
  <1>2. InvestigationInv /\ [Next]_vars => InvestigationInv'
    BY StepPreserves
  <1> QED
    BY <1>1, <1>2, PTL

(***************************************************************************)
(* Close takes source, tools and captures from no operation that uses them *)
(* (Close and begin, handlers/model/investigation_pipeline.go), however    *)
(* many closers there are and whichever of them give up.                   *)
(***************************************************************************)
THEOREM InvestigationReleasedAfterUse ==
    ASSUME Amounts
    PROVE  Init /\ [][Next]_vars => []ReleasedAfterUse
  <1>1. InvestigationInv => ReleasedAfterUse
    <2>1. SUFFICES ASSUME InvestigationInv, NEW c \in Callers, Working(c)
                   PROVE  /\ ~pipe.closed /\ source # "closed"
                          /\ controller.status # "closed" /\ active = {c}
      BY DEF ReleasedAfterUse
    <2> QED
      BY <2>1 DEF InvestigationInv, CloseInv, Releasing
  <1> QED
    BY <1>1, InvestigationInvariant, PTL

(***************************************************************************)
(* Only the last model call can have failed, be of unknown usage or lack   *)
(* records: every doubt, in a turn, its events or its captures, fails the  *)
(* pipeline, and a failed pipeline starts no task.                         *)
(***************************************************************************)
THEOREM InvestigationStopsAfterDoubt ==
    ASSUME Amounts
    PROVE  Init /\ [][Next]_vars => []StopsAfterDoubt
  <1>1. InvestigationInv => StopsAfterDoubt
    <2>1. SUFFICES ASSUME InvestigationInv, NEW i \in 1 .. Len(effects) - 1
                   PROVE  /\ effects[i].known /\ effects[i].ok
                          /\ effects[i].turn = i
                          /\ InOrder(RouteEvents, i)
      BY DEF StopsAfterDoubt
    <2>2. Len(effects) \in Nat /\ AllGood
      BY <2>1 DEF InvestigationInv, CloseInv, Types, AccountInv
    <2>3. Good(i)
      BY <2>1, <2>2 DEF AllGood
    <2>4. DOMAIN RouteEvents = 1 .. 4 /\ Len(RouteEvents) = 4
      BY DEF RouteEvents
    <2>5. InOrder(RouteEvents, i)
      BY <2>3, <2>4 DEF Good, Ordered, InOrder
    <2> QED
      BY <2>3, <2>5 DEF Good
  <1> QED
    BY <1>1, InvestigationInvariant, PTL

(***************************************************************************)
(* Whenever a model call is made, the reservation of its turn and the real *)
(* cost of all calls before it fit in the cost limit, over generation,     *)
(* verification and their tool turns.                                      *)
(***************************************************************************)
THEOREM InvestigationWithinBudget ==
    ASSUME Amounts
    PROVE  Init /\ [][Next]_vars => []AdmittedWithinBudget
  <1>1. InvestigationInv => AdmittedWithinBudget
    <2>1. SUFFICES ASSUME InvestigationInv PROVE AdmittedWithinBudget
      OBVIOUS
    <2>2. Admitted /\ DOMAIN effects = 1 .. Len(effects)
      BY <2>1 DEF InvestigationInv, CloseInv, Types, AccountInv
    <2> QED
      BY <2>2 DEF Admitted, AdmittedWithinBudget
  <1> QED
    BY <1>1, InvestigationInvariant, PTL

(***************************************************************************)
(* A readback that reported success had accounted for every model call,    *)
(* and it stays so: no call is made after it, although tasks are retried   *)
(* and readbacks repeated.                                                 *)
(***************************************************************************)
THEOREM InvestigationSuccessAccounted ==
    ASSUME Amounts
    PROVE  Init /\ [][Next]_vars => []SuccessIsAccounted
  <1>1. InvestigationInv => SuccessIsAccounted
    <2>1. SUFFICES ASSUME InvestigationInv PROVE SuccessIsAccounted
      OBVIOUS
    <2>2. AcceptedOK /\ DOMAIN effects = 1 .. Len(effects)
      BY <2>1 DEF InvestigationInv, CloseInv, Types, AccountInv
    <2> QED
      BY <2>2 DEF AcceptedOK, SuccessIsAccounted
  <1> QED
    BY <1>1, InvestigationInvariant, PTL
=============================================================================
