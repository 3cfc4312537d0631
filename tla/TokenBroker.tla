----------------------------- MODULE TokenBroker -----------------------------
(***************************************************************************)
(* The GitHub installation token broker (adapters/scm/github,              *)
(* InstallationTokenBroker) with its issuance guard (internal/             *)
(* githubruntime, localIssuanceGuard): operations that share one cached    *)
(* token, borrow it, issue it on demand and bind it to requests, a broker  *)
(* that is closed at any time, and a guard that records every issuance in  *)
(* files nobody deletes, under process stops and power losses.             *)
(*                                                                         *)
(* One authorization generation and one issuance lane.  Each step is one   *)
(* critical section of the broker's mutex or one effect outside it.  A     *)
(* unit of time is longer than the 30 seconds an issuance may take and     *)
(* than the margin a token is given up before its expiry.  The lifetime    *)
(* that ends before Close refuses callers as Close does; they are one.     *)
(***************************************************************************)
EXTENDS Naturals, Sequences, FiniteSets

CONSTANTS Operations,      \* brokerOperation values that may exist at once
          MaxOperations,   \* the limit beginOperation admits
          MaxSequence,     \* attempts of one generation
          Lives,           \* lives of the tokens GitHub issues
          RenewBefore,     \* a token this close to its expiry is renewed
          MinimumGap,      \* between two accepted tokens
          MaxTime,         \* bound on the clock
          Disturbances     \* bound on stops, cancellations and faults

ASSUME TokenBrokerAssumption == Lives \subseteq Nat

VARIABLES broker,      \* the broker's fields under its mutex
          op,          \* the operations and where their goroutines are
          guard,       \* the issuance guard's fields
          files,       \* records in the attempt directory
          durable,     \* the records that survive a power loss
          finalizers,  \* callers about to run finalize
          now,         \* what the broker's clock says
          posts,       \* attempts whose token POST was sent, in order
          budget

vars == <<broker, op, guard, files, durable, finalizers, now, posts, budget>>
disk == <<files, durable>>

Tokens == [attempt : 1..MaxSequence, accepted : 0..MaxTime, expires : 0..MaxTime + 10]

Sampling == {"clock", "received", "accepted", "bind"}
Borrowing ==
    {"clock", "received", "accepted", "decide", "issue", "post", "reserve", "reserving",
     "reserved", "complete", "completing", "return"}
Issuing == Borrowing \ {"clock", "decide"}

(***************************************************************************)
(* at: the last time it sampled or the attempt's start.  say: the          *)
(* disposition it completes with.  err: what issue returned.  token: the   *)
(* grant that issue is building.                                           *)
(***************************************************************************)
Operation ==
    [pc : {"none", "open", "leased", "bind", "binding", "sent"} \cup Borrowing,
     closing : BOOLEAN, cancelled : BOOLEAN, lease : SUBSET Tokens, at : 0..MaxTime,
     say : {"accepted", "rejected", "unknown"}, err : {"none", "unavailable", "fenced"},
     token : SUBSET Tokens]
NoOperation ==
    [pc |-> "none", closing |-> FALSE, cancelled |-> FALSE, lease |-> {}, at |-> 0,
     say |-> "unknown", err |-> "none", token |-> {}]

Records == {<<"owner", 0>>} \cup ({"pending", "accepted", "rejected", "unknown"} \X (1..MaxSequence))
Terminal(s) == {<<state, s>> : state \in {"accepted", "rejected", "unknown"}}

Broker ==
    [process : {"down", "opening", "up"}, closed : BOOLEAN, done : BOOLEAN,
     operations : SUBSET Operations, issuing : BOOLEAN, sampling : SUBSET Operations,
     sequence : 0..MaxSequence, lastClock : 0..MaxTime, lastAccepted : SUBSET (0..MaxTime),
     terminal : BOOLEAN, cached : SUBSET Tokens]
NewBroker ==
    [process |-> "down", closed |-> FALSE, done |-> FALSE, operations |-> {}, issuing |-> FALSE,
     sampling |-> {}, sequence |-> 0, lastClock |-> 0, lastAccepted |-> {}, terminal |-> FALSE,
     cached |-> {}]

Guard == [fenced : BOOLEAN, busy : BOOLEAN, last : 0..MaxSequence, pending : 0..MaxSequence,
          started : 0..MaxTime]
NewGuard == [fenced |-> FALSE, busy |-> FALSE, last |-> 0, pending |-> 0, started |-> 0]

Init ==
    /\ broker = NewBroker
    /\ op = [o \in Operations |-> NoOperation]
    /\ guard = NewGuard
    /\ files = {}
    /\ durable = {}
    /\ finalizers = {}
    /\ now = 0
    /\ posts = <<>>
    /\ budget = Disturbances

At(o, place) == broker.process = "up" /\ op[o].pc = place
Go(o, place) == op' = [op EXCEPT ![o].pc = place]
Ended(o) == broker.closed \/ op[o].closing \/ op[o].cancelled
TheToken(tokens) == CHOOSE t \in tokens : TRUE
Usable(tokens, at) ==
    tokens # {} /\ at >= TheToken(tokens).accepted /\ at < TheToken(tokens).expires
Spend == budget > 0 /\ budget' = budget - 1

\* A finalize that is called before Close does nothing Close's own call would not.
Calling(o) == IF broker.closed THEN finalizers \cup {o} ELSE finalizers

----------------------------------------------------------------------------
(* openLocalIssuanceGuard: the owner record makes a generation single-use. *)

Open ==
    /\ broker.process = "down"
    /\ <<"owner", 0>> \notin files
    /\ files' = files \cup {<<"owner", 0>>}
    /\ broker' = [NewBroker EXCEPT !.process = "opening"]
    /\ UNCHANGED <<op, guard, durable, finalizers, now, posts, budget>>

Opened ==
    /\ broker.process = "opening"
    /\ durable' = files
    /\ broker' = [broker EXCEPT !.process = "up"]
    /\ UNCHANGED <<op, guard, files, finalizers, now, posts, budget>>

----------------------------------------------------------------------------
(* Operations: beginOperation, Close of an operation, a cancelled context. *)

Begin(o) ==
    /\ At(o, "none")
    /\ ~broker.closed /\ ~guard.fenced
    /\ Cardinality(broker.operations) < MaxOperations
    /\ broker' = [broker EXCEPT !.operations = @ \cup {o}]
    /\ Go(o, "open")
    /\ UNCHANGED <<guard, disk, finalizers, now, posts, budget>>

\* An operation in use stays registered until the borrow or release that ends it.
InUse(o) == op[o].lease # {} \/ op[o].pc \in Borrowing
StaysWhileLeased(o) == op[o].lease # {}
Stays(o) == InUse(o)
CloseOperation(o) ==
    /\ broker.process = "up" /\ op[o].pc # "none" /\ ~op[o].closing
    /\ op' = [op EXCEPT ![o] = IF InUse(o) THEN [@ EXCEPT !.closing = TRUE, !.cancelled = TRUE]
                               ELSE NoOperation]
    /\ broker' = [broker EXCEPT !.operations = IF Stays(o) THEN @ ELSE @ \ {o}]
    /\ finalizers' = Calling(o)
    /\ UNCHANGED <<guard, disk, now, posts, budget>>

Cancel(o) ==
    /\ broker.process = "up" /\ op[o].pc # "none" /\ ~op[o].cancelled
    /\ broker.closed \/ budget > 0
    /\ budget' = IF broker.closed THEN budget ELSE budget - 1
    /\ op' = [op EXCEPT ![o].cancelled = TRUE]
    /\ UNCHANGED <<broker, guard, disk, finalizers, now, posts>>

\* What is left of an operation whose borrow or lease has just ended.
After(o) == IF op[o].closing THEN NoOperation
            ELSE [NoOperation EXCEPT !.pc = "open", !.cancelled = op[o].cancelled]
Registered(o) == IF op[o].closing THEN broker.operations \ {o} ELSE broker.operations

----------------------------------------------------------------------------
(* sampleClock: the clock is read outside the mutex, one caller at a time. *)

Refused(o) ==
    \/ /\ op[o].pc = "clock"
       /\ op' = [op EXCEPT ![o] = After(o)]
       /\ finalizers' = Calling(o)
    \/ /\ op[o].pc = "received"
       /\ op' = [op EXCEPT ![o].pc = "complete", ![o].say = "unknown"]
       /\ UNCHANGED finalizers
    \/ /\ op[o].pc = "accepted"
       /\ op' = [op EXCEPT ![o].pc = "return", ![o].err = "fenced"]
       /\ UNCHANGED finalizers
    \/ /\ op[o].pc = "bind"
       /\ op' = [op EXCEPT ![o] = After(o)]
       /\ finalizers' = Calling(o)
RefusedOperations(o) == IF op[o].pc \in {"clock", "bind"} THEN Registered(o) ELSE broker.operations

SampleClock(o) ==
    /\ broker.process = "up" /\ op[o].pc \in Sampling /\ o \notin broker.sampling
    /\ IF broker.closed \/ broker.sampling # {}
       THEN /\ Refused(o)
            /\ broker' = [broker EXCEPT !.operations = RefusedOperations(o)]
       ELSE /\ broker' = [broker EXCEPT !.sampling = {o}]
            /\ UNCHANGED <<op, finalizers>>
    /\ UNCHANGED <<guard, disk, now, posts, budget>>

NextPlace == [clock |-> "decide", received |-> "complete", accepted |-> "return", bind |-> "binding"]
Received(o) ==
    [op[o] EXCEPT !.pc = "complete", !.say = IF now = op[o].at /\ ~op[o].cancelled THEN "accepted" ELSE "unknown"]
Accepted(o) ==
    [op[o] EXCEPT !.pc = "return",
                  !.err = IF now = op[o].at /\ ~op[o].cancelled /\ ~broker.terminal THEN "none" ELSE "fenced",
                  !.token = {[t EXCEPT !.accepted = now] : t \in @}]
Freed == [broker EXCEPT !.sampling = {}]
Sampled(o) ==
    /\ broker.process = "up" /\ op[o].pc \in Sampling /\ o \in broker.sampling
    /\ IF broker.closed \/ now < broker.lastClock
       THEN /\ Refused(o)
            /\ broker' = [Freed EXCEPT !.terminal = @ \/ ~broker.closed,
                                       !.cached = IF broker.closed THEN @ ELSE {},
                                       !.operations = RefusedOperations(o)]
       ELSE /\ op' = [op EXCEPT ![o] = CASE op[o].pc = "received" -> Received(o)
                                         [] op[o].pc = "accepted" -> Accepted(o)
                                         [] OTHER -> [@ EXCEPT !.pc = NextPlace[op[o].pc], !.at = now]]
            /\ broker' = [Freed EXCEPT !.lastClock = now]
            /\ UNCHANGED finalizers
    /\ UNCHANGED <<guard, disk, now, posts, budget>>

----------------------------------------------------------------------------
(* borrow. *)

\* Every other outcome of these checks leaves the operation as it is.
Borrow(o) ==
    /\ At(o, "open")
    /\ ~Ended(o) /\ ~broker.terminal
    /\ Go(o, "clock")
    /\ UNCHANGED <<broker, guard, disk, finalizers, now, posts, budget>>

RenewalDue(at) ==
    ~Usable(broker.cached, at) \/ TheToken(broker.cached).expires - at <= RenewBefore
RenewalAllowed(at) == \A accepted \in broker.lastAccepted : at >= accepted + MinimumGap
MayIssue == ~broker.issuing
Exhausted == broker.sequence >= MaxSequence

\* borrow's return without a lease; its deferred function ends the borrow.
EndBorrow(o, next) ==
    /\ op' = [op EXCEPT ![o] = After(o)]
    /\ broker' = [next EXCEPT !.operations = Registered(o)]
    /\ finalizers' = Calling(o)

Lend(o, tokens, next) ==
    /\ op' = [op EXCEPT ![o] = [NoOperation EXCEPT !.pc = "leased", !.lease = tokens]]
    /\ broker' = next
    /\ finalizers' = Calling(o)

Decide(o) ==
    /\ At(o, "decide")
    /\ LET at == op[o].at
           reuse == Usable(broker.cached, at)
                    /\ (~RenewalDue(at) \/ ~MayIssue \/ ~RenewalAllowed(at))
       IN  IF Ended(o) \/ broker.terminal THEN EndBorrow(o, broker)
           ELSE IF reuse THEN Lend(o, broker.cached, broker)
           ELSE IF ~MayIssue \/ ~RenewalAllowed(at) THEN EndBorrow(o, broker)
           ELSE IF Exhausted
                THEN EndBorrow(o, [broker EXCEPT !.terminal = TRUE, !.cached = {}])
           ELSE /\ Go(o, "issue")
                /\ broker' = [broker EXCEPT !.issuing = TRUE]
                /\ UNCHANGED finalizers
    /\ UNCHANGED <<guard, disk, now, posts, budget>>

\* The rest of borrow, once issue has returned.
Return(o) ==
    /\ At(o, "return")
    /\ LET free == [broker EXCEPT !.issuing = FALSE]
           err == IF Ended(o) /\ op[o].err = "none" THEN "fenced" ELSE op[o].err
       IN  IF err = "unavailable" THEN EndBorrow(o, free)
           ELSE IF err = "fenced" \/ ~Usable(op[o].token, broker.lastClock)
                THEN EndBorrow(o, [free EXCEPT !.terminal = TRUE, !.cached = {}])
           ELSE Lend(o, op[o].token,
                     [free EXCEPT !.cached = op[o].token,
                                  !.lastAccepted = {TheToken(op[o].token).accepted}])
    /\ UNCHANGED <<guard, disk, now, posts, budget>>

----------------------------------------------------------------------------
(* issue: sign, look the installation up, then postInstallationToken.      *)

Fail(o, err) == op' = [op EXCEPT ![o].pc = "return", ![o].err = err]

Issue(o) ==
    /\ At(o, "issue")
    /\ \/ /\ ~Ended(o) /\ ~broker.terminal /\ Go(o, "post")
       \/ Fail(o, "unavailable")
       \/ Fail(o, "fenced")
    /\ UNCHANGED <<broker, guard, disk, finalizers, now, posts, budget>>

Post(o) ==
    /\ At(o, "post")
    /\ IF op[o].cancelled THEN Fail(o, "unavailable") /\ UNCHANGED broker
       ELSE IF broker.closed \/ broker.terminal \/ Exhausted
       THEN Fail(o, "fenced") /\ UNCHANGED broker
       ELSE /\ broker' = [broker EXCEPT !.sequence = @ + 1]
            /\ Go(o, "reserve")
    /\ UNCHANGED <<guard, disk, finalizers, now, posts, budget>>

\* The guard's Reserve: admission, then the record, created exclusively.
Admits(o) ==
    /\ ~guard.fenced /\ ~guard.busy /\ ~op[o].cancelled
    /\ guard.last < MaxSequence /\ broker.sequence = guard.last + 1
    /\ guard.pending = 0 /\ op[o].at >= guard.started
Reserve(o) ==
    /\ At(o, "reserve")
    /\ LET record == <<"pending", broker.sequence>> IN
       IF Admits(o) /\ record \notin files
       THEN /\ guard' = [guard EXCEPT !.busy = TRUE]
            /\ files' = files \cup {record}
            /\ Go(o, "reserving")
       ELSE /\ guard' = [guard EXCEPT !.fenced = TRUE]
            /\ Fail(o, "fenced")
            /\ UNCHANGED files
    /\ UNCHANGED <<broker, durable, finalizers, now, posts, budget>>

SyncPending == durable' = durable \cup {r \in files : r[1] # "accepted"}
SyncRecords == durable' = files
Reserved(o) ==
    /\ At(o, "reserving")
    /\ \/ /\ SyncRecords
          /\ IF op[o].cancelled
             THEN /\ guard' = [guard EXCEPT !.busy = FALSE, !.fenced = TRUE]
                  /\ Fail(o, "fenced")
             ELSE /\ guard' = [guard EXCEPT !.busy = FALSE, !.last = broker.sequence,
                                            !.pending = broker.sequence, !.started = op[o].at]
                  /\ Go(o, "reserved")
          /\ UNCHANGED budget
       \/ /\ Spend
          /\ guard' = [guard EXCEPT !.busy = FALSE, !.fenced = TRUE]
          /\ Fail(o, "fenced")
          /\ UNCHANGED durable
    /\ UNCHANGED <<broker, files, finalizers, now, posts>>

\* The POST and what came back: a token, a refusal or no usable answer.
Send(o) ==
    /\ At(o, "reserved")
    /\ \/ /\ op[o].cancelled
          /\ op' = [op EXCEPT ![o].pc = "complete", ![o].say = "unknown"]
          /\ UNCHANGED posts
       \/ /\ ~op[o].cancelled
          /\ posts' = Append(posts, broker.sequence)
          /\ \/ \E life \in Lives :
                    op' = [op EXCEPT ![o].pc = "received",
                                     ![o].token = {[attempt |-> broker.sequence, accepted |-> op[o].at,
                                                    expires |-> op[o].at + life]}]
             \/ \E say \in {"rejected", "unknown"} :
                    op' = [op EXCEPT ![o].pc = "complete", ![o].say = say]
    /\ UNCHANGED <<broker, guard, disk, finalizers, now, budget>>

\* The guard's Complete.  completeUncertain runs it with a context of its
\* own, which ends five seconds after Close.
Live(o) == IF op[o].say = "unknown" THEN ~broker.closed ELSE ~op[o].cancelled
Complete(o) ==
    /\ At(o, "complete")
    /\ LET record == <<op[o].say, broker.sequence>> IN
       \/ /\ ~guard.fenced /\ ~guard.busy /\ guard.pending = broker.sequence
          /\ Terminal(broker.sequence) \cap files = {}
          /\ Live(o) \/ op[o].say = "unknown"
          /\ guard' = [guard EXCEPT !.busy = TRUE]
          /\ files' = files \cup {record}
          /\ Go(o, "completing")
       \/ /\ guard.fenced \/ guard.busy \/ guard.pending # broker.sequence \/ ~Live(o)
             \/ Terminal(broker.sequence) \cap files # {}
          /\ guard' = [guard EXCEPT !.fenced = TRUE]
          /\ Fail(o, "fenced")
          /\ UNCHANGED files
    /\ UNCHANGED <<broker, durable, finalizers, now, posts, budget>>

Settled(o) == [guard EXCEPT !.busy = FALSE, !.pending = 0, !.fenced = op[o].say # "accepted"]
Completed(o) ==
    /\ At(o, "completing")
    /\ \/ /\ SyncRecords
          /\ IF ~Live(o)
             THEN guard' = [guard EXCEPT !.busy = FALSE, !.fenced = TRUE] /\ Fail(o, "fenced")
             ELSE /\ guard' = Settled(o)
                  /\ IF op[o].say = "accepted" THEN Go(o, "accepted") ELSE Fail(o, "fenced")
          /\ UNCHANGED budget
       \/ /\ Spend
          /\ guard' = [guard EXCEPT !.busy = FALSE, !.fenced = TRUE]
          /\ Fail(o, "fenced")
          /\ UNCHANGED durable
    /\ UNCHANGED <<broker, files, finalizers, now, posts>>

----------------------------------------------------------------------------
(* The lease: bindSourceRequest, the request it carries, release.          *)

Bind(o) ==
    /\ At(o, "leased")
    /\ Go(o, "bind")
    /\ UNCHANGED <<broker, guard, disk, finalizers, now, posts, budget>>

EndLeaseQuietly(o) ==
    /\ op' = [op EXCEPT ![o] = After(o)]
    /\ broker' = [broker EXCEPT !.operations = Registered(o)]
    /\ UNCHANGED finalizers
EndLease(o) ==
    /\ op' = [op EXCEPT ![o] = After(o)]
    /\ broker' = [broker EXCEPT !.operations = Registered(o)]
    /\ finalizers' = Calling(o)

\* The checks before and after the header is set; between them nothing is kept.
Bound(o) ==
    /\ At(o, "binding")
    /\ IF Ended(o) \/ broker.terminal \/ ~Usable(op[o].lease, op[o].at)
       THEN EndLease(o)
       ELSE Go(o, "sent") /\ UNCHANGED <<broker, finalizers>>
    /\ UNCHANGED <<guard, disk, now, posts, budget>>

Release(o) ==
    /\ broker.process = "up" /\ op[o].pc \in {"leased", "sent"}
    /\ EndLease(o)
    /\ UNCHANGED <<guard, disk, now, posts, budget>>

----------------------------------------------------------------------------
(* Close and finalize: the last operation to end cleans up.                *)

Close ==
    /\ broker.process = "up" /\ ~broker.closed
    /\ broker' = [broker EXCEPT !.closed = TRUE, !.cached = {}]
    /\ finalizers' = finalizers \cup {"close"}
    /\ UNCHANGED <<op, guard, disk, now, posts, budget>>

Quiescent == broker.operations = {} /\ ~broker.issuing
Finalize(c) ==
    /\ broker.process = "up" /\ c \in finalizers
    /\ finalizers' = finalizers \ {c}
    /\ broker' = [broker EXCEPT !.done = @ \/ (broker.closed /\ Quiescent)]
    /\ UNCHANGED <<op, guard, disk, now, posts, budget>>

----------------------------------------------------------------------------
(* The clock, the process and the machine.                                 *)

TimePasses ==
    /\ now < MaxTime
    /\ now' = now + 1
    /\ UNCHANGED <<broker, op, guard, disk, finalizers, posts, budget>>

ClockSetBack ==
    /\ Spend
    /\ now > 0
    /\ now' = now - 1
    /\ UNCHANGED <<broker, op, guard, disk, finalizers, posts>>

\* The process ends; when the machine loses power, records may go with it.
Stopped ==
    /\ Spend
    /\ broker.process # "down"
    /\ broker' = NewBroker
    /\ op' = [o \in Operations |-> NoOperation]
    /\ guard' = NewGuard
    /\ finalizers' = {}
    /\ UNCHANGED <<now, posts>>
Stop == Stopped /\ UNCHANGED disk
PowerLoss ==
    /\ Stopped
    /\ \E lost \in SUBSET (files \ durable) : files' = files \ lost
    /\ durable' = files'

Step(o) ==
    \/ SampleClock(o) \/ Sampled(o) \/ Decide(o) \/ Return(o) \/ Issue(o) \/ Post(o)
    \/ Reserve(o) \/ Reserved(o) \/ Send(o) \/ Complete(o) \/ Completed(o) \/ Bound(o)
Next ==
    \/ Open \/ Opened \/ Close \/ TimePasses \/ ClockSetBack \/ Stop \/ PowerLoss
    \/ \E c \in Operations \cup {"close"} : Finalize(c)
    \/ \E o \in Operations :
           Begin(o) \/ CloseOperation(o) \/ Cancel(o) \/ Borrow(o) \/ Bind(o) \/ Release(o) \/ Step(o)

(***************************************************************************)
(* Every step of an operation ends: the requests have time limits and the  *)
(* rest is local.  Its caller releases its lease and closes it.            *)
(***************************************************************************)
Fairness ==
    /\ \A o \in Operations :
           WF_vars(Step(o)) /\ WF_vars(CloseOperation(o)) /\ WF_vars(Release(o))
    /\ \A c \in Operations \cup {"close"} : WF_vars(Finalize(c))
Spec == Init /\ [][Next]_vars /\ Fairness

----------------------------------------------------------------------------
TypeOK ==
    /\ broker \in Broker
    /\ \A o \in broker.sampling : op[o].pc \in Sampling
    /\ op \in [Operations -> Operation]
    /\ guard \in Guard
    /\ durable \subseteq files /\ files \subseteq Records
    /\ finalizers \subseteq Operations \cup {"close"}
    /\ now \in 0..MaxTime
    /\ posts \in Seq(1..MaxSequence)
    /\ budget \in 0..Disturbances

(***************************************************************************)
(* A generation never asks GitHub for a token while an earlier request is  *)
(* unaccounted for: the attempts are numbered 1, 2, 3, ... over all the    *)
(* processes that used the directory, each has its pending record on disk, *)
(* and all but the last one their accepted record (Reserve, Complete and   *)
(* openLocalIssuanceGuard, with stops and power losses between any two     *)
(* steps).  And a token that borrow lends or keeps has its accepted record *)
(* there: no grant is exposed whose issuance a power loss could undo.      *)
(***************************************************************************)
IssuanceRecorded ==
    /\ \A i \in 1..Len(posts) :
           /\ posts[i] = i
           /\ <<"pending", i>> \in durable
           /\ \A j \in 1..i - 1 : <<"accepted", j>> \in durable
    /\ \A t \in broker.cached \cup UNION {op[o].lease : o \in Operations} :
           <<"accepted", t.attempt>> \in durable

(***************************************************************************)
(* The signer and the guard are closed only when nothing uses them any     *)
(* more: finalize, run by whichever of Close, borrow, release and an       *)
(* operation's Close comes last, never overtakes a borrow or a lease.      *)
(***************************************************************************)
CleanupAfterUse ==
    broker.done =>
        /\ ~broker.issuing
        /\ \A o \in Operations : op[o].pc \notin Borrowing /\ op[o].lease = {}

(***************************************************************************)
(* A closed broker is cleaned up in the end, although nothing runs in the  *)
(* background and Close itself returns after five seconds: the last        *)
(* operation to end runs finalize.                                         *)
(***************************************************************************)
CloseCompletes == broker.closed ~> (broker.done \/ ~broker.closed)
=============================================================================
