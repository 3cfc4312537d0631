-------------------------- MODULE TokenBrokerProofs --------------------------
(***************************************************************************)
(* The token broker and its issuance guard, for every number of            *)
(* operations, attempts and lives of a token: an issuance is never asked   *)
(* for while an earlier one is unaccounted for, and nothing is cleaned up  *)
(* that is still in use.                                                   *)
(*                                                                         *)
(* The argument: the issuing flag makes one operation at a time the        *)
(* issuer, so the broker's sequence, the guard and the records move        *)
(* together, in step with where the issuer is.  Between two issuances the  *)
(* guard is fenced for good or every attempt so far was sent and is        *)
(* durably accepted.  The owner record, durable before the first attempt,  *)
(* keeps a second process from starting over.                              *)
(***************************************************************************)
EXTENDS TokenBroker, TLAPS

Token == [attempt : Nat, accepted : Nat, expires : Nat]
Places == {"none", "open", "leased", "bind", "binding", "sent"} \cup Borrowing

OperationType ==
    [pc : Places, closing : BOOLEAN, cancelled : BOOLEAN, lease : SUBSET Token, at : Nat,
     say : {"accepted", "rejected", "unknown"}, err : {"none", "unavailable", "fenced"},
     token : SUBSET Token]
BrokerType ==
    [process : {"down", "opening", "up"}, closed : BOOLEAN, done : BOOLEAN,
     operations : SUBSET Operations, issuing : BOOLEAN, sampling : SUBSET Operations,
     sequence : Nat, lastClock : Nat, lastAccepted : SUBSET Nat,
     terminal : BOOLEAN, cached : SUBSET Token]
GuardType == [fenced : BOOLEAN, busy : BOOLEAN, last : Nat, pending : Nat, started : Nat]

Types ==
    /\ broker \in BrokerType
    /\ op \in [Operations -> OperationType]
    /\ guard \in GuardType
    /\ durable \subseteq files
    /\ now \in Nat
    /\ posts \in Seq(Nat)

----------------------------------------------------------------------------
(* Operations and the broker's lifetime. *)

Membership == broker.operations = {o \in Operations : op[o].pc # "none"}
DoneOK == broker.done => broker.closed /\ broker.operations = {} /\ ~broker.issuing
OneIssuer ==
    /\ \A o \in Operations : op[o].pc \in Issuing => broker.issuing
    /\ \A o, q \in Operations : op[o].pc \in Issuing /\ op[q].pc \in Issuing => o = q

\* A process that has not opened the guard has done nothing yet.
FreshUntilUp ==
    broker.process # "up" =>
        /\ \A o \in Operations : op[o] = NoOperation
        /\ guard = NewGuard
        /\ broker = [NewBroker EXCEPT !.process = broker.process]

Owner == <<"owner", 0>>
OwnedBeforeUse ==
    /\ broker.process # "down" => Owner \in files
    /\ broker.process = "up" => Owner \in durable
    /\ Owner \notin files \/ broker.process = "opening" => posts = <<>>

----------------------------------------------------------------------------
(* The attempts: sent is the sequence of POSTs, kept the durable records.  *)

InFlight == {"reserve", "reserving", "reserved", "received", "complete", "completing"}

Kept(kept, tokens) == \A t \in tokens : <<"accepted", t.attempt>> \in kept

\* Attempts 1 .. s were all sent and are all accepted.
SettledTo(s, sent, kept) == Len(sent) = s /\ \A j \in 1 .. s : <<"accepted", j>> \in kept

\* Between two issuances.
AtRest(seq, grd, sent, kept) ==
    grd.pending = 0 /\ ~grd.busy /\ seq = grd.last /\ SettledTo(grd.last, sent, kept)

\* Attempt seq is reserved and not yet completed.
UnderWay(seq, grd, sent, kept) ==
    /\ ~grd.fenced /\ grd.pending = seq /\ grd.last = seq /\ seq > 0
    /\ <<"pending", seq>> \in kept
    /\ Len(sent) \in {seq - 1, seq}
    /\ \A j \in 1 .. seq - 1 : <<"accepted", j>> \in kept

OperationIs(x, seq, grd, sent, kept) ==
    /\ x.pc = "none" => x.lease = {}
    /\ Kept(kept, x.lease)
    /\ x.pc = "reserve" /\ ~grd.fenced =>
           /\ grd.pending = 0 /\ ~grd.busy /\ seq = grd.last + 1
           /\ SettledTo(grd.last, sent, kept)
    /\ x.pc = "reserving" =>
           /\ ~grd.fenced /\ grd.pending = 0 /\ seq = grd.last + 1
           /\ SettledTo(grd.last, sent, kept)
    /\ x.pc \in {"reserved", "received", "complete", "completing"} => UnderWay(seq, grd, sent, kept)
    /\ x.pc = "reserved" => Len(sent) = seq - 1
    /\ x.pc = "received" => Len(sent) = seq
    /\ x.pc \in {"complete", "completing"} /\ x.say # "unknown" => Len(sent) = seq
    /\ x.pc = "received" \/ (x.pc \in {"complete", "completing"} /\ x.say = "accepted") =>
           \A t \in x.token : t.attempt = seq
    /\ x.pc = "accepted" \/ (x.pc = "return" /\ x.err = "none") => Kept(kept, x.token)

OperationsOK ==
    \A o \in Operations :
        /\ OperationIs(op[o], broker.sequence, guard, posts, durable)
        /\ op[o].pc = "reserving" => <<"pending", broker.sequence>> \in files
        /\ op[o].pc = "completing" => <<op[o].say, broker.sequence>> \in files

RestOK ==
    \/ broker.process # "up" \/ guard.fenced
    \/ \E o \in Operations : op[o].pc \in InFlight
    \/ AtRest(broker.sequence, guard, posts, durable)

PostsRecorded ==
    \A i \in 1 .. Len(posts) :
        /\ posts[i] = i
        /\ <<"pending", i>> \in durable
        /\ \A j \in 1 .. i - 1 : <<"accepted", j>> \in durable

BrokerInv ==
    /\ Types
    /\ Membership /\ DoneOK /\ OneIssuer /\ FreshUntilUp /\ OwnedBeforeUse
    /\ OperationsOK /\ RestOK /\ PostsRecorded
    /\ Kept(durable, broker.cached)

----------------------------------------------------------------------------
(* What the predicates depend on. *)

LEMMA PlaceFacts ==
    /\ InFlight \subseteq Issuing /\ Issuing \subseteq Borrowing /\ Borrowing \subseteq Places
    /\ "none" \notin Borrowing
    /\ \A p \in Issuing : p \in InFlight \cup {"issue", "post", "accepted", "return"}
  BY DEF InFlight, Issuing, Borrowing, Places

\* Records are only added.
LEMMA MoreKept ==
    ASSUME NEW x, NEW seq, NEW grd, NEW sent, NEW kept, NEW more, kept \subseteq more,
           OperationIs(x, seq, grd, sent, kept)
    PROVE  OperationIs(x, seq, grd, sent, more)
<1>1. \A tokens : Kept(kept, tokens) => Kept(more, tokens)
  BY DEF Kept
<1>2. \A s : SettledTo(s, sent, kept) => SettledTo(s, sent, more)
  BY DEF SettledTo
<1>3. UnderWay(seq, grd, sent, kept) => UnderWay(seq, grd, sent, more)
  BY DEF UnderWay
<1> QED
  BY <1>1, <1>2, <1>3 DEF OperationIs

\* Only the issuer depends on the sequence, the guard and the POSTs.
LEMMA NotTheIssuer ==
    ASSUME NEW x, x.pc \notin Issuing, NEW kept, Kept(kept, x.lease),
           x.pc = "none" => x.lease = {},
           NEW seq, NEW grd, NEW sent
    PROVE  OperationIs(x, seq, grd, sent, kept)
  BY DEF OperationIs, Issuing, Borrowing

LEMMA IssuerNotInFlight ==
    ASSUME NEW x, x.pc \in Issuing \ InFlight, NEW kept, Kept(kept, x.lease),
           x.pc = "accepted" \/ (x.pc = "return" /\ x.err = "none") => Kept(kept, x.token),
           NEW seq, NEW grd, NEW sent
    PROVE  OperationIs(x, seq, grd, sent, kept)
  BY DEF OperationIs, InFlight, Issuing, Borrowing

----------------------------------------------------------------------------
(* Operation o moves: it becomes y. *)

LEMMA MoveStep ==
    ASSUME BrokerInv, NEW o \in Operations, broker.process = "up",
           NEW y \in OperationType, op' = [op EXCEPT ![o] = y],
           broker' \in BrokerType, broker'.process = "up", ~broker'.done,
           broker'.operations = IF y.pc = "none" THEN broker.operations \ {o}
                                ELSE broker.operations \cup {o},
           y.pc \in Issuing => broker'.issuing /\ (op[o].pc \in Issuing \/ ~broker.issuing),
           broker.issuing => broker'.issuing \/ op[o].pc \in Issuing,
           guard' \in GuardType, posts' \in Seq(Nat), now' \in Nat,
           durable \subseteq durable', durable' \subseteq files', files \subseteq files',
           NEW seq, NEW grd, NEW sent, NEW kept,
           broker'.sequence = seq, guard' = grd, posts' = sent, durable' = kept,
           \/ seq = broker.sequence /\ grd = guard /\ sent = posts
           \/ op[o].pc \in Issuing,
           OperationIs(y, seq, grd, sent, kept),
           y.pc = "reserving" => <<"pending", seq>> \in files',
           y.pc = "completing" => <<y.say, seq>> \in files',
           \/ y.pc \in InFlight \/ grd.fenced \/ AtRest(seq, grd, sent, kept)
           \/ /\ op[o].pc \notin InFlight
              /\ seq = broker.sequence /\ grd = guard /\ sent = posts,
           PostsRecorded', Kept(kept, broker'.cached)
    PROVE  BrokerInv'
<1>1. /\ broker \in BrokerType /\ op \in [Operations -> OperationType]
      /\ \A q \in Operations : OperationIs(op[q], broker.sequence, guard, posts, durable)
  BY DEF BrokerInv, Types, OperationsOK
<1>2. /\ op' \in [Operations -> OperationType] /\ op'[o] = y
      /\ \A q \in Operations : q # o => op'[q] = op[q]
  BY <1>1
<1>3. Types'
  BY <1>2 DEF Types
<1>4. Membership'
  BY <1>2 DEF BrokerInv, Membership
<1>5. DoneOK' /\ FreshUntilUp'
  BY DEF DoneOK, FreshUntilUp
<1>6. OneIssuer'
  <2>1. ASSUME NEW q \in Operations, op'[q].pc \in Issuing
        PROVE  broker'.issuing
    BY <1>2, <2>1 DEF BrokerInv, OneIssuer
  <2>2. ASSUME NEW q \in Operations, NEW r \in Operations,
               op'[q].pc \in Issuing, op'[r].pc \in Issuing
        PROVE  q = r
    BY <1>2, <2>2 DEF BrokerInv, OneIssuer
  <2> QED
    BY <2>1, <2>2 DEF OneIssuer
<1>7. OwnedBeforeUse'
  BY DEF BrokerInv, OwnedBeforeUse
<1>8. ASSUME NEW q \in Operations
      PROVE  /\ OperationIs(op'[q], seq, grd, sent, kept)
             /\ op'[q].pc = "reserving" => <<"pending", seq>> \in files'
             /\ op'[q].pc = "completing" => <<op'[q].say, seq>> \in files'
  <2>1. CASE q = o
    BY <1>2, <2>1
  <2>2. CASE q # o /\ op[q].pc \in Issuing
    <3>1. op[o].pc \notin Issuing /\ op'[q] = op[q]
      BY <1>2, <2>2 DEF BrokerInv, OneIssuer
    <3>2. OperationIs(op[q], seq, grd, sent, kept)
      BY <1>1, <3>1, MoreKept
    <3> QED
      BY <3>1, <3>2 DEF BrokerInv, OperationsOK
  <2>3. CASE q # o /\ op[q].pc \notin Issuing
    <3>1. op'[q] = op[q] /\ op[q].pc # "reserving" /\ op[q].pc # "completing"
      BY <1>2, <2>3 DEF Issuing, Borrowing
    <3>2. Kept(kept, op[q].lease) /\ (op[q].pc = "none" => op[q].lease = {})
      BY <1>1 DEF OperationIs, Kept
    <3>3. OperationIs(op[q], seq, grd, sent, kept)
      BY <2>3, <3>2, NotTheIssuer
    <3> QED
      BY <3>1, <3>3
  <2> QED
    BY <2>1, <2>2, <2>3
<1>9. OperationsOK'
  BY <1>8 DEF OperationsOK
<1>10. RestOK'
  <2>1. CASE y.pc \in InFlight
    BY <1>2, <2>1 DEF RestOK
  <2>2. CASE grd.fenced \/ AtRest(seq, grd, sent, kept)
    BY <2>2 DEF RestOK
  <2>3. CASE /\ op[o].pc \notin InFlight
             /\ seq = broker.sequence /\ grd = guard /\ sent = posts
    <3>1. CASE \E q \in Operations : op[q].pc \in InFlight
      BY <1>2, <2>3, <3>1 DEF RestOK
    <3>2. CASE guard.fenced
      BY <2>3, <3>2 DEF RestOK
    <3>3. CASE AtRest(broker.sequence, guard, posts, durable)
      <4>1. AtRest(seq, grd, sent, kept)
        BY <2>3, <3>3 DEF AtRest, SettledTo
      <4> QED
        BY <4>1 DEF RestOK
    <3> QED
      BY <3>1, <3>2, <3>3 DEF BrokerInv, RestOK
  <2> QED
    BY <2>1, <2>2, <2>3
<1>11. Kept(durable, broker.cached)'
  BY DEF Kept
<1> QED
  BY <1>3, <1>4, <1>5, <1>6, <1>7, <1>9, <1>10, <1>11 DEF BrokerInv

\* Whoever moves is registered, so nothing was cleaned up.
LEMMA NotDone ==
    ASSUME BrokerInv, NEW o \in Operations, op[o].pc # "none" \/ ~broker.closed
    PROVE  ~broker.done
  BY DEF BrokerInv, DoneOK, Membership

\* A step that touches neither the records nor the guard.
LEMMA QuietStep ==
    ASSUME BrokerInv, NEW o \in Operations, broker.process = "up",
           op[o].pc # "none" \/ ~broker.closed,
           NEW y \in OperationType, op' = [op EXCEPT ![o] = y],
           broker' \in BrokerType, broker'.process = "up", broker'.done = broker.done,
           broker'.operations = IF y.pc = "none" THEN broker.operations \ {o}
                                ELSE broker.operations \cup {o},
           y.pc \in Issuing => broker'.issuing /\ (op[o].pc \in Issuing \/ ~broker.issuing),
           broker.issuing => broker'.issuing \/ op[o].pc \in Issuing,
           UNCHANGED <<guard, files, durable, posts>>, now' \in Nat,
           broker'.sequence = broker.sequence,
           OperationIs(y, broker.sequence, guard, posts, durable),
           y.pc \in InFlight => op[o].pc \in InFlight,
           op[o].pc \in InFlight => y.pc \in InFlight,
           y.pc = "reserving" => op[o].pc = "reserving",
           y.pc = "completing" => op[o].pc = "completing" /\ y.say = op[o].say,
           Kept(durable, broker'.cached)
    PROVE  BrokerInv'
<1>1. ~broker'.done
  BY NotDone
<1>2. /\ y.pc = "reserving" => <<"pending", broker.sequence>> \in files
      /\ y.pc = "completing" => <<y.say, broker.sequence>> \in files
  BY DEF BrokerInv, OperationsOK
<1>3. PostsRecorded' /\ guard \in GuardType /\ posts \in Seq(Nat) /\ durable \subseteq files
  BY DEF BrokerInv, PostsRecorded, Types
<1>4. PICK seq, grd, sent, kept :
          seq = broker.sequence /\ grd = guard /\ sent = posts /\ kept = durable
  OBVIOUS
<1>5. OperationIs(y, seq, grd, sent, kept)
  BY <1>4
<1> QED
  BY <1>1, <1>2, <1>3, <1>4, <1>5, MoveStep

\* What is known of operation o, which a step is about to move.
LEMMA Mover ==
    ASSUME BrokerInv, NEW o \in Operations
    PROVE  /\ op[o] \in OperationType /\ op \in [Operations -> OperationType]
           /\ OperationIs(op[o], broker.sequence, guard, posts, durable)
           /\ Kept(durable, op[o].lease) /\ (op[o].pc = "none" => op[o].lease = {})
           /\ broker \in BrokerType /\ (o \in broker.operations <=> op[o].pc # "none")
           /\ op[o].pc \in Issuing => broker.issuing
           /\ now \in Nat /\ Kept(durable, broker.cached)
<1>1. OperationIs(op[o], broker.sequence, guard, posts, durable)
  BY DEF BrokerInv, OperationsOK
<1>2. Kept(durable, op[o].lease) /\ (op[o].pc = "none" => op[o].lease = {})
  BY <1>1 DEF OperationIs
<1> QED
  BY <1>1, <1>2 DEF BrokerInv, Types, Membership, OneIssuer

\* The changes of the broker's fields that steps of an operation make.
LEMMA BrokerTyped ==
    ASSUME NEW b \in BrokerType, NEW members \in SUBSET Operations, NEW who \in SUBSET Operations,
           NEW flag \in BOOLEAN, NEW tokens \in SUBSET Token, NEW n \in Nat, NEW times \in SUBSET Nat
    PROVE  /\ [b EXCEPT !.operations = members] \in BrokerType
           /\ [b EXCEPT !.sampling = who] \in BrokerType
           /\ [b EXCEPT !.issuing = flag] \in BrokerType
           /\ [b EXCEPT !.terminal = flag] \in BrokerType
           /\ [b EXCEPT !.cached = tokens] \in BrokerType
           /\ [b EXCEPT !.sequence = n] \in BrokerType
           /\ [b EXCEPT !.lastClock = n] \in BrokerType
           /\ [b EXCEPT !.lastAccepted = times] \in BrokerType
  BY DEF BrokerType

\* An operation that is not in flight goes on with its lease.
LEMMA GoStep ==
    ASSUME BrokerInv, NEW o \in Operations, broker.process = "up",
           op[o].pc \notin InFlight, op[o].pc # "none",
           NEW y \in OperationType, op' = [op EXCEPT ![o] = y],
           y.pc \notin InFlight, y.pc # "none", y.lease = op[o].lease,
           y.pc \in Issuing => broker'.issuing /\ (op[o].pc \in Issuing \/ ~broker.issuing),
           y.pc = "accepted" \/ (y.pc = "return" /\ y.err = "none") => Kept(durable, y.token),
           broker' \in BrokerType, broker'.process = "up", broker'.done = broker.done,
           broker'.operations = broker.operations, broker'.sequence = broker.sequence,
           broker.issuing => broker'.issuing \/ op[o].pc \in Issuing,
           UNCHANGED <<guard, files, durable, posts>>, now' \in Nat,
           Kept(durable, broker'.cached)
    PROVE  BrokerInv'
<1>1. Kept(durable, y.lease) /\ o \in broker.operations
  BY Mover
<1>2. broker'.operations = IF y.pc = "none" THEN broker.operations \ {o} ELSE broker.operations \cup {o}
  BY <1>1
<1>3. OperationIs(y, broker.sequence, guard, posts, durable)
  <2>1. CASE y.pc \in Issuing
    BY <1>1, <2>1, IssuerNotInFlight
  <2>2. CASE y.pc \notin Issuing
    BY <1>1, <2>2, NotTheIssuer
  <2> QED
    BY <2>1, <2>2
<1>4. y.pc # "reserving" /\ y.pc # "completing"
  BY DEF InFlight
<1> QED
  BY <1>2, <1>3, <1>4, QuietStep

\* A borrow or a lease ends: the operation stays open, or goes if it is closing.
LEMMA EndStep ==
    ASSUME BrokerInv, NEW o \in Operations, broker.process = "up",
           op[o].pc \notin InFlight, op[o].pc # "none",
           op' = [op EXCEPT ![o] = After(o)],
           broker' \in BrokerType, broker'.process = "up", broker'.done = broker.done,
           broker'.operations = Registered(o), broker'.sequence = broker.sequence,
           broker.issuing => broker'.issuing \/ op[o].pc \in Issuing,
           UNCHANGED <<guard, files, durable, posts>>, now' \in Nat,
           Kept(durable, broker'.cached)
    PROVE  BrokerInv'
<1>1. op[o] \in OperationType /\ o \in broker.operations /\ broker \in BrokerType
  BY Mover
<1> DEFINE y == After(o)
<1>2. /\ y \in OperationType /\ y.lease = {}
      /\ y.pc = IF op[o].closing THEN "none" ELSE "open"
  BY <1>1 DEF After, NoOperation, OperationType, Places
<1> HIDE DEF y
<1>3. y.pc \notin Issuing /\ y.pc \notin InFlight
  BY <1>2 DEF Issuing, Borrowing, InFlight
<1>4. broker'.operations = IF y.pc = "none" THEN broker.operations \ {o} ELSE broker.operations \cup {o}
  BY <1>1, <1>2 DEF Registered
<1>5. OperationIs(y, broker.sequence, guard, posts, durable)
  BY <1>2, <1>3, NotTheIssuer DEF Kept
<1>6. y.pc # "reserving" /\ y.pc # "completing"
  BY <1>2
<1>7. op' = [op EXCEPT ![o] = y]
  BY DEF y
<1> QED
  BY <1>2, <1>3, <1>4, <1>5, <1>6, <1>7, QuietStep

\* The operation becomes the holder of a lease of tokens.
LEMMA LendStep ==
    ASSUME BrokerInv, NEW o \in Operations, broker.process = "up",
           op[o].pc \notin InFlight, op[o].pc # "none",
           NEW tokens \in SUBSET Token, Kept(durable, tokens),
           op' = [op EXCEPT ![o] = [NoOperation EXCEPT !.pc = "leased", !.lease = tokens]],
           broker' \in BrokerType, broker'.process = "up", broker'.done = broker.done,
           broker'.operations = broker.operations, broker'.sequence = broker.sequence,
           broker.issuing => broker'.issuing \/ op[o].pc \in Issuing,
           UNCHANGED <<guard, files, durable, posts>>, now' \in Nat,
           Kept(durable, broker'.cached)
    PROVE  BrokerInv'
<1>1. o \in broker.operations
  BY Mover
<1> DEFINE y == [NoOperation EXCEPT !.pc = "leased", !.lease = tokens]
<1>2. y \in OperationType /\ y.lease = tokens /\ y.pc = "leased"
  BY DEF NoOperation, OperationType, Places
<1> HIDE DEF y
<1>3. y.pc \notin Issuing /\ y.pc \notin InFlight /\ y.pc # "none"
  BY <1>2 DEF Issuing, Borrowing, InFlight
<1>4. broker'.operations = IF y.pc = "none" THEN broker.operations \ {o} ELSE broker.operations \cup {o}
  BY <1>1, <1>3
<1>5. OperationIs(y, broker.sequence, guard, posts, durable)
  BY <1>2, <1>3, NotTheIssuer
<1>6. y.pc # "reserving" /\ y.pc # "completing"
  BY <1>2
<1>7. op' = [op EXCEPT ![o] = y]
  BY DEF y
<1> QED
  BY <1>2, <1>3, <1>4, <1>5, <1>6, <1>7, QuietStep

----------------------------------------------------------------------------
(* beginOperation, an operation's Close, a cancelled context. *)

LEMMA BeginStep ==
    ASSUME BrokerInv, NEW o \in Operations, Begin(o)
    PROVE  BrokerInv'
<1>1. /\ broker.process = "up" /\ op[o].pc = "none" /\ ~broker.closed
      /\ broker' = [broker EXCEPT !.operations = @ \cup {o}] /\ op' = [op EXCEPT ![o].pc = "open"]
      /\ UNCHANGED <<guard, files, durable, now, posts>>
  BY DEF Begin, At, Go, disk
<1> DEFINE y == [op[o] EXCEPT !.pc = "open"]
<1>2. /\ op[o] \in OperationType /\ broker \in BrokerType /\ now \in Nat
      /\ op[o].lease = {} /\ Kept(durable, broker.cached)
  BY <1>1, Mover
<1>3. y \in OperationType /\ y.pc = "open" /\ y.lease = {} /\ op' = [op EXCEPT ![o] = y]
  BY <1>1, <1>2 DEF OperationType, Places
<1>4. /\ broker' \in BrokerType /\ broker'.process = "up" /\ broker'.done = broker.done
      /\ broker'.operations = broker.operations \cup {o} /\ broker'.sequence = broker.sequence
      /\ broker'.issuing = broker.issuing /\ broker'.cached = broker.cached
  BY <1>1, <1>2 DEF BrokerType
<1> HIDE DEF y
<1>5. y.pc \notin Issuing /\ y.pc \notin InFlight /\ op[o].pc \notin InFlight
  BY <1>1, <1>3 DEF Issuing, Borrowing, InFlight
<1>6. OperationIs(y, broker.sequence, guard, posts, durable)
  BY <1>3, <1>5, NotTheIssuer DEF Kept
<1>7. /\ broker'.operations = IF y.pc = "none" THEN broker.operations \ {o} ELSE broker.operations \cup {o}
      /\ y.pc # "reserving" /\ y.pc # "completing" /\ now' \in Nat /\ Kept(durable, broker'.cached)
  BY <1>1, <1>2, <1>3, <1>4
<1>8. y \in OperationType /\ op' = [op EXCEPT ![o] = y]
  BY <1>3
<1> QED
  BY <1>1, <1>4, <1>5, <1>6, <1>7, <1>8, QuietStep

\* A flag of the operation is set and nothing else.
LEMMA FlagStep ==
    ASSUME BrokerInv, NEW o \in Operations, broker.process = "up", op[o].pc # "none",
           NEW closing \in BOOLEAN, op' = [op EXCEPT ![o] = [@ EXCEPT !.closing = closing, !.cancelled = TRUE]],
           broker' = broker, UNCHANGED <<guard, files, durable, now, posts>>
    PROVE  BrokerInv'
<1> DEFINE x == op[o]
           y == [x EXCEPT !.closing = closing, !.cancelled = TRUE]
<1>1. /\ x \in OperationType /\ OperationIs(x, broker.sequence, guard, posts, durable)
      /\ broker \in BrokerType /\ now \in Nat /\ o \in broker.operations
      /\ x.pc \in Issuing => broker.issuing
      /\ Kept(durable, broker.cached) /\ op \in [Operations -> OperationType]
  BY Mover
<1>2. /\ y \in OperationType /\ y.pc = x.pc /\ y.lease = x.lease /\ y.say = x.say
      /\ y.err = x.err /\ y.token = x.token
  BY <1>1 DEF OperationType
<1>3. op' = [op EXCEPT ![o] = y]
  BY <1>1
<1> HIDE DEF y, x
<1>4. OperationIs(y, broker.sequence, guard, posts, durable)
  BY <1>1, <1>2 DEF OperationIs
<1>5. broker'.operations = IF y.pc = "none" THEN broker.operations \ {o} ELSE broker.operations \cup {o}
  BY <1>1, <1>2 DEF x
<1> QED
  BY <1>1, <1>2, <1>3, <1>4, <1>5, QuietStep DEF x

LEMMA CloseOperationStep ==
    ASSUME BrokerInv, NEW o \in Operations, CloseOperation(o)
    PROVE  BrokerInv'
<1>1. /\ broker.process = "up" /\ op[o].pc # "none"
      /\ op' = [op EXCEPT ![o] = IF InUse(o) THEN [@ EXCEPT !.closing = TRUE, !.cancelled = TRUE]
                                 ELSE NoOperation]
      /\ broker' = [broker EXCEPT !.operations = IF InUse(o) THEN @ ELSE @ \ {o}]
      /\ UNCHANGED <<guard, files, durable, now, posts>>
  BY DEF CloseOperation, Stays, disk
<1>2. /\ broker \in BrokerType /\ op[o] \in OperationType /\ now \in Nat
      /\ Kept(durable, broker.cached)
  BY Mover
<1>3. CASE InUse(o)
  <2>1. broker' = broker
    BY <1>1, <1>2, <1>3 DEF BrokerType
  <2> QED
    BY <1>1, <1>3, <2>1, FlagStep
<1>4. CASE ~InUse(o)
  <2>1. op[o].pc \notin Issuing /\ op[o].pc \notin InFlight
    BY <1>4, PlaceFacts DEF InUse
  <2>2. /\ NoOperation \in OperationType /\ NoOperation.pc = "none" /\ NoOperation.lease = {}
        /\ "none" \notin Issuing /\ "none" \notin InFlight
    BY DEF NoOperation, OperationType, Places, Issuing, Borrowing, InFlight
  <2>3. /\ broker' \in BrokerType /\ broker'.process = "up" /\ broker'.done = broker.done
        /\ broker'.operations = broker.operations \ {o} /\ broker'.sequence = broker.sequence
        /\ broker'.issuing = broker.issuing /\ broker'.cached = broker.cached
    BY <1>1, <1>2, <1>4 DEF BrokerType
  <2>4. OperationIs(NoOperation, broker.sequence, guard, posts, durable)
    BY <2>2, NotTheIssuer DEF Kept
  <2>5. op' = [op EXCEPT ![o] = NoOperation]
    BY <1>1, <1>4
  <2>6. PICK y : y = NoOperation
    OBVIOUS
  <2>7. /\ y \in OperationType /\ op' = [op EXCEPT ![o] = y]
        /\ OperationIs(y, broker.sequence, guard, posts, durable)
        /\ broker'.operations = IF y.pc = "none" THEN broker.operations \ {o} ELSE broker.operations \cup {o}
        /\ y.pc \notin Issuing /\ y.pc \notin InFlight /\ y.pc # "reserving" /\ y.pc # "completing"
    BY <2>2, <2>3, <2>4, <2>5, <2>6
  <2>8. now' \in Nat /\ Kept(durable, broker'.cached)
    BY <1>1, <1>2, <2>3
  <2>9. broker.process = "up" /\ op[o].pc # "none" /\ UNCHANGED <<guard, files, durable, posts>>
    BY <1>1
  <2> QED
    BY <2>1, <2>3, <2>7, <2>8, <2>9, QuietStep
<1> QED
  BY <1>3, <1>4

LEMMA CancelStep ==
    ASSUME BrokerInv, NEW o \in Operations, Cancel(o)
    PROVE  BrokerInv'
<1>1. /\ broker.process = "up" /\ op[o].pc # "none" /\ op' = [op EXCEPT ![o].cancelled = TRUE]
      /\ UNCHANGED <<broker, guard, files, durable, now, posts>>
  BY DEF Cancel, disk
<1>2. op[o] \in OperationType /\ op \in [Operations -> OperationType]
  BY Mover
<1>3. /\ op[o].closing \in BOOLEAN
      /\ [op[o] EXCEPT !.cancelled = TRUE] = [op[o] EXCEPT !.closing = op[o].closing, !.cancelled = TRUE]
  BY <1>2 DEF OperationType
<1>4. op' = [op EXCEPT ![o] = [@ EXCEPT !.closing = op[o].closing, !.cancelled = TRUE]]
  BY <1>1, <1>2, <1>3
<1> QED
  BY <1>1, <1>3, <1>4, FlagStep

----------------------------------------------------------------------------
(* sampleClock. *)

\* An attempt that was sent goes to Complete with what the issuer made of it.
LEMMA ReceivedStep ==
    ASSUME BrokerInv, NEW o \in Operations, broker.process = "up", op[o].pc = "received",
           NEW say \in {"accepted", "unknown"},
           op' = [op EXCEPT ![o] = [@ EXCEPT !.pc = "complete", !.say = say]],
           broker' \in BrokerType, broker'.process = "up", broker'.done = broker.done,
           broker'.operations = broker.operations, broker'.sequence = broker.sequence,
           broker'.issuing = broker.issuing,
           UNCHANGED <<guard, files, durable, posts, now>>,
           Kept(durable, broker'.cached)
    PROVE  BrokerInv'
<1> DEFINE x == op[o]
           y == [x EXCEPT !.pc = "complete", !.say = say]
<1>1. /\ x \in OperationType /\ OperationIs(x, broker.sequence, guard, posts, durable)
      /\ now \in Nat /\ o \in broker.operations /\ (x.pc \in Issuing => broker.issuing)
      /\ op \in [Operations -> OperationType]
  BY Mover
<1>2. /\ y \in OperationType /\ y.pc = "complete" /\ y.lease = x.lease /\ y.say = say
      /\ y.token = x.token /\ op' = [op EXCEPT ![o] = y]
  BY <1>1 DEF OperationType, Places, Borrowing
<1> HIDE DEF y, x
<1>3. OperationIs(y, broker.sequence, guard, posts, durable)
  BY <1>1, <1>2 DEF OperationIs, x
<1>4. broker'.operations = IF y.pc = "none" THEN broker.operations \ {o} ELSE broker.operations \cup {o}
  BY <1>1, <1>2
<1>5. x.pc \in InFlight /\ y.pc \in InFlight /\ x.pc \in Issuing /\ broker'.issuing
  BY <1>1, <1>2 DEF InFlight, Issuing, Borrowing, x
<1> QED
  BY <1>1, <1>2, <1>3, <1>4, <1>5, QuietStep DEF x

\* The clock was not sampled: the caller gives up what it was doing.
LEMMA RefusedStep ==
    ASSUME BrokerInv, NEW o \in Operations, broker.process = "up", op[o].pc \in Sampling, Refused(o),
           broker' \in BrokerType, broker'.process = "up", broker'.done = broker.done,
           broker'.operations = RefusedOperations(o), broker'.sequence = broker.sequence,
           broker'.issuing = broker.issuing,
           UNCHANGED <<guard, files, durable, posts, now>>,
           Kept(durable, broker'.cached)
    PROVE  BrokerInv'
<1>1. /\ op[o] \in OperationType /\ op \in [Operations -> OperationType] /\ now' \in Nat
      /\ op[o].pc \in Issuing => broker.issuing
  BY Mover
<1>2. CASE op[o].pc \in {"clock", "bind"}
  <2>1. op' = [op EXCEPT ![o] = After(o)] /\ broker'.operations = Registered(o)
    BY <1>2 DEF Refused, RefusedOperations
  <2>2. op[o].pc \notin InFlight /\ op[o].pc # "none"
    BY <1>2 DEF InFlight
  <2> QED
    BY <1>1, <2>1, <2>2, EndStep
<1>3. CASE op[o].pc = "received"
  <2>1. op' = [op EXCEPT ![o].pc = "complete", ![o].say = "unknown"]
        /\ broker'.operations = broker.operations
    BY <1>3 DEF Refused, RefusedOperations
  <2>2. op' = [op EXCEPT ![o] = [@ EXCEPT !.pc = "complete", !.say = "unknown"]]
    BY <1>1, <2>1
  <2> QED
    BY <1>3, <2>1, <2>2, ReceivedStep
<1>4. CASE op[o].pc = "accepted"
  <2>1. op' = [op EXCEPT ![o].pc = "return", ![o].err = "fenced"]
        /\ broker'.operations = broker.operations
    BY <1>4 DEF Refused, RefusedOperations
  <2> DEFINE y == [op[o] EXCEPT !.pc = "return", !.err = "fenced"]
  <2>2. /\ y \in OperationType /\ y.pc = "return" /\ y.err = "fenced" /\ y.lease = op[o].lease
        /\ op' = [op EXCEPT ![o] = y]
    BY <1>1, <2>1 DEF OperationType, Places, Borrowing
  <2> HIDE DEF y
  <2>3. op[o].pc \notin InFlight /\ op[o].pc \in Issuing /\ y.pc \notin InFlight
    BY <1>4, <2>2 DEF InFlight, Issuing, Borrowing
  <2> QED
    BY <1>1, <1>4, <2>1, <2>2, <2>3, GoStep
<1> QED
  BY <1>2, <1>3, <1>4 DEF Sampling

LEMMA SampleClockStep ==
    ASSUME BrokerInv, NEW o \in Operations, SampleClock(o)
    PROVE  BrokerInv'
<1>1. /\ broker.process = "up" /\ op[o].pc \in Sampling
      /\ UNCHANGED <<guard, files, durable, now, posts>>
  BY DEF SampleClock, disk
<1>2. /\ broker \in BrokerType /\ Kept(durable, broker.cached) /\ op \in [Operations -> OperationType]
      /\ op[o] \in OperationType
  BY Mover
<1>3. CASE broker.closed \/ broker.sampling # {}
  <2>1. Refused(o) /\ broker' = [broker EXCEPT !.operations = RefusedOperations(o)]
    BY <1>3 DEF SampleClock
  <2>2. RefusedOperations(o) \in SUBSET Operations
    BY <1>2 DEF RefusedOperations, Registered, BrokerType
  <2>3. /\ broker' \in BrokerType /\ broker'.process = "up" /\ broker'.done = broker.done
        /\ broker'.operations = RefusedOperations(o) /\ broker'.sequence = broker.sequence
        /\ broker'.issuing = broker.issuing /\ broker'.cached = broker.cached
    BY <1>1, <1>2, <2>1, <2>2 DEF BrokerType
  <2> QED
    BY <1>1, <1>2, <2>1, <2>3, RefusedStep
<1>4. CASE ~(broker.closed \/ broker.sampling # {})
  <2>1. broker' = [broker EXCEPT !.sampling = {o}] /\ op' = op
    BY <1>4 DEF SampleClock
  <2>2. /\ broker' \in BrokerType /\ broker'.process = "up" /\ broker'.done = broker.done
        /\ broker'.operations = broker.operations /\ broker'.sequence = broker.sequence
        /\ broker'.issuing = broker.issuing /\ broker'.cached = broker.cached
        /\ broker'.closed = broker.closed
    BY <1>1, <1>2, <2>1 DEF BrokerType
  <2> QED
    BY <1>1, <2>1, <2>2 DEF BrokerInv, Types, Membership, DoneOK, OneIssuer, FreshUntilUp,
       OwnedBeforeUse, OperationsOK, RestOK, PostsRecorded, Kept
<1> QED
  BY <1>3, <1>4

LEMMA SampledStep ==
    ASSUME BrokerInv, NEW o \in Operations, Sampled(o)
    PROVE  BrokerInv'
<1>1. /\ broker.process = "up" /\ op[o].pc \in Sampling
      /\ UNCHANGED <<guard, files, durable, now, posts>>
  BY DEF Sampled, disk
<1>2. /\ broker \in BrokerType /\ Kept(durable, broker.cached) /\ op \in [Operations -> OperationType]
      /\ op[o] \in OperationType /\ now \in Nat /\ now' \in Nat
      /\ OperationIs(op[o], broker.sequence, guard, posts, durable)
      /\ op[o].pc \in Issuing => broker.issuing
  BY <1>1, Mover
<1>3. CASE broker.closed \/ now < broker.lastClock
  <2>1. /\ Refused(o)
        /\ broker' = [Freed EXCEPT !.terminal = @ \/ ~broker.closed,
                                   !.cached = IF broker.closed THEN @ ELSE {},
                                   !.operations = RefusedOperations(o)]
    BY <1>3 DEF Sampled
  <2>2. RefusedOperations(o) \in SUBSET Operations
    BY <1>2 DEF RefusedOperations, Registered, BrokerType
  <2>3. PICK flag \in BOOLEAN, tokens \in {{}, broker.cached}, members \in SUBSET Operations :
            /\ members = RefusedOperations(o)
            /\ broker' = [broker EXCEPT !.sampling = {}, !.terminal = flag, !.cached = tokens,
                                        !.operations = members]
    <3>1. (broker.terminal \/ ~broker.closed) \in BOOLEAN
      OBVIOUS
    <3>2. broker' = [broker EXCEPT !.sampling = {}, !.terminal = broker.terminal \/ ~broker.closed,
                                   !.cached = IF broker.closed THEN broker.cached ELSE {},
                                   !.operations = RefusedOperations(o)]
      BY <1>2, <2>1 DEF Freed, BrokerType
    <3> QED
      BY <2>2, <3>1, <3>2
  <2>4. /\ broker' \in BrokerType /\ broker'.process = "up" /\ broker'.done = broker.done
        /\ broker'.operations = RefusedOperations(o) /\ broker'.sequence = broker.sequence
        /\ broker'.issuing = broker.issuing /\ broker'.cached = tokens
    BY <1>1, <1>2, <2>3 DEF BrokerType
  <2>5. Kept(durable, broker'.cached)
    BY <1>2, <2>4 DEF Kept
  <2> QED
    BY <1>1, <2>1, <2>4, <2>5, RefusedStep
<1>4. CASE ~(broker.closed \/ now < broker.lastClock)
  <2>1. /\ broker' = [Freed EXCEPT !.lastClock = now]
        /\ op' = [op EXCEPT ![o] = CASE op[o].pc = "received" -> Received(o)
                                     [] op[o].pc = "accepted" -> Accepted(o)
                                     [] OTHER -> [@ EXCEPT !.pc = NextPlace[op[o].pc], !.at = now]]
    BY <1>4 DEF Sampled
  <2>2. /\ broker' \in BrokerType /\ broker'.process = "up" /\ broker'.done = broker.done
        /\ broker'.operations = broker.operations /\ broker'.sequence = broker.sequence
        /\ broker'.issuing = broker.issuing /\ broker'.cached = broker.cached
    BY <1>1, <1>2, <2>1 DEF BrokerType, Freed
  <2>3. Kept(durable, broker'.cached)
    BY <1>2, <2>2
  <2>4. CASE op[o].pc = "received"
    <3>1. PICK say \in {"accepted", "unknown"} :
              op' = [op EXCEPT ![o] = [@ EXCEPT !.pc = "complete", !.say = say]]
      BY <1>2, <2>1, <2>4 DEF Received
    <3> QED
      BY <1>1, <2>2, <2>3, <2>4, <3>1, ReceivedStep
  <2>5. CASE op[o].pc = "accepted"
    <3> DEFINE tokens == {[t EXCEPT !.accepted = now] : t \in op[o].token}
    <3>1. PICK err \in {"none", "fenced"} :
              op' = [op EXCEPT ![o] = [op[o] EXCEPT !.pc = "return", !.err = err, !.token = tokens]]
      BY <1>2, <2>1, <2>5 DEF Accepted
    <3>2. tokens \in SUBSET Token
      BY <1>2 DEF OperationType, Token
    <3>3. Kept(durable, op[o].token)
      BY <1>2, <2>5 DEF OperationIs
    <3>4. Kept(durable, tokens)
      <4> SUFFICES ASSUME NEW t \in op[o].token
                   PROVE  <<"accepted", [t EXCEPT !.accepted = now].attempt>> \in durable
        BY DEF Kept
      <4>1. t \in Token /\ <<"accepted", t.attempt>> \in durable
        BY <1>2, <3>3 DEF OperationType, Kept
      <4>2. [t EXCEPT !.accepted = now].attempt = t.attempt
        BY <4>1 DEF Token
      <4> QED
        BY <4>1, <4>2
    <3> HIDE DEF tokens
    <3> DEFINE y == [op[o] EXCEPT !.pc = "return", !.err = err, !.token = tokens]
    <3>5. /\ y \in OperationType /\ y.pc = "return" /\ y.err = err /\ y.token = tokens
          /\ y.lease = op[o].lease /\ op' = [op EXCEPT ![o] = y]
      BY <1>2, <3>1, <3>2 DEF OperationType, Places, Borrowing
    <3> HIDE DEF y
    <3>6. op[o].pc \notin InFlight /\ op[o].pc \in Issuing /\ y.pc \notin InFlight
      BY <2>5, <3>5 DEF InFlight, Issuing, Borrowing
    <3> QED
      BY <1>1, <1>2, <2>2, <2>3, <2>5, <3>4, <3>5, <3>6, GoStep
  <2>6. CASE op[o].pc \in {"clock", "bind"}
    <3>1. PICK place \in {"decide", "binding"} :
              op' = [op EXCEPT ![o] = [op[o] EXCEPT !.pc = place, !.at = now]]
      <4>1. NextPlace[op[o].pc] \in {"decide", "binding"}
        BY <2>6 DEF NextPlace
      <4>2. op' = [op EXCEPT ![o] = [op[o] EXCEPT !.pc = NextPlace[op[o].pc], !.at = now]]
        BY <1>2, <2>1, <2>6
      <4> QED
        BY <4>1, <4>2
    <3> DEFINE y == [op[o] EXCEPT !.pc = place, !.at = now]
    <3>2. /\ y \in OperationType /\ y.pc = place /\ y.lease = op[o].lease /\ op' = [op EXCEPT ![o] = y]
      BY <1>2, <3>1 DEF OperationType, Places, Borrowing
    <3> HIDE DEF y
    <3>3. /\ op[o].pc \notin InFlight /\ op[o].pc # "none" /\ y.pc \notin InFlight
          /\ y.pc \notin Issuing /\ y.pc # "none" /\ y.pc # "return" /\ y.pc # "accepted"
      BY <2>6, <3>2 DEF InFlight, Issuing, Borrowing
    <3> QED
      BY <1>1, <1>2, <2>2, <2>3, <3>2, <3>3, GoStep
  <2> QED
    BY <1>1, <2>4, <2>5, <2>6 DEF Sampling
<1> QED
  BY <1>3, <1>4

----------------------------------------------------------------------------
(* borrow, issue up to the POST, and the lease. *)

\* The operation goes to another place that is not in flight, and may note
\* the error it returns with.
LEMMA PlaceStep ==
    ASSUME BrokerInv, NEW o \in Operations, broker.process = "up",
           op[o].pc \notin InFlight, op[o].pc # "none",
           NEW place \in Places \ InFlight, place # "none", place # "accepted",
           NEW err \in {"none", "unavailable", "fenced"}, place = "return" => err # "none",
           op' = [op EXCEPT ![o] = [op[o] EXCEPT !.pc = place, !.err = err]],
           place \in Issuing => broker'.issuing /\ (op[o].pc \in Issuing \/ ~broker.issuing),
           broker' \in BrokerType, broker'.process = "up", broker'.done = broker.done,
           broker'.operations = broker.operations, broker'.sequence = broker.sequence,
           broker'.cached = broker.cached,
           broker.issuing => broker'.issuing \/ op[o].pc \in Issuing,
           UNCHANGED <<guard, files, durable, posts, now>>
    PROVE  BrokerInv'
<1>1. op[o] \in OperationType /\ now \in Nat /\ Kept(durable, broker.cached)
  BY Mover
<1> DEFINE y == [op[o] EXCEPT !.pc = place, !.err = err]
<1>2. y \in OperationType /\ y.pc = place /\ y.err = err /\ y.lease = op[o].lease
  BY <1>1 DEF OperationType
<1>3. op' = [op EXCEPT ![o] = y]
  OBVIOUS
<1> HIDE DEF y
<1> QED
  BY <1>1, <1>2, <1>3, GoStep

LEMMA GoesWithError ==
    ASSUME BrokerInv, NEW o \in Operations, NEW place
    PROVE  /\ Go(o, place) => op' = [op EXCEPT ![o] = [op[o] EXCEPT !.pc = place, !.err = op[o].err]]
           /\ op[o].err \in {"none", "unavailable", "fenced"}
           /\ \A err : Fail(o, err) => op' = [op EXCEPT ![o] = [op[o] EXCEPT !.pc = "return", !.err = err]]
<1>1. op[o] \in OperationType /\ op \in [Operations -> OperationType]
  BY Mover
<1>2. [op[o] EXCEPT !.pc = place] = [op[o] EXCEPT !.pc = place, !.err = op[o].err]
  BY <1>1 DEF OperationType
<1>3. Go(o, place) => op' = [op EXCEPT ![o] = [op[o] EXCEPT !.pc = place]]
  BY <1>1 DEF Go
<1>4. \A err : Fail(o, err) => op' = [op EXCEPT ![o] = [op[o] EXCEPT !.pc = "return", !.err = err]]
  BY <1>1 DEF Fail
<1> QED
  BY <1>1, <1>2, <1>3, <1>4 DEF OperationType

LEMMA SmallSteps ==
    ASSUME BrokerInv, NEW o \in Operations, Borrow(o) \/ Bind(o) \/ Issue(o)
    PROVE  BrokerInv'
<1>1. /\ broker.process = "up" /\ op[o].pc \in {"open", "leased", "issue"}
      /\ UNCHANGED <<broker, guard, files, durable, posts, now>>
  BY DEF Borrow, Bind, Issue, At, disk
<1>2. broker \in BrokerType /\ (op[o].pc \in Issuing => broker.issuing)
  BY Mover
<1>3. op[o].pc \notin InFlight /\ op[o].pc # "none"
  BY <1>1 DEF InFlight
<1>4. CASE Borrow(o) \/ Bind(o)
  <2>1. PICK place \in {"clock", "bind"} : Go(o, place)
    BY <1>4 DEF Borrow, Bind
  <2>2. /\ place \in Places \ InFlight /\ place \notin Issuing /\ place # "none"
        /\ place # "accepted" /\ place # "return"
    BY DEF Places, Borrowing, InFlight, Issuing
  <2>3. /\ op' = [op EXCEPT ![o] = [op[o] EXCEPT !.pc = place, !.err = op[o].err]]
        /\ op[o].err \in {"none", "unavailable", "fenced"}
    BY <2>1, GoesWithError
  <2> QED
    BY <1>1, <1>2, <1>3, <2>2, <2>3, PlaceStep
<1>5. CASE Issue(o)
  <2>1. op[o].pc = "issue" /\ op[o].pc \in Issuing
    BY <1>5 DEF Issue, At, Issuing, Borrowing
  <2>2. CASE Go(o, "post")
    <3>1. /\ "post" \in Places \ InFlight
      BY DEF Places, Borrowing, InFlight
    <3>2. /\ op' = [op EXCEPT ![o] = [op[o] EXCEPT !.pc = "post", !.err = op[o].err]]
          /\ op[o].err \in {"none", "unavailable", "fenced"}
      BY <2>2, GoesWithError
    <3> QED
      BY <1>1, <1>2, <1>3, <2>1, <3>1, <3>2, PlaceStep
  <2>3. CASE ~Go(o, "post")
    <3>1. PICK err \in {"unavailable", "fenced"} : Fail(o, err)
      BY <1>5, <2>3 DEF Issue
    <3>2. "return" \in Places \ InFlight
      BY DEF Places, Borrowing, InFlight
    <3>3. op' = [op EXCEPT ![o] = [op[o] EXCEPT !.pc = "return", !.err = err]]
      BY <3>1, GoesWithError
    <3> QED
      BY <1>1, <1>2, <1>3, <2>1, <3>2, <3>3, PlaceStep
  <2> QED
    BY <2>2, <2>3
<1> QED
  BY <1>4, <1>5

\* borrow returns without a lease.
LEMMA EndBorrowStep ==
    ASSUME BrokerInv, NEW o \in Operations, broker.process = "up",
           op[o].pc \notin InFlight, op[o].pc # "none",
           NEW next \in BrokerType, EndBorrow(o, next),
           next.process = "up", next.done = broker.done, next.sequence = broker.sequence,
           broker.issuing => next.issuing \/ op[o].pc \in Issuing,
           Kept(durable, next.cached),
           UNCHANGED <<guard, files, durable, posts, now>>
    PROVE  BrokerInv'
<1>1. op' = [op EXCEPT ![o] = After(o)] /\ broker' = [next EXCEPT !.operations = Registered(o)]
  BY DEF EndBorrow
<1>2. broker \in BrokerType /\ now \in Nat
  BY Mover
<1>3. PICK members \in SUBSET Operations : members = Registered(o)
  BY <1>2 DEF Registered, BrokerType
<1>4. /\ broker' \in BrokerType /\ broker'.process = next.process /\ broker'.done = next.done
      /\ broker'.operations = members /\ broker'.sequence = next.sequence
      /\ broker'.issuing = next.issuing /\ broker'.cached = next.cached
  BY <1>1, <1>3 DEF BrokerType
<1>5. broker'.operations = Registered(o)
  BY <1>3, <1>4
<1> QED
  BY <1>1, <1>2, <1>4, <1>5, EndStep

LEMMA DecideStep ==
    ASSUME BrokerInv, NEW o \in Operations, Decide(o)
    PROVE  BrokerInv'
<1>1. /\ broker.process = "up" /\ op[o].pc = "decide" /\ UNCHANGED <<guard, files, durable, posts, now>>
      /\ op[o].pc \notin InFlight /\ op[o].pc # "none"
  BY DEF Decide, At, disk, InFlight
<1>2. broker \in BrokerType /\ now \in Nat /\ Kept(durable, broker.cached)
  BY Mover
<1>3. \/ EndBorrow(o, broker)
      \/ Lend(o, broker.cached, broker)
      \/ EndBorrow(o, [broker EXCEPT !.terminal = TRUE, !.cached = {}])
      \/ MayIssue /\ Go(o, "issue") /\ broker' = [broker EXCEPT !.issuing = TRUE]
  BY DEF Decide
<1>4. CASE EndBorrow(o, broker)
  BY <1>1, <1>2, <1>4, EndBorrowStep
<1>5. CASE Lend(o, broker.cached, broker)
  <2>1. /\ op' = [op EXCEPT ![o] = [NoOperation EXCEPT !.pc = "leased", !.lease = broker.cached]]
        /\ broker' = broker
    BY <1>5 DEF Lend
  <2>2. broker.cached \in SUBSET Token
    BY <1>2 DEF BrokerType
  <2> QED
    BY <1>1, <1>2, <2>1, <2>2, LendStep
<1>6. CASE EndBorrow(o, [broker EXCEPT !.terminal = TRUE, !.cached = {}])
  <2> DEFINE next == [broker EXCEPT !.terminal = TRUE, !.cached = {}]
  <2>1. /\ next \in BrokerType /\ next.process = "up" /\ next.done = broker.done
        /\ next.sequence = broker.sequence /\ next.issuing = broker.issuing /\ next.cached = {}
    BY <1>1, <1>2 DEF BrokerType
  <2>2. EndBorrow(o, next)
    BY <1>6
  <2> HIDE DEF next
  <2>3. Kept(durable, next.cached)
    BY <2>1 DEF Kept
  <2> QED
    BY <1>1, <2>1, <2>2, <2>3, EndBorrowStep
<1>7. CASE MayIssue /\ Go(o, "issue") /\ broker' = [broker EXCEPT !.issuing = TRUE]
  <2>1. /\ broker' \in BrokerType /\ broker'.process = "up" /\ broker'.done = broker.done
        /\ broker'.operations = broker.operations /\ broker'.sequence = broker.sequence
        /\ broker'.issuing /\ broker'.cached = broker.cached /\ ~broker.issuing
    BY <1>1, <1>2, <1>7 DEF BrokerType, MayIssue
  <2>2. /\ op' = [op EXCEPT ![o] = [op[o] EXCEPT !.pc = "issue", !.err = op[o].err]]
        /\ op[o].err \in {"none", "unavailable", "fenced"}
    BY <1>7, GoesWithError
  <2>3. "issue" \in Places \ InFlight
    BY DEF Places, Borrowing, InFlight
  <2> QED
    BY <1>1, <2>1, <2>2, <2>3, PlaceStep
<1> QED
  BY <1>3, <1>4, <1>5, <1>6, <1>7

\* A grant is lent and kept only when issue returned without an error.
LEMMA ReturnStep ==
    ASSUME BrokerInv, NEW o \in Operations, Return(o)
    PROVE  BrokerInv'
<1>1. /\ broker.process = "up" /\ op[o].pc = "return" /\ UNCHANGED <<guard, files, durable, posts, now>>
      /\ op[o].pc \notin InFlight /\ op[o].pc # "none" /\ op[o].pc \in Issuing
  BY DEF Return, At, disk, InFlight, Issuing, Borrowing
<1>2. /\ broker \in BrokerType /\ now \in Nat /\ Kept(durable, broker.cached)
      /\ op[o] \in OperationType /\ OperationIs(op[o], broker.sequence, guard, posts, durable)
  BY Mover
<1> DEFINE free == [broker EXCEPT !.issuing = FALSE]
           fence == [free EXCEPT !.terminal = TRUE, !.cached = {}]
           keep == [free EXCEPT !.cached = op[o].token,
                                !.lastAccepted = {TheToken(op[o].token).accepted}]
<1>3. \/ EndBorrow(o, free)
      \/ EndBorrow(o, fence)
      \/ /\ op[o].err = "none" /\ Usable(op[o].token, broker.lastClock)
         /\ Lend(o, op[o].token, keep)
  <2>1. op[o].err \in {"none", "unavailable", "fenced"}
    BY <1>2 DEF OperationType
  <2> QED
    BY <2>1 DEF Return
<1>4. /\ free \in BrokerType /\ free.process = "up" /\ free.done = broker.done
      /\ free.sequence = broker.sequence /\ free.cached = broker.cached
      /\ free.operations = broker.operations
  BY <1>1, <1>2 DEF BrokerType
<1>5. CASE EndBorrow(o, free)
  <2> HIDE DEF free
  <2>1. Kept(durable, free.cached)
    BY <1>2, <1>4
  <2> QED
    BY <1>1, <1>4, <1>5, <2>1, EndBorrowStep
<1>6. CASE EndBorrow(o, fence)
  <2>1. /\ fence \in BrokerType /\ fence.process = "up" /\ fence.done = broker.done
        /\ fence.sequence = broker.sequence /\ fence.cached = {}
    BY <1>1, <1>2 DEF BrokerType
  <2> HIDE DEF fence
  <2>2. Kept(durable, fence.cached)
    BY <2>1 DEF Kept
  <2> QED
    BY <1>1, <1>6, <2>1, <2>2, EndBorrowStep
<1>7. CASE /\ op[o].err = "none" /\ Usable(op[o].token, broker.lastClock)
           /\ Lend(o, op[o].token, keep)
  <2>1. Kept(durable, op[o].token)
    BY <1>1, <1>2, <1>7 DEF OperationIs
  <2>2. PICK tokens \in SUBSET Token : tokens = op[o].token /\ tokens # {}
    BY <1>2, <1>7 DEF OperationType, Usable
  <2>3. TheToken(tokens) \in tokens
    BY <2>2 DEF TheToken
  <2>4. PICK times \in SUBSET Nat : times = {TheToken(tokens).accepted}
    BY <2>3 DEF Token
  <2>5. broker' = [free EXCEPT !.cached = tokens, !.lastAccepted = times]
        /\ op' = [op EXCEPT ![o] = [NoOperation EXCEPT !.pc = "leased", !.lease = tokens]]
    BY <1>7, <2>2, <2>4 DEF Lend
  <2> HIDE DEF free
  <2>6. /\ broker' \in BrokerType /\ broker'.process = "up" /\ broker'.done = broker.done
        /\ broker'.operations = broker.operations /\ broker'.sequence = broker.sequence
        /\ broker'.cached = tokens
    BY <1>4, <2>5 DEF BrokerType
  <2> QED
    BY <1>1, <1>2, <2>1, <2>2, <2>5, <2>6, LendStep
<1> QED
  BY <1>3, <1>5, <1>6, <1>7

\* The lease ends, or its token goes into a request.
LEMMA LeaseStep ==
    ASSUME BrokerInv, NEW o \in Operations, Bound(o) \/ Release(o)
    PROVE  BrokerInv'
<1>1. /\ broker.process = "up" /\ op[o].pc \in {"binding", "leased", "sent"}
      /\ UNCHANGED <<guard, files, durable, posts, now>>
      /\ EndLease(o) \/ (Go(o, "sent") /\ UNCHANGED broker)
  BY DEF Bound, Release, At, disk
<1>2. broker \in BrokerType /\ now \in Nat /\ Kept(durable, broker.cached)
  BY Mover
<1>3. op[o].pc \notin InFlight /\ op[o].pc # "none"
  BY <1>1 DEF InFlight
<1>4. CASE EndLease(o)
  <2>1. EndBorrow(o, broker)
    BY <1>4 DEF EndLease, EndBorrow
  <2> QED
    BY <1>1, <1>2, <1>3, <2>1, EndBorrowStep
<1>5. CASE Go(o, "sent") /\ UNCHANGED broker
  <2>1. /\ op' = [op EXCEPT ![o] = [op[o] EXCEPT !.pc = "sent", !.err = op[o].err]]
        /\ op[o].err \in {"none", "unavailable", "fenced"}
    BY <1>5, GoesWithError
  <2>2. "sent" \in Places \ InFlight /\ "sent" \notin Issuing
    BY DEF Places, Borrowing, InFlight, Issuing
  <2> QED
    BY <1>1, <1>2, <1>3, <1>5, <2>1, <2>2, PlaceStep
<1> QED
  BY <1>1, <1>4, <1>5

----------------------------------------------------------------------------
(* The attempt: the guard's Reserve, the POST and the guard's Complete. *)

\* The issuer moves on, and with it the sequence, the guard and the records.
LEMMA IssuerStep ==
    ASSUME BrokerInv, NEW o \in Operations, broker.process = "up", op[o].pc \in Issuing,
           NEW y \in OperationType, op' = [op EXCEPT ![o] = y], y.pc \in Issuing,
           NEW seq \in Nat, broker' = [broker EXCEPT !.sequence = seq],
           guard' \in GuardType, posts' \in Seq(Nat), UNCHANGED now,
           durable \subseteq durable', durable' \subseteq files', files \subseteq files',
           NEW grd, NEW sent, NEW kept, guard' = grd, posts' = sent, durable' = kept,
           OperationIs(y, seq, grd, sent, kept),
           y.pc = "reserving" => <<"pending", seq>> \in files',
           y.pc = "completing" => <<y.say, seq>> \in files',
           y.pc \in InFlight \/ grd.fenced \/ AtRest(seq, grd, sent, kept),
           PostsRecorded'
    PROVE  BrokerInv'
<1>1. /\ broker \in BrokerType /\ now \in Nat /\ broker.issuing /\ Kept(durable, broker.cached)
      /\ op[o].pc # "none" => o \in broker.operations
  BY Mover
<1>2. op[o].pc # "none" /\ y.pc # "none"
  BY PlaceFacts
<1>3. ~broker.done
  BY <1>2, NotDone
<1>4. /\ broker' \in BrokerType /\ broker'.process = "up" /\ ~broker'.done
      /\ broker'.operations = broker.operations /\ broker'.issuing /\ broker'.sequence = seq
      /\ broker'.cached = broker.cached
  BY <1>1, <1>3 DEF BrokerType
<1>5. broker'.operations = IF y.pc = "none" THEN broker.operations \ {o} ELSE broker.operations \cup {o}
  BY <1>1, <1>2, <1>4
<1>6. Kept(kept, broker'.cached) /\ now' \in Nat
  BY <1>1, <1>4 DEF Kept
<1> QED
  BY <1>4, <1>5, <1>6, MoveStep

\* What is known when the issuer is at work.
LEMMA AtWork ==
    ASSUME BrokerInv, NEW o \in Operations, op[o].pc \in Issuing
    PROVE  /\ broker \in BrokerType /\ broker.sequence \in Nat
           /\ broker = [broker EXCEPT !.sequence = broker.sequence]
           /\ guard \in GuardType /\ posts \in Seq(Nat) /\ durable \subseteq files
           /\ op[o] \in OperationType /\ op \in [Operations -> OperationType]
           /\ Kept(durable, op[o].lease)
           /\ OperationIs(op[o], broker.sequence, guard, posts, durable)
           /\ \A q \in Operations : q # o => op[q].pc \notin InFlight
           /\ PostsRecorded
<1>1. broker = [broker EXCEPT !.sequence = broker.sequence] /\ broker.sequence \in Nat
  BY DEF BrokerInv, Types, BrokerType
<1>2. \A q \in Operations : q # o => op[q].pc \notin InFlight
  BY PlaceFacts DEF BrokerInv, OneIssuer
<1> QED
  BY <1>1, <1>2, Mover DEF BrokerInv, Types

\* The attempt ends and the guard is fenced for good.
LEMMA FencedStep ==
    ASSUME BrokerInv, NEW o \in Operations, broker.process = "up", op[o].pc \in Issuing,
           Fail(o, "fenced"), guard' \in GuardType, guard'.fenced,
           durable' = durable \/ durable' = files,
           UNCHANGED <<broker, files, posts, now>>
    PROVE  BrokerInv'
<1>1. /\ op[o] \in OperationType /\ op \in [Operations -> OperationType]
      /\ Kept(durable, op[o].lease) /\ durable \subseteq files
      /\ broker.sequence \in Nat /\ posts \in Seq(Nat) /\ PostsRecorded
      /\ broker' = [broker EXCEPT !.sequence = broker.sequence]
  BY AtWork
<1> DEFINE y == [op[o] EXCEPT !.pc = "return", !.err = "fenced"]
<1>2. y \in OperationType /\ y.pc = "return" /\ y.err = "fenced" /\ y.lease = op[o].lease
  BY <1>1 DEF OperationType, Places, Borrowing
<1>3. op' = [op EXCEPT ![o] = y]
  BY GoesWithError
<1> HIDE DEF y
<1>4. y.pc \in Issuing \ InFlight
  BY <1>2 DEF Issuing, Borrowing, InFlight
<1>5. PICK seq, grd, sent, kept :
          /\ seq \in Nat /\ seq = broker.sequence
          /\ grd = guard' /\ sent = posts /\ kept = durable'
  BY <1>1
<1>6. Kept(kept, y.lease)
  BY <1>1, <1>2, <1>5 DEF Kept
<1>7. OperationIs(y, seq, grd, sent, kept)
  BY <1>2, <1>4, <1>6, IssuerNotInFlight
<1>8. PostsRecorded'
  BY <1>1 DEF PostsRecorded
<1>9. y.pc # "reserving" /\ y.pc # "completing" /\ grd.fenced /\ durable \subseteq durable' /\ durable' \subseteq files'
  BY <1>1, <1>2, <1>5
<1> QED
  BY <1>1, <1>2, <1>3, <1>4, <1>5, <1>7, <1>8, <1>9, IssuerStep

LEMMA PostStep ==
    ASSUME BrokerInv, NEW o \in Operations, Post(o)
    PROVE  BrokerInv'
<1>1. /\ broker.process = "up" /\ op[o].pc = "post" /\ UNCHANGED <<guard, files, durable, posts, now>>
      /\ op[o].pc \notin InFlight /\ op[o].pc # "none" /\ op[o].pc \in Issuing
  BY DEF Post, At, disk, InFlight, Issuing, Borrowing
<1>2. /\ broker \in BrokerType /\ broker.sequence \in Nat /\ guard \in GuardType /\ posts \in Seq(Nat)
      /\ durable \subseteq files /\ op[o] \in OperationType /\ op \in [Operations -> OperationType]
      /\ Kept(durable, op[o].lease) /\ PostsRecorded
      /\ \A q \in Operations : q # o => op[q].pc \notin InFlight
  BY <1>1, AtWork
<1>3. CASE \E err \in {"unavailable", "fenced"} : Fail(o, err) /\ UNCHANGED broker
  <2>1. PICK err \in {"unavailable", "fenced"} : Fail(o, err) /\ UNCHANGED broker
    BY <1>3
  <2>2. op' = [op EXCEPT ![o] = [op[o] EXCEPT !.pc = "return", !.err = err]]
    BY <2>1, GoesWithError
  <2>3. "return" \in Places \ InFlight
    BY DEF Places, Borrowing, InFlight
  <2>4. op[o].pc \in Issuing => broker.issuing
    BY Mover
  <2> QED
    BY <1>1, <1>2, <2>1, <2>2, <2>3, <2>4, PlaceStep
<1>4. CASE broker' = [broker EXCEPT !.sequence = @ + 1] /\ Go(o, "reserve")
  <2> DEFINE y == [op[o] EXCEPT !.pc = "reserve"]
  <2>1. /\ y \in OperationType /\ y.pc = "reserve" /\ y.lease = op[o].lease
        /\ op' = [op EXCEPT ![o] = y]
    BY <1>2, <1>4 DEF OperationType, Places, Borrowing, Go
  <2> HIDE DEF y
  <2>2. PICK seq \in Nat : seq = broker.sequence + 1
    BY <1>2
  <2>3. broker' = [broker EXCEPT !.sequence = seq]
    BY <1>2, <1>4, <2>2
  <2>4. guard.fenced \/ AtRest(broker.sequence, guard, posts, durable)
    BY <1>1, <1>2 DEF BrokerInv, RestOK
  <2>5. OperationIs(y, seq, guard, posts, durable)
    BY <1>2, <2>1, <2>2, <2>4 DEF OperationIs, AtRest
  <2>6. y.pc \in Issuing /\ y.pc \in InFlight
    BY <2>1 DEF Issuing, Borrowing, InFlight
  <2>7. PostsRecorded'
    BY <1>1, <1>2 DEF PostsRecorded
  <2>8. PICK grd, sent, kept : grd = guard /\ sent = posts /\ kept = durable
    OBVIOUS
  <2>9. OperationIs(y, seq, grd, sent, kept) /\ y.pc # "reserving" /\ y.pc # "completing"
    BY <2>1, <2>5, <2>8
  <2> QED
    BY <1>1, <1>2, <2>1, <2>2, <2>3, <2>6, <2>7, <2>8, <2>9, IssuerStep
<1> QED
  BY <1>3, <1>4 DEF Post

\* The record of the attempt is created, and every attempt before is settled.
LEMMA ReserveStep ==
    ASSUME BrokerInv, NEW o \in Operations, Reserve(o)
    PROVE  BrokerInv'
<1>1. /\ broker.process = "up" /\ op[o].pc = "reserve" /\ UNCHANGED <<broker, durable, posts, now>>
      /\ op[o].pc \in Issuing
  BY DEF Reserve, At, Issuing, Borrowing
<1>2. /\ broker.sequence \in Nat /\ guard \in GuardType /\ posts \in Seq(Nat)
      /\ durable \subseteq files /\ op[o] \in OperationType /\ op \in [Operations -> OperationType]
      /\ OperationIs(op[o], broker.sequence, guard, posts, durable) /\ PostsRecorded
      /\ Kept(durable, op[o].lease) /\ broker' = [broker EXCEPT !.sequence = broker.sequence]
  BY <1>1, AtWork
<1>3. CASE /\ guard' = [guard EXCEPT !.fenced = TRUE] /\ Fail(o, "fenced") /\ UNCHANGED files
  <2>1. guard' \in GuardType /\ guard'.fenced
    BY <1>2, <1>3 DEF GuardType
  <2> QED
    BY <1>1, <1>3, <2>1, FencedStep
<1>4. CASE /\ Admits(o) /\ guard' = [guard EXCEPT !.busy = TRUE]
           /\ files' = files \cup {<<"pending", broker.sequence>>} /\ Go(o, "reserving")
  <2> DEFINE y == [op[o] EXCEPT !.pc = "reserving"]
  <2>1. /\ y \in OperationType /\ y.pc = "reserving" /\ y.lease = op[o].lease
        /\ op' = [op EXCEPT ![o] = y]
    BY <1>2, <1>4 DEF OperationType, Places, Borrowing, Go
  <2> HIDE DEF y
  <2>2. PICK grd \in GuardType : grd = guard' /\ grd.fenced = guard.fenced
                                 /\ grd.last = guard.last /\ grd.pending = guard.pending
    <3>1. guard' \in GuardType /\ guard'.last = guard.last /\ guard'.pending = guard.pending
      BY <1>2, <1>4 DEF GuardType
    <3>2. guard'.fenced = guard.fenced
      BY <1>2, <1>4 DEF GuardType
    <3> QED
      BY <3>1, <3>2
  <2>3. /\ ~guard.fenced /\ guard.pending = 0 /\ broker.sequence = guard.last + 1
        /\ SettledTo(guard.last, posts, durable)
    BY <1>1, <1>2, <1>4 DEF Admits, OperationIs
  <2>4. OperationIs(y, broker.sequence, grd, posts, durable)
    BY <1>2, <2>1, <2>2, <2>3 DEF OperationIs
  <2>5. y.pc \in Issuing /\ y.pc \in InFlight
    BY <2>1 DEF Issuing, Borrowing, InFlight
  <2>6. PostsRecorded'
    BY <1>1, <1>2 DEF PostsRecorded
  <2>7. PICK seq, sent, kept : seq \in Nat /\ seq = broker.sequence /\ sent = posts /\ kept = durable
    BY <1>2
  <2>8. /\ OperationIs(y, seq, grd, sent, kept) /\ y.pc # "completing"
        /\ <<"pending", seq>> \in files' /\ files \subseteq files' /\ durable' \subseteq files'
    BY <1>1, <1>2, <1>4, <2>1, <2>4, <2>7
  <2> QED
    BY <1>1, <1>2, <2>1, <2>2, <2>5, <2>6, <2>7, <2>8, IssuerStep
<1> QED
  BY <1>3, <1>4 DEF Reserve

\* Its sync makes the attempt one that may be sent.
LEMMA ReservedStep ==
    ASSUME BrokerInv, NEW o \in Operations, Reserved(o)
    PROVE  BrokerInv'
<1>1. /\ broker.process = "up" /\ op[o].pc = "reserving" /\ UNCHANGED <<broker, files, posts, now>>
      /\ op[o].pc \in Issuing
  BY DEF Reserved, At, Issuing, Borrowing
<1>2. /\ broker.sequence \in Nat /\ guard \in GuardType /\ posts \in Seq(Nat)
      /\ durable \subseteq files /\ op[o] \in OperationType /\ op \in [Operations -> OperationType]
      /\ OperationIs(op[o], broker.sequence, guard, posts, durable) /\ PostsRecorded
      /\ Kept(durable, op[o].lease) /\ broker' = [broker EXCEPT !.sequence = broker.sequence]
  BY <1>1, AtWork
<1>3. CASE /\ durable' = durable \/ durable' = files
           /\ guard' = [guard EXCEPT !.busy = FALSE, !.fenced = TRUE] /\ Fail(o, "fenced")
  <2>1. guard' \in GuardType /\ guard'.fenced
    BY <1>2, <1>3 DEF GuardType
  <2> QED
    BY <1>1, <1>3, <2>1, FencedStep
<1>4. CASE /\ durable' = files /\ Go(o, "reserved")
           /\ guard' = [guard EXCEPT !.busy = FALSE, !.last = broker.sequence,
                                     !.pending = broker.sequence, !.started = op[o].at]
  <2> DEFINE y == [op[o] EXCEPT !.pc = "reserved"]
  <2>1. /\ y \in OperationType /\ y.pc = "reserved" /\ y.lease = op[o].lease
        /\ op' = [op EXCEPT ![o] = y] /\ op[o].at \in Nat
    BY <1>2, <1>4 DEF OperationType, Places, Borrowing, Go
  <2> HIDE DEF y
  <2>2. PICK grd \in GuardType : grd = guard' /\ grd.fenced = guard.fenced
                                 /\ grd.last = broker.sequence /\ grd.pending = broker.sequence
    <3>1. guard' \in GuardType /\ guard'.last = broker.sequence /\ guard'.pending = broker.sequence
      BY <1>2, <1>4, <2>1 DEF GuardType
    <3>2. guard'.fenced = guard.fenced
      BY <1>2, <1>4 DEF GuardType
    <3> QED
      BY <3>1, <3>2
  <2>3. /\ ~guard.fenced /\ broker.sequence = guard.last + 1 /\ guard.last \in Nat
        /\ SettledTo(guard.last, posts, durable)
    BY <1>1, <1>2 DEF OperationIs, GuardType
  <2>4. <<"pending", broker.sequence>> \in files
    BY <1>1 DEF BrokerInv, OperationsOK
  <2>5. /\ Len(posts) = broker.sequence - 1 /\ broker.sequence > 0
        /\ \A j \in 1 .. broker.sequence - 1 : <<"accepted", j>> \in files
    BY <1>2, <2>3 DEF SettledTo
  <2>6. UnderWay(broker.sequence, grd, posts, files) /\ Kept(files, y.lease)
    BY <1>2, <2>1, <2>2, <2>3, <2>4, <2>5 DEF UnderWay, Kept
  <2>7. OperationIs(y, broker.sequence, grd, posts, files)
    BY <2>1, <2>5, <2>6 DEF OperationIs
  <2>8. y.pc \in Issuing /\ y.pc \in InFlight
    BY <2>1 DEF Issuing, Borrowing, InFlight
  <2>9. PostsRecorded'
    BY <1>1, <1>2, <1>4 DEF PostsRecorded
  <2>10. PICK seq, sent, kept : seq \in Nat /\ seq = broker.sequence /\ sent = posts /\ kept = files
    BY <1>2
  <2>11. OperationIs(y, seq, grd, sent, kept) /\ y.pc # "completing" /\ y.pc # "reserving"
    BY <2>1, <2>7, <2>10
  <2> QED
    BY <1>1, <1>2, <1>4, <2>1, <2>2, <2>8, <2>9, <2>10, <2>11, IssuerStep
<1> QED
  BY <1>3, <1>4 DEF Reserved, SyncRecords

\* The POST is sent: it is the next attempt, its record is durable and all
\* before it are accepted.
LEMMA SendStep ==
    ASSUME BrokerInv, NEW o \in Operations, Send(o)
    PROVE  BrokerInv'
<1>1. /\ broker.process = "up" /\ op[o].pc = "reserved"
      /\ UNCHANGED <<broker, guard, files, durable, now>> /\ op[o].pc \in Issuing
  BY DEF Send, At, Issuing, Borrowing, disk
<1>2. /\ broker.sequence \in Nat /\ guard \in GuardType /\ posts \in Seq(Nat)
      /\ durable \subseteq files /\ op[o] \in OperationType /\ op \in [Operations -> OperationType]
      /\ OperationIs(op[o], broker.sequence, guard, posts, durable) /\ PostsRecorded
      /\ Kept(durable, op[o].lease) /\ broker' = [broker EXCEPT !.sequence = broker.sequence]
  BY <1>1, AtWork
<1>3. UnderWay(broker.sequence, guard, posts, durable) /\ Len(posts) = broker.sequence - 1
  BY <1>1, <1>2 DEF OperationIs
<1>4. PICK y \in OperationType :
          /\ op' = [op EXCEPT ![o] = y] /\ y.lease = op[o].lease
          /\ \/ y.pc = "complete" /\ y.say = "unknown" /\ UNCHANGED posts
             \/ /\ posts' = Append(posts, broker.sequence)
                /\ \/ y.pc = "received" /\ \A t \in y.token : t.attempt = broker.sequence
                   \/ y.pc = "complete" /\ y.say # "accepted"
  <2>1. CASE \E say \in {"rejected", "unknown"} :
                 /\ op' = [op EXCEPT ![o].pc = "complete", ![o].say = say]
                 /\ \/ posts' = Append(posts, broker.sequence)
                    \/ say = "unknown" /\ UNCHANGED posts
    <3>1. PICK say \in {"rejected", "unknown"} :
                 /\ op' = [op EXCEPT ![o].pc = "complete", ![o].say = say]
                 /\ \/ posts' = Append(posts, broker.sequence)
                    \/ say = "unknown" /\ UNCHANGED posts
      BY <2>1
    <3> DEFINE y == [op[o] EXCEPT !.pc = "complete", !.say = say]
    <3>2. y \in OperationType /\ y.pc = "complete" /\ y.say = say /\ y.lease = op[o].lease
      BY <1>2 DEF OperationType, Places, Borrowing
    <3>3. op' = [op EXCEPT ![o] = y]
      BY <1>2, <3>1
    <3> HIDE DEF y
    <3> QED
      BY <3>1, <3>2, <3>3
  <2>2. CASE \E life \in Lives :
                 /\ posts' = Append(posts, broker.sequence)
                 /\ op' = [op EXCEPT ![o].pc = "received",
                                     ![o].token = {[attempt |-> broker.sequence, accepted |-> op[o].at,
                                                    expires |-> op[o].at + life]}]
    <3>1. PICK life \in Nat :
                 /\ posts' = Append(posts, broker.sequence)
                 /\ op' = [op EXCEPT ![o].pc = "received",
                                     ![o].token = {[attempt |-> broker.sequence, accepted |-> op[o].at,
                                                    expires |-> op[o].at + life]}]
      BY <2>2, TokenBrokerAssumption
    <3>2. op[o].at \in Nat
      BY <1>2 DEF OperationType
    <3>3. PICK token \in Token :
              token = [attempt |-> broker.sequence, accepted |-> op[o].at, expires |-> op[o].at + life]
      <4>1. op[o].at + life \in Nat
        BY <3>2
      <4> QED
        BY <1>2, <3>2, <4>1 DEF Token
    <3> DEFINE y == [op[o] EXCEPT !.pc = "received", !.token = {token}]
    <3>4. y \in OperationType /\ y.pc = "received" /\ y.token = {token} /\ y.lease = op[o].lease
      BY <1>2 DEF OperationType, Places, Borrowing
    <3>5. op' = [op EXCEPT ![o] = y]
      BY <1>2, <3>1, <3>3
    <3> HIDE DEF y
    <3>6. \A t \in y.token : t.attempt = broker.sequence
      BY <3>3, <3>4
    <3> QED
      BY <3>1, <3>4, <3>5, <3>6
  <2> QED
    BY <2>1, <2>2 DEF Send
<1>5. /\ posts' \in Seq(Nat)
      /\ posts' = posts \/ Len(posts') = broker.sequence
      /\ PostsRecorded'
  <2>1. CASE posts' = Append(posts, broker.sequence)
    <3>1. /\ posts' \in Seq(Nat) /\ Len(posts') = broker.sequence /\ Len(posts') = Len(posts) + 1
          /\ posts'[Len(posts')] = broker.sequence
          /\ \A i \in 1 .. Len(posts) : posts'[i] = posts[i]
      BY <1>2, <1>3, <2>1
    <3>2. ASSUME NEW i \in 1 .. Len(posts')
          PROVE  /\ posts'[i] = i /\ <<"pending", i>> \in durable
                 /\ \A j \in 1 .. i - 1 : <<"accepted", j>> \in durable
      <4>1. CASE i = Len(posts')
        BY <1>3, <3>1, <4>1 DEF UnderWay
      <4>2. CASE i \in 1 .. Len(posts)
        BY <1>2, <3>1, <4>2 DEF PostsRecorded
      <4> QED
        BY <1>2, <3>1, <4>1, <4>2
    <3> QED
      BY <1>1, <3>1, <3>2 DEF PostsRecorded
  <2>2. CASE posts' = posts
    BY <1>1, <1>2, <2>2 DEF PostsRecorded
  <2> QED
    BY <1>4, <2>1, <2>2
<1>6. PICK seq, grd, sent, kept :
          seq \in Nat /\ seq = broker.sequence /\ grd = guard /\ sent = posts' /\ kept = durable
  BY <1>2
<1>7. UnderWay(seq, grd, sent, kept)
  BY <1>3, <1>5, <1>6 DEF UnderWay
<1>8. /\ y.pc = "received" => Len(sent) = seq /\ \A t \in y.token : t.attempt = seq
      /\ y.pc = "complete" /\ y.say # "unknown" => Len(sent) = seq
      /\ y.say = "accepted" => y.pc # "complete"
      /\ y.pc \in {"received", "complete"}
  <2>1. CASE posts' = Append(posts, broker.sequence)
    <3>1. Len(posts') = broker.sequence
      BY <1>2, <1>3, <2>1
    <3> QED
      BY <1>4, <1>6, <3>1
  <2> QED
    BY <1>4, <1>6, <2>1
<1>9. Kept(kept, y.lease)
  BY <1>2, <1>4, <1>6
<1>10. OperationIs(y, seq, grd, sent, kept)
  BY <1>7, <1>8, <1>9 DEF OperationIs
<1>11. y.pc \in Issuing /\ y.pc \in InFlight /\ y.pc # "reserving" /\ y.pc # "completing"
  BY <1>8 DEF Issuing, Borrowing, InFlight
<1> QED
  BY <1>1, <1>2, <1>4, <1>5, <1>6, <1>10, <1>11, IssuerStep

LEMMA CompleteStep ==
    ASSUME BrokerInv, NEW o \in Operations, Complete(o)
    PROVE  BrokerInv'
<1>1. /\ broker.process = "up" /\ op[o].pc = "complete" /\ UNCHANGED <<broker, durable, posts, now>>
      /\ op[o].pc \in Issuing
  BY DEF Complete, At, Issuing, Borrowing
<1>2. /\ broker.sequence \in Nat /\ guard \in GuardType /\ posts \in Seq(Nat)
      /\ durable \subseteq files /\ op[o] \in OperationType /\ op \in [Operations -> OperationType]
      /\ OperationIs(op[o], broker.sequence, guard, posts, durable) /\ PostsRecorded
      /\ broker' = [broker EXCEPT !.sequence = broker.sequence]
  BY <1>1, AtWork
<1>3. CASE /\ guard' = [guard EXCEPT !.fenced = TRUE] /\ Fail(o, "fenced") /\ UNCHANGED files
  <2>1. guard' \in GuardType /\ guard'.fenced
    BY <1>2, <1>3 DEF GuardType
  <2> QED
    BY <1>1, <1>3, <2>1, FencedStep
<1>4. CASE /\ guard' = [guard EXCEPT !.busy = TRUE]
           /\ files' = files \cup {<<op[o].say, broker.sequence>>} /\ Go(o, "completing")
  <2> DEFINE y == [op[o] EXCEPT !.pc = "completing"]
  <2>1. /\ y \in OperationType /\ y.pc = "completing" /\ y.lease = op[o].lease /\ y.say = op[o].say
        /\ y.token = op[o].token /\ op' = [op EXCEPT ![o] = y]
    BY <1>2, <1>4 DEF OperationType, Places, Borrowing, Go
  <2> HIDE DEF y
  <2>2. PICK grd \in GuardType : grd = guard' /\ grd.fenced = guard.fenced
                                 /\ grd.last = guard.last /\ grd.pending = guard.pending
    <3>1. guard' \in GuardType /\ guard'.last = guard.last /\ guard'.pending = guard.pending
      BY <1>2, <1>4 DEF GuardType
    <3>2. guard'.fenced = guard.fenced
      BY <1>2, <1>4 DEF GuardType
    <3> QED
      BY <3>1, <3>2
  <2>3. UnderWay(broker.sequence, guard, posts, durable)
    BY <1>1, <1>2 DEF OperationIs
  <2>4. UnderWay(broker.sequence, grd, posts, durable)
    BY <2>2, <2>3 DEF UnderWay
  <2>5. OperationIs(y, broker.sequence, grd, posts, durable)
    BY <1>1, <1>2, <2>1, <2>4 DEF OperationIs
  <2>6. y.pc \in Issuing /\ y.pc \in InFlight
    BY <2>1 DEF Issuing, Borrowing, InFlight
  <2>7. PostsRecorded'
    BY <1>1, <1>2 DEF PostsRecorded
  <2>8. PICK seq, sent, kept : seq \in Nat /\ seq = broker.sequence /\ sent = posts /\ kept = durable
    BY <1>2
  <2>9. /\ OperationIs(y, seq, grd, sent, kept) /\ y.pc # "reserving"
        /\ <<y.say, seq>> \in files' /\ files \subseteq files' /\ durable' \subseteq files'
    BY <1>1, <1>2, <1>4, <2>1, <2>5, <2>8
  <2> QED
    BY <1>1, <1>2, <2>1, <2>2, <2>6, <2>7, <2>8, <2>9, IssuerStep
<1> QED
  BY <1>3, <1>4 DEF Complete

\* An accepted attempt puts the guard at rest; any other end fences it.
LEMMA CompletedStep ==
    ASSUME BrokerInv, NEW o \in Operations, Completed(o)
    PROVE  BrokerInv'
<1>1. /\ broker.process = "up" /\ op[o].pc = "completing" /\ UNCHANGED <<broker, files, posts, now>>
      /\ op[o].pc \in Issuing
  BY DEF Completed, At, Issuing, Borrowing
<1>2. /\ broker.sequence \in Nat /\ guard \in GuardType /\ posts \in Seq(Nat)
      /\ durable \subseteq files /\ op[o] \in OperationType /\ op \in [Operations -> OperationType]
      /\ OperationIs(op[o], broker.sequence, guard, posts, durable) /\ PostsRecorded
      /\ Kept(durable, op[o].lease) /\ broker' = [broker EXCEPT !.sequence = broker.sequence]
  BY <1>1, AtWork
<1>3. CASE /\ durable' = durable \/ durable' = files
           /\ \/ guard' = [guard EXCEPT !.busy = FALSE, !.fenced = TRUE]
              \/ guard' = Settled(o) /\ op[o].say # "accepted"
           /\ Fail(o, "fenced")
  <2>1. guard' \in GuardType /\ guard'.fenced
    <3>1. CASE guard' = [guard EXCEPT !.busy = FALSE, !.fenced = TRUE]
      BY <1>2, <3>1 DEF GuardType
    <3>2. CASE guard' = Settled(o) /\ op[o].say # "accepted"
      <4>1. guard' = [guard EXCEPT !.busy = FALSE, !.pending = 0, !.fenced = TRUE]
        BY <1>3, <3>2 DEF Settled
      <4> QED
        BY <1>2, <4>1 DEF GuardType
    <3> QED
      BY <1>3, <3>1, <3>2
  <2> QED
    BY <1>1, <1>3, <2>1, FencedStep
<1>4. CASE durable' = files /\ guard' = Settled(o) /\ op[o].say = "accepted" /\ Go(o, "accepted")
  <2> DEFINE y == [op[o] EXCEPT !.pc = "accepted"]
  <2>1. /\ y \in OperationType /\ y.pc = "accepted" /\ y.lease = op[o].lease
        /\ y.token = op[o].token /\ op' = [op EXCEPT ![o] = y]
    BY <1>2, <1>4 DEF OperationType, Places, Borrowing, Go
  <2> HIDE DEF y
  <2>2. PICK grd \in GuardType :
            grd = guard' /\ ~grd.busy /\ grd.last = guard.last /\ grd.pending = 0
    <3>1. guard' = [guard EXCEPT !.busy = FALSE, !.pending = 0, !.fenced = FALSE]
      BY <1>4 DEF Settled
    <3>2. guard' \in GuardType /\ guard'.last = guard.last /\ guard'.pending = 0
      BY <1>2, <3>1 DEF GuardType
    <3>3. ~guard'.busy
      BY <1>2, <3>1 DEF GuardType
    <3> QED
      BY <3>2, <3>3
  <2>3. /\ guard.last = broker.sequence /\ Len(posts) = broker.sequence
        /\ \A j \in 1 .. broker.sequence - 1 : <<"accepted", j>> \in durable
        /\ \A t \in op[o].token : t.attempt = broker.sequence
    BY <1>1, <1>2, <1>4 DEF OperationIs, UnderWay
  <2>4. <<"accepted", broker.sequence>> \in files
    BY <1>1, <1>4 DEF BrokerInv, OperationsOK
  <2>5. SettledTo(broker.sequence, posts, files)
    <3>1. ASSUME NEW j \in 1 .. broker.sequence PROVE <<"accepted", j>> \in files
      <4>1. j = broker.sequence \/ j \in 1 .. broker.sequence - 1
        BY <1>2
      <4> QED
        BY <1>2, <2>3, <2>4, <4>1
    <3> QED
      BY <2>3, <3>1 DEF SettledTo
  <2>6. AtRest(broker.sequence, grd, posts, files)
    BY <2>2, <2>3, <2>5 DEF AtRest
  <2>7. Kept(files, y.token) /\ Kept(files, y.lease)
    BY <1>2, <2>1, <2>3, <2>4 DEF Kept
  <2>8. y.pc \in Issuing \ InFlight
    BY <2>1 DEF Issuing, Borrowing, InFlight
  <2>9. PostsRecorded'
    BY <1>1, <1>2, <1>4 DEF PostsRecorded
  <2>10. PICK seq, sent, kept : seq \in Nat /\ seq = broker.sequence /\ sent = posts /\ kept = files
    BY <1>2
  <2>11. OperationIs(y, seq, grd, sent, kept)
    BY <2>1, <2>7, <2>8, <2>10, IssuerNotInFlight
  <2>12. /\ AtRest(seq, grd, sent, kept) /\ y.pc # "completing" /\ y.pc # "reserving"
         /\ durable \subseteq durable' /\ durable' \subseteq files'
    BY <1>1, <1>2, <1>4, <2>1, <2>6, <2>10
  <2> QED
    BY <1>1, <1>2, <1>4, <2>1, <2>2, <2>8, <2>9, <2>10, <2>11, <2>12, IssuerStep
<1> QED
  BY <1>3, <1>4 DEF Completed, SyncRecords

----------------------------------------------------------------------------
(* The process, the clock and the machine. *)

\* Before the guard is open nothing has been done by this process.
LEMMA FreshOK ==
    ASSUME NEW kept, NEW sent, NEW seq, NEW grd
    PROVE  /\ NoOperation \in OperationType /\ NoOperation.pc = "none" /\ NoOperation.lease = {}
           /\ NoOperation.pc \notin Issuing /\ NoOperation.pc \notin InFlight
           /\ OperationIs(NoOperation, seq, grd, sent, kept)
<1>1. /\ NoOperation \in OperationType /\ NoOperation.pc = "none" /\ NoOperation.lease = {}
      /\ NoOperation.pc \notin Issuing /\ NoOperation.pc \notin InFlight
  BY DEF NoOperation, OperationType, Places, Issuing, Borrowing, InFlight
<1> QED
  BY <1>1, NotTheIssuer DEF Kept

LEMMA NewBrokerOK ==
    ASSUME NEW place \in {"down", "opening", "up"}
    PROVE  LET b == [NewBroker EXCEPT !.process = place] IN
           /\ b \in BrokerType /\ b.process = place /\ b.operations = {} /\ ~b.issuing /\ ~b.done
           /\ b.sequence = 0 /\ b.cached = {} /\ b = [NewBroker EXCEPT !.process = b.process]
  BY DEF NewBroker, BrokerType

LEMMA NewGuardOK == NewGuard \in GuardType /\ NewGuard.last = 0 /\ NewGuard.pending = 0
                    /\ ~NewGuard.busy /\ ~NewGuard.fenced
  BY DEF NewGuard, GuardType

\* The invariant of a process that has nothing in hand.
LEMMA FreshInv ==
    ASSUME NEW place \in {"down", "opening", "up"},
           broker' = [NewBroker EXCEPT !.process = place],
           op' = [o \in Operations |-> NoOperation], guard' = NewGuard,
           durable' \subseteq files', now' \in Nat, posts' \in Seq(Nat),
           OwnedBeforeUse', PostsRecorded', place = "up" => posts' = <<>>
    PROVE  BrokerInv'
<1>1. /\ broker' \in BrokerType /\ broker'.process = place /\ broker'.operations = {}
      /\ ~broker'.issuing /\ ~broker'.done /\ broker'.sequence = 0 /\ broker'.cached = {}
      /\ broker' = [NewBroker EXCEPT !.process = broker'.process]
  BY NewBrokerOK
<1>2. \A o \in Operations : op'[o] = NoOperation
  OBVIOUS
<1>3. Types'
  BY <1>1, FreshOK, NewGuardOK DEF Types
<1>4. Membership' /\ DoneOK' /\ OneIssuer'
  BY <1>1, <1>2, FreshOK DEF Membership, DoneOK, OneIssuer
<1>5. FreshUntilUp'
  BY <1>1, <1>2 DEF FreshUntilUp
<1>6. OperationsOK'
  <2>1. PICK seq, grd, sent, kept :
            seq = broker'.sequence /\ grd = guard' /\ sent = posts' /\ kept = durable'
    OBVIOUS
  <2>2. OperationIs(NoOperation, seq, grd, sent, kept)
    BY FreshOK
  <2>3. NoOperation.pc # "reserving" /\ NoOperation.pc # "completing"
    BY FreshOK
  <2> QED
    BY <1>2, <2>1, <2>2, <2>3 DEF OperationsOK
<1>7. RestOK'
  <2>1. CASE place = "up"
    <3>1. AtRest(broker.sequence, guard, posts, durable)'
      BY <1>1, <2>1, NewGuardOK DEF AtRest, SettledTo
    <3> QED
      BY <3>1 DEF RestOK
  <2> QED
    BY <1>1, <2>1 DEF RestOK
<1>8. Kept(durable, broker.cached)'
  BY <1>1 DEF Kept
<1> QED
  BY <1>3, <1>4, <1>5, <1>6, <1>7, <1>8 DEF BrokerInv

LEMMA OpenStep ==
    ASSUME BrokerInv, Open \/ Opened
    PROVE  BrokerInv'
<1>1. /\ broker.process # "up" /\ UNCHANGED <<op, guard, now, posts>>
  BY DEF Open, Opened
<1>2. /\ op = [o \in Operations |-> NoOperation] /\ guard = NewGuard
      /\ broker = [NewBroker EXCEPT !.process = broker.process]
      /\ durable \subseteq files /\ now \in Nat /\ posts \in Seq(Nat)
  BY <1>1 DEF BrokerInv, FreshUntilUp, Types
<1>3. posts = <<>>
  BY DEF BrokerInv, OwnedBeforeUse, Open, Opened, Owner
<1>4. PostsRecorded'
  BY <1>1, <1>3 DEF PostsRecorded
<1>5. CASE Open
  <2>1. broker' = [NewBroker EXCEPT !.process = "opening"] /\ files' = files \cup {Owner} /\ UNCHANGED durable
    BY <1>5 DEF Open, Owner
  <2>2. broker'.process = "opening"
    BY <2>1, NewBrokerOK
  <2>3. OwnedBeforeUse'
    BY <1>1, <1>3, <2>1, <2>2 DEF OwnedBeforeUse
  <2> QED
    BY <1>1, <1>2, <1>4, <2>1, <2>3, FreshInv
<1>6. CASE Opened
  <2>1. durable' = files /\ broker' = [broker EXCEPT !.process = "up"] /\ UNCHANGED files
        /\ broker.process = "opening"
    BY <1>6 DEF Opened
  <2>2. broker' = [NewBroker EXCEPT !.process = "up"]
    BY <1>2, <2>1 DEF NewBroker
  <2>3. broker'.process = "up" /\ Owner \in files
    BY <2>1, <2>2, NewBrokerOK DEF BrokerInv, OwnedBeforeUse
  <2>4. OwnedBeforeUse'
    BY <2>1, <2>3 DEF OwnedBeforeUse
  <2> QED
    BY <1>1, <1>2, <1>3, <1>4, <2>1, <2>2, <2>4, FreshInv
<1> QED
  BY <1>5, <1>6

\* A stop forgets what the process held; a power loss takes only records
\* that are not durable.
LEMMA StopStep ==
    ASSUME BrokerInv, Stop \/ PowerLoss
    PROVE  BrokerInv'
<1>1. /\ broker' = NewBroker /\ op' = [o \in Operations |-> NoOperation] /\ guard' = NewGuard
      /\ UNCHANGED <<now, posts>> /\ broker.process # "down"
  BY DEF Stop, PowerLoss, Stopped
<1>2. broker' = [NewBroker EXCEPT !.process = "down"] /\ broker'.process = "down"
  BY <1>1 DEF NewBroker
<1>3. durable \subseteq files /\ now \in Nat /\ posts \in Seq(Nat) /\ PostsRecorded /\ OwnedBeforeUse
  BY DEF BrokerInv, Types
<1>4. durable \subseteq durable' /\ durable' \subseteq files'
  <2>1. CASE Stop
    BY <1>3, <2>1 DEF Stop, disk
  <2>2. CASE PowerLoss
    <3>1. PICK lost \in SUBSET (files \ durable) : files' = files \ lost /\ durable' = files'
      BY <2>2 DEF PowerLoss
    <3> QED
      BY <1>3, <3>1
  <2> QED
    BY <2>1, <2>2
<1>5. OwnedBeforeUse'
  <2>1. CASE broker.process = "up"
    <3>1. Owner \in files'
      BY <1>3, <1>4, <2>1 DEF OwnedBeforeUse
    <3> QED
      BY <1>2, <3>1 DEF OwnedBeforeUse
  <2>2. CASE broker.process = "opening"
    <3>1. posts' = <<>>
      BY <1>1, <1>3, <2>2 DEF OwnedBeforeUse
    <3> QED
      BY <1>2, <3>1 DEF OwnedBeforeUse
  <2> QED
    BY <1>1, <2>1, <2>2 DEF BrokerInv, Types, BrokerType
<1>6. PostsRecorded'
  BY <1>1, <1>3, <1>4 DEF PostsRecorded
<1> QED
  BY <1>1, <1>2, <1>3, <1>4, <1>5, <1>6, FreshInv

\* Close, finalize and the clock leave operations, guard and records alone.
LEMMA OutsideStep ==
    ASSUME BrokerInv, Close \/ TimePasses \/ ClockSetBack
                      \/ \E c \in Operations \cup {"close"} : Finalize(c)
    PROVE  BrokerInv'
<1>1. UNCHANGED <<op, guard, files, durable, posts>>
  BY DEF Close, TimePasses, ClockSetBack, Finalize, disk
<1>2. broker \in BrokerType /\ now \in Nat /\ Kept(durable, broker.cached)
  BY DEF BrokerInv, Types
<1>3. now' \in Nat
  <2>1. CASE ClockSetBack
    BY <1>2, <2>1 DEF ClockSetBack
  <2> QED
    BY <1>2, <2>1 DEF Close, TimePasses, Finalize
<1>4. /\ broker' \in BrokerType /\ broker'.process = broker.process
      /\ broker'.operations = broker.operations /\ broker'.sequence = broker.sequence
      /\ broker'.issuing = broker.issuing
      /\ broker'.cached \subseteq broker.cached
      /\ broker'.done => broker.done \/ (broker.closed /\ broker.operations = {} /\ ~broker.issuing)
      /\ broker.closed => broker'.closed
      /\ broker.process # "up" => broker' = broker
  <2>1. CASE Close
    BY <1>2, <2>1 DEF Close, BrokerType
  <2>2. CASE \E c \in Operations \cup {"close"} : Finalize(c)
    <3>1. broker.process = "up" /\ broker' = [broker EXCEPT !.done = @ \/ (broker.closed /\ Quiescent)]
      BY <2>2 DEF Finalize
    <3>2. PICK flag \in BOOLEAN : flag = (broker.done \/ (broker.closed /\ Quiescent))
      OBVIOUS
    <3>3. broker' = [broker EXCEPT !.done = flag]
      BY <3>1, <3>2
    <3>4. flag => broker.done \/ (broker.closed /\ broker.operations = {} /\ ~broker.issuing)
      BY <3>2 DEF Quiescent
    <3> QED
      BY <1>2, <3>1, <3>3, <3>4 DEF BrokerType
  <2>3. CASE broker' = broker
    BY <1>2, <2>3
  <2> QED
    BY <2>1, <2>2, <2>3 DEF TimePasses, ClockSetBack
<1>5. Types' /\ Membership' /\ DoneOK' /\ OneIssuer'
  BY <1>1, <1>3, <1>4 DEF BrokerInv, Types, Membership, DoneOK, OneIssuer
<1>6. FreshUntilUp' /\ OwnedBeforeUse'
  BY <1>1, <1>4 DEF BrokerInv, FreshUntilUp, OwnedBeforeUse
<1>7. OperationsOK' /\ RestOK' /\ PostsRecorded'
  BY <1>1, <1>4 DEF BrokerInv, OperationsOK, RestOK, PostsRecorded
<1>8. Kept(durable, broker.cached)'
  BY <1>1, <1>2, <1>4 DEF Kept
<1> QED
  BY <1>5, <1>6, <1>7, <1>8 DEF BrokerInv

----------------------------------------------------------------------------
LEMMA BrokerInit == Init => BrokerInv
<1> SUFFICES ASSUME Init PROVE BrokerInv
  OBVIOUS
<1>1. /\ broker = [NewBroker EXCEPT !.process = "down"] /\ op = [o \in Operations |-> NoOperation]
      /\ guard = NewGuard /\ files = {} /\ durable = {} /\ now = 0 /\ posts = <<>>
  BY DEF Init, NewBroker
<1>2. /\ broker \in BrokerType /\ broker.process = "down" /\ broker.operations = {} /\ ~broker.issuing
      /\ ~broker.done /\ broker.cached = {} /\ broker = [NewBroker EXCEPT !.process = broker.process]
  BY <1>1, NewBrokerOK
<1>3. \A o \in Operations : op[o] = NoOperation
  BY <1>1
<1>4. Types
  BY <1>1, <1>2, FreshOK, NewGuardOK DEF Types
<1>5. Membership /\ DoneOK /\ OneIssuer
  BY <1>2, <1>3, FreshOK DEF Membership, DoneOK, OneIssuer
<1>6. FreshUntilUp /\ OwnedBeforeUse
  BY <1>1, <1>2, <1>3 DEF FreshUntilUp, OwnedBeforeUse
<1>7. OperationsOK
  BY <1>3, FreshOK DEF OperationsOK
<1>8. RestOK /\ PostsRecorded /\ Kept(durable, broker.cached)
  BY <1>1, <1>2 DEF RestOK, PostsRecorded, Kept
<1> QED
  BY <1>4, <1>5, <1>6, <1>7, <1>8 DEF BrokerInv

LEMMA BrokerNext == BrokerInv /\ [Next]_vars => BrokerInv'
<1> SUFFICES ASSUME BrokerInv, [Next]_vars PROVE BrokerInv'
  OBVIOUS
<1>1. CASE UNCHANGED vars
  BY <1>1 DEF vars, BrokerInv, Types, Membership, DoneOK, OneIssuer, FreshUntilUp, OwnedBeforeUse,
              OperationsOK, RestOK, PostsRecorded
<1>2. CASE Open \/ Opened \/ Stop \/ PowerLoss
  BY <1>2, OpenStep, StopStep
<1>3. CASE Close \/ TimePasses \/ ClockSetBack \/ \E c \in Operations \cup {"close"} : Finalize(c)
  BY <1>3, OutsideStep
<1>4. ASSUME NEW o \in Operations,
             Begin(o) \/ CloseOperation(o) \/ Cancel(o) \/ Borrow(o) \/ Bind(o) \/ Release(o)
      PROVE  BrokerInv'
  BY <1>4, BeginStep, CloseOperationStep, CancelStep, SmallSteps, LeaseStep
<1>5. ASSUME NEW o \in Operations, Step(o)
      PROVE  BrokerInv'
  <2>1. CASE SampleClock(o) \/ Sampled(o)
    BY <2>1, SampleClockStep, SampledStep
  <2>2. CASE Decide(o) \/ Return(o) \/ Issue(o) \/ Bound(o)
    BY <2>2, DecideStep, ReturnStep, SmallSteps, LeaseStep
  <2>3. CASE Post(o) \/ Reserve(o) \/ Reserved(o)
    BY <2>3, PostStep, ReserveStep, ReservedStep
  <2>4. CASE Send(o) \/ Complete(o) \/ Completed(o)
    BY <2>4, SendStep, CompleteStep, CompletedStep
  <2> QED
    BY <1>5, <2>1, <2>2, <2>3, <2>4 DEF Step
<1> QED
  BY <1>1, <1>2, <1>3, <1>4, <1>5 DEF Next

LEMMA BrokerAlways == Spec => []BrokerInv
  BY BrokerInit, BrokerNext, PTL DEF Spec

\* The attempts to issue a token are numbered without a gap, each recorded
\* durably before its POST and each accounted for before the next, over all
\* processes, stops and power losses; and no token is lent or kept whose
\* issuance is not durably recorded (Reserve, Complete, borrow).
THEOREM BrokerRecordsIssuance == Spec => []IssuanceRecorded
<1>1. BrokerInv => IssuanceRecorded
  <2> SUFFICES ASSUME BrokerInv PROVE IssuanceRecorded
    OBVIOUS
  <2>1. \A o \in Operations : Kept(durable, op[o].lease)
    BY Mover
  <2>2. PostsRecorded /\ Kept(durable, broker.cached)
    BY DEF BrokerInv
  <2> QED
    BY <2>1, <2>2 DEF IssuanceRecorded, PostsRecorded, Kept
<1> QED
  BY <1>1, BrokerAlways, PTL

\* finalize never overtakes a borrow or a lease, whichever call runs it.
THEOREM BrokerCleansUpAfterUse == Spec => []CleanupAfterUse
<1>1. BrokerInv => CleanupAfterUse
  <2> SUFFICES ASSUME BrokerInv, broker.done
               PROVE  ~broker.issuing /\ \A o \in Operations : op[o].pc \notin Borrowing /\ op[o].lease = {}
    BY DEF CleanupAfterUse
  <2>1. ~broker.issuing /\ \A o \in Operations : op[o].pc = "none"
    BY DEF BrokerInv, DoneOK, Membership
  <2> QED
    BY <2>1, Mover, PlaceFacts
<1> QED
  BY <1>1, BrokerAlways, PTL
=============================================================================
