------------------------ MODULE TaskNotificationQueue ------------------------
(***************************************************************************)
(* The queue of scheduling hints: MemoryTaskNotificationQueue              *)
(* (controlplane/task_notification.go), the PostgreSQL queue with the same *)
(* rules (adapters/storage/postgres/task_notification_queue.go), and the   *)
(* long-poll endpoint workers claim through (httpapi).                     *)
(*                                                                         *)
(* A notice is delivered under a lease.  Every operation takes the clock   *)
(* reading of its own caller, so the times of successive operations are    *)
(* not ordered.  Notices are numbered in the order of their identities.    *)
(***************************************************************************)
EXTENDS Naturals, FiniteSets

CONSTANTS NoticeCount,    \* notices 1 .. NoticeCount
          Scope,          \* notice -> the review scope it belongs to
          AvailableAt,    \* notice -> its availability time
          Workers,        \* workers that claim and acknowledge
          Times,          \* clock readings
          Durations,      \* lease durations a worker may ask for
          MaxDeliveries,  \* maximumTaskNotificationDeliveries
          None

VARIABLES items,    \* notice -> its queue record
          wake,     \* the queue's wake-up signal is pending
          polls,    \* worker -> its long poll
          granted,  \* every delivery lease handed out
          acks      \* the delivery leases whose acknowledgement succeeded

vars == <<items, wake, polls, granted, acks>>

Notices == 1 .. NoticeCount
Scopes == {Scope[n] : n \in Notices}

ASSUME QueueAssumption ==
    /\ NoticeCount \in Nat
    /\ AvailableAt \in [Notices -> Nat]
    /\ Times \subseteq Nat
    /\ Durations \subseteq Nat \ {0}
    /\ MaxDeliveries \in Nat
    /\ None \notin Workers
    /\ None \notin Scopes

Lease == [notice : Notices, worker : Workers, delivery : Nat,
          leasedAt : Nat, expires : Nat]

\* expires is 0 when no lease was granted or it was acknowledged.
Item == [status : {"absent", "queued", "acknowledged"}, delivery : 0 .. MaxDeliveries,
         worker : Workers \cup {None}, expires : Nat]

Absent == [status |-> "absent", delivery |-> 0, worker |-> None, expires |-> 0]

TypeOK ==
    /\ items \in [Notices -> Item]
    /\ wake \in BOOLEAN
    /\ polls \in [Workers -> Scopes \cup {None}]
    /\ granted \subseteq Lease
    /\ acks \subseteq granted

Init ==
    /\ items = [n \in Notices |-> Absent]
    /\ wake = FALSE
    /\ polls = [w \in Workers |-> None]
    /\ granted = {}
    /\ acks = {}

----------------------------------------------------------------------------
\* Enqueueing is idempotent by identity: an acknowledged notice stays so.
Enqueue(n) ==
    /\ items[n].status = "absent"
    /\ items' = [items EXCEPT ![n].status = "queued"]
    /\ wake' = TRUE
    /\ UNCHANGED <<polls, granted, acks>>

ClaimableWhileLeased(n, at) ==
    /\ items[n].status = "queued"
    /\ items[n].delivery < MaxDeliveries
    /\ AvailableAt[n] <= at

Claimable(n, at) ==
    /\ items[n].status = "queued"
    /\ items[n].delivery < MaxDeliveries
    /\ AvailableAt[n] <= at
    /\ items[n].expires <= at

\* The earliest available notice of the scope, the lowest identity of those.
Candidates(s, at) == {n \in Notices : Scope[n] = s /\ Claimable(n, at)}
Chosen(s, at) ==
    CHOOSE n \in Candidates(s, at) : \A m \in Candidates(s, at) :
        \/ AvailableAt[n] < AvailableAt[m]
        \/ AvailableAt[n] = AvailableAt[m] /\ n <= m

(***************************************************************************)
(* A claim leases the chosen notice.  The lease's random token is told     *)
(* apart by the delivery it is for: no two deliveries share one.           *)
(***************************************************************************)
Deliver(w, n, at, duration) ==
    LET lease == [notice |-> n, worker |-> w, delivery |-> items[n].delivery + 1,
                  leasedAt |-> at, expires |-> at + duration] IN
    /\ items' = [items EXCEPT ![n].delivery = @ + 1, ![n].worker = w,
                              ![n].expires = at + duration]
    /\ granted' = granted \cup {lease}

Claim(w, s, at, duration) ==
    IF Candidates(s, at) # {} THEN Deliver(w, Chosen(s, at), at, duration)
    ELSE UNCHANGED <<items, granted>>

\* handleTaskNotificationOperation: claim, else wait for a wake-up ...
Poll(w, s, at, duration) ==
    /\ polls[w] = None
    /\ Claim(w, s, at, duration)
    /\ polls' = IF Candidates(s, at) # {} THEN polls ELSE [polls EXCEPT ![w] = s]
    /\ UNCHANGED <<wake, acks>>

(***************************************************************************)
(* ... and claim again when the wait ends, by the signal or by a timeout.  *)
(* The signal wakes one waiter, whatever its scope; a waiter of another    *)
(* scope uses it up.                                                       *)
(***************************************************************************)
PollAgain(w, at, duration) ==
    /\ polls[w] # None
    /\ Claim(w, polls[w], at, duration)
    /\ polls' = [polls EXCEPT ![w] = None]
    /\ wake' \in {FALSE, wake}
    /\ UNCHANGED acks

\* The request ends in the wait: its context is done, or the wait failed.
PollEnds(w) ==
    /\ polls[w] # None
    /\ polls' = [polls EXCEPT ![w] = None]
    /\ wake' \in {FALSE, wake}
    /\ UNCHANGED <<items, granted, acks>>

\* The task supervisor waits for the same signal.
SupervisorWoken ==
    /\ wake
    /\ wake' = FALSE
    /\ UNCHANGED <<items, polls, granted, acks>>

HoldsNotice(l) == items[l.notice].worker = l.worker

HoldsDelivery(l) ==
    /\ items[l.notice].status = "queued"
    /\ items[l.notice].delivery = l.delivery
    /\ items[l.notice].worker = l.worker
    /\ items[l.notice].expires = l.expires

Acknowledge(l, at) ==
    /\ HoldsDelivery(l)
    /\ l.leasedAt <= at /\ at <= l.expires
    /\ items' = [items EXCEPT ![l.notice].status = "acknowledged",
                              ![l.notice].worker = None, ![l.notice].expires = 0]
    /\ acks' = acks \cup {l}
    /\ UNCHANGED <<wake, polls, granted>>

Next ==
    \/ \E n \in Notices : Enqueue(n)
    \/ \E w \in Workers, at \in Times, d \in Durations :
        \/ \E s \in Scopes : Poll(w, s, at, d)
        \/ PollAgain(w, at, d)
    \/ \E w \in Workers : PollEnds(w)
    \/ SupervisorWoken
    \/ \E l \in granted, at \in Times : Acknowledge(l, at)

Spec == Init /\ [][Next]_vars

----------------------------------------------------------------------------
(* Properties. *)

(***************************************************************************)
(* docs/task-notifications.md: "An active delivery cannot be replaced      *)
(* before expiry."  Whatever clocks the claims were made with, the leases  *)
(* of one notice are numbered one by one and do not overlap in time.       *)
(***************************************************************************)
DeliveriesDisjoint ==
    \A l, m \in granted :
        l.notice = m.notice =>
            \/ l = m
            \/ l.delivery < m.delivery /\ l.expires <= m.leasedAt
            \/ m.delivery < l.delivery /\ m.expires <= l.leasedAt

(***************************************************************************)
(* "A stale worker cannot acknowledge a newer delivery": an acknowledged   *)
(* delivery is the last one of its notice, when it is acknowledged and     *)
(* ever after, so a settled hint is never delivered again.                 *)
(***************************************************************************)
AcknowledgedIsLast ==
    \A l \in acks, m \in granted : l.notice = m.notice => m.delivery <= l.delivery
=============================================================================
