-------------------------- MODULE SharedRateLimiter --------------------------
(***************************************************************************)
(* The rate limiter the daemons of a deployment share (adapters/storage/   *)
(* postgres, SharedRateLimiter): Allow calls as read-committed             *)
(* transactions on one namespace of the window table, with row locks, the  *)
(* namespace's advisory lock and the time each transaction began at.       *)
(*                                                                         *)
(* PostgreSQL is external: a statement sees what was committed when it     *)
(* runs and its own changes, it waits for a row another transaction has    *)
(* changed, and its changes appear when the transaction commits.  Windows  *)
(* are one unit of time long and start at whole units.                     *)
(***************************************************************************)
EXTENDS Naturals, FiniteSets

CONSTANTS Callers,          \* Allow calls that may run at once
          Keys,             \* key digests
          Configurations,   \* configuration identities of the daemons
          Limit, MaximumKeys,
          MaxTime, MaxCalls \* bounds on the clock and on the calls made

VARIABLES rows,      \* committed windows, at most one of each key
          call,      \* the transactions
          lock,      \* who holds the namespace's advisory lock
          now,       \* the database's clock
          calls,     \* calls made
          admitted   \* requests admitted before the window they began in ended

vars == <<rows, call, lock, now, calls, admitted>>

Windows == [config : Configurations, start : 0..MaxTime, count : 1..Limit]

\* A transaction: key and config are Allow's, began is transaction_timestamp,
\* writes holds the rows it changed, by key, and allowed what it will return.
Places == {"idle", "update", "lock", "again", "cleanup", "insert", "commit"}
Idle ==
    [pc |-> "idle", key |-> CHOOSE k \in Keys : TRUE, config |-> CHOOSE f \in Configurations : TRUE,
     began |-> 0, writes |-> [k \in {} |-> {}], allowed |-> FALSE]

Init ==
    /\ rows = [k \in Keys |-> {}]
    /\ call = [c \in Callers |-> Idle]
    /\ lock = {}
    /\ now = 0
    /\ calls = 0
    /\ admitted = [k \in Keys |-> [w \in 0..MaxTime |-> 0]]

At(c, place) == call[c].pc = place
Locked(k, c) == \E d \in Callers \ {c} : k \in DOMAIN call[d].writes
View(c) == [k \in Keys |-> IF k \in DOMAIN call[c].writes THEN call[c].writes[k] ELSE rows[k]]
Expired(row, c) == row.start + 1 <= call[c].began

----------------------------------------------------------------------------
Begin(c, k, f) ==
    /\ At(c, "idle")
    /\ calls < MaxCalls
    /\ calls' = calls + 1
    /\ call' = [call EXCEPT ![c] = [Idle EXCEPT !.pc = "update", !.key = k, !.config = f, !.began = now]]
    /\ UNCHANGED <<rows, lock, now, admitted>>

\* The row after the update statement, and whether it granted the request.
Counted(row, c) ==
    IF Expired(row, c) THEN [row EXCEPT !.start = call[c].began, !.count = 1]
    ELSE [row EXCEPT !.count = IF @ < Limit THEN @ + 1 ELSE @]
Granted(row, c) == Expired(row, c) \/ row.count < Limit

\* updateExisting, before and after the namespace is locked: the row is read
\* for update, so another transaction's change to it is waited for.
MayTakeStale(k, c) == TRUE
MayTake(k, c) == ~Locked(k, c)
UpdateExisting(c) ==
    /\ call[c].pc \in {"update", "again"}
    /\ LET k == call[c].key
           mine == {row \in rows[k] : row.config = call[c].config}
       IN  IF mine = {}
           THEN call' = [call EXCEPT ![c].pc = IF @ = "update" THEN "lock" ELSE "cleanup"]
           ELSE /\ MayTake(k, c)
                /\ \E row \in mine :
                       call' = [call EXCEPT ![c].pc = "commit",
                                            ![c].writes = [key \in {k} |-> {Counted(row, c)}],
                                            ![c].allowed = Granted(row, c)]
    /\ UNCHANGED <<rows, lock, now, calls, admitted>>

NamespaceFree == lock = {}
LockNamespace(c) ==
    /\ At(c, "lock")
    /\ NamespaceFree
    /\ lock' = lock \cup {c}
    /\ call' = [call EXCEPT ![c].pc = "again"]
    /\ UNCHANGED <<rows, now, calls, admitted>>

Cleanup(c) ==
    /\ At(c, "cleanup")
    /\ LET expired == {k \in Keys : \E row \in rows[k] : Expired(row, c)} IN
       /\ \A k \in expired : ~Locked(k, c)
       /\ call' = [call EXCEPT ![c].pc = "insert", ![c].writes = [k \in expired |-> {}]]
    /\ UNCHANGED <<rows, lock, now, calls, admitted>>

UnlockedOnCommit(c) == IF At(c, "commit") THEN lock \ {c} ELSE lock
Unlocked(c) == lock \ {c}
Rollback(c) ==
    /\ call' = [call EXCEPT ![c] = Idle]
    /\ lock' = Unlocked(c)
    /\ UNCHANGED <<rows, now, calls, admitted>>

\* The conflict check, the key limit and the insertion.
Full(c) == Cardinality({k \in Keys : View(c)[k] # {}}) >= MaximumKeys
Insert(c) ==
    /\ At(c, "insert")
    /\ LET k == call[c].key IN
       IF View(c)[k] # {} \/ Full(c) THEN Rollback(c)
       ELSE /\ ~Locked(k, c)
            /\ call' = [call EXCEPT
                ![c].pc = "commit", ![c].allowed = TRUE,
                ![c].writes = [key \in DOMAIN @ \cup {k} |->
                                  IF key = k THEN {[config |-> call[c].config, start |-> call[c].began, count |-> 1]}
                                  ELSE @[key]]]
            /\ UNCHANGED <<rows, lock, now, calls, admitted>>

\* The commit, and whether its answer reaches the caller.
InTime(c) == call[c].allowed /\ call[c].began = now
Commit(c) ==
    /\ At(c, "commit")
    /\ rows' = View(c)
    /\ call' = [call EXCEPT ![c] = Idle]
    /\ lock' = Unlocked(c)
    /\ \/ admitted' = [admitted EXCEPT ![call[c].key][now] = IF InTime(c) THEN @ + 1 ELSE @]
       \/ UNCHANGED admitted
    /\ UNCHANGED <<now, calls>>

\* The request's time is up, or its connection is lost.
Abort(c) ==
    /\ call[c].pc # "idle"
    /\ Rollback(c)

TimePasses ==
    /\ now < MaxTime
    /\ now' = now + 1
    /\ UNCHANGED <<rows, call, lock, calls, admitted>>

Step(c) == UpdateExisting(c) \/ LockNamespace(c) \/ Cleanup(c) \/ Insert(c) \/ Commit(c)
Next ==
    \/ TimePasses
    \/ \E c \in Callers :
           \/ \E k \in Keys, f \in Configurations : Begin(c, k, f)
           \/ Step(c) \/ Abort(c)

\* A transaction takes the steps it can take, and the advisory lock is queued for.
Fairness == \A c \in Callers : WF_vars(Step(c)) /\ SF_vars(LockNamespace(c))
Spec == Init /\ [][Next]_vars /\ Fairness

----------------------------------------------------------------------------
TypeOK ==
    /\ rows \in [Keys -> SUBSET Windows]
    /\ \A c \in Callers :
           /\ call[c].pc \in Places
           /\ \A k \in DOMAIN call[c].writes : call[c].writes[k] \subseteq Windows
    /\ lock \subseteq Callers
    /\ now \in 0..MaxTime
    /\ calls \in 0..MaxCalls
    /\ admitted \in [Keys -> [0..MaxTime -> 0..MaxCalls]]

(***************************************************************************)
(* However the calls of several daemons interleave, no more than Limit     *)
(* requests of a key are admitted in one window of the database's clock,   *)
(* counting the requests that were both begun and admitted in it.  (A      *)
(* transaction that began in one window and ends in the next is charged to *)
(* a row it may have to create, and can be one more.)  And the namespace   *)
(* never holds more than MaximumKeys rows, although each Allow counts them *)
(* in one statement and inserts in another; a key has one row at most.     *)
(***************************************************************************)
WithinLimits ==
    /\ \A k \in Keys, w \in 0..MaxTime : admitted[k][w] <= Limit
    /\ Cardinality({k \in Keys : rows[k] # {}}) <= MaximumKeys
    /\ \A k \in Keys : Cardinality(rows[k]) <= 1

(***************************************************************************)
(* Every Allow ends without being aborted: the row locks and the advisory  *)
(* lock are never waited for in a circle, and errors leave none behind.    *)
(* (At most MaxCalls calls are made, so all of them end in time.)          *)
(***************************************************************************)
CallsEnd == []<>(\A c \in Callers : At(c, "idle"))
=============================================================================
