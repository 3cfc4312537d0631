----------------------------- MODULE Publication -----------------------------
(***************************************************************************)
(* Publication of one plan as a GitHub review: the publication handler     *)
(* (handlers/publication/handler.go, Execute) with the audited gates of    *)
(* internal/review (publication_claim.go, publication_head.go,             *)
(* publisher.go, publication_retry.go), the GitHub adapter                 *)
(* (adapters/scm/github/publication.go) and the PostgreSQL attempt guard   *)
(* (adapters/storage/postgres/publication_attempt_guard.go).               *)
(*                                                                         *)
(* The audit ledger of the review scope and the guard are durable.  All    *)
(* executions have the same plan and so the same operation key; they may   *)
(* have different authorizations, whose identity depends on the time.      *)
(* Retry is the audited flow of publication_retry.go: Execute itself stops *)
(* at the first result, which is the instance with MaxAttempts = 1.        *)
(* Any result of a dispatch may be recorded, one whose context had ended   *)
(* included: recording it is its caller's, with a context of its own.      *)
(***************************************************************************)
EXTENDS Naturals, Sequences, FiniteSets

CONSTANTS Executions, Authorizations,
          MaxAttempts,     \* of the publication retry policy
          MaxConflicts,    \* maxModelPipelineAuditConflicts
          Disturbances     \* bound on stops and faults

VARIABLES readiness,  \* status of the run's readiness result
          ledger,     \* audit events of the scope
          guard,      \* rows of open_trestle_publication_attempts
          wire,       \* attempts whose POST GitHub has not answered
          reviews,    \* attempts whose POST created a review
          refused,    \* attempts whose POST GitHub turned down
          head,       \* the pull request's head against the reviewed one
          exec,       \* execution -> its state
          budget

vars == <<readiness, ledger, guard, wire, reviews, refused, head, exec, budget>>
github == <<wire, reviews, refused, head>>

Prerequisites == {"source", "context", "readiness"}
OfAttempt == {"head", "completed", "retry"}
Recording == Prerequisites \cup {"authorized", "claimed"} \cup OfAttempt
Final == {"not_required", "published", "failed"}

\* A claim's identity has its event's sequence, an attempt's the claim's.
Attempts == (0 .. 2 * Cardinality(Executions) + 5 * MaxAttempts) \X (0 .. MaxAttempts)
NoAttempt == <<0, 0>>

Heads == {"current", "stale"}
Failures == {"transient", "cancelled", "rate_limited", "provider", "rejected"}
Results == Failures \cup {"none", "success"}

Events ==
    [kind : Recording, auth : SUBSET Authorizations, attempt : Attempts,
     value : Heads \cup {"unavailable"} \cup Results]

(***************************************************************************)
(* seen is the ledger's length when it was inspected.  flags: "aged" when  *)
(* the head observation or its evaluation is over two seconds old,         *)
(* "expired" when the grant is.                                            *)
(***************************************************************************)
Execution ==
    [at : Recording \cup Final
            \cup {"idle", "resolve", "reconcile", "dispatch", "guard", "token", "post",
                  "complete", "receipt"},
     phase : {"inspect", "append"}, seen : Nat, tries : 0 .. MaxConflicts - 1,
     auth : SUBSET Authorizations, claim : Nat, number : 1 .. MaxAttempts,
     observed : Heads \cup {"unavailable"}, result : Results,
     flags : SUBSET {"aged", "expired"}]

Init ==
    /\ readiness \in {"ready", "not_required", "blocked"}
    /\ ledger = <<>>
    /\ guard = {}
    /\ wire = {} /\ reviews = {} /\ refused = {}
    /\ head = "current"
    /\ exec = [e \in Executions |->
                 [at |-> "idle", phase |-> "inspect", seen |-> 0, tries |-> 0, auth |-> {},
                  claim |-> 0, number |-> 1, observed |-> "unavailable",
                  result |-> "none", flags |-> {}]]
    /\ budget = Disturbances

Becomes(e, x) == exec' = [exec EXCEPT ![e] = x]
At(e, place) == exec[e].at = place
Attempt(e) == <<exec[e].claim, exec[e].number>>
Open(e) == exec[e].flags = {}

\* x goes on at the next place, with nothing inspected yet.
Goes(x, place) == [x EXCEPT !.at = place, !.phase = "inspect", !.seen = 0, !.tries = 0]
Fails(x) == Goes(x, "failed")

----------------------------------------------------------------------------
(* Execute up to the ledger. *)

Start(e, a) ==
    /\ At(e, "idle")
    /\ Becomes(e, Goes([exec[e] EXCEPT !.auth = {a}],
                       CASE readiness = "ready" -> "source"
                         [] readiness = "not_required" -> "receipt"
                         [] OTHER -> "failed"))
    /\ UNCHANGED <<readiness, ledger, guard, github, budget>>

----------------------------------------------------------------------------
(* Recording: inspect the ledger between two equal heads, append to that   *)
(* head, and start again when the head moved.                              *)

Event(e) ==
    LET x == exec[e]
    IN  [kind |-> x.at,
         auth |-> IF x.at \in Prerequisites THEN {} ELSE x.auth,
         attempt |-> IF x.at \in OfAttempt THEN Attempt(e) ELSE NoAttempt,
         value |-> CASE x.at = "head" -> x.observed
                     [] x.at = "completed" -> x.result
                     [] OTHER -> "none"]

Logged == {ledger[i] : i \in DOMAIN ledger}

\* A claim of this plan, or another event about this attempt.
Competing(e) ==
    \E v \in Logged :
        /\ v.kind = exec[e].at
        /\ \/ v.kind = "claimed"
           \/ v.kind \in OfAttempt /\ v.attempt = Attempt(e) /\ v # Event(e)

HeadNeverMoved(e) == FALSE
HeadMoved(e) == Len(ledger) # exec[e].seen

LastTry(x) == x.tries + 1 = MaxConflicts

Retryable(x) ==
    x.result \in {"transient", "cancelled", "rate_limited"} /\ x.number < MaxAttempts

\* AuthorizesPublication of the recorded head gate.
GateNotStale(x) == x.observed # "stale"
GateOpen(x) == x.observed = "current"

\* Where an execution goes once its event is recorded as number n.
Recorded(x, n) ==
    CASE x.at = "source" -> Goes(x, "context")
      [] x.at = "context" -> Goes(x, "readiness")
      [] x.at = "readiness" -> Goes(x, "authorized")
      [] x.at = "authorized" -> Goes(x, "claimed")
      [] x.at = "claimed" -> Goes([x EXCEPT !.claim = n], "resolve")
      [] x.at = "head" -> IF GateOpen(x) THEN Goes(x, "dispatch") ELSE Fails(x)
      [] x.at = "completed" ->
             IF x.result = "success" THEN Goes(x, "receipt")
             ELSE IF Retryable(x) /\ "expired" \notin x.flags THEN Goes(x, "retry")
             ELSE Fails(x)
      [] x.at = "retry" ->
             Goes([x EXCEPT !.number = x.number + 1, !.flags = x.flags \ {"aged"}], "resolve")

Inspect(e) ==
    LET x == exec[e]
    IN  /\ x.at \in Recording /\ x.phase = "inspect"
        /\ Becomes(e, IF Competing(e) THEN Fails(x)
                      ELSE IF Event(e) \in Logged THEN Recorded(x, 0)
                      ELSE [x EXCEPT !.phase = "append", !.seen = Len(ledger)])
        /\ UNCHANGED <<readiness, ledger, guard, github, budget>>

AppendEvent(e) ==
    LET x == exec[e]
    IN  /\ x.at \in Recording /\ x.phase = "append"
        /\ IF HeadMoved(e)
           THEN /\ Becomes(e, IF LastTry(x) THEN Fails(x)
                              ELSE [x EXCEPT !.phase = "inspect", !.seen = 0, !.tries = x.tries + 1])
                /\ UNCHANGED ledger
           ELSE /\ ledger' = Append(ledger, Event(e))
                /\ Becomes(e, Recorded(x, Len(ledger) + 1))
        /\ UNCHANGED <<readiness, guard, github, budget>>

\* The commit succeeds but its reply is lost: the caller gives up.
AppendInDoubt(e) ==
    /\ budget > 0
    /\ exec[e].at \in Recording /\ exec[e].phase = "append"
    /\ ~HeadMoved(e)
    /\ ledger' = Append(ledger, Event(e))
    /\ Becomes(e, Fails(exec[e]))
    /\ budget' = budget - 1
    /\ UNCHANGED <<readiness, guard, github>>

----------------------------------------------------------------------------
(* The head gate and the dispatch. *)

Resolve(e) ==
    /\ At(e, "resolve")
    /\ \E h \in {head, "unavailable"} :
          Becomes(e, Goes([exec[e] EXCEPT !.observed = h], "reconcile"))
    /\ UNCHANGED <<readiness, ledger, guard, github, budget>>

\* The observation counts from the start of Execute; the evaluation is new.
Reconcile(e) ==
    /\ At(e, "reconcile")
    /\ Becomes(e, IF Open(e) THEN Goes(exec[e], "head") ELSE Fails(exec[e]))
    /\ UNCHANGED <<readiness, ledger, guard, github, budget>>

Dispatch(e) ==
    /\ At(e, "dispatch")
    /\ Becomes(e, IF Open(e) THEN Goes(exec[e], "guard") ELSE Fails(exec[e]))
    /\ UNCHANGED <<readiness, ledger, guard, github, budget>>

Returns(x, r) == Goes([x EXCEPT !.result = r], "completed")
ReturnsCompleting(x, r) == Goes([x EXCEPT !.result = r], "complete")

Row(e) == [attempt |-> Attempt(e), status |-> "claimed", result |-> "none"]

\* The rows a claim meets: the operation key is the same for every attempt.
RowsOfAttempt(e) == {g \in guard : g.attempt = Attempt(e)}
RowsOfOperation(e) == guard

ClaimPublicationAttempt(e) ==
    LET x == exec[e]
        rows == RowsOfOperation(e)
    IN  /\ At(e, "guard")
        /\ IF rows = {}
           THEN guard' = guard \cup {Row(e)} /\ Becomes(e, Goes(x, "token"))
           ELSE /\ Becomes(e, Returns(x, IF \A g \in rows : g.attempt = Attempt(e)
                                         THEN "rejected" ELSE "transient"))
                /\ UNCHANGED guard
        /\ UNCHANGED <<readiness, ledger, github, budget>>

\* The guard is unavailable, before or after its commit.
ClaimInDoubt(e) ==
    /\ budget > 0
    /\ At(e, "guard")
    /\ guard' \in {guard, IF RowsOfOperation(e) = {} THEN {Row(e)} ELSE guard}
    /\ Becomes(e, Returns(exec[e], "transient"))
    /\ budget' = budget - 1
    /\ UNCHANGED <<readiness, ledger, github>>

(***************************************************************************)
(* The token, the recheck of grant and head (RemainingDispatchTime), and   *)
(* the POST, which may not outlive them.                                   *)
(***************************************************************************)
Send(e) ==
    /\ At(e, "token")
    /\ Open(e)
    /\ wire' = wire \cup {Attempt(e)}
    /\ Becomes(e, Goes(exec[e], "post"))
    /\ UNCHANGED <<readiness, ledger, guard, reviews, refused, head, budget>>

\* No token, a grant or head that is too old, or an ended context.
NotSent(e) ==
    /\ At(e, "token")
    /\ \E r \in {"rejected", "cancelled"} :
          Becomes(e, ReturnsCompleting(exec[e], r))
    /\ UNCHANGED <<readiness, ledger, guard, github, budget>>

OutcomesUnread(a) == {"provider", "cancelled", "success"}

\* What the adapter may make of the answer, or of none.
Outcomes(a) ==
    {"provider", "cancelled"}
        \cup (IF a \in reviews THEN {"success"} ELSE {})
        \cup (IF a \in refused THEN {"rate_limited", "rejected"} ELSE {})

Response(e) ==
    /\ At(e, "post")
    /\ \E r \in Outcomes(Attempt(e)) : Becomes(e, ReturnsCompleting(exec[e], r))
    /\ UNCHANGED <<readiness, ledger, guard, github, budget>>

\* complete: skipped when cancelled, and its error is ignored.
CompletePublicationAttempt(e) ==
    /\ At(e, "complete")
    /\ \/ guard' = {IF g.attempt = Attempt(e)
                    THEN [g EXCEPT !.status = "completed", !.result = exec[e].result]
                    ELSE g : g \in guard} /\ exec[e].result # "cancelled"
       \/ UNCHANGED guard
    /\ Becomes(e, Goes(exec[e], "completed"))
    /\ UNCHANGED <<readiness, ledger, github, budget>>

PersistReceipt(e) ==
    /\ At(e, "receipt")
    /\ Becomes(e, Goes(exec[e], IF exec[e].result = "success" THEN "published" ELSE "not_required"))
    /\ UNCHANGED <<readiness, ledger, guard, github, budget>>

----------------------------------------------------------------------------
(* GitHub, time and faults. *)

Apply(a) ==
    /\ a \in wire
    /\ wire' = wire \ {a}
    /\ reviews' = reviews \cup {a}
    /\ UNCHANGED <<readiness, ledger, guard, refused, head, exec, budget>>

Refuse(a) ==
    /\ a \in wire
    /\ wire' = wire \ {a}
    /\ refused' = refused \cup {a}
    /\ UNCHANGED <<readiness, ledger, guard, reviews, head, exec, budget>>

HeadMoves ==
    /\ budget > 0
    /\ head' \in Heads \ {head}
    /\ budget' = budget - 1
    /\ UNCHANGED <<readiness, ledger, guard, wire, reviews, refused, exec>>

TimePasses(e) ==
    /\ budget > 0
    /\ exec[e].at \notin Final \cup {"idle"}
    /\ \E f \in {{"aged"}, {"aged", "expired"}} :
          /\ exec[e].flags \subseteq f /\ exec[e].flags # f
          /\ Becomes(e, [exec[e] EXCEPT !.flags = f])
    /\ budget' = budget - 1
    /\ UNCHANGED <<readiness, ledger, guard, github>>

\* A stop, an ended context, or a store that fails without an effect.
Stop(e) ==
    /\ budget > 0
    /\ exec[e].at \notin Final \cup {"idle"}
    /\ Becomes(e, Fails(exec[e]))
    /\ budget' = budget - 1
    /\ UNCHANGED <<readiness, ledger, guard, github>>

Over ==
    /\ \A e \in Executions : exec[e].at \in Final
    /\ UNCHANGED vars

Step(e) ==
    \/ Inspect(e)
    \/ AppendEvent(e)
    \/ Resolve(e)
    \/ Reconcile(e)
    \/ Dispatch(e)
    \/ ClaimPublicationAttempt(e)
    \/ Send(e)
    \/ NotSent(e)
    \/ Response(e)
    \/ CompletePublicationAttempt(e)
    \/ PersistReceipt(e)

Next ==
    \/ \E e \in Executions, a \in Authorizations : Start(e, a)
    \/ \E e \in Executions : Step(e)
    \/ \E e \in Executions : AppendInDoubt(e) \/ ClaimInDoubt(e) \/ TimePasses(e) \/ Stop(e)
    \/ \E a \in wire : Apply(a) \/ Refuse(a)
    \/ HeadMoves
    \/ Over

Spec == Init /\ [][Next]_vars

----------------------------------------------------------------------------
(* Properties. *)

\* The variables have their types; appends give up at the conflict limit.
TypeOK ==
    /\ readiness \in {"ready", "not_required", "blocked"}
    /\ Logged \subseteq Events
    /\ guard \subseteq [attempt : Attempts, status : {"claimed", "completed"}, result : Results]
    /\ wire \subseteq Attempts /\ reviews \subseteq Attempts /\ refused \subseteq Attempts
    /\ head \in Heads
    /\ exec \in [Executions -> Execution]
    /\ budget \in 0 .. Disturbances

(***************************************************************************)
(* "ClaimPublication atomically grants exactly one caller ownership of an  *)
(* authorized plan": over all authorizations, interleavings and commits    *)
(* whose reply is lost, the ledger has one claim and one execution uses it.*)
(***************************************************************************)
OneOwner ==
    /\ Cardinality({i \in DOMAIN ledger : ledger[i].kind = "claimed"}) <= 1
    /\ \A d, e \in Executions : exec[d].claim # 0 /\ exec[e].claim # 0 => d = e

(***************************************************************************)
(* The pull request never gets the review twice, although a cancelled POST *)
(* may have been applied and a cancelled attempt may be retried            *)
(* (PublisherExactOperationKey, publisher.go): whoever may still send its  *)
(* POST is the first to do so, and of those sent one may be applied.       *)
(***************************************************************************)
ReviewedOnce ==
    /\ Cardinality(reviews \cup wire) <= 1
    /\ \A e \in Executions : At(e, "token") => wire \cup reviews \cup refused = {}

(***************************************************************************)
(* Every POST was preceded, in this order, by the recorded authorization,  *)
(* claim and current head of its own attempt, whatever was retried.        *)
(***************************************************************************)
SentUnderGate ==
    \A a \in wire \cup reviews \cup refused :
        \E i, j, k \in DOMAIN ledger :
            /\ i < j /\ j < k
            /\ ledger[i].kind = "authorized"
            /\ j = a[1] /\ ledger[j].kind = "claimed" /\ ledger[j].auth = ledger[i].auth
            /\ ledger[k].kind = "head" /\ ledger[k].attempt = a /\ ledger[k].value = "current"

(***************************************************************************)
(* What is reported happened: a recorded success, and a task completed as  *)
(* published, has its review; an attempt has one recorded result.          *)
(***************************************************************************)
ReportedHappened ==
    /\ \A v \in Logged : v.kind = "completed" /\ v.value = "success" => v.attempt \in reviews
    /\ \A v, w \in Logged : v.kind = "completed" /\ w.kind = "completed" /\ v.attempt = w.attempt => v = w
    /\ \A e \in Executions : At(e, "published") =>
          \E v \in Logged : v.kind = "completed" /\ v.attempt = Attempt(e) /\ v.value = "success"

=============================================================================
