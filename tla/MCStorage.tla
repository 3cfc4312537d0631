------------------------------ MODULE MCStorage ------------------------------
(***************************************************************************)
(* The stores, for model checking: the durable local journal, the artifact *)
(* store and the rate limiter of the shared database.  They share no       *)
(* state, so a behaviour is one of a single store, its subject, and the    *)
(* others stay as they are at first.  The instances: two processes, two    *)
(* plans and streams of up to three events; three artifacts in a store     *)
(* with room for two; two callers of a limiter that has room for one of    *)
(* two keys.                                                               *)
(***************************************************************************)
EXTENDS FileRunJournal, FiniteSets

CONSTANTS Artifacts, DeletionIDs, MaxArtifacts, StoreFaults,
          Callers, Keys, Configurations, Limit, MaximumKeys, MaxTime, MaxCalls

VARIABLES subject,
          seen, synced, store, puts, receipts, failures, storeBudget,
          rows, call, namespaceLock, now, calls, admitted

\* NewSharedRateLimiter refuses a limit or a key limit of zero.
ASSUME LimiterAssumption ==
    /\ IsFiniteSet(Keys) /\ Keys # {}
    /\ Configurations # {}
    /\ Limit \in Nat \ {0}
    /\ MaximumKeys \in Nat \ {0}
    /\ MaxTime \in Nat

Storing == INSTANCE ArtifactStore
    WITH Authorizations <- DeletionIDs, Disturbances <- StoreFaults,
         durable <- synced, budget <- storeBudget
Limiting == INSTANCE SharedRateLimiter WITH lock <- namespaceLock

storeVars == <<seen, synced, store, puts, receipts, failures, storeBudget>>
limiterVars == <<rows, call, namespaceLock, now, calls, admitted>>
allVars == <<subject, vars, storeVars, limiterVars>>

MCInit ==
    /\ subject \in {"journal", "artifacts", "limiter"}
    /\ Init /\ Storing!Init /\ Limiting!Init

OfArtifacts(A) ==
    /\ subject = "artifacts"
    /\ A
    /\ UNCHANGED <<subject, vars, limiterVars>>
OfLimiter(A) ==
    /\ subject = "limiter"
    /\ A
    /\ UNCHANGED <<subject, vars, storeVars>>

\* The limiter's calls may all have been made, which ends its behaviour.
MCNext ==
    \/ /\ subject = "journal"
       /\ Next
       /\ UNCHANGED <<subject, storeVars, limiterVars>>
    \/ OfArtifacts(Storing!Next)
    \/ OfLimiter(Limiting!Next)

\* The fairness of ArtifactStore and of SharedRateLimiter, for their subjects.
MCFairness ==
    /\ WF_allVars(OfArtifacts(Storing!Open))
    /\ WF_allVars(OfArtifacts(Storing!Opened))
    /\ WF_allVars(OfArtifacts(Storing!Recovered))
    /\ \A a \in Artifacts : WF_allVars(OfArtifacts(Storing!RecoverDeletion(a)))
    /\ WF_allVars(OfArtifacts(Storing!CompleteDeletion))
    /\ WF_allVars(OfArtifacts(Storing!SyncRoot))
    /\ \A c \in Callers :
           /\ WF_allVars(OfLimiter(Limiting!Step(c)))
           /\ SF_allVars(OfLimiter(Limiting!LockNamespace(c)))

MCSpec == MCInit /\ [][MCNext]_allVars /\ MCFairness

----------------------------------------------------------------------------
(* Properties, as their modules state them. *)

\* Every store's variables have their types, within its limits (StreamLimit,
\* maxStoreArtifacts, the limiter's rows).
StorageTypeOK == TypeOK /\ Storing!TypeOK /\ Limiting!TypeOK

\* A reported deletion is never undone (FileStore.Delete).
DeletionFinal == Storing!DeletionFinal

\* A reported Put survives until its deletion (FileStore.Put).
StoredSurvives == Storing!StoredSurvives

\* A prepared deletion is carried out (recoverDeletions).
PreparedIsDeleted == Storing!PreparedIsDeleted

\* The request limit and the key limit hold across interleaved Allow calls.
WithinLimits == Limiting!WithinLimits

\* Every Allow ends (its transaction and its advisory lock).
CallsEnd == Limiting!CallsEnd
=============================================================================
