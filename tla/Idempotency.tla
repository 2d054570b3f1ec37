---------------------------- MODULE Idempotency ----------------------------
(***************************************************************************)
(* Idempotency keys of one tenant in Redis (services/idempotency.py): the  *)
(* lock a request takes with SET NX EX and gives up with DEL, and the      *)
(* response kept for replay.  Each function is one Redis command, so one   *)
(* atomic action.  The lock's value is the constant "1": it has no owner,  *)
(* and release_lock deletes whatever lock is there.                        *)
(***************************************************************************)
EXTENDS Naturals, FiniteSets

CONSTANTS
    Attempts,        \* requests of the tenant, retries of a key included
    Keys,            \* idempotency keys in use
    NoKey,           \* the request carries no key, or holds no lock
    NoResponse,      \* nothing stored for replay
    ReplayMayExpire  \* a retry may come after REPLAY_CACHE_TTL_SECONDS

ASSUME IdemAssumption ==
    /\ IsFiniteSet(Attempts)
    /\ NoKey \notin Keys
    /\ NoResponse \notin Attempts
    /\ ReplayMayExpire \in BOOLEAN

VARIABLES
    lock,     \* the lock key exists
    replay,   \* the stored response, named by the request that produced it
    holds,    \* the key whose lock a request took and has not given up
    outlived  \* history: how often a key's lock expired under requests in
              \* progress, since there was last none in progress

idemVars == <<lock, replay, holds, outlived>>

IdemTypeOK ==
    /\ lock \in [Keys -> BOOLEAN]
    /\ replay \in [Keys -> Attempts \cup {NoResponse}]
    /\ holds \in [Attempts -> Keys \cup {NoKey}]
    /\ outlived \in [Keys -> 0..Cardinality(Attempts)]

IdemInit ==
    /\ lock = [k \in Keys |-> FALSE]
    /\ replay = [k \in Keys |-> NoResponse]
    /\ holds = [r \in Attempts |-> NoKey]
    /\ outlived = [k \in Keys |-> 0]

\* The requests with the key that got its lock and are not over.
InProgress(k) == {r \in Attempts : holds[r] = k}

-----------------------------------------------------------------------------
\* get_cached_response.
GetCachedResponse(k) == replay[k]

\* SET without NX.
TryAcquireLockNoNX(r, k) ==
    /\ holds[r] = NoKey
    /\ lock' = [lock EXCEPT ![k] = TRUE]
    /\ holds' = [holds EXCEPT ![r] = k]
    /\ UNCHANGED <<replay, outlived>>

\* try_acquire_lock when it returns True.
TryAcquireLock(r, k) ==
    /\ holds[r] = NoKey
    /\ ~lock[k]
    /\ lock' = [lock EXCEPT ![k] = TRUE]
    /\ holds' = [holds EXCEPT ![r] = k]
    /\ UNCHANGED <<replay, outlived>>

StoreResponse(r) ==
    /\ holds[r] # NoKey
    /\ replay' = [replay EXCEPT ![holds[r]] = r]
    /\ UNCHANGED <<lock, holds, outlived>>

\* The request is over; with nobody left in progress the history starts anew.
Leave(r) ==
    /\ holds' = [holds EXCEPT ![r] = NoKey]
    /\ outlived' = [outlived EXCEPT ![holds[r]] =
                       IF InProgress(holds[r]) = {r} THEN 0 ELSE @]

ReleaseLock(r) ==
    /\ holds[r] # NoKey
    /\ lock' = [lock EXCEPT ![holds[r]] = FALSE]
    /\ Leave(r)
    /\ UNCHANGED replay

\* The request ends without release_lock.
AbandonLock(r) ==
    /\ holds[r] # NoKey
    /\ Leave(r)
    /\ UNCHANGED <<lock, replay>>


\* ex=LOCK_TTL_SECONDS has run out, whether or not the request that took the
\* lock is still in progress: three attempts of 30 s each, or a long stream,
\* take more than the 60 s.  The history counts up to the number of requests.
LockExpires(k) ==
    /\ lock[k]
    /\ lock' = [lock EXCEPT ![k] = FALSE]
    /\ outlived' = [outlived EXCEPT ![k] =
                       IF InProgress(k) # {} /\ @ < Cardinality(Attempts)
                       THEN @ + 1 ELSE @]
    /\ UNCHANGED <<replay, holds>>

\* ex=REPLAY_CACHE_TTL_SECONDS has run out.
ReplayExpires(k) ==
    /\ ReplayMayExpire
    /\ replay[k] # NoResponse
    /\ replay' = [replay EXCEPT ![k] = NoResponse]
    /\ UNCHANGED <<lock, holds, outlived>>

IdemNext ==
    \/ \E r \in Attempts : \/ \E k \in Keys : TryAcquireLock(r, k)
                           \/ StoreResponse(r)
                           \/ ReleaseLock(r)
                           \/ AbandonLock(r)
    \/ \E k \in Keys : LockExpires(k) \/ ReplayExpires(k)

IdemSpec == IdemInit /\ [][IdemNext]_idemVars

\* Redis drops expired keys.  Nothing is assumed of the requests: they may be
\* in progress for ever.
IdemFairSpec == IdemSpec /\ \A k \in Keys : WF_idemVars(LockExpires(k))

-----------------------------------------------------------------------------
(***************************************************************************)
(* try_acquire_lock is to keep a request from being executed twice in      *)
(* parallel.  It does until the lock's TTL runs out under a request in     *)
(* progress, and each time it does lets in one more, never two: although   *)
(* the first to finish deletes the lock of the next one (release_lock does *)
(* not look whose lock it is) and so lets in a third, it has made room for *)
(* it.  Once all of them are over, one request at a time is back.          *)
(***************************************************************************)
OverlapNeedsExpiry ==
    \A k \in Keys : Cardinality(InProgress(k)) <= 1 + outlived[k]

=============================================================================
