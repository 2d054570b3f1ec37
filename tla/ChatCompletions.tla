-------------------------- MODULE ChatCompletions --------------------------
(***************************************************************************)
(* The request pipeline of POST /v1/chat/completions (api/proxy.py) for    *)
(* the requests of one tenant, composed with the idempotency store and the *)
(* concurrency counter.  A step is what a request does between two awaits. *)
(*                                                                         *)
(* Up to the point where the answer is known the pipeline is a sequence of *)
(* stages (pc).  From there on it is a straight line of awaited effects:   *)
(* todo holds the ones still to come, each at its place in the code.       *)
(*                                                                         *)
(* Authentication precedes Arrive.  enforce_request_limits only decides    *)
(* here; what it consumes is the subject of TokenBucket.  The provider     *)
(* call is one await with the outcomes its callers tell apart; retries and *)
(* the breaker inside it are the subject of ProviderCall.                  *)
(***************************************************************************)
EXTENDS Integers, FiniteSets

CONSTANTS
    Requests,      \* requests of the tenant
    Keys,          \* idempotency keys they may carry
    Prompts,       \* redacted bodies, as compute_cache_key tells them apart
    Limit,         \* max_concurrent_requests
    CacheEnabled,  \* cache_enabled
    PiiFound,      \* whether redact_messages may find something
    Verdicts,      \* what the injection detector may say, given the mode
    Faults,        \* what may go wrong beyond a ProviderError
    NoKey, NoResponse

\* vanish:     a crash, or an exception at an await no handler covers.
\* unexpected: the provider call raises something other than ProviderError
\*             (a stream dropped by the upstream or by the client, a body
\*             that does not validate).
\* early_end:  the upstream ends a stream before [DONE], by closing the
\*             connection in good order or with an empty data line.
\* slot_ttl:   the counter expires under the requests it counts.
\* cache_ttl, replay_ttl: the entry expires.
\* The lock of a request in progress may always expire.
FaultKinds ==
    {"vanish", "unexpected", "early_end", "slot_ttl", "cache_ttl", "replay_ttl"}

ASSUME ChatAssumption ==
    /\ IsFiniteSet(Requests)
    /\ NoKey \notin Keys
    /\ NoResponse \notin Requests
    /\ Prompts # {}
    /\ Limit \in Nat
    /\ Faults \subseteq FaultKinds
    /\ CacheEnabled \in BOOLEAN
    /\ PiiFound \subseteq BOOLEAN
    /\ Verdicts \subseteq {"clean", "detected", "blocked"}

VARIABLES
    lock, replay, holds, outlived,  \* Idempotency
    count, slotKey, slot, flaw,  \* ConcurrencySlots
    pc,      \* the stage of each request
    req,     \* its idempotency key, stream flag and prompt
    todo,    \* the awaited effects still to come, by position
    status,  \* the outcome the client sees
    got,     \* the completion text collected or served
    cache,   \* completions by prompt
    usage,   \* usage_records rows written by each request
    audit,   \* audit_log events written by each request
    called,  \* history: the request reached the provider
    late     \* history: its key already had a response when it arrived

idemVars == <<lock, replay, holds, outlived>>
slotVars == <<count, slotKey, slot, flaw>>
ownVars == <<pc, req, todo, status, got, cache, usage, audit, called, late>>
vars == <<idemVars, slotVars, ownVars>>

Idem == INSTANCE Idempotency WITH
    Attempts <- Requests,
    ReplayMayExpire <- "replay_ttl" \in Faults

Slots == INSTANCE ConcurrencySlots WITH
    ExpiresUnderHolders <- "slot_ttl" \in Faults,
    LossPoints <- {"expiring", "over", "held"},
    MaxLeaks <- Cardinality(Requests)

Bodies == [key : Keys \cup {NoKey}, stream : BOOLEAN, prompt : Prompts]
Stages == {"new", "replay", "lock", "limits", "slot", "redact", "detect",
           "cache", "provider", "finish", "done"}
Work == {"limits", "slot", "redact", "detect", "cache", "provider"}
Effects == {"slot", "unlock", "usage", "cache", "replay"}
Statuses == {"none", "ok", "replayed", "conflict", "refused", "blocked",
             "upstream_error", "error"}
Texts == {"nothing", "partial", "full"}

TypeOK ==
    /\ Idem!IdemTypeOK
    /\ Slots!SlotTypeOK
    /\ pc \in [Requests -> Stages]
    /\ req \in [Requests -> Bodies]
    /\ todo \in [Requests -> UNION {[places -> Effects] : places \in SUBSET (1..5)}]
    /\ status \in [Requests -> Statuses]
    /\ got \in [Requests -> Texts]
    /\ cache \in [Prompts -> Texts]
    /\ usage \in [Requests -> 0..1]
    /\ audit \in [Requests -> SUBSET {"redacted", "detected", "blocked"}]
    /\ called \in [Requests -> BOOLEAN]
    /\ late \in [Requests -> BOOLEAN]

Init ==
    /\ Idem!IdemInit
    /\ Slots!SlotInit
    /\ pc = [r \in Requests |-> "new"]
    /\ req = [r \in Requests |-> CHOOSE b \in Bodies : b.key = NoKey]
    /\ todo = [r \in Requests |-> <<>>]
    /\ status = [r \in Requests |-> "none"]
    /\ got = [r \in Requests |-> "nothing"]
    /\ cache = [p \in Prompts |-> "nothing"]
    /\ usage = [r \in Requests |-> 0]
    /\ audit = [r \in Requests |-> {}]
    /\ called = [r \in Requests |-> FALSE]
    /\ late = [r \in Requests |-> FALSE]

HasKey(r) == req[r].key # NoKey

-----------------------------------------------------------------------------
(* Moving on. *)

Goto(r, stage) == pc' = [pc EXCEPT ![r] = stage]

\* The effects the code performs for this request: those on the idempotency
\* key only with a key, the cache only when the tenant has it enabled and
\* there is text to store.
Applies(r, text, effect) ==
    /\ effect \in {"unlock", "replay"} => HasKey(r)
    /\ effect = "cache" => CacheEnabled /\ text # "nothing"

\* The outcome is settled with the given text; of the listed effects those
\* that apply follow.
Settle(r, outcome, text, effects) ==
    LET places == {i \in DOMAIN effects : Applies(r, text, effects[i])}
    IN  /\ todo' = [todo EXCEPT ![r] = [i \in places |-> effects[i]]]
        /\ status' = [status EXCEPT ![r] = outcome]
        /\ got' = [got EXCEPT ![r] = text]
        /\ Goto(r, IF places = {} THEN "done" ELSE "finish")

-----------------------------------------------------------------------------
(* The stages of chat_completions. *)

Arrive(r, body) ==
    /\ pc[r] = "new"
    /\ req' = [req EXCEPT ![r] = body]
    /\ late' = [late EXCEPT ![r] = body.key # NoKey
                                   /\ Idem!GetCachedResponse(body.key) # NoResponse]
    /\ Goto(r, IF body.key = NoKey THEN "limits"
               ELSE IF body.stream THEN "lock" ELSE "replay")
    /\ UNCHANGED <<idemVars, slotVars, todo, status, got, cache, usage, audit, called>>

\* The replay lookup ignores what it finds.
ReplayMissOnly(r) ==
    /\ pc[r] = "replay"
    /\ Goto(r, "lock")
    /\ UNCHANGED <<idemVars, slotVars, req, todo, status, got, cache, usage, audit,
                   called, late>>

ReplayLookup(r) ==
    /\ pc[r] = "replay"
    /\ \/ /\ Idem!GetCachedResponse(req[r].key) # NoResponse
          /\ Settle(r, "replayed", "full", <<>>)
       \/ /\ Idem!GetCachedResponse(req[r].key) = NoResponse
          /\ Goto(r, "lock")
          /\ UNCHANGED <<todo, status, got>>
    /\ UNCHANGED <<idemVars, slotVars, req, cache, usage, audit, called, late>>

\* The duplicate waits for the lock instead of being refused.
LockWaits(r) ==
    /\ pc[r] = "lock"
    /\ Idem!TryAcquireLock(r, req[r].key)
    /\ Goto(r, "limits")
    /\ UNCHANGED <<slotVars, req, todo, status, got, cache, usage, audit, called, late>>

\* The request goes on whatever try_acquire_lock returns.
LockIgnored(r) ==
    /\ pc[r] = "lock"
    /\ \/ Idem!TryAcquireLock(r, req[r].key)
       \/ lock[req[r].key] /\ UNCHANGED idemVars
    /\ Goto(r, "limits")
    /\ UNCHANGED <<slotVars, req, todo, status, got, cache, usage, audit, called, late>>

Lock(r) ==
    /\ pc[r] = "lock"
    /\ \/ /\ Idem!TryAcquireLock(r, req[r].key)
          /\ Goto(r, "limits")
          /\ UNCHANGED <<todo, status, got>>
       \/ /\ lock[req[r].key]
          /\ Settle(r, "conflict", "nothing", <<>>)
          /\ UNCHANGED idemVars
    /\ UNCHANGED <<slotVars, req, cache, usage, audit, called, late>>

\* The 429 of the limiter is raised without release_lock.
LimitsKeepLock(r) ==
    /\ pc[r] = "limits"
    /\ \/ /\ Goto(r, "slot")
          /\ UNCHANGED <<todo, status, got, idemVars>>
       \/ /\ Settle(r, "refused", "nothing", <<>>)
          /\ IF HasKey(r) THEN Idem!AbandonLock(r) ELSE UNCHANGED idemVars
    /\ UNCHANGED <<slotVars, req, cache, usage, audit, called, late>>

\* registry.resolve (400) and enforce_request_limits (429).
Limits(r) ==
    /\ pc[r] = "limits"
    /\ \/ Goto(r, "slot") /\ UNCHANGED <<todo, status, got>>
       \/ Settle(r, "refused", "nothing", <<"unlock">>)
    /\ UNCHANGED <<idemVars, slotVars, req, cache, usage, audit, called, late>>

AcquireSlot(r) ==
    /\ pc[r] = "slot"
    /\ \/ /\ Slots!IncrSlot(r) \/ Slots!SetSlotExpiry(r)
          /\ Goto(r, IF slot'[r] = "held" THEN "redact" ELSE "slot")
          /\ UNCHANGED <<todo, status, got>>
       \/ /\ Slots!RejectOverLimit(r)
          /\ Settle(r, "refused", "nothing", <<"unlock">>)
    /\ UNCHANGED <<idemVars, req, cache, usage, audit, called, late>>

\* write_audit_event: the row is committed before it returns.
WriteAuditEvent(r, event) == audit' = [audit EXCEPT ![r] = @ \cup {event}]

\* _run_security_pipeline, first half: redaction and its audit row.
Redact(r) ==
    /\ pc[r] = "redact"
    /\ \E found \in PiiFound :
          IF found THEN WriteAuditEvent(r, "redacted") ELSE UNCHANGED audit
    /\ Goto(r, "detect")
    /\ UNCHANGED <<idemVars, slotVars, req, todo, status, got, cache, usage, called, late>>

\* A flagged request goes on whatever the mode.
DetectOnly(r) ==
    /\ pc[r] = "detect"
    /\ \E verdict \in Verdicts :
          IF verdict = "clean" THEN UNCHANGED audit ELSE WriteAuditEvent(r, verdict)
    /\ Goto(r, "cache")
    /\ UNCHANGED <<idemVars, slotVars, req, todo, status, got, cache, usage, called, late>>

\* The 403 is raised without release_concurrency_slot.
DetectKeepsSlot(r) ==
    /\ pc[r] = "detect"
    /\ \E verdict \in Verdicts :
          /\ IF verdict = "clean" THEN UNCHANGED audit ELSE WriteAuditEvent(r, verdict)
          /\ \/ /\ verdict = "blocked"
                /\ Settle(r, "blocked", "nothing", <<"unlock">>)
             \/ /\ verdict # "blocked"
                /\ Goto(r, "cache")
                /\ UNCHANGED <<todo, status, got>>
    /\ UNCHANGED <<idemVars, slotVars, req, cache, usage, called, late>>

\* Second half: injection detection, its audit row, and the 403 of mode block
\* with the cleanup of the except clause around the pipeline.
Detect(r) ==
    /\ pc[r] = "detect"
    /\ \E verdict \in Verdicts :
          /\ IF verdict = "clean" THEN UNCHANGED audit ELSE WriteAuditEvent(r, verdict)
          /\ \/ /\ verdict = "blocked"
                /\ Settle(r, "blocked", "nothing", <<"slot", "unlock">>)
             \/ /\ verdict # "blocked"
                /\ Goto(r, "cache")
                /\ UNCHANGED <<todo, status, got>>
    /\ UNCHANGED <<idemVars, slotVars, req, cache, usage, called, late>>

\* Usage is recorded before a stream is served and again when it ends.
CachedStreamEffectsTwice == <<"slot", "usage", "usage", "unlock">>

\* A hit is streamed by _stream_cached_completion, whose finally clause records
\* usage and stores no replay.
CachedStreamEffects == <<"slot", "usage", "unlock">>

\* After a cache hit the slot is given back first.
CacheHitEffects(r) ==
    IF req[r].stream THEN CachedStreamEffects
    ELSE <<"slot", "usage", "replay", "unlock">>

GetCachedCompletion(r) == cache[req[r].prompt]

CacheLookup(r) ==
    /\ pc[r] = "cache"
    /\ LET text == IF CacheEnabled THEN GetCachedCompletion(r) ELSE "nothing" IN
       \/ /\ text # "nothing"
          /\ Settle(r, "ok", text, CacheHitEffects(r))
          /\ UNCHANGED called
       \/ /\ text = "nothing"
          /\ Goto(r, "provider")
          /\ called' = [called EXCEPT ![r] = TRUE]
          /\ UNCHANGED <<todo, status, got>>
    /\ UNCHANGED <<idemVars, slotVars, req, cache, usage, audit, late>>

-----------------------------------------------------------------------------
(* The provider call, one JSON body. *)

\* The response is stored for replay before its usage is recorded.
CallEffectsUnbilled == <<"slot", "cache", "replay", "usage", "unlock">>

CallEffects == <<"slot", "cache", "usage", "replay", "unlock">>

Call(r) ==
    /\ pc[r] = "provider"
    /\ ~req[r].stream
    /\ \/ Settle(r, "ok", "full", CallEffects)
       \/ Settle(r, "upstream_error", "nothing", <<"unlock", "slot">>)
    /\ UNCHANGED <<idemVars, slotVars, req, cache, usage, audit, called, late>>

\* Not a ProviderError: only the finally clause runs, the lock stays.
CallRaises(r) ==
    /\ "unexpected" \in Faults
    /\ pc[r] = "provider"
    /\ ~req[r].stream
    /\ Settle(r, "error", "nothing", <<"slot">>)
    /\ IF HasKey(r) THEN Idem!AbandonLock(r) ELSE UNCHANGED idemVars
    /\ UNCHANGED <<slotVars, req, cache, usage, audit, called, late>>

-----------------------------------------------------------------------------
(* The provider call, a stream (_stream_chat_completion). *)

\* The first chunk; those that follow add nothing the model tells apart.
Chunk(r) ==
    /\ pc[r] = "provider"
    /\ req[r].stream
    /\ got[r] = "nothing"
    /\ got' = [got EXCEPT ![r] = "partial"]
    /\ UNCHANGED <<idemVars, slotVars, pc, req, todo, status, cache, usage, audit,
                   called, late>>

\* The finally clause with succeeded = True.
StreamEffects == <<"usage", "cache", "slot", "unlock">>

\* What the client has of a stream that ends without an exception.
EndTexts(r) ==
    IF got[r] = "nothing" THEN {"nothing"}
    ELSE {"full"} \cup (IF "early_end" \in Faults THEN {"partial"} ELSE {})

StreamEnds(r) ==
    /\ pc[r] = "provider"
    /\ req[r].stream
    /\ \E text \in EndTexts(r) : Settle(r, "ok", text, StreamEffects)
    /\ UNCHANGED <<idemVars, slotVars, req, cache, usage, audit, called, late>>

\* A ProviderError before or between chunks is billed and cached as a success.
StreamFailsAsSuccess(r) ==
    /\ pc[r] = "provider"
    /\ req[r].stream
    /\ Settle(r, "upstream_error", got[r], StreamEffects)
    /\ UNCHANGED <<idemVars, slotVars, req, cache, usage, audit, called, late>>

\* A ProviderError before or between chunks.
StreamFails(r) ==
    /\ pc[r] = "provider"
    /\ req[r].stream
    /\ Settle(r, "upstream_error", got[r], <<"slot", "unlock">>)
    /\ UNCHANGED <<idemVars, slotVars, req, cache, usage, audit, called, late>>

\* Any other exception, or the client going away, at the latest at the final
\* yield: succeeded is still True.
StreamRaises(r) ==
    /\ "unexpected" \in Faults
    /\ pc[r] = "provider"
    /\ req[r].stream
    /\ \E text \in {got[r], IF got[r] = "partial" THEN "full" ELSE "nothing"} :
          Settle(r, "error", text, StreamEffects)
    /\ UNCHANGED <<idemVars, slotVars, req, cache, usage, audit, called, late>>

-----------------------------------------------------------------------------
(* The awaited effects once the outcome is settled. *)

\* The first effect left is this one, and is done.
Perform(r, effect) ==
    /\ pc[r] = "finish"
    /\ \E i \in DOMAIN todo[r] :
          LET others == DOMAIN todo[r] \ {i}
          IN  /\ \A j \in others : i < j
              /\ todo[r][i] = effect
              /\ todo' = [todo EXCEPT ![r] = [j \in others |-> todo[r][j]]]
              /\ Goto(r, IF others = {} THEN "done" ELSE "finish")
    /\ UNCHANGED <<req, status, got, audit, called, late>>

ReleaseConcurrencySlot(r) ==
    /\ Perform(r, "slot")
    /\ Slots!ReleaseSlot(r)
    /\ UNCHANGED <<idemVars, cache, usage>>

ReleaseLock(r) ==
    /\ Perform(r, "unlock")
    /\ Idem!ReleaseLock(r)
    /\ UNCHANGED <<slotVars, cache, usage>>

\* record_usage: the row is committed before it returns.
RecordUsage(r) ==
    /\ Perform(r, "usage")
    /\ usage' = [usage EXCEPT ![r] = @ + 1]
    /\ UNCHANGED <<idemVars, slotVars, cache>>

StoreCachedCompletion(r) ==
    /\ Perform(r, "cache")
    /\ cache' = [cache EXCEPT ![req[r].prompt] = got[r]]
    /\ UNCHANGED <<idemVars, slotVars, usage>>

StoreResponse(r) ==
    /\ Perform(r, "replay")
    /\ Idem!StoreResponse(r)
    /\ UNCHANGED <<slotVars, cache, usage>>

-----------------------------------------------------------------------------
(* Faults and expiry. *)

\* The request ends where it is; what it holds stays behind.
Vanish(r) ==
    /\ "vanish" \in Faults
    /\ pc[r] \notin {"new", "done"}
    /\ Goto(r, "done")
    /\ todo' = [todo EXCEPT ![r] = <<>>]
    /\ status' = [status EXCEPT ![r] = "error"]
    /\ IF holds[r] # NoKey THEN Idem!AbandonLock(r) ELSE UNCHANGED idemVars
    /\ IF slot[r] # "out" THEN Slots!LoseSlot(r) ELSE UNCHANGED slotVars
    /\ UNCHANGED <<req, got, cache, usage, audit, called, late>>

\* release_lock raises in the except clause of the provider call; the finally
\* clause still gives the slot back.
ExceptRaises(r) ==
    /\ "vanish" \in Faults
    /\ pc[r] = "finish"
    /\ todo[r] = <<"unlock", "slot">>
    /\ todo' = [todo EXCEPT ![r] = [j \in {2} |-> "slot"]]
    /\ status' = [status EXCEPT ![r] = "error"]
    /\ Idem!AbandonLock(r)
    /\ UNCHANGED <<slotVars, pc, req, got, cache, usage, audit, called, late>>

CacheExpires(p) ==
    /\ "cache_ttl" \in Faults
    /\ cache[p] # "nothing"
    /\ cache' = [cache EXCEPT ![p] = "nothing"]
    /\ UNCHANGED <<idemVars, slotVars, pc, req, todo, status, got, usage, audit,
                   called, late>>

Expiry ==
    \/ \E k \in Keys : Idem!LockExpires(k) /\ UNCHANGED <<slotVars, ownVars>>
    \/ \E k \in Keys : Idem!ReplayExpires(k) /\ UNCHANGED <<slotVars, ownVars>>
    \/ Slots!SlotKeyExpires /\ UNCHANGED <<idemVars, ownVars>>
    \/ \E p \in Prompts : CacheExpires(p)

-----------------------------------------------------------------------------
\* What a request in progress does next, faults aside.
Step(r) ==
    \/ ReplayLookup(r) \/ Lock(r) \/ Limits(r) \/ AcquireSlot(r)
    \/ Redact(r) \/ Detect(r) \/ CacheLookup(r)
    \/ Call(r) \/ Chunk(r) \/ StreamEnds(r) \/ StreamFails(r)
    \/ ReleaseConcurrencySlot(r) \/ ReleaseLock(r) \/ RecordUsage(r)
    \/ StoreCachedCompletion(r) \/ StoreResponse(r)

Fault(r) == CallRaises(r) \/ StreamRaises(r) \/ Vanish(r) \/ ExceptRaises(r)

\* Every request of the instance has been answered.
AllDone == (\A r \in Requests : pc[r] = "done") /\ UNCHANGED vars

Next ==
    \/ \E r \in Requests : \/ \E body \in Bodies : Arrive(r, body)
                           \/ Step(r)
                           \/ Fault(r)
    \/ Expiry
    \/ AllDone

Spec == Init /\ [][Next]_vars

\* The provider's stream is open.
Streaming(r) == pc[r] = "provider" /\ req[r].stream

\* The event loop runs every request whose await has completed.  That the awaits
\* complete is assumed of the environment: Redis and Postgres answer or break
\* the connection (neither client has a timeout), and a call that does not
\* stream returns, as httpx's timeouts and the bounded retries have it.  Of a
\* stream nothing is assumed: the upstream may keep it open for ever.
FairSpec == Spec /\ \A r \in Requests : WF_vars(~Streaming(r) /\ Step(r))

-----------------------------------------------------------------------------
(***************************************************************************)
(* Whatever path a request takes, when it is over it has given back its    *)
(* slot and its lock, and what is left in Redis is accounted for by the    *)
(* requests in progress: the counter is their number, a lock that exists   *)
(* is somebody's.  (Without vanishing requests and unexpected exceptions.) *)
(***************************************************************************)
NothingLeaks ==
    /\ count = Cardinality({r \in Requests : slot[r] # "out"})
    /\ \A k \in Keys : lock[k] => \E r \in Requests : holds[r] = k
    /\ \A r \in Requests : pc[r] = "done" => slot[r] = "out" /\ holds[r] = NoKey

(***************************************************************************)
(* README: "Every completed request (streaming or not, cache hit or not)   *)
(* writes one usage_records row", and a request that was refused, blocked, *)
(* replayed or failed upstream writes none.                                *)
(***************************************************************************)
BilledIffServed ==
    \A r \in Requests : pc[r] = "done" => usage[r] = IF status[r] = "ok" THEN 1 ELSE 0

(***************************************************************************)
(* A response kept for replay has been billed, to a request that carried   *)
(* that key and did not stream, whatever vanished on the way.              *)
(***************************************************************************)
ReplayWasBilled ==
    \A k \in Keys : replay[k] # NoResponse =>
        LET r == replay[k] IN usage[r] = 1 /\ req[r].key = k /\ ~req[r].stream

(***************************************************************************)
(* The docstring of _stream_chat_completion: "Nothing is cached if the     *)
(* stream errors partway through."                                         *)
(***************************************************************************)
CacheIsComplete == \A p \in Prompts : cache[p] # "partial"

(***************************************************************************)
(* A duplicate sent after the first response was stored is answered from   *)
(* the replay store: it never reaches the provider and is never billed.    *)
(***************************************************************************)
LateDuplicateIsReplayed ==
    \A r \in Requests : late[r] /\ ~req[r].stream => ~called[r] /\ usage[r] = 0

(***************************************************************************)
(* A request the detector flags in mode block is audited, never reaches    *)
(* the provider, is not served from the cache and is not billed.           *)
(***************************************************************************)
BlockedGoesNowhere ==
    \A r \in Requests : "blocked" \in audit[r] =>
        ~called[r] /\ usage[r] = 0 /\ got[r] = "nothing" /\ status[r] \in {"blocked", "error"}

\* A step that answers 409 finds another request with the key in progress.
TruthfulConflicts ==
    \A r \in Requests : status[r] # "conflict" /\ status'[r] = "conflict"
        => \E s \in Requests \ {r} : /\ req[s].key = req[r].key
                                     /\ pc[s] \notin {"new", "done"}

(***************************************************************************)
(* The docstring of try_acquire_lock: "False means another request with    *)
(* the same idempotency key is already in flight for this tenant".         *)
(***************************************************************************)
ConflictIsTruthful == [][TruthfulConflicts]_vars


\* The requests that answer for a slot in the counter: those that are on, and
\* those that ended in an error.
Accountable ==
    {r \in Requests : IF pc[r] = "done" THEN status[r] = "error" ELSE slot[r] # "out"}

(***************************************************************************)
(* Whatever vanishes, raises or expires, only requests that failed leave   *)
(* something behind in Redis: the counter is at most the requests with a   *)
(* slot and those that ended in an error, and a lock is that of a request  *)
(* still on or of one that failed.  Every other way out of the handler, of *)
(* the except clauses and of the two generators gives back what it took.   *)
(***************************************************************************)
OnlyErrorsLeak ==
    /\ count <= Cardinality(Accountable)
    /\ \A k \in Keys : lock[k] =>
          \E r \in Requests : /\ req[r].key = k
                               /\ \/ holds[r] = k /\ pc[r] # "done"
                                  \/ status[r] = "error"

\* The requests with the key that have passed the lock and not been answered.
Executing(k) == {r \in Requests : req[r].key = k /\ pc[r] \in Work}

(***************************************************************************)
(* Retries of a key are executed in parallel only if the lock expired      *)
(* under one of them, each time one more, however they end and whoever     *)
(* deletes whose lock.  The docstring of try_acquire_lock: "the caller     *)
(* should reject with 409 rather than risk double-executing".              *)
(***************************************************************************)
DuplicatesNeedExpiry ==
    \A k \in Keys : Cardinality(Executing(k)) <= 1 + outlived[k]

(***************************************************************************)
(* Every request that arrives is answered, unless it is itself an open     *)
(* stream: none waits for the slot, the lock or the end of another, even   *)
(* of a stream that never ends.                                            *)
(***************************************************************************)
EveryRequestEnds ==
    \A r \in Requests : pc[r] # "new" ~> pc[r] = "done" \/ Streaming(r)
=============================================================================
