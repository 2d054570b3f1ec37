---------------------------- MODULE TokenBucket ----------------------------
(***************************************************************************)
(* One token bucket in Redis (the script _TOKEN_BUCKET_LUA of              *)
(* services/rate_limiter.py), for requests/min or tokens/min of a tenant.  *)
(* The script is atomic, so a call of it is one action.                    *)
(*                                                                         *)
(* Units: a tick of Redis's clock, and the tokens the bucket gains in one  *)
(* tick.  As refill_per_second is capacity / 60, the capacity in these     *)
(* units is the number of ticks in a minute.                               *)
(*                                                                         *)
(* The script stores its two numbers through Lua's tostring, which keeps   *)
(* 14 significant digits: a timestamp of ten digits before the point is    *)
(* rounded to the nearest 100 microseconds.  TimeErr and TokenErr bound    *)
(* what the rounding may do; it may go either way.                         *)
(***************************************************************************)
EXTENDS Integers

CONSTANTS
    Capacity,  \* capacity, and one minute in ticks
    Costs,     \* what calls may ask for
    KeyTtl,    \* _BUCKET_KEY_TTL_SECONDS in ticks
    TimeErr,   \* rounding of updated_at
    TokenErr,  \* rounding of tokens
    Horizon,   \* bound: the clock stops here
    MaxCalls   \* bound: calls in one observed window

\* The last conjunct is the comment on _BUCKET_KEY_TTL_SECONDS, "generously
\* longer than any refill window we use".
ASSUME BucketAssumption ==
    /\ Capacity \in Nat /\ KeyTtl \in Nat
    /\ Costs \subseteq Nat
    /\ TimeErr \in Nat /\ TokenErr \in Nat
    /\ Horizon \in Nat /\ MaxCalls \in Nat
    /\ Capacity + TimeErr <= KeyTtl

VARIABLES
    present,    \* the key exists
    tokens,     \* its field tokens
    updatedAt,  \* its field updated_at
    touchedAt,  \* when EXPIRE last ran
    now,        \* TIME
    since,      \* history: start of the observed window
    granted,    \* history: tokens granted in it
    calls       \* history: calls of the script in it

bucketVars == <<present, tokens, updatedAt, touchedAt>>
windowVars == <<since, granted, calls>>
vars == <<bucketVars, now, windowVars>>

TypeOK ==
    /\ present \in BOOLEAN
    /\ tokens \in 0..Capacity
    /\ updatedAt \in -TimeErr..(Horizon + TimeErr)
    /\ touchedAt \in 0..Horizon
    /\ now \in 0..Horizon
    /\ since \in 0..Horizon
    /\ granted \in Nat
    /\ calls \in 0..MaxCalls

Init ==
    /\ present = FALSE
    /\ tokens = 0 /\ updatedAt = 0 /\ touchedAt = 0
    /\ now = 0
    /\ since = 0 /\ granted = 0 /\ calls = 0

-----------------------------------------------------------------------------
Least(a, b) == IF a <= b THEN a ELSE b
Most(a, b) == IF a >= b THEN a ELSE b

\* Refill without math.min(capacity, ...).
LevelUncapped ==
    IF present THEN tokens + Most(0, now - updatedAt) ELSE Capacity

\* The tokens a call finds: a bucket without a key is full, another one is
\* refilled for the time since updated_at, up to its capacity.
Level ==
    IF present THEN Least(Capacity, tokens + Most(0, now - updatedAt)) ELSE Capacity

\* The call is allowed.
Allows(cost) == Level >= cost

\* What tostring may make of a number of tokens: it is off by at most
\* TokenErr, and as 0 and the capacity are written exactly and rounding is
\* monotone, it does not move a number past either.
Rounded(x) ==
    {y \in (x - TokenErr)..(x + TokenErr) :
        (x >= 0 => y >= 0) /\ (x <= Capacity => y <= Capacity)}

\* updated_at is written only when the key is created.
CheckKeepsTime(cost) ==
    /\ calls < MaxCalls
    /\ tokens' \in Rounded(IF Allows(cost) THEN Level - cost ELSE Level)
    /\ updatedAt' = IF present THEN updatedAt ELSE now
    /\ touchedAt' = now
    /\ present' = TRUE
    /\ granted' = granted + (IF Allows(cost) THEN cost ELSE 0)
    /\ calls' = calls + 1
    /\ UNCHANGED <<now, since>>

\* One run of the script.
Check(cost) ==
    /\ calls < MaxCalls
    /\ tokens' \in Rounded(IF Allows(cost) THEN Level - cost ELSE Level)
    /\ \E err \in -TimeErr..TimeErr : updatedAt' = now + err
    /\ touchedAt' = now
    /\ present' = TRUE
    /\ granted' = granted + (IF Allows(cost) THEN cost ELSE 0)
    /\ calls' = calls + 1
    /\ UNCHANGED <<now, since>>

\* The TTL is as long as the window it was meant to outlast is short.
ExpireEarly ==
    /\ present
    /\ 2 * (now - touchedAt) >= Capacity
    /\ present' = FALSE
    /\ UNCHANGED <<tokens, updatedAt, touchedAt, now, windowVars>>

\* Redis drops the key when its TTL has run out.
Expire ==
    /\ present
    /\ now - touchedAt >= KeyTtl
    /\ present' = FALSE
    /\ UNCHANGED <<tokens, updatedAt, touchedAt, now, windowVars>>

Tick ==
    /\ now < Horizon
    /\ now' = now + 1
    /\ UNCHANGED <<bucketVars, windowVars>>

\* An observer starts counting; any moment is as good as another.
Observe ==
    /\ since' = now
    /\ granted' = 0
    /\ calls' = 0
    /\ UNCHANGED <<bucketVars, now>>

Next == (\E cost \in Costs : Check(cost)) \/ Expire \/ Tick \/ Observe

Spec == Init /\ [][Next]_vars

-----------------------------------------------------------------------------
(***************************************************************************)
(* What the limiter lets through in any window, wherever it starts: the    *)
(* burst of one full bucket, what is refilled in the window, and what      *)
(* rounding adds per call - whatever mix of allowed and refused calls, and *)
(* whether or not the key expires in between.                              *)
(***************************************************************************)
WindowBound == granted <= Capacity + (now - since) + calls * (TimeErr + TokenErr)

(***************************************************************************)
(* Losing the key gives nobody anything: _BUCKET_KEY_TTL_SECONDS is long   *)
(* enough for the bucket to be full by the time its key expires.           *)
(***************************************************************************)
ExpiryGivesNothing == [][present /\ ~present' => Level = Capacity]_vars
=============================================================================
