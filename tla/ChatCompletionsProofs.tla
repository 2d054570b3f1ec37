----------------------- MODULE ChatCompletionsProofs -----------------------
(***************************************************************************)
(* Proofs about ChatCompletions, for any number of requests, keys, prompts *)
(* and slots.  PipeInv says what a request holds and has yet to do at each *)
(* stage; the invariants on billing, the caches, the lock and the counter  *)
(* build on it, and with it every step of the pipeline is a step of the    *)
(* slot commands and of the lock commands, so that what is proved of those *)
(* holds of the pipeline.                                                  *)
(***************************************************************************)
EXTENDS ChatCompletions, TLAPS

\* Most leaves are first-order reasoning about sets and functions and go to
\* Zenon; those with numbers, or many functions at once, cite SMT.
USE ZenonT(30)

SlotStates == {"out", "expiring", "over", "held"}

Rests == UNION {[places -> Effects] : places \in SUBSET (1..5)}

\* The types of the variables, but for the range of count and usage.
Shape ==
    /\ lock \in [Keys -> BOOLEAN]
    /\ replay \in [Keys -> Requests \cup {NoResponse}]
    /\ holds \in [Requests -> Keys \cup {NoKey}]
    /\ count \in Int
    /\ slotKey \in {"absent", "persistent", "volatile"}
    /\ slot \in [Requests -> SlotStates]
    /\ flaw \subseteq {"outrun", "orphaned"}
    /\ pc \in [Requests -> Stages]
    /\ req \in [Requests -> Bodies]
    /\ todo \in [Requests -> Rests]
    /\ status \in [Requests -> Statuses]
    /\ got \in [Requests -> Texts]
    /\ cache \in [Prompts -> Texts]
    /\ usage \in [Requests -> Int]
    /\ audit \in [Requests -> SUBSET {"redacted", "detected", "blocked"}]
    /\ called \in [Requests -> BOOLEAN]
    /\ late \in [Requests -> BOOLEAN]

\* The effect is still to come.
Left(r, effect) == \E i \in DOMAIN todo[r] : todo[r][i] = effect

Inside == {"redact", "detect", "cache", "provider"}
Over == {"finish", "done"}

\* No effect comes twice, usage comes before replay and replay before unlock.
Orderly(plan) ==
    \A i, j \in DOMAIN plan :
        /\ plan[i] = plan[j] => i = j
        /\ plan[i] = "usage" /\ plan[j] = "replay" => i < j
        /\ plan[i] = "replay" /\ plan[j] = "unlock" => i < j

\* The request holds its lock from the stage after "lock" until it has none to
\* release, and its slot from the verdict on until it has none to give back.
HoldsOK(r) ==
    /\ holds[r] = IF pc[r] \in Work \/ Left(r, "unlock") THEN req[r].key ELSE NoKey
    /\ pc[r] # "slot" => slot[r] = IF pc[r] \in Inside \/ Left(r, "slot") THEN "held" ELSE "out"
    /\ pc[r] = "slot" => slot[r] # "held"

\* What is left to do at each stage, and for whom.
RestOK(r) ==
    /\ pc[r] # "finish" => DOMAIN todo[r] = {}
    /\ Orderly(todo[r])
    /\ pc[r] \in {"replay", "lock"} => HasKey(r)
    /\ Left(r, "unlock") => HasKey(r)
    /\ Left(r, "replay") => HasKey(r) /\ ~req[r].stream /\ Left(r, "unlock")

\* What is billed: served requests and streams that broke off, once.
BillOK(r) ==
    /\ usage[r] \in {0, 1}
    /\ pc[r] \in Over <=> status[r] # "none"
    /\ usage[r] = 1 => status[r] \in {"ok", "error"} /\ ~Left(r, "usage")
    /\ Left(r, "usage") => status[r] \in {"ok", "error"}
    /\ status[r] = "ok" => usage[r] = 1 \/ Left(r, "usage")
    /\ Left(r, "replay") => usage[r] = 1 \/ Left(r, "usage")

PipeInv == Shape /\ \A r \in Requests : HoldsOK(r) /\ RestOK(r) /\ BillOK(r)

-----------------------------------------------------------------------------
(* Lemmas about Settle and Perform. *)

Elements(plan) == {plan[i] : i \in DOMAIN plan}

\* A plan as the code has them.
IsPlan(plan) ==
    /\ DOMAIN plan \subseteq 1..5
    /\ Elements(plan) \subseteq Effects
    /\ Orderly(plan)

\* The effects each path of the handlers ends with.
LEMMA PlanFacts ==
    /\ IsPlan(<<>>) /\ Elements(<<>>) = {}
    /\ IsPlan(<<"unlock">>) /\ Elements(<<"unlock">>) = {"unlock"}
    /\ IsPlan(<<"slot">>) /\ Elements(<<"slot">>) = {"slot"}
    /\ IsPlan(<<"slot", "unlock">>) /\ Elements(<<"slot", "unlock">>) = {"slot", "unlock"}
    /\ IsPlan(<<"unlock", "slot">>) /\ Elements(<<"unlock", "slot">>) = {"slot", "unlock"}
<1>1. IsPlan(<<>>) /\ Elements(<<>>) = {}
  BY SMT DEF IsPlan, Elements, Orderly
<1>2. /\ IsPlan(<<"unlock">>) /\ Elements(<<"unlock">>) = {"unlock"}
      /\ IsPlan(<<"slot">>) /\ Elements(<<"slot">>) = {"slot"}
  BY SMT DEF IsPlan, Elements, Orderly, Effects
<1>3. IsPlan(<<"slot", "unlock">>) /\ Elements(<<"slot", "unlock">>) = {"slot", "unlock"}
  BY SMT DEF IsPlan, Elements, Orderly, Effects
<1>4. IsPlan(<<"unlock", "slot">>) /\ Elements(<<"unlock", "slot">>) = {"slot", "unlock"}
  BY SMT DEF IsPlan, Elements, Orderly, Effects
<1>. QED
  BY <1>1, <1>2, <1>3, <1>4

\* The effects that follow an answer.
LEMMA AnswerPlans ==
    /\ IsPlan(CallEffects) /\ Elements(CallEffects) = Effects
    /\ IsPlan(StreamEffects) /\ Elements(StreamEffects) = Effects \ {"replay"}
    /\ \A r \in Requests : IsPlan(CacheHitEffects(r))
    /\ \A r \in Requests : 
          Elements(CacheHitEffects(r)) = IF req[r].stream THEN Effects \ {"replay", "cache"}
                                         ELSE Effects \ {"cache"}
<1>1. IsPlan(CallEffects) /\ Elements(CallEffects) = Effects
  BY SMT DEF IsPlan, Elements, Orderly, Effects, CallEffects
<1>2. IsPlan(StreamEffects) /\ Elements(StreamEffects) = Effects \ {"replay"}
  BY SMT DEF IsPlan, Elements, Orderly, Effects, StreamEffects
<1>3. /\ IsPlan(CachedStreamEffects)
      /\ Elements(CachedStreamEffects) = Effects \ {"replay", "cache"}
  BY SMT DEF IsPlan, Elements, Orderly, Effects, CachedStreamEffects
<1>4. /\ IsPlan(<<"slot", "usage", "replay", "unlock">>)
      /\ Elements(<<"slot", "usage", "replay", "unlock">>) = Effects \ {"cache"}
  BY SMT DEF IsPlan, Elements, Orderly, Effects
<1>. QED
  BY <1>1, <1>2, <1>3, <1>4 DEF CacheHitEffects

\* What Settle leaves to do.
LEMMA SettleFacts ==
    ASSUME Shape, NEW r \in Requests, NEW outcome \in Statuses, NEW text \in Texts,
           NEW plan, IsPlan(plan), Settle(r, outcome, text, plan)
    PROVE  /\ todo' \in [Requests -> Rests] /\ status' \in [Requests -> Statuses]
           /\ got' \in [Requests -> Texts] /\ pc' \in [Requests -> Stages]
           /\ pc'[r] \in Over /\ status'[r] = outcome /\ got'[r] = text
           /\ pc'[r] = "done" => DOMAIN todo'[r] = {}
           /\ Orderly(todo'[r])
           /\ \A e \in Effects :
                 Left(r, e)' <=> e \in Elements(plan) /\ Applies(r, text, e)
           /\ \A s \in Requests \ {r} : /\ todo'[s] = todo[s] /\ status'[s] = status[s]
                                        /\ got'[s] = got[s] /\ pc'[s] = pc[s]
<1>. DEFINE places == {i \in DOMAIN plan : Applies(r, text, plan[i])}
            rest == [i \in places |-> plan[i]]
            stage == IF places = {} THEN "done" ELSE "finish"
<1>1. /\ todo' = [todo EXCEPT ![r] = rest]
      /\ status' = [status EXCEPT ![r] = outcome]
      /\ got' = [got EXCEPT ![r] = text]
      /\ pc' = [pc EXCEPT ![r] = stage]
  BY DEF Settle, Goto
<1>2. places \subseteq 1..5 /\ rest \in [places -> Effects] /\ stage \in Over
  BY DEF IsPlan, Elements, Over
<1>3. rest \in Rests /\ Over \subseteq Stages
  BY <1>2 DEF Rests, Over, Stages
<1>4. Orderly(rest)
  BY DEF IsPlan, Orderly
<1>5. \A e : (\E i \in DOMAIN rest : rest[i] = e) <=> e \in Elements(plan) /\ Applies(r, text, e)
  BY DEF Elements
<1>6. stage = "done" => DOMAIN rest = {}
  OBVIOUS
<1>. HIDE DEF rest, stage, places
<1>7. todo'[r] = rest /\ pc'[r] = stage
  BY <1>1 DEF Shape
<1>. QED
  BY <1>1, <1>2, <1>3, <1>4, <1>5, <1>6, <1>7 DEF Shape, Left

\* What Perform leaves to do.
LEMMA PerformFacts ==
    ASSUME Shape, NEW r \in Requests, RestOK(r), NEW effect \in Effects, Perform(r, effect)
    PROVE  /\ todo' \in [Requests -> Rests] /\ pc' \in [Requests -> Stages]
           /\ pc[r] = "finish" /\ pc'[r] \in Over /\ Left(r, effect)
           /\ pc'[r] = "done" => DOMAIN todo'[r] = {}
           /\ Orderly(todo'[r])
           /\ \A e \in Effects : Left(r, e)' <=> Left(r, e) /\ e # effect
           /\ effect = "replay" => ~Left(r, "usage")
           /\ effect = "unlock" => ~Left(r, "replay")
           /\ \A s \in Requests \ {r} : todo'[s] = todo[s] /\ pc'[s] = pc[s]
<1>1. PICK i \in DOMAIN todo[r] :
          /\ \A j \in DOMAIN todo[r] \ {i} : i < j
          /\ todo[r][i] = effect
          /\ todo' = [todo EXCEPT ![r] = [j \in DOMAIN todo[r] \ {i} |-> todo[r][j]]]
          /\ pc' = [pc EXCEPT ![r] = IF DOMAIN todo[r] \ {i} = {} THEN "done" ELSE "finish"]
  BY DEF Perform, Goto
<1>. DEFINE others == DOMAIN todo[r] \ {i}
            rest == [j \in others |-> todo[r][j]]
            stage == IF others = {} THEN "done" ELSE "finish"
<1>2. PICK places \in SUBSET (1..5) : todo[r] \in [places -> Effects]
  BY SMT DEF Shape, Rests
<1>3. rest \in [others -> Effects] /\ others \in SUBSET (1..5) /\ stage \in Over
  BY <1>2 DEF Over
<1>4. rest \in Rests /\ Over \subseteq Stages
  BY <1>3 DEF Rests, Over, Stages
<1>5. Orderly(rest)
  BY DEF RestOK, Orderly
<1>6. \A e : (\E j \in DOMAIN rest : rest[j] = e) <=> Left(r, e) /\ e # effect
  BY <1>1 DEF Left, RestOK, Orderly
<1>7. stage = "done" => DOMAIN rest = {}
  OBVIOUS
<1>8. (effect = "replay" => ~Left(r, "usage")) /\ (effect = "unlock" => ~Left(r, "replay"))
  BY <1>1, <1>2, SMT DEF Left, RestOK, Orderly
<1>9. pc[r] = "finish" /\ Left(r, effect)
  BY <1>1 DEF Perform, Left
<1>10. todo' = [todo EXCEPT ![r] = rest] /\ pc' = [pc EXCEPT ![r] = stage]
  BY <1>1
<1>. HIDE DEF rest, stage, others
<1>11. todo'[r] = rest /\ pc'[r] = stage
  BY <1>10 DEF Shape
<1>. QED
  BY <1>3, <1>4, <1>5, <1>6, <1>7, <1>8, <1>9, <1>10, <1>11 DEF Shape, Left

-----------------------------------------------------------------------------
(* Every step keeps PipeInv. *)

PipeOK(r) == HoldsOK(r) /\ RestOK(r) /\ BillOK(r)

\* The step leaves the request alone.
Alike(r) ==
    /\ holds'[r] = holds[r] /\ slot'[r] = slot[r]
    /\ pc'[r] = pc[r] /\ req'[r] = req[r] /\ todo'[r] = todo[r]
    /\ status'[r] = status[r] /\ got'[r] = got[r]
    /\ usage'[r] = usage[r] /\ audit'[r] = audit[r]
    /\ called'[r] = called[r] /\ late'[r] = late[r]

\* The step is one of request r, and keeps what PipeInv says of it.
Good(r) == Shape' /\ PipeOK(r)' /\ \A s \in Requests \ {r} : Alike(s)

\* Nothing is left to do.
LEMMA EmptyRest == <<>> \in Rests /\ DOMAIN <<>> = {}
<1>1. {} \in SUBSET (1..5) /\ <<>> \in [{} -> Effects]
  BY SMT
<1>. QED
  BY <1>1 DEF Rests

\* A request the step does not touch keeps its part of PipeInv.
LEMMA AlikeKeepsOK ==
    ASSUME NEW r \in Requests, PipeOK(r), Alike(r)
    PROVE  PipeOK(r)'
BY DEF PipeOK, HoldsOK, RestOK, BillOK, Left, HasKey, Alike

\* A body has a key of the tenant, or none.
LEMMA BodyFacts ==
    ASSUME NEW body \in Bodies
    PROVE  /\ body.key \in Keys \cup {NoKey} /\ body.stream \in BOOLEAN
           /\ body.prompt \in Prompts
BY DEF Bodies

\* A request that arrives holds nothing and has nothing to do.
LEMMA ArriveIsGood ==
    ASSUME PipeInv, NEW r \in Requests, NEW body \in Bodies, Arrive(r, body)
    PROVE  Good(r)
<1>1. PipeOK(r) /\ Shape
  BY DEF PipeInv, PipeOK
<1>2. Shape'
  BY <1>1, BodyFacts DEF Shape, Arrive, Goto, Stages, idemVars, slotVars
<1>3. \A s \in Requests \ {r} : Alike(s)
  BY <1>1 DEF Shape, Arrive, Goto, idemVars, slotVars, Alike
<1>4. /\ pc[r] = "new" /\ req'[r] = body
      /\ pc'[r] = IF body.key = NoKey THEN "limits" ELSE IF body.stream THEN "lock" ELSE "replay"
      /\ UNCHANGED <<holds, slot, todo, status, usage>>
  BY <1>1 DEF Shape, Arrive, Goto, idemVars, slotVars
<1>5. PipeOK(r)'
  BY <1>1, <1>4 DEF PipeOK, HoldsOK, RestOK, BillOK, Left, HasKey, Work, Inside, Over
<1>. QED
  BY <1>2, <1>3, <1>5 DEF Good

\* A stage that only moves on, with the lock and the slot it had.
LEMMA MoveIsGood ==
    ASSUME PipeInv, NEW r \in Requests, NEW to \in Stages,
           pc' = [pc EXCEPT ![r] = to],
           \/ pc[r] = "replay" /\ to = "lock"
           \/ pc[r] = "limits" /\ to = "slot"
           \/ pc[r] \in Inside /\ to \in Inside,
           UNCHANGED <<idemVars, slotVars, req, todo, status, cache, usage, late>>,
           NEW event \in {"redacted", "detected", "blocked"}, NEW text \in Texts,
           audit' \in {audit, [audit EXCEPT ![r] = @ \cup {event}]},
           called' \in {called, [called EXCEPT ![r] = TRUE]},
           got' \in {got, [got EXCEPT ![r] = text]}
    PROVE  Good(r)
<1>1. PipeOK(r) /\ Shape
  BY DEF PipeInv, PipeOK
<1>2. Shape'
  <2>1. audit' \in [Requests -> SUBSET {"redacted", "detected", "blocked"}]
    <3>1. audit \in [Requests -> SUBSET {"redacted", "detected", "blocked"}]
      BY <1>1 DEF Shape
    <3>2. audit[r] \cup {event} \in SUBSET {"redacted", "detected", "blocked"}
      BY <3>1
    <3>. QED
      BY <3>1, <3>2
  <2>2. called' \in [Requests -> BOOLEAN]
    BY <1>1 DEF Shape
  <2>3. got' \in [Requests -> Texts]
    BY <1>1 DEF Shape
  <2>4. pc' \in [Requests -> Stages]
    BY <1>1 DEF Shape
  <2>. QED
    BY <1>1, <2>1, <2>2, <2>3, <2>4 DEF Shape, idemVars, slotVars
<1>3. \A s \in Requests \ {r} : Alike(s)
  BY <1>1 DEF Shape, idemVars, slotVars, Alike
<1>4. pc'[r] = to /\ UNCHANGED <<holds, slot, req, todo, status, usage>>
  BY <1>1 DEF Shape, idemVars, slotVars
<1>5. PipeOK(r)'
  BY <1>1, <1>4 DEF PipeOK, HoldsOK, RestOK, BillOK, Left, HasKey, Work, Inside, Over
<1>. QED
  BY <1>2, <1>3, <1>5 DEF Good

\* An outcome whose effects give back what the request holds.
LEMMA SettleIsGood ==
    ASSUME PipeInv, NEW r \in Requests, NEW outcome \in Statuses \ {"none"}, NEW text \in Texts,
           NEW plan, IsPlan(plan), Settle(r, outcome, text, plan),
           pc[r] \notin Over, pc[r] # "new",
           "unlock" \in Elements(plan) <=> pc[r] \in Work,
           "slot" \in Elements(plan) <=> pc[r] \in Inside,
           pc[r] = "slot" => slot[r] = "out",
           "replay" \in Elements(plan) => ~req[r].stream /\ {"usage", "unlock"} \subseteq Elements(plan),
           "usage" \in Elements(plan) <=> outcome = "ok" \/ (outcome = "error" /\ req[r].stream),
           UNCHANGED <<idemVars, slotVars, req, cache, usage, late>>,
           NEW event \in {"redacted", "detected", "blocked"},
           audit' \in {audit, [audit EXCEPT ![r] = @ \cup {event}]},
           called' \in {called, [called EXCEPT ![r] = TRUE]}
    PROVE  Good(r)
<1>1. PipeOK(r) /\ Shape
  BY DEF PipeInv, PipeOK
<1>2. /\ todo' \in [Requests -> Rests] /\ status' \in [Requests -> Statuses]
      /\ got' \in [Requests -> Texts] /\ pc' \in [Requests -> Stages]
      /\ pc'[r] \in Over /\ status'[r] = outcome
      /\ pc'[r] = "done" => DOMAIN todo'[r] = {}
      /\ Orderly(todo'[r])
      /\ \A e \in Effects : Left(r, e)' <=> e \in Elements(plan) /\ Applies(r, text, e)
      /\ \A s \in Requests \ {r} : /\ todo'[s] = todo[s] /\ status'[s] = status[s]
                                   /\ got'[s] = got[s] /\ pc'[s] = pc[s]
  BY <1>1, SettleFacts
<1>3. Shape'
  <2>1. audit' \in [Requests -> SUBSET {"redacted", "detected", "blocked"}]
    <3>1. audit \in [Requests -> SUBSET {"redacted", "detected", "blocked"}]
      BY <1>1 DEF Shape
    <3>2. audit[r] \cup {event} \in SUBSET {"redacted", "detected", "blocked"}
      BY <3>1
    <3>. QED
      BY <3>1, <3>2
  <2>. QED
    BY <1>1, <1>2, <2>1 DEF Shape, idemVars, slotVars
<1>4. \A s \in Requests \ {r} : Alike(s)
  BY <1>1, <1>2 DEF Shape, idemVars, slotVars, Alike
<1>5. UNCHANGED <<holds, slot, req, usage>>
  BY DEF idemVars, slotVars
<1>6. /\ Left(r, "unlock")' <=> pc[r] \in Work /\ HasKey(r)
      /\ Left(r, "slot")' <=> pc[r] \in Inside
      /\ Left(r, "replay")' <=> "replay" \in Elements(plan) /\ HasKey(r)
      /\ Left(r, "usage")' <=> "usage" \in Elements(plan)
  BY <1>2 DEF Applies, Effects
<1>7. /\ "replay" \in Elements(plan) => pc[r] \in Work
      /\ usage[r] = 0 /\ (pc[r] \notin Work => holds[r] = NoKey)
      /\ pc[r] \in Work => holds[r] = req[r].key
      /\ slot[r] = IF pc[r] \in Inside THEN "held" ELSE "out"
  BY <1>1 DEF PipeOK, HoldsOK, RestOK, BillOK, Left, Over, Work, Inside, Stages, Shape
<1>8. HoldsOK(r)'
  BY <1>2, <1>5, <1>6, <1>7 DEF HoldsOK, Over, Work, Inside, HasKey
<1>9. RestOK(r)' /\ BillOK(r)'
  BY <1>2, <1>5, <1>6, <1>7, SMT DEF RestOK, BillOK, Over, HasKey
<1>. QED
  BY <1>3, <1>4, <1>8, <1>9 DEF Good, PipeOK

\* get_cached_response ends the request or sends it on to the lock.
LEMMA ReplayLookupIsGood ==
    ASSUME PipeInv, NEW r \in Requests, ReplayLookup(r)
    PROVE  Good(r)
<1>1. /\ pc[r] = "replay"
      /\ UNCHANGED <<idemVars, slotVars, req, cache, usage, audit, called, late>>
  BY DEF ReplayLookup
<1>2. CASE Settle(r, "replayed", "full", <<>>)
  <2>1. IsPlan(<<>>) /\ Elements(<<>>) = {}
    BY PlanFacts
  <2>. QED
    BY <1>1, <1>2, <2>1, SettleIsGood DEF Statuses, Texts, Over, Work, Inside
<1>3. CASE Goto(r, "lock") /\ UNCHANGED <<todo, status, got>>
  BY <1>1, <1>3, MoveIsGood DEF Goto, Stages, Texts
<1>. QED
  BY <1>2, <1>3 DEF ReplayLookup

\* try_acquire_lock: from here on the request holds its key, or has ended in 409.
LEMMA LockIsGood ==
    ASSUME PipeInv, NEW r \in Requests, Lock(r)
    PROVE  Good(r)
<1>1. /\ pc[r] = "lock"
      /\ UNCHANGED <<slotVars, req, cache, usage, audit, called, late>>
  BY DEF Lock
<1>2. CASE Settle(r, "conflict", "nothing", <<>>) /\ UNCHANGED idemVars
  <2>1. IsPlan(<<>>) /\ Elements(<<>>) = {}
    BY PlanFacts
  <2>. QED
    BY <1>1, <1>2, <2>1, SettleIsGood DEF Statuses, Texts, Over, Work, Inside
<1>3. CASE /\ Idem!TryAcquireLock(r, req[r].key) /\ Goto(r, "limits")
           /\ UNCHANGED <<todo, status, got>>
  <2>1. PipeOK(r) /\ Shape
    BY DEF PipeInv, PipeOK
  <2>2. req[r].key \in Keys
    BY <1>1, <2>1, BodyFacts DEF Shape, PipeOK, RestOK, HasKey
  <2>3. /\ lock' = [lock EXCEPT ![req[r].key] = TRUE]
        /\ holds' = [holds EXCEPT ![r] = req[r].key]
        /\ pc' = [pc EXCEPT ![r] = "limits"]
        /\ UNCHANGED <<replay, todo, status, got>>
    BY <1>3 DEF Idem!TryAcquireLock, Goto
  <2>4. Shape'
    BY <1>1, <2>1, <2>2, <2>3 DEF Shape, slotVars, Stages
  <2>5. \A s \in Requests \ {r} : Alike(s)
    BY <1>1, <2>1, <2>3 DEF Shape, slotVars, Alike
  <2>6. pc'[r] = "limits" /\ holds'[r] = req[r].key /\ UNCHANGED <<slot, req, todo, status, usage>>
    BY <1>1, <2>1, <2>3 DEF Shape, slotVars
  <2>7. PipeOK(r)'
    BY <1>1, <2>1, <2>6 DEF PipeOK, HoldsOK, RestOK, BillOK, Left, HasKey, Work, Inside, Over
  <2>. QED
    BY <2>4, <2>5, <2>7 DEF Good
<1>. QED
  BY <1>2, <1>3 DEF Lock

\* enforce_request_limits: a refusal leaves the lock to release.
LEMMA LimitsIsGood ==
    ASSUME PipeInv, NEW r \in Requests, Limits(r)
    PROVE  Good(r)
<1>1. /\ pc[r] = "limits"
      /\ UNCHANGED <<idemVars, slotVars, req, cache, usage, audit, called, late>>
  BY DEF Limits
<1>2. CASE Settle(r, "refused", "nothing", <<"unlock">>)
  <2>1. IsPlan(<<"unlock">>) /\ Elements(<<"unlock">>) = {"unlock"}
    BY PlanFacts
  <2>. QED
    BY <1>1, <1>2, <2>1, SettleIsGood DEF Statuses, Texts, Over, Work, Inside
<1>3. CASE Goto(r, "slot") /\ UNCHANGED <<todo, status, got>>
  BY <1>1, <1>3, MoveIsGood DEF Goto, Stages, Texts
<1>. QED
  BY <1>2, <1>3 DEF Limits

\* acquire_concurrency_slot: only an admitted request goes on, with its slot.
LEMMA AcquireSlotIsGood ==
    ASSUME PipeInv, NEW r \in Requests, AcquireSlot(r)
    PROVE  Good(r)
<1>1. /\ pc[r] = "slot"
      /\ UNCHANGED <<idemVars, req, cache, usage, audit, called, late>>
  BY DEF AcquireSlot
<1>2. PipeOK(r) /\ Shape
  BY DEF PipeInv, PipeOK
<1>3. CASE /\ Slots!IncrSlot(r) \/ Slots!SetSlotExpiry(r)
           /\ Goto(r, IF slot'[r] = "held" THEN "redact" ELSE "slot")
           /\ UNCHANGED <<todo, status, got>>
  <2>1. PICK v \in SlotStates : slot' = [slot EXCEPT ![r] = v]
    BY <1>3 DEF Slots!IncrSlot, Slots!SetSlotExpiry, Slots!Verdict, SlotStates
  <2>2. /\ count' \in Int /\ slotKey' \in {"absent", "persistent", "volatile"}
        /\ flaw' \subseteq {"outrun", "orphaned"}
    <3>1. CASE Slots!IncrSlot(r)
      BY <1>2, <3>1, SMT DEF Slots!IncrSlot, Shape
    <3>2. CASE Slots!SetSlotExpiry(r)
      BY <1>2, <3>2 DEF Slots!SetSlotExpiry, Shape
    <3>. QED
      BY <1>3, <3>1, <3>2
  <2>3. /\ slot'[r] = v
        /\ pc' = [pc EXCEPT ![r] = IF v = "held" THEN "redact" ELSE "slot"]
    BY <1>2, <1>3, <2>1 DEF Goto, Shape
  <2>4. Shape'
    BY <1>1, <1>2, <1>3, <2>1, <2>2, <2>3 DEF Shape, idemVars, Stages
  <2>5. \A s \in Requests \ {r} : Alike(s)
    BY <1>1, <1>2, <1>3, <2>1, <2>3 DEF Shape, idemVars, Alike
  <2>6. /\ pc'[r] = IF v = "held" THEN "redact" ELSE "slot"
        /\ UNCHANGED <<holds, req, todo, status, usage>>
    BY <1>1, <1>2, <1>3, <2>3 DEF Shape, idemVars
  <2>7. PipeOK(r)'
    BY <1>1, <1>2, <2>3, <2>6, SMT DEF PipeOK, HoldsOK, RestOK, BillOK, Left, HasKey, Work, Inside, Over
  <2>. QED
    BY <2>4, <2>5, <2>7 DEF Good
<1>4. CASE Slots!RejectOverLimit(r) /\ Settle(r, "refused", "nothing", <<"unlock">>)
  <2>1. /\ slot' = [slot EXCEPT ![r] = "out"] /\ count' \in Int /\ flaw' = flaw
        /\ slotKey' \in {"absent", "persistent", "volatile"}
    BY <1>2, <1>4, SMT DEF Slots!RejectOverLimit, Slots!DecrSlot, Shape
  <2>2. IsPlan(<<"unlock">>) /\ Elements(<<"unlock">>) = {"unlock"}
    BY PlanFacts
  <2>3. /\ todo' \in [Requests -> Rests] /\ status' \in [Requests -> Statuses]
        /\ got' \in [Requests -> Texts] /\ pc' \in [Requests -> Stages]
        /\ pc'[r] \in Over /\ status'[r] = "refused"
        /\ pc'[r] = "done" => DOMAIN todo'[r] = {}
        /\ Orderly(todo'[r])
        /\ \A e \in Effects : Left(r, e)' <=> e = "unlock" /\ Applies(r, "nothing", e)
        /\ \A s \in Requests \ {r} : /\ todo'[s] = todo[s] /\ status'[s] = status[s]
                                     /\ got'[s] = got[s] /\ pc'[s] = pc[s]
    BY <1>2, <1>4, <2>2, SettleFacts DEF Statuses, Texts
  <2>4. Shape'
    BY <1>1, <1>2, <2>1, <2>3 DEF Shape, idemVars, SlotStates
  <2>5. \A s \in Requests \ {r} : Alike(s)
    BY <1>1, <1>2, <2>1, <2>3 DEF Shape, idemVars, Alike
  <2>6. slot'[r] = "out" /\ UNCHANGED <<holds, req, usage>>
    BY <1>1, <1>2, <2>1 DEF Shape, idemVars
  <2>7. /\ Left(r, "unlock")' <=> HasKey(r)
        /\ ~Left(r, "slot")' /\ ~Left(r, "replay")' /\ ~Left(r, "usage")'
    BY <2>3 DEF Applies, Effects
  <2>8. usage[r] = 0 /\ holds[r] = req[r].key
    BY <1>1, <1>2 DEF PipeOK, HoldsOK, BillOK, Over, Work
  <2>9. HoldsOK(r)' /\ RestOK(r)' /\ BillOK(r)'
    BY <2>3, <2>6, <2>7, <2>8, SMT DEF HoldsOK, RestOK, BillOK, Over, Work, Inside, HasKey
  <2>. QED
    BY <2>4, <2>5, <2>9 DEF Good, PipeOK
<1>. QED
  BY <1>3, <1>4 DEF AcquireSlot

\* redact_messages and its audit entry.
LEMMA RedactIsGood ==
    ASSUME PipeInv, NEW r \in Requests, Redact(r)
    PROVE  Good(r)
<1>1. /\ pc[r] = "redact" /\ pc' = [pc EXCEPT ![r] = "detect"]
      /\ audit' \in {audit, [audit EXCEPT ![r] = @ \cup {"redacted"}]}
      /\ UNCHANGED <<idemVars, slotVars, req, todo, status, got, cache, usage, called, late>>
  BY DEF Redact, Goto, WriteAuditEvent
<1>. QED
  BY <1>1, MoveIsGood DEF Stages, Inside, Texts

\* The injection detector: a block leaves slot and lock to give back.
LEMMA DetectIsGood ==
    ASSUME PipeInv, NEW r \in Requests, Detect(r)
    PROVE  Good(r)
<1>1. PICK verdict \in Verdicts :
          /\ IF verdict = "clean" THEN UNCHANGED audit ELSE WriteAuditEvent(r, verdict)
          /\ \/ /\ verdict = "blocked"
                /\ Settle(r, "blocked", "nothing", <<"slot", "unlock">>)
             \/ Goto(r, "cache") /\ UNCHANGED <<todo, status, got>>
  BY DEF Detect
<1>2. pc[r] = "detect" /\ UNCHANGED <<idemVars, slotVars, req, cache, usage, called, late>>
  BY DEF Detect
<1>3. PICK event \in {"redacted", "detected", "blocked"} :
          audit' \in {audit, [audit EXCEPT ![r] = @ \cup {event}]}
  BY <1>1, ChatAssumption DEF WriteAuditEvent, ChatAssumption
<1>4. CASE Settle(r, "blocked", "nothing", <<"slot", "unlock">>)
  <2>1. IsPlan(<<"slot", "unlock">>) /\ Elements(<<"slot", "unlock">>) = {"slot", "unlock"}
    BY PlanFacts
  <2>. QED
    BY <1>2, <1>3, <1>4, <2>1, SettleIsGood DEF Statuses, Texts, Over, Work, Inside
<1>5. CASE Goto(r, "cache") /\ UNCHANGED <<todo, status, got>>
  BY <1>2, <1>3, <1>5, MoveIsGood DEF Goto, Stages, Inside, Texts
<1>. QED
  BY <1>1, <1>4, <1>5

\* get_cached_completion: a hit is billed like an answer.
LEMMA CacheLookupIsGood ==
    ASSUME PipeInv, NEW r \in Requests, CacheLookup(r)
    PROVE  Good(r)
<1>1. pc[r] = "cache" /\ UNCHANGED <<idemVars, slotVars, req, cache, usage, audit, late>>
  BY DEF CacheLookup
<1>2. PICK text \in Texts :
         \/ Settle(r, "ok", text, CacheHitEffects(r)) /\ UNCHANGED called
         \/ /\ Goto(r, "provider") /\ called' = [called EXCEPT ![r] = TRUE]
            /\ UNCHANGED <<todo, status, got>>
  BY BodyFacts DEF CacheLookup, GetCachedCompletion, PipeInv, Shape, Texts
<1>3. CASE Settle(r, "ok", text, CacheHitEffects(r)) /\ UNCHANGED called
  <2>1. /\ IsPlan(CacheHitEffects(r))
        /\ {"slot", "usage", "unlock"} \subseteq Elements(CacheHitEffects(r))
        /\ "replay" \in Elements(CacheHitEffects(r)) => ~req[r].stream
    BY AnswerPlans DEF Effects
  <2>. QED
    BY <1>1, <1>3, <2>1, SettleIsGood DEF Statuses, Over, Work, Inside
<1>4. CASE /\ Goto(r, "provider") /\ called' = [called EXCEPT ![r] = TRUE]
           /\ UNCHANGED <<todo, status, got>>
  BY <1>1, <1>4, MoveIsGood DEF Goto, Stages, Inside
<1>. QED
  BY <1>2, <1>3, <1>4

\* The provider call, as far as it ends as its handlers expect.
LEMMA CallIsGood ==
    ASSUME PipeInv, NEW r \in Requests, Call(r)
    PROVE  Good(r)
<1>1. /\ pc[r] = "provider" /\ ~req[r].stream
      /\ UNCHANGED <<idemVars, slotVars, req, cache, usage, audit, called, late>>
  BY DEF Call
<1>2. CASE Settle(r, "ok", "full", CallEffects)
  <2>1. IsPlan(CallEffects) /\ {"slot", "usage", "unlock"} \subseteq Elements(CallEffects)
    BY AnswerPlans DEF Effects
  <2>. QED
    BY <1>1, <1>2, <2>1, SettleIsGood DEF Statuses, Texts, Over, Work, Inside
<1>3. CASE Settle(r, "upstream_error", "nothing", <<"unlock", "slot">>)
  <2>1. IsPlan(<<"unlock", "slot">>) /\ Elements(<<"unlock", "slot">>) = {"slot", "unlock"}
    BY PlanFacts
  <2>. QED
    BY <1>1, <1>3, <2>1, SettleIsGood DEF Statuses, Texts, Over, Work, Inside
<1>. QED
  BY <1>2, <1>3 DEF Call

\* The stream, however it ends.
LEMMA StreamIsGood ==
    ASSUME PipeInv, NEW r \in Requests,
           Chunk(r) \/ StreamEnds(r) \/ StreamFails(r) \/ StreamRaises(r)
    PROVE  Good(r)
<1>1. /\ pc[r] = "provider" /\ req[r].stream
      /\ UNCHANGED <<idemVars, slotVars, req, cache, usage, audit, called, late>>
  BY DEF Chunk, StreamEnds, StreamFails, StreamRaises
<1>2. got[r] \in Texts
  BY DEF PipeInv, Shape
<1>3. CASE Chunk(r)
  <2>1. pc' = [pc EXCEPT ![r] = "provider"]
    BY <1>1, <1>3 DEF Chunk, PipeInv, Shape
  <2>2. got' = [got EXCEPT ![r] = "partial"] /\ UNCHANGED <<todo, status>>
    BY <1>3 DEF Chunk
  <2>. QED
    BY <1>1, <2>1, <2>2, MoveIsGood DEF Stages, Inside, Texts
<1>4. ASSUME NEW outcome \in {"ok", "error"}, NEW text \in Texts,
             Settle(r, outcome, text, StreamEffects)
      PROVE  Good(r)
  <2>1. /\ IsPlan(StreamEffects) /\ {"slot", "usage", "unlock"} \subseteq Elements(StreamEffects)
        /\ "replay" \notin Elements(StreamEffects)
    BY AnswerPlans DEF Effects
  <2>. QED
    BY <1>1, <1>4, <2>1, SettleIsGood DEF Statuses, Over, Work, Inside
<1>5. CASE StreamEnds(r) \/ StreamRaises(r)
  BY <1>2, <1>4, <1>5 DEF StreamEnds, EndTexts, StreamRaises, Texts
<1>6. CASE StreamFails(r)
  <2>1. IsPlan(<<"slot", "unlock">>) /\ Elements(<<"slot", "unlock">>) = {"slot", "unlock"}
    BY PlanFacts
  <2>2. Settle(r, "upstream_error", got[r], <<"slot", "unlock">>)
    BY <1>6 DEF StreamFails
  <2>. QED
    BY <1>1, <1>2, <2>1, <2>2, SettleIsGood DEF Statuses, Over, Work, Inside
<1>. QED
  BY <1>3, <1>5, <1>6

\* An exception that only the finally clause sees: the lock is not released.
LEMMA CallRaisesIsGood ==
    ASSUME PipeInv, NEW r \in Requests, CallRaises(r)
    PROVE  Good(r)
<1>1. PipeOK(r) /\ Shape
  BY DEF PipeInv, PipeOK
<1>2. /\ pc[r] = "provider" /\ Settle(r, "error", "nothing", <<"slot">>)
      /\ UNCHANGED <<slotVars, req, cache, usage, audit, called, late>>
  BY DEF CallRaises
<1>3. IsPlan(<<"slot">>) /\ Elements(<<"slot">>) = {"slot"}
  BY PlanFacts
<1>4. usage[r] = 0 /\ holds[r] = req[r].key /\ slot[r] = "held"
  BY <1>1, <1>2 DEF PipeOK, HoldsOK, BillOK, Over, Work, Inside
<1>5. /\ holds' = [holds EXCEPT ![r] = NoKey] /\ lock' = lock /\ replay' = replay
      /\ holds'[r] = NoKey
  BY <1>1, <1>4 DEF CallRaises, Idem!AbandonLock, Idem!Leave, HasKey, Shape, idemVars
<1>6. /\ todo' \in [Requests -> Rests] /\ status' \in [Requests -> Statuses]
      /\ got' \in [Requests -> Texts] /\ pc' \in [Requests -> Stages]
      /\ pc'[r] \in Over /\ status'[r] = "error"
      /\ pc'[r] = "done" => DOMAIN todo'[r] = {}
      /\ Orderly(todo'[r])
      /\ \A e \in Effects : Left(r, e)' <=> e = "slot" /\ Applies(r, "nothing", e)
      /\ \A s \in Requests \ {r} : /\ todo'[s] = todo[s] /\ status'[s] = status[s]
                                   /\ got'[s] = got[s] /\ pc'[s] = pc[s]
  BY <1>1, <1>2, <1>3, SettleFacts DEF Statuses, Texts
<1>7. Shape'
  BY <1>1, <1>2, <1>5, <1>6 DEF Shape, slotVars
<1>8. \A s \in Requests \ {r} : Alike(s)
  BY <1>1, <1>2, <1>5, <1>6 DEF Shape, slotVars, Alike
<1>9. /\ Left(r, "slot")'
      /\ ~Left(r, "unlock")' /\ ~Left(r, "replay")' /\ ~Left(r, "usage")'
      /\ UNCHANGED <<slot, req, usage>>
  BY <1>2, <1>6 DEF Applies, Effects, slotVars
<1>10. HoldsOK(r)' /\ RestOK(r)' /\ BillOK(r)'
  BY <1>4, <1>5, <1>6, <1>9 DEF HoldsOK, RestOK, BillOK, Over, Work, Inside, HasKey
<1>. QED
  BY <1>7, <1>8, <1>10 DEF Good, PipeOK

\* An effect: what it gives back is what the request still holds.
LEMMA EffectIsGood ==
    ASSUME PipeInv, NEW r \in Requests,
           \/ ReleaseConcurrencySlot(r) \/ ReleaseLock(r) \/ RecordUsage(r)
           \/ StoreCachedCompletion(r) \/ StoreResponse(r)
    PROVE  Good(r)
<1>1. PipeOK(r) /\ Shape
  BY DEF PipeInv, PipeOK
<1>2. PICK effect \in Effects :
         /\ Perform(r, effect)
         /\ effect = "slot" => ReleaseConcurrencySlot(r)
         /\ effect = "unlock" => ReleaseLock(r)
         /\ effect = "usage" => RecordUsage(r)
         /\ effect = "cache" => StoreCachedCompletion(r)
         /\ effect = "replay" => StoreResponse(r)
  BY DEF ReleaseConcurrencySlot, ReleaseLock, RecordUsage, StoreCachedCompletion,
         StoreResponse, Effects
<1>3. /\ todo' \in [Requests -> Rests] /\ pc' \in [Requests -> Stages]
      /\ pc[r] = "finish" /\ pc'[r] \in Over /\ Left(r, effect)
      /\ pc'[r] = "done" => DOMAIN todo'[r] = {}
      /\ Orderly(todo'[r])
      /\ \A e \in Effects : Left(r, e)' <=> Left(r, e) /\ e # effect
      /\ effect = "replay" => ~Left(r, "usage")
      /\ effect = "unlock" => ~Left(r, "replay")
      /\ \A s \in Requests \ {r} : todo'[s] = todo[s] /\ pc'[s] = pc[s]
  BY <1>1, <1>2, PerformFacts DEF PipeOK
<1>4. UNCHANGED <<req, status, got, audit, called, late>>
  BY <1>2 DEF Perform
<1>5. /\ effect # "slot" => UNCHANGED slotVars
      /\ effect \notin {"unlock", "replay"} => UNCHANGED idemVars
      /\ effect # "usage" => UNCHANGED usage
      /\ effect # "cache" => UNCHANGED cache
  BY <1>2 DEF ReleaseConcurrencySlot, ReleaseLock, RecordUsage, StoreCachedCompletion,
              StoreResponse, Effects
<1>6. effect = "slot" => /\ slot' = [slot EXCEPT ![r] = "out"] /\ count' \in Int
                         /\ slotKey' \in {"absent", "persistent", "volatile"} /\ flaw' = flaw
  BY <1>1, <1>2, SMT DEF ReleaseConcurrencySlot, Slots!ReleaseSlot, Slots!DecrSlot, Shape
<1>7. effect = "unlock" => /\ lock' = [lock EXCEPT ![holds[r]] = FALSE]
                           /\ holds' = [holds EXCEPT ![r] = NoKey] /\ replay' = replay
  BY <1>2 DEF ReleaseLock, Idem!ReleaseLock, Idem!Leave
<1>8. effect = "replay" => /\ replay' = [replay EXCEPT ![holds[r]] = r]
                           /\ lock' = lock /\ holds' = holds
  BY <1>2 DEF StoreResponse, Idem!StoreResponse
<1>9. /\ effect = "usage" => usage' = [usage EXCEPT ![r] = @ + 1]
      /\ effect = "cache" => cache' = [cache EXCEPT ![req[r].prompt] = got[r]]
  BY <1>2 DEF RecordUsage, StoreCachedCompletion
<1>10. Shape'
  <2>1. /\ slot' \in [Requests -> SlotStates] /\ count' \in Int
        /\ slotKey' \in {"absent", "persistent", "volatile"} /\ flaw' = flaw
    BY <1>1, <1>5, <1>6 DEF Shape, slotVars, SlotStates
  <2>2. /\ lock' \in [Keys -> BOOLEAN] /\ holds' \in [Requests -> Keys \cup {NoKey}]
        /\ replay' \in [Keys -> Requests \cup {NoResponse}]
    <3>1. lock' \in [Keys -> BOOLEAN]
      BY <1>1, <1>5, <1>7, <1>8 DEF Shape, idemVars
    <3>2. holds' \in [Requests -> Keys \cup {NoKey}]
      BY <1>1, <1>5, <1>7, <1>8 DEF Shape, idemVars
    <3>3. replay' \in [Keys -> Requests \cup {NoResponse}]
      BY <1>1, <1>5, <1>7, <1>8 DEF Shape, idemVars
    <3>. QED
      BY <3>1, <3>2, <3>3
  <2>3. usage' \in [Requests -> Int] /\ cache' \in [Prompts -> Texts]
    BY <1>1, <1>5, <1>9, SMT DEF Shape
  <2>. QED
    BY <1>1, <1>3, <1>4, <2>1, <2>2, <2>3 DEF Shape
<1>11. \A s \in Requests \ {r} : Alike(s)
  <2>1. \A s \in Requests \ {r} : /\ slot'[s] = slot[s] /\ holds'[s] = holds[s]
                                  /\ usage'[s] = usage[s]
    BY <1>1, <1>5, <1>6, <1>7, <1>8, <1>9 DEF Shape, slotVars, idemVars, Effects
  <2>. QED
    BY <1>3, <1>4, <2>1 DEF Alike
<1>12. /\ slot'[r] = IF effect = "slot" THEN "out" ELSE slot[r]
       /\ holds'[r] = IF effect = "unlock" THEN NoKey ELSE holds[r]
       /\ usage'[r] = IF effect = "usage" THEN usage[r] + 1 ELSE usage[r]
  BY <1>1, <1>5, <1>6, <1>7, <1>8, <1>9 DEF Shape, slotVars, idemVars, Effects
<1>13. HoldsOK(r)'
  BY <1>1, <1>3, <1>4, <1>12 DEF PipeOK, HoldsOK, RestOK, Over, Work, Inside, Effects, HasKey
<1>14. RestOK(r)'
  BY <1>1, <1>3, <1>4 DEF PipeOK, RestOK, Over, Effects, HasKey
<1>15. BillOK(r)'
  <2>1. /\ Left(r, "usage")' <=> Left(r, "usage") /\ effect # "usage"
        /\ Left(r, "replay")' => Left(r, "replay")
        /\ effect = "usage" => Left(r, "usage")
    BY <1>3 DEF Effects
  <2>2. effect = "usage" => usage[r] = 0 /\ status[r] \in {"ok", "error"}
    BY <1>1, <2>1 DEF PipeOK, BillOK
  <2>3. pc[r] \in Over /\ pc'[r] \in Over /\ status'[r] = status[r]
    BY <1>3, <1>4 DEF Over
  <2>. QED
    BY <1>1, <1>12, <2>1, <2>2, <2>3, SMT DEF PipeOK, BillOK
<1>. QED
  BY <1>10, <1>11, <1>13, <1>14, <1>15 DEF Good, PipeOK

\* The request is gone: it holds nothing any more, whatever it left behind.
LEMMA VanishIsGood ==
    ASSUME PipeInv, NEW r \in Requests, Vanish(r)
    PROVE  Good(r)
<1>1. PipeOK(r) /\ Shape
  BY DEF PipeInv, PipeOK
<1>2. /\ pc' = [pc EXCEPT ![r] = "done"] /\ todo' = [todo EXCEPT ![r] = <<>>]
      /\ status' = [status EXCEPT ![r] = "error"]
      /\ UNCHANGED <<req, got, cache, usage, audit, called, late>>
  BY DEF Vanish, Goto
<1>3. holds' = [holds EXCEPT ![r] = NoKey] /\ lock' = lock /\ replay' = replay
  BY <1>1 DEF Vanish, Idem!AbandonLock, Idem!Leave, idemVars, Shape
<1>4. /\ slot' = [slot EXCEPT ![r] = "out"] /\ count' = count /\ slotKey' = slotKey
      /\ flaw' \subseteq {"outrun", "orphaned"}
  <2>1. CASE slot[r] # "out"
    BY <1>1, <2>1 DEF Vanish, Slots!LoseSlot, Shape
  <2>2. CASE slot[r] = "out"
    BY <1>1, <2>2 DEF Vanish, slotVars, Shape
  <2>. QED
    BY <2>1, <2>2
<1>5. <<>> \in Rests /\ DOMAIN <<>> = {}
  BY EmptyRest
<1>6. Shape'
  BY <1>1, <1>2, <1>3, <1>4, <1>5 DEF Shape, Stages, Statuses, SlotStates
<1>7. \A s \in Requests \ {r} : Alike(s)
  BY <1>1, <1>2, <1>3, <1>4 DEF Shape, Alike
<1>8. /\ pc'[r] = "done" /\ DOMAIN todo'[r] = {} /\ status'[r] = "error"
      /\ holds'[r] = NoKey /\ slot'[r] = "out" /\ usage'[r] = usage[r]
  BY <1>1, <1>2, <1>3, <1>4, <1>5 DEF Shape
<1>9. PipeOK(r)'
  BY <1>1, <1>8 DEF PipeOK, HoldsOK, RestOK, BillOK, Left, Orderly, Over, Work, Inside
<1>. QED
  BY <1>6, <1>7, <1>9 DEF Good

\* release_lock raises in the except clause: the finally clause still frees the slot.
LEMMA ExceptRaisesIsGood ==
    ASSUME PipeInv, NEW r \in Requests, ExceptRaises(r)
    PROVE  Good(r)
<1>1. PipeOK(r) /\ Shape
  BY DEF PipeInv, PipeOK
<1>. DEFINE rest == [j \in {2} |-> "slot"]
<1>2. /\ pc[r] = "finish" /\ todo' = [todo EXCEPT ![r] = rest]
      /\ status' = [status EXCEPT ![r] = "error"]
      /\ holds' = [holds EXCEPT ![r] = NoKey]
      /\ UNCHANGED <<slotVars, lock, replay, pc, req, got, cache, usage, audit, called, late>>
  BY DEF ExceptRaises, Idem!AbandonLock, Idem!Leave
<1>3. todo[r] = <<"unlock", "slot">>
  BY DEF ExceptRaises
<1>4. Left(r, "slot") /\ ~Left(r, "usage")
  BY <1>3, SMT DEF Left
<1>5. rest \in Rests /\ Orderly(rest) /\ \A e : (\E i \in DOMAIN rest : rest[i] = e) <=> e = "slot"
  <2>1. rest \in [{2} -> Effects] /\ {2} \in SUBSET (1..5)
    BY SMT DEF Effects
  <2>. QED
    BY <2>1 DEF Rests, Orderly
<1>. HIDE DEF rest
<1>6. todo'[r] = rest /\ status'[r] = "error" /\ holds'[r] = NoKey
  BY <1>1, <1>2 DEF Shape
<1>7. Shape'
  BY <1>1, <1>2, <1>5 DEF Shape, slotVars, Statuses
<1>8. \A s \in Requests \ {r} : Alike(s)
  BY <1>1, <1>2 DEF Shape, slotVars, Alike
<1>9. \A e : Left(r, e)' <=> e = "slot"
  BY <1>5, <1>6 DEF Left
<1>10. UNCHANGED <<pc, slot, req, usage>>
  BY <1>2 DEF slotVars
<1>11. HoldsOK(r)'
  BY <1>1, <1>2, <1>4, <1>6, <1>9, <1>10 DEF PipeOK, HoldsOK, Work, Inside
<1>12. RestOK(r)' /\ BillOK(r)'
  BY <1>1, <1>2, <1>4, <1>5, <1>6, <1>9, <1>10 DEF PipeOK, RestOK, BillOK, Over
<1>. QED
  BY <1>7, <1>8, <1>11, <1>12 DEF Good, PipeOK

\* What expires is no request's.
LEMMA ExpiryIsGood ==
    ASSUME PipeInv, Expiry
    PROVE  Shape' /\ \A r \in Requests : Alike(r)
<1>1. Shape
  BY DEF PipeInv
<1>2. CASE \E k \in Keys : Idem!LockExpires(k) /\ UNCHANGED <<slotVars, ownVars>>
  BY <1>1, <1>2 DEF Idem!LockExpires, Shape, Alike, slotVars, ownVars
<1>3. CASE \E k \in Keys : Idem!ReplayExpires(k) /\ UNCHANGED <<slotVars, ownVars>>
  BY <1>1, <1>3 DEF Idem!ReplayExpires, Shape, Alike, slotVars, ownVars
<1>4. CASE Slots!SlotKeyExpires /\ UNCHANGED <<idemVars, ownVars>>
  BY <1>1, <1>4, SMT DEF Slots!SlotKeyExpires, Shape, Alike, idemVars, ownVars
<1>5. CASE \E p \in Prompts : CacheExpires(p)
  BY <1>1, <1>5 DEF CacheExpires, Shape, Alike, idemVars, slotVars, Texts
<1>. QED
  BY <1>2, <1>3, <1>4, <1>5 DEF Expiry

\* What a request does keeps its part of PipeInv and leaves the others alone.
LEMMA OwnStepIsGood ==
    ASSUME PipeInv, NEW r \in Requests,
           (\E body \in Bodies : Arrive(r, body)) \/ Step(r) \/ Fault(r)
    PROVE  Good(r)
<1>1. CASE \E body \in Bodies : Arrive(r, body)
  BY <1>1, ArriveIsGood
<1>2. CASE Step(r)
  BY <1>2, ReplayLookupIsGood, LockIsGood, LimitsIsGood, AcquireSlotIsGood, RedactIsGood,
     DetectIsGood, CacheLookupIsGood, CallIsGood, StreamIsGood, EffectIsGood DEF Step
<1>3. CASE Fault(r)
  BY <1>3, CallRaisesIsGood, StreamIsGood, VanishIsGood, ExceptRaisesIsGood DEF Fault
<1>. QED
  BY <1>1, <1>2, <1>3

\* A step is one of a single request, or none's.
LEMMA StepsAreGood ==
    ASSUME PipeInv, [Next]_vars
    PROVE  \/ \E r \in Requests : Good(r)
           \/ Shape' /\ \A r \in Requests : Alike(r)
<1>1. CASE UNCHANGED vars
  BY <1>1 DEF vars, idemVars, slotVars, ownVars, PipeInv, Shape, Alike
<1>. QED
  BY <1>1, OwnStepIsGood, ExpiryIsGood DEF Next, AllDone

(***************************************************************************)
(* At every await a request of the pipeline holds the lock and the slot    *)
(* that the effects it has left will give back, no more and no less, and   *)
(* none of them twice.                                                     *)
(***************************************************************************)
THEOREM PipelineIsOrderly == Spec => []PipeInv
<1>1. Init => PipeInv
  <2>. SUFFICES ASSUME Init PROVE PipeInv
    OBVIOUS
  <2>1. PICK b \in Bodies : req = [r \in Requests |-> b]
    <3>1. PICK p \in Prompts : TRUE
      BY ChatAssumption DEF ChatAssumption
    <3>2. [key |-> NoKey, stream |-> TRUE, prompt |-> p] \in Bodies
      BY DEF Bodies
    <3>3. (CHOOSE b \in Bodies : b.key = NoKey) \in Bodies
      BY <3>2
    <3>. QED
      BY <3>3 DEF Init
  <2>2. <<>> \in Rests /\ DOMAIN <<>> = {}
    BY EmptyRest
  <2>3. Shape
    <3>1. todo \in [Requests -> Rests] /\ req \in [Requests -> Bodies]
      BY <2>1, <2>2 DEF Init
    <3>2. /\ pc \in [Requests -> Stages] /\ status \in [Requests -> Statuses]
          /\ got \in [Requests -> Texts] /\ cache \in [Prompts -> Texts]
          /\ usage \in [Requests -> Int] /\ called \in [Requests -> BOOLEAN]
          /\ late \in [Requests -> BOOLEAN]
          /\ audit \in [Requests -> SUBSET {"redacted", "detected", "blocked"}]
      BY SMT DEF Init, Stages, Statuses, Texts
    <3>3. /\ lock \in [Keys -> BOOLEAN] /\ replay \in [Keys -> Requests \cup {NoResponse}]
          /\ holds \in [Requests -> Keys \cup {NoKey}]
      BY DEF Init, Idem!IdemInit
    <3>4. /\ count \in Int /\ slotKey \in {"absent", "persistent", "volatile"}
          /\ slot \in [Requests -> SlotStates] /\ flaw \subseteq {"outrun", "orphaned"}
      BY SMT DEF Init, Slots!SlotInit, SlotStates
    <3>. QED
      BY <3>1, <3>2, <3>3, <3>4 DEF Shape
  <2>4. ASSUME NEW r \in Requests PROVE HoldsOK(r) /\ RestOK(r) /\ BillOK(r)
    <3>1. /\ pc[r] = "new" /\ DOMAIN todo[r] = {} /\ status[r] = "none"
          /\ holds[r] = NoKey /\ slot[r] = "out" /\ usage[r] = 0
      BY <2>2 DEF Init, Idem!IdemInit, Slots!SlotInit
    <3>. QED
      BY <3>1, SMT DEF HoldsOK, RestOK, BillOK, Left, Orderly, Over, Work, Inside
  <2>. QED
    BY <2>3, <2>4 DEF PipeInv
<1>2. PipeInv /\ [Next]_vars => PipeInv'
  BY StepsAreGood, AlikeKeepsOK DEF Good, PipeInv, PipeOK
<1>. QED
  BY <1>1, <1>2, PTL DEF Spec

-----------------------------------------------------------------------------
(* The pipeline uses the counter and the lock as their modules specify. *)

\* What a step does to the counter: one command of the request that takes it,
\* which is lost only with the request, or the key expires.
LEMMA SlotCommands ==
    ASSUME PipeInv, [Next]_vars
    PROVE  \/ UNCHANGED slotVars
           \/ \E r \in Requests : \/ Slots!IncrSlot(r) /\ AcquireSlot(r)
                                  \/ Slots!SetSlotExpiry(r)
                                  \/ Slots!RejectOverLimit(r) /\ AcquireSlot(r)
                                  \/ Slots!ReleaseSlot(r) /\ ReleaseConcurrencySlot(r)
                                  \/ Slots!LoseSlot(r) /\ Vanish(r)
           \/ Slots!SlotKeyExpires
<1>1. ASSUME NEW r \in Requests, NEW body \in Bodies, Arrive(r, body)
      PROVE  UNCHANGED slotVars
  BY <1>1 DEF Arrive
<1>2. ASSUME NEW r \in Requests, Step(r)
      PROVE  \/ UNCHANGED slotVars
             \/ Slots!IncrSlot(r) /\ AcquireSlot(r)
             \/ Slots!SetSlotExpiry(r)
             \/ Slots!RejectOverLimit(r) /\ AcquireSlot(r)
             \/ Slots!ReleaseSlot(r) /\ ReleaseConcurrencySlot(r)
  <2>1. CASE AcquireSlot(r)
    BY <2>1 DEF AcquireSlot
  <2>2. CASE ReleaseConcurrencySlot(r)
    BY <2>2 DEF ReleaseConcurrencySlot
  <2>3. CASE ~(AcquireSlot(r) \/ ReleaseConcurrencySlot(r))
    BY <1>2, <2>3 DEF Step, ReplayLookup, Lock, Limits, Redact, Detect, CacheLookup,
                             Call, Chunk, StreamEnds, StreamFails, ReleaseLock,
                             RecordUsage, StoreCachedCompletion, StoreResponse
  <2>. QED
    BY <2>1, <2>2, <2>3
<1>3. ASSUME NEW r \in Requests, Fault(r)
      PROVE  UNCHANGED slotVars \/ (Slots!LoseSlot(r) /\ Vanish(r))
  BY <1>3 DEF Fault, CallRaises, StreamRaises, Vanish, ExceptRaises
<1>4. ASSUME Expiry
      PROVE  UNCHANGED slotVars \/ Slots!SlotKeyExpires
  BY <1>4 DEF Expiry, CacheExpires
<1>5. UNCHANGED vars => UNCHANGED slotVars
  BY DEF vars, slotVars
<1>. QED
  BY <1>1, <1>2, <1>3, <1>4, <1>5 DEF Next, AllDone

\* The requests of the pipeline take and give back slots as ConcurrencySlots
\* specifies, whatever else goes wrong.
LEMMA PipelineUsesSlots == Spec => Slots!SlotSpec
<1>1. Init => Slots!SlotInit
  BY DEF Init
<1>2. PipeInv /\ [Next]_vars => [Slots!SlotNext]_(Slots!slotVars)
  BY SlotCommands DEF Slots!SlotNext, Slots!slotVars, slotVars
<1>. QED
  BY <1>1, <1>2, PipelineIsOrderly, PTL DEF Spec, Slots!SlotSpec

\* What a step does to the lock and the stored response: a request takes the
\* lock of its own key, and leaves it behind only with a fault.
LEMMA IdemCommands ==
    ASSUME PipeInv, [Next]_vars
    PROVE  \/ UNCHANGED idemVars
           \/ \E r \in Requests : \/ Lock(r) /\ req[r].key \in Keys
                                             /\ Idem!TryAcquireLock(r, req[r].key)
                                  \/ StoreResponse(r) /\ Idem!StoreResponse(r)
                                  \/ ReleaseLock(r) /\ Idem!ReleaseLock(r)
                                  \/ Fault(r) /\ Idem!AbandonLock(r)
           \/ \E k \in Keys : Idem!LockExpires(k) \/ Idem!ReplayExpires(k)
<1>1. ASSUME NEW r \in Requests, NEW body \in Bodies, Arrive(r, body)
      PROVE  UNCHANGED idemVars
  BY <1>1 DEF Arrive
<1>2. ASSUME NEW r \in Requests, Step(r)
      PROVE  \/ UNCHANGED idemVars
             \/ Lock(r) /\ req[r].key \in Keys /\ Idem!TryAcquireLock(r, req[r].key)
             \/ StoreResponse(r) /\ Idem!StoreResponse(r)
             \/ ReleaseLock(r) /\ Idem!ReleaseLock(r)
  <2>1. pc[r] = "lock" => req[r].key \in Keys
    BY BodyFacts DEF PipeInv, Shape, RestOK, HasKey
  <2>2. CASE Lock(r)
    BY <2>1, <2>2 DEF Lock
  <2>3. CASE ReleaseLock(r) \/ StoreResponse(r)
    BY <2>3 DEF ReleaseLock, StoreResponse
  <2>4. CASE ~(Lock(r) \/ ReleaseLock(r) \/ StoreResponse(r))
    BY <1>2, <2>4 DEF Step, ReplayLookup, Limits, AcquireSlot, Redact, Detect, CacheLookup,
                             Call, Chunk, StreamEnds, StreamFails, ReleaseConcurrencySlot,
                             RecordUsage, StoreCachedCompletion
  <2>. QED
    BY <2>2, <2>3, <2>4
<1>3. ASSUME NEW r \in Requests, Fault(r)
      PROVE  UNCHANGED idemVars \/ Idem!AbandonLock(r)
  BY <1>3 DEF Fault, CallRaises, StreamRaises, Vanish, ExceptRaises
<1>4. ASSUME Expiry
      PROVE  UNCHANGED idemVars \/ \E k \in Keys : Idem!LockExpires(k) \/ Idem!ReplayExpires(k)
  BY <1>4 DEF Expiry, CacheExpires
<1>5. UNCHANGED vars => UNCHANGED idemVars
  BY DEF vars, idemVars
<1>. QED
  BY <1>1, <1>2, <1>3, <1>4, <1>5 DEF Next, AllDone

\* The requests of the pipeline take, keep and give up the lock as Idempotency
\* specifies.
LEMMA PipelineUsesIdempotency == Spec => Idem!IdemSpec
<1>1. Init => Idem!IdemInit
  BY DEF Init
<1>2. PipeInv /\ [Next]_vars => [Idem!IdemNext]_(Idem!idemVars)
  BY IdemCommands DEF Idem!IdemNext, Idem!idemVars, idemVars
<1>. QED
  BY <1>1, <1>2, PipelineIsOrderly, PTL DEF Spec, Idem!IdemSpec

-----------------------------------------------------------------------------
(* Who writes what. *)

\* The body of a request is read once; the rest of what it leaves in Redis and
\* in Postgres is written by the operations named for it.
LEMMA Writers ==
    ASSUME [Next]_vars
    PROVE  /\ UNCHANGED <<req, late>>
              \/ \E r \in Requests, body \in Bodies : Arrive(r, body)
           /\ UNCHANGED usage \/ \E r \in Requests : RecordUsage(r)
           /\ UNCHANGED called \/ \E r \in Requests : CacheLookup(r)
           /\ UNCHANGED audit \/ \E r \in Requests : Redact(r) \/ Detect(r)
           /\ \/ UNCHANGED cache
              \/ \E r \in Requests : StoreCachedCompletion(r)
              \/ \E p \in Prompts : CacheExpires(p)
<1>. DEFINE Writes == /\ UNCHANGED <<req, late>>
                         \/ \E r \in Requests, body \in Bodies : Arrive(r, body)
                      /\ UNCHANGED usage \/ \E r \in Requests : RecordUsage(r)
                      /\ UNCHANGED called \/ \E r \in Requests : CacheLookup(r)
                      /\ UNCHANGED audit \/ \E r \in Requests : Redact(r) \/ Detect(r)
                      /\ \/ UNCHANGED cache
                         \/ \E r \in Requests : StoreCachedCompletion(r)
                         \/ \E p \in Prompts : CacheExpires(p)
<1>1. ASSUME NEW r \in Requests, NEW body \in Bodies, Arrive(r, body) PROVE Writes
  <2>1. UNCHANGED <<cache, usage, audit, called>>
    BY <1>1 DEF Arrive
  <2>. QED
    BY <1>1, <2>1
<1>2. ASSUME NEW r \in Requests, ReplayLookup(r) \/ Lock(r) \/ Limits(r) \/ AcquireSlot(r)
      PROVE  Writes
  BY <1>2 DEF ReplayLookup, Lock, Limits, AcquireSlot
<1>3. ASSUME NEW r \in Requests, Redact(r) \/ Detect(r)
      PROVE  Writes
  <2>1. UNCHANGED <<req, cache, usage, called, late>>
    BY <1>3 DEF Redact, Detect
  <2>. QED
    BY <1>3, <2>1
<1>4. ASSUME NEW r \in Requests, CacheLookup(r)
      PROVE  Writes
  <2>1. UNCHANGED <<req, cache, usage, audit, late>>
    BY <1>4 DEF CacheLookup
  <2>. QED
    BY <1>4, <2>1
<1>5. ASSUME NEW r \in Requests, Call(r) \/ Chunk(r) \/ StreamEnds(r) \/ StreamFails(r)
      PROVE  Writes
  BY <1>5 DEF Call, Chunk, StreamEnds, StreamFails
<1>6. ASSUME NEW r \in Requests, ReleaseConcurrencySlot(r) \/ ReleaseLock(r) \/ StoreResponse(r)
      PROVE  Writes
  BY <1>6 DEF ReleaseConcurrencySlot, ReleaseLock, StoreResponse, Perform
<1>7. ASSUME NEW r \in Requests, RecordUsage(r)
      PROVE  Writes
  <2>1. UNCHANGED <<req, cache, audit, called, late>>
    BY <1>7 DEF RecordUsage, Perform
  <2>. QED
    BY <1>7, <2>1
<1>8. ASSUME NEW r \in Requests, StoreCachedCompletion(r)
      PROVE  Writes
  <2>1. UNCHANGED <<req, usage, audit, called, late>>
    BY <1>8 DEF StoreCachedCompletion, Perform
  <2>. QED
    BY <1>8, <2>1
<1>9. ASSUME NEW r \in Requests, Fault(r)
      PROVE  Writes
  BY <1>9 DEF Fault, CallRaises, StreamRaises, Vanish, ExceptRaises
<1>10. ASSUME Expiry
       PROVE  Writes
  <2>1. CASE \E p \in Prompts : CacheExpires(p)
    <3>1. UNCHANGED <<req, usage, audit, called, late>>
      BY <2>1 DEF CacheExpires
    <3>. QED
      BY <2>1, <3>1
  <2>2. CASE ~\E p \in Prompts : CacheExpires(p)
    BY <1>10, <2>2 DEF Expiry, ownVars
  <2>. QED
    BY <2>1, <2>2
<1>11. ASSUME UNCHANGED vars
       PROVE  Writes
  BY <1>11 DEF vars, ownVars
<1>. HIDE DEF Writes
<1>12. Writes
  BY <1>1, <1>2, <1>3, <1>4, <1>5, <1>6, <1>7, <1>8, <1>9, <1>10, <1>11 DEF Next, Step, AllDone
<1>. QED
  BY <1>12 DEF Writes

\* Once a request has arrived its body stays, and what was billed stays billed.
LEMMA BodyAndBillStay ==
    ASSUME PipeInv, [Next]_vars, NEW r \in Requests
    PROVE  /\ pc[r] # "new" => req'[r] = req[r] /\ late'[r] = late[r]
           /\ usage[r] = 1 => usage'[r] = 1
           /\ usage'[r] # usage[r] => RecordUsage(r)
<1>1. pc[r] # "new" => req'[r] = req[r] /\ late'[r] = late[r]
  <2>1. ASSUME NEW s \in Requests, NEW body \in Bodies, Arrive(s, body), pc[r] # "new"
        PROVE  req'[r] = req[r] /\ late'[r] = late[r]
    BY <2>1 DEF Arrive, PipeInv, Shape
  <2>. QED
    BY <2>1, Writers
<1>2. usage'[r] # usage[r] => RecordUsage(r)
  BY Writers DEF RecordUsage, PipeInv, Shape
<1>3. RecordUsage(r) => usage[r] = 0
  BY PerformFacts DEF RecordUsage, PipeInv, BillOK, Effects
<1>. QED
  BY <1>1, <1>2, <1>3, SMT

-----------------------------------------------------------------------------
(* How a request ends. *)

\* A step that touches a request is the request's own.
LEMMA OwnSteps ==
    ASSUME PipeInv, [Next]_vars, NEW r \in Requests
    PROVE  \/ Alike(r)
           \/ \E body \in Bodies : Arrive(r, body)
           \/ Step(r)
           \/ Fault(r)
<1>1. ASSUME NEW s \in Requests, s # r,
             (\E body \in Bodies : Arrive(s, body)) \/ Step(s) \/ Fault(s)
      PROVE  Alike(r)
  BY <1>1, OwnStepIsGood DEF Good
<1>2. UNCHANGED vars => Alike(r)
  BY DEF vars, idemVars, slotVars, ownVars, Alike
<1>. QED
  BY <1>1, <1>2, ExpiryIsGood DEF Next, AllDone

\* An outcome, its text and its effects, as the stages of the pipeline have it.
Outcome(r, outcome, text, effects) ==
    \/ outcome = "replayed" /\ effects = {} /\ pc[r] = "replay"
    \/ /\ outcome = "conflict" /\ effects = {}
       /\ pc[r] = "lock" /\ lock[req[r].key]
    \/ outcome = "refused" /\ effects = {"unlock"} /\ pc[r] \in {"limits", "slot"}
    \/ /\ outcome = "blocked" /\ text = "nothing" /\ effects = {"slot", "unlock"}
       /\ pc[r] = "detect"
    \/ outcome = "ok" /\ "cache" \notin effects /\ pc[r] = "cache"
    \/ /\ outcome = "ok" /\ pc[r] = "provider"
       /\ text = "partial" => "early_end" \in Faults
    \/ outcome = "upstream_error" /\ effects = {"slot", "unlock"} /\ pc[r] = "provider"
    \/ outcome = "error" /\ "unexpected" \in Faults /\ pc[r] = "provider"

Settles(r) ==
    \E outcome \in Statuses, text \in Texts, plan \in {<<>>, <<"unlock">>, <<"slot">>,
            <<"slot", "unlock">>, <<"unlock", "slot">>, CallEffects, StreamEffects,
            CacheHitEffects(r)} :
        /\ IsPlan(plan)
        /\ Settle(r, outcome, text, plan)
        /\ Outcome(r, outcome, text, Elements(plan))

\* A step of a request that ends it settles its outcome, performs an effect of
\* it, or is a fault.
LEMMA StepEnds ==
    ASSUME PipeInv, NEW r \in Requests, Step(r), pc'[r] \in Over
    PROVE  Settles(r) \/ \E effect \in Effects : Perform(r, effect)
<1>. USE DEF Statuses, Texts
<1>0. Shape
  BY DEF PipeInv
<1>1. CASE ReplayLookup(r)
  BY <1>0, <1>1, PlanFacts DEF ReplayLookup, Goto, Shape, Over, Settles, Outcome
<1>2. CASE Lock(r)
  BY <1>0, <1>2, PlanFacts DEF Lock, Goto, Shape, Over, Settles, Outcome
<1>3. CASE Limits(r)
  BY <1>0, <1>3, PlanFacts DEF Limits, Goto, Shape, Over, Settles, Outcome
<1>4. CASE AcquireSlot(r)
  BY <1>0, <1>4, PlanFacts DEF AcquireSlot, Goto, Shape, Over, Settles, Outcome
<1>5. CASE Detect(r)
  BY <1>0, <1>5, PlanFacts DEF Detect, Goto, Shape, Over, Settles, Outcome
<1>6. CASE CacheLookup(r)
  <2>1. IsPlan(CacheHitEffects(r)) /\ "cache" \notin Elements(CacheHitEffects(r))
    BY AnswerPlans
  <2>2. cache[req[r].prompt] \in Texts
    BY <1>0, BodyFacts DEF Shape
  <2>. QED
    BY <1>0, <1>6, <2>1, <2>2 DEF CacheLookup, GetCachedCompletion, Goto, Shape, Over, Settles, Outcome
<1>7. CASE Call(r)
  BY <1>7, PlanFacts, AnswerPlans DEF Call, Settles, Outcome
<1>8. CASE StreamEnds(r)
  BY <1>8, AnswerPlans DEF StreamEnds, EndTexts, Settles, Outcome
<1>9. CASE StreamFails(r)
  BY <1>0, <1>9, PlanFacts DEF StreamFails, Settles, Outcome, Shape
<1>10. CASE Redact(r) \/ Chunk(r)
  BY <1>0, <1>10 DEF Redact, Chunk, Goto, Shape, Over
<1>11. CASE \/ ReleaseConcurrencySlot(r) \/ ReleaseLock(r) \/ RecordUsage(r)
            \/ StoreCachedCompletion(r) \/ StoreResponse(r)
  BY <1>11 DEF ReleaseConcurrencySlot, ReleaseLock, RecordUsage, StoreCachedCompletion,
               StoreResponse, Effects
<1>. QED
  BY <1>1, <1>2, <1>3, <1>4, <1>5, <1>6, <1>7, <1>8, <1>9, <1>10, <1>11 DEF Step

\* A request gets to its end, or stays there, by one of these steps.
LEMMA Endings ==
    ASSUME PipeInv, [Next]_vars, NEW r \in Requests, pc'[r] \in Over
    PROVE  \/ Alike(r) \/ Settles(r)
           \/ \E effect \in Effects : Perform(r, effect)
           \/ Vanish(r) \/ ExceptRaises(r)
<1>. USE DEF Statuses, Texts
<1>1. ASSUME NEW body \in Bodies, Arrive(r, body) PROVE FALSE
  BY <1>1 DEF Arrive, Goto, Over, PipeInv, Shape
<1>2. CASE CallRaises(r)
  BY <1>2, PlanFacts DEF CallRaises, Settles, Outcome
<1>3. CASE StreamRaises(r)
  <2>1. PICK text \in Texts : Settle(r, "error", text, StreamEffects)
    BY <1>3 DEF StreamRaises, PipeInv, Shape
  <2>2. "unexpected" \in Faults /\ pc[r] = "provider"
    BY <1>3 DEF StreamRaises
  <2>. QED
    BY <2>1, <2>2, AnswerPlans DEF Settles, Outcome
<1>. QED
  BY <1>1, <1>2, <1>3, OwnSteps, StepEnds DEF Fault

\* What a settled request shows.
LEMMA AfterSettling ==
    ASSUME PipeInv, NEW r \in Requests, Settles(r)
    PROVE  \E outcome \in Statuses, text \in Texts, effects \in SUBSET Effects :
              /\ Outcome(r, outcome, text, effects)
              /\ pc[r] \notin Over /\ status'[r] = outcome /\ got'[r] = text
              /\ \A e \in Effects : Left(r, e)' <=> e \in effects /\ Applies(r, text, e)
<1>1. PICK outcome \in Statuses, text \in Texts, plan \in {<<>>, <<"unlock">>, <<"slot">>,
               <<"slot", "unlock">>, <<"unlock", "slot">>, CallEffects, StreamEffects,
               CacheHitEffects(r)} :
          /\ IsPlan(plan)
          /\ Settle(r, outcome, text, plan)
          /\ Outcome(r, outcome, text, Elements(plan))
  BY DEF Settles
<1>2. /\ status'[r] = outcome /\ got'[r] = text
      /\ \A e \in Effects : Left(r, e)' <=> e \in Elements(plan) /\ Applies(r, text, e)
  BY <1>1, SettleFacts DEF PipeInv
<1>3. Elements(plan) \in SUBSET Effects
  BY <1>1 DEF IsPlan
<1>4. pc[r] \notin Over
  BY <1>1 DEF Outcome, Over
<1>. QED
  BY <1>1, <1>2, <1>3, <1>4

\* What is settled stays: a request that is over only works off its effects,
\* or is cut short.
LEMMA OverIsOver ==
    ASSUME PipeInv, [Next]_vars, NEW r \in Requests, pc[r] \in Over
    PROVE  /\ pc'[r] \in Over /\ got'[r] = got[r] /\ req'[r] = req[r] /\ late'[r] = late[r]
           /\ called'[r] = called[r] /\ audit'[r] = audit[r]
           /\ status'[r] = status[r] \/ (status'[r] = "error" /\ "vanish" \in Faults)
           /\ \A e \in Effects : Left(r, e)' => Left(r, e)
<1>1. CASE Alike(r)
  BY <1>1 DEF Alike, Left
<1>2. ASSUME NEW body \in Bodies PROVE ~Arrive(r, body)
  BY DEF Arrive, Over
<1>3. ASSUME NEW effect \in Effects, Perform(r, effect)
      PROVE  /\ pc'[r] \in Over /\ \A e \in Effects : Left(r, e)' => Left(r, e)
             /\ UNCHANGED <<req, status, got, audit, called, late>>
  <2>1. UNCHANGED <<req, status, got, audit, called, late>>
    BY <1>3 DEF Perform
  <2>. QED
    BY <1>3, <2>1, PerformFacts DEF PipeInv
<1>4. CASE Vanish(r)
  <2>1. /\ pc'[r] = "done" /\ DOMAIN todo'[r] = {}
        /\ status'[r] = "error" /\ "vanish" \in Faults
        /\ UNCHANGED <<req, got, audit, called, late>>
    BY <1>4, EmptyRest DEF Vanish, Goto, PipeInv, Shape
  <2>. QED
    BY <2>1 DEF Over, Left
<1>5. CASE ExceptRaises(r)
  <2>1. /\ todo[r] = <<"unlock", "slot">> /\ todo'[r] = [j \in {2} |-> "slot"]
        /\ status'[r] = "error" /\ "vanish" \in Faults
        /\ UNCHANGED <<pc, req, got, audit, called, late>>
    BY <1>5 DEF ExceptRaises, PipeInv, Shape
  <2>2. \A e \in Effects : Left(r, e)' => Left(r, e)
    BY <2>1, SMT DEF Left
  <2>. QED
    BY <2>1, <2>2
<1>6. Step(r) => \E effect \in Effects : Perform(r, effect)
  BY DEF Step, Over, ReplayLookup, Lock, Limits, AcquireSlot, Redact, Detect, CacheLookup,
                     Call, Chunk, StreamEnds, StreamFails, ReleaseConcurrencySlot, ReleaseLock,
                     RecordUsage, StoreCachedCompletion, StoreResponse, Effects
<1>7. Fault(r) => Vanish(r) \/ ExceptRaises(r)
  BY DEF Fault, CallRaises, StreamRaises, Over
<1>. QED
  BY <1>1, <1>2, <1>3, <1>4, <1>5, <1>6, <1>7, OwnSteps

-----------------------------------------------------------------------------
(* The properties. *)

(***************************************************************************)
(* Whatever vanishes, raises or expires: a response that                   *)
(* get_cached_response returns was billed by record_usage first, to a      *)
(* request with that key that did not stream.                              *)
(***************************************************************************)
THEOREM ReplaysWereBilled == Spec => []ReplayWasBilled
<1>1. Init => ReplayWasBilled
  BY SMT DEF Init, Idem!IdemInit, ReplayWasBilled
<1>2. ASSUME PipeInv, ReplayWasBilled, [Next]_vars
      PROVE  ReplayWasBilled'
  <2>. SUFFICES ASSUME NEW k \in Keys, replay'[k] # NoResponse
                PROVE  LET r == replay'[k] IN /\ usage'[r] = 1 /\ req'[r].key = k
                                              /\ ~req'[r].stream
    BY DEF ReplayWasBilled
  <2>1. CASE replay'[k] = replay[k]
    <3>1. PICK r \in Requests : r = replay[k]
      BY <1>2, <2>1 DEF PipeInv, Shape
    <3>2. usage[r] = 1 /\ req[r].key = k /\ ~req[r].stream
      BY <1>2, <2>1, <3>1 DEF ReplayWasBilled
    <3>3. pc[r] # "new"
      BY <1>2, <3>2 DEF PipeInv, BillOK, Over
    <3>. QED
      BY <1>2, <2>1, <3>1, <3>2, <3>3, BodyAndBillStay
  <2>2. ASSUME NEW r \in Requests, StoreResponse(r), replay'[k] # replay[k]
        PROVE  replay'[k] = r /\ usage'[r] = 1 /\ req'[r].key = k /\ ~req'[r].stream
    <3>1. /\ holds[r] = k /\ replay'[k] = r /\ UNCHANGED <<usage, req>>
      BY <1>2, <2>2 DEF StoreResponse, Idem!StoreResponse, Perform, PipeInv, Shape
    <3>2. Left(r, "replay") /\ ~Left(r, "usage")
      BY <1>2, <2>2, PerformFacts DEF StoreResponse, PipeInv, Effects
    <3>3. ~req[r].stream /\ holds[r] = req[r].key /\ usage[r] = 1
      BY <1>2, <3>2 DEF PipeInv, HoldsOK, RestOK, BillOK
    <3>. QED
      BY <3>1, <3>3
  <2>3. CASE replay'[k] # replay[k]
    <3>1. \E r \in Requests : StoreResponse(r)
      <4>1. ASSUME NEW j \in Keys, Idem!LockExpires(j) \/ Idem!ReplayExpires(j) PROVE FALSE
        BY <1>2, <2>3, <4>1 DEF Idem!LockExpires, Idem!ReplayExpires, PipeInv, Shape
      <4>2. ~UNCHANGED idemVars
        BY <2>3 DEF idemVars
      <4>3. ASSUME NEW r \in Requests, \/ Idem!TryAcquireLock(r, req[r].key)
                                       \/ Idem!ReleaseLock(r) \/ Idem!AbandonLock(r)
            PROVE  FALSE
        BY <2>3, <4>3 DEF Idem!TryAcquireLock, Idem!ReleaseLock, Idem!AbandonLock
      <4>. QED
        BY <1>2, <4>1, <4>2, <4>3, IdemCommands
    <3>. QED
      BY <2>2, <2>3, <3>1
  <2>. QED
    BY <2>1, <2>3
<1>. QED
  BY <1>1, <1>2, PipelineIsOrderly, PTL DEF Spec

(***************************************************************************)
(* As long as no request vanishes and no exception escapes the handlers,   *)
(* a request that is over has one usage_records row if it was served and   *)
(* none otherwise.                                                         *)
(***************************************************************************)
THEOREM BillingMatchesService ==
    ASSUME "vanish" \notin Faults, "unexpected" \notin Faults
    PROVE  Spec => []BilledIffServed
<1>. DEFINE NoError == \A r \in Requests : status[r] # "error"
<1>1. Init => NoError
  BY DEF Init
<1>2. PipeInv /\ PipeInv' /\ NoError /\ [Next]_vars => NoError'
  <2>. SUFFICES ASSUME PipeInv, PipeInv', NoError, [Next]_vars, NEW r \in Requests,
                       status'[r] = "error"
                PROVE  FALSE
    OBVIOUS
  <2>1. pc'[r] \in Over
    BY DEF PipeInv, BillOK
  <2>2. status[r] = "none" \/ pc[r] \in Over
    BY DEF PipeInv, BillOK
  <2>3. CASE Settles(r)
    BY <2>3, AfterSettling DEF Outcome
  <2>4. CASE ~Settles(r)
    <3>1. CASE Alike(r)
      BY <3>1 DEF Alike
    <3>2. ASSUME NEW effect \in Effects, Perform(r, effect) PROVE FALSE
      BY <3>2 DEF Perform
    <3>3. ~Vanish(r) /\ ~ExceptRaises(r)
      BY DEF Vanish, ExceptRaises
    <3>. QED
      BY <2>1, <2>4, <3>1, <3>2, <3>3, Endings
  <2>. QED
    BY <2>3, <2>4
<1>3. PipeInv /\ NoError => BilledIffServed
  <2>. SUFFICES ASSUME PipeInv, NoError, NEW r \in Requests, pc[r] = "done"
                PROVE  usage[r] = IF status[r] = "ok" THEN 1 ELSE 0
    BY DEF BilledIffServed
  <2>1. DOMAIN todo[r] = {}
    BY DEF PipeInv, RestOK
  <2>. QED
    BY <2>1 DEF PipeInv, BillOK, Left
<1>. QED
  BY <1>1, <1>2, <1>3, PipelineIsOrderly, PTL DEF Spec

\* A completion waiting to be cached is complete.
CacheInv ==
    /\ CacheIsComplete
    /\ \A r \in Requests : Left(r, "cache") => got[r] = "full"

(***************************************************************************)
(* "Nothing is cached if the stream errors partway through": so it is      *)
(* with ProviderErrors, requests that vanish and entries that expire; only *)
(* another exception, or a stream that ends early without one, leaves part *)
(* of a completion in the cache.                                           *)
(***************************************************************************)
THEOREM CachesAreComplete ==
    ASSUME "unexpected" \notin Faults, "early_end" \notin Faults
    PROVE  Spec => []CacheIsComplete
<1>1. Init => CacheInv
  BY EmptyRest DEF Init, CacheInv, CacheIsComplete, Left
<1>2. PipeInv /\ PipeInv' /\ CacheInv /\ [Next]_vars => CacheInv'
  <2>. SUFFICES ASSUME PipeInv, PipeInv', CacheInv, [Next]_vars PROVE CacheInv'
    OBVIOUS
  <2>1. ASSUME NEW p \in Prompts PROVE cache'[p] # "partial"
    <3>1. CASE UNCHANGED cache
      BY <3>1 DEF CacheInv, CacheIsComplete
    <3>2. ASSUME NEW r \in Requests, StoreCachedCompletion(r) PROVE cache'[p] # "partial"
      <4>1. Left(r, "cache")
        BY <3>2, PerformFacts DEF StoreCachedCompletion, PipeInv, Effects
      <4>. QED
        BY <3>2, <4>1 DEF StoreCachedCompletion, CacheInv, CacheIsComplete, PipeInv, Shape
    <3>3. ASSUME NEW q \in Prompts, CacheExpires(q) PROVE cache'[p] # "partial"
      BY <3>3 DEF CacheExpires, CacheInv, CacheIsComplete, PipeInv, Shape
    <3>. QED
      BY <3>1, <3>2, <3>3, Writers
  <2>2. ASSUME NEW r \in Requests, Left(r, "cache")' PROVE got'[r] = "full"
    <3>1. pc'[r] \in Over
      BY <2>2 DEF PipeInv, RestOK, Left, Over
    <3>2. CASE pc[r] \in Over
      BY <2>2, <3>2, OverIsOver DEF CacheInv, Effects
    <3>3. CASE pc[r] \notin Over /\ Settles(r)
      BY <2>2, <3>3, AfterSettling DEF Outcome, Applies, Effects, Texts
    <3>4. CASE pc[r] \notin Over /\ ~Settles(r)
      <4>1. ~Alike(r) /\ ~ExceptRaises(r) /\ ~\E effect \in Effects : Perform(r, effect)
        BY <3>1, <3>4 DEF Alike, ExceptRaises, Perform, Over
      <4>2. ASSUME Vanish(r) PROVE FALSE
        BY <2>2, <4>2, EmptyRest DEF Vanish, Left, PipeInv, Shape
      <4>. QED
        BY <3>1, <3>4, <4>1, <4>2, Endings
    <3>. QED
      BY <3>2, <3>3, <3>4
  <2>. QED
    BY <2>1, <2>2 DEF CacheInv, CacheIsComplete
<1>3. CacheInv => CacheIsComplete
  BY DEF CacheInv
<1>. QED
  BY <1>1, <1>2, <1>3, PipelineIsOrderly, PTL DEF Spec

\* The provider is called, and text arrives, only at the stage for it.
StageInv ==
    \A r \in Requests :
        /\ called[r] => pc[r] \in {"provider"} \cup Over
        /\ pc[r] \notin {"provider"} \cup Over => got[r] = "nothing"

\* A request that has begun to call the provider never goes back, and no text
\* arrives before.
LEMMA StagesAdvance ==
    ASSUME PipeInv, [Next]_vars, NEW r \in Requests
    PROVE  /\ pc[r] = "provider" => pc'[r] \in {"provider"} \cup Over
           /\ pc'[r] \notin {"provider"} \cup Over => got'[r] = got[r]
           /\ called'[r] = called[r] \/ pc'[r] = "provider"
<1>. USE DEF PipeInv, Shape
<1>1. CASE Alike(r)
  BY <1>1 DEF Alike
<1>2. ASSUME NEW body \in Bodies, Arrive(r, body)
      PROVE  pc[r] # "provider" /\ got' = got /\ called' = called
  BY <1>2 DEF Arrive
<1>3. CASE pc'[r] \in Over
  <2>1. called'[r] = called[r]
    <3>1. ASSUME NEW s \in Requests, CacheLookup(s), called'[r] # called[r] PROVE FALSE
      BY <1>3, <3>1 DEF CacheLookup, Goto, Over
    <3>. QED
      BY <3>1, Writers
  <2>. QED
    BY <1>3, <2>1 DEF Over
<1>4. CASE pc'[r] \notin Over /\ Step(r)
  <2>1. CASE ReplayLookup(r) \/ Lock(r) \/ Limits(r) \/ AcquireSlot(r)
    <3>1. IsPlan(<<>>) /\ IsPlan(<<"unlock">>)
      BY PlanFacts
    <3>2. \A o \in Statuses, t \in Texts :
             ~Settle(r, o, t, <<>>) /\ ~Settle(r, o, t, <<"unlock">>)
      BY <1>4, <3>1, SettleFacts
    <3>. QED
      BY <2>1, <3>2 DEF ReplayLookup, Lock, Limits, AcquireSlot, Statuses, Texts
  <2>2. CASE Redact(r)
    BY <2>2 DEF Redact
  <2>3. CASE Detect(r)
    <3>1. ~Settle(r, "blocked", "nothing", <<"slot", "unlock">>)
      BY <1>4, PlanFacts, SettleFacts DEF Statuses, Texts
    <3>. QED
      BY <2>3, <3>1 DEF Detect
  <2>4. CASE CacheLookup(r)
    <3>1. IsPlan(CacheHitEffects(r))
      BY AnswerPlans
    <3>2. \A t \in Texts : ~Settle(r, "ok", t, CacheHitEffects(r))
      BY <1>4, <3>1, SettleFacts DEF Statuses
    <3>3. cache[req[r].prompt] \in Texts
      BY BodyFacts
    <3>. QED
      BY <2>4, <3>2, <3>3 DEF CacheLookup, GetCachedCompletion, Goto, Texts
  <2>5. CASE Chunk(r)
    BY <2>5 DEF Chunk
  <2>6. CASE Call(r) \/ StreamEnds(r) \/ StreamFails(r)
    <3>1. /\ IsPlan(CallEffects) /\ IsPlan(StreamEffects)
          /\ IsPlan(<<"unlock", "slot">>) /\ IsPlan(<<"slot", "unlock">>)
      BY PlanFacts, AnswerPlans
    <3>2. \E o \in Statuses, t \in Texts : \E p : IsPlan(p) /\ Settle(r, o, t, p)
      <4>1. CASE Call(r)
        BY <3>1, <4>1 DEF Call, Statuses, Texts
      <4>2. CASE StreamEnds(r)
        BY <3>1, <4>2 DEF StreamEnds, EndTexts, Statuses, Texts
      <4>3. CASE StreamFails(r)
        BY <3>1, <4>3 DEF StreamFails, Statuses
      <4>. QED
        BY <2>6, <4>1, <4>2, <4>3
    <3>. QED
      BY <1>4, <3>2, SettleFacts
  <2>7. CASE \/ ReleaseConcurrencySlot(r) \/ ReleaseLock(r) \/ RecordUsage(r)
             \/ StoreCachedCompletion(r) \/ StoreResponse(r)
    <3>1. \E effect \in Effects : Perform(r, effect)
      BY <2>7 DEF ReleaseConcurrencySlot, ReleaseLock, RecordUsage, StoreCachedCompletion,
                  StoreResponse, Effects
    <3>. QED
      BY <1>4, <3>1, PerformFacts
  <2>. QED
    BY <1>4, <2>1, <2>2, <2>3, <2>4, <2>5, <2>6, <2>7 DEF Step
<1>5. CASE pc'[r] \notin Over /\ Fault(r)
  <2>1. ~Vanish(r) /\ ~ExceptRaises(r)
    BY <1>5 DEF Vanish, ExceptRaises, Goto, Over
  <2>2. CASE CallRaises(r) \/ StreamRaises(r)
    <3>1. IsPlan(<<"slot">>) /\ IsPlan(StreamEffects)
      BY PlanFacts, AnswerPlans
    <3>2. \E t \in Texts : \E p : IsPlan(p) /\ Settle(r, "error", t, p)
      BY <2>2, <3>1, SMT DEF CallRaises, StreamRaises, Texts
    <3>. QED
      BY <1>5, <3>2, SettleFacts DEF Statuses
  <2>. QED
    BY <1>5, <2>1, <2>2 DEF Fault
<1>. QED
  BY <1>1, <1>2, <1>3, <1>4, <1>5, OwnSteps

\* Requests only advance, so what StageInv says of each stage stays true.
LEMMA StageInvariance == Spec => []StageInv
<1>1. Init => StageInv
  BY DEF Init, StageInv, Over
<1>2. PipeInv /\ StageInv /\ [Next]_vars => StageInv'
  <2>. SUFFICES ASSUME PipeInv, StageInv, [Next]_vars, NEW r \in Requests
                PROVE  /\ called'[r] => pc'[r] \in {"provider"} \cup Over
                       /\ pc'[r] \notin {"provider"} \cup Over => got'[r] = "nothing"
    BY DEF StageInv
  <2>1. CASE pc[r] \in Over
    BY <2>1, OverIsOver
  <2>2. CASE pc[r] \notin Over
    BY <2>2, StagesAdvance DEF StageInv
  <2>. QED
    BY <2>1, <2>2
<1>. QED
  BY <1>1, <1>2, PipelineIsOrderly, PTL DEF Spec

\* A request that was blocked is over and will not be billed.
BlockInv ==
    \A r \in Requests : "blocked" \in audit[r] =>
        /\ ~called[r] /\ got[r] = "nothing" /\ status[r] \in {"blocked", "error"}
        /\ usage[r] = 0 /\ ~Left(r, "usage")

(***************************************************************************)
(* Whatever else goes wrong, a request whose prompt was blocked is not     *)
(* sent to a provider, not answered from the cache and not billed.         *)
(***************************************************************************)
THEOREM BlockedRequestsStop == Spec => []BlockedGoesNowhere
<1>1. Init => BlockInv
  BY DEF Init, BlockInv
<1>2. PipeInv /\ StageInv /\ BlockInv /\ [Next]_vars => BlockInv'
  <2>. SUFFICES ASSUME PipeInv, StageInv, BlockInv, [Next]_vars, NEW r \in Requests,
                       "blocked" \in audit'[r]
                PROVE  /\ ~called'[r] /\ got'[r] = "nothing"
                       /\ status'[r] \in {"blocked", "error"}
                       /\ usage'[r] = 0 /\ ~Left(r, "usage")'
    BY DEF BlockInv
  <2>1. CASE pc[r] \in Over
    <3>1. RecordUsage(r) => Left(r, "usage")
      BY PerformFacts DEF RecordUsage, PipeInv, Effects
    <3>. QED
      BY <2>1, <3>1, OverIsOver, BodyAndBillStay DEF BlockInv, Effects
  <2>2. CASE pc[r] \notin Over
    <3>1. "blocked" \notin audit[r] /\ usage[r] = 0
      BY <2>2 DEF PipeInv, BillOK, BlockInv
    <3>2. /\ pc[r] = "detect" /\ Settle(r, "blocked", "nothing", <<"slot", "unlock">>)
          /\ UNCHANGED <<usage, called>>
      <4>1. PICK s \in Requests : Redact(s) \/ Detect(s)
        BY <3>1, Writers
      <4>2. ~Redact(s)
        BY <3>1, SMT DEF Redact, WriteAuditEvent, PipeInv, Shape
      <4>3. PICK verdict \in Verdicts :
                /\ IF verdict = "clean" THEN UNCHANGED audit ELSE WriteAuditEvent(s, verdict)
                /\ \/ /\ verdict = "blocked"
                      /\ Settle(s, "blocked", "nothing", <<"slot", "unlock">>)
                   \/ verdict # "blocked"
        BY <4>1, <4>2 DEF Detect
      <4>4. s = r /\ verdict = "blocked"
        BY <3>1, <4>3, SMT DEF WriteAuditEvent, PipeInv, Shape
      <4>. QED
        BY <4>1, <4>2, <4>3, <4>4 DEF Detect
    <3>3. status'[r] = "blocked" /\ got'[r] = "nothing" /\ ~Left(r, "usage")'
      <4>1. IsPlan(<<"slot", "unlock">>) /\ "usage" \notin Elements(<<"slot", "unlock">>)
        BY PlanFacts
      <4>. QED
        BY <3>2, <4>1, SettleFacts DEF PipeInv, Effects, Statuses, Texts
    <3>4. ~called'[r]
      BY <3>2 DEF StageInv, Over
    <3>. QED
      BY <3>1, <3>2, <3>3, <3>4
  <2>. QED
    BY <2>1, <2>2
<1>3. BlockInv => BlockedGoesNowhere
  BY DEF BlockInv, BlockedGoesNowhere
<1>. QED
  BY <1>1, <1>2, <1>3, PipelineIsOrderly, StageInvariance, PTL DEF Spec

\* A request arrives once.
LEMMA NeverNewAgain ==
    ASSUME PipeInv, [Next]_vars, NEW r \in Requests, pc[r] # "new"
    PROVE  pc'[r] # "new"
<1>1. r \in DOMAIN pc
  BY DEF PipeInv, Shape
<1>2. CASE Alike(r)
  BY <1>2 DEF Alike
<1>3. ASSUME NEW body \in Bodies PROVE ~Arrive(r, body)
  BY DEF Arrive
<1>4. ASSUME NEW to, pc' = [pc EXCEPT ![r] = to], to # "new" PROVE pc'[r] # "new"
  BY <1>1, <1>4
<1>5. ASSUME NEW outcome, NEW text, NEW plan, Settle(r, outcome, text, plan) PROVE pc'[r] # "new"
  BY <1>1, <1>5 DEF Settle, Goto
<1>6. ASSUME NEW effect, Perform(r, effect) PROVE pc'[r] # "new"
  BY <1>1, <1>6 DEF Perform, Goto
<1>7. CASE ReplayLookup(r) \/ Lock(r) \/ Limits(r) \/ AcquireSlot(r)
  BY <1>4, <1>5, <1>7 DEF ReplayLookup, Lock, Limits, AcquireSlot, Goto
<1>8. CASE Redact(r) \/ Detect(r) \/ CacheLookup(r)
  BY <1>4, <1>5, <1>8 DEF Redact, Detect, CacheLookup, Goto
<1>9. CASE Call(r) \/ Chunk(r) \/ StreamEnds(r) \/ StreamFails(r)
  BY <1>5, <1>9 DEF Call, Chunk, StreamEnds, StreamFails
<1>10. CASE \/ ReleaseConcurrencySlot(r) \/ ReleaseLock(r) \/ RecordUsage(r)
            \/ StoreCachedCompletion(r) \/ StoreResponse(r)
  BY <1>6, <1>10 DEF ReleaseConcurrencySlot, ReleaseLock, RecordUsage, StoreCachedCompletion,
                     StoreResponse
<1>11. CASE Fault(r)
  BY <1>4, <1>5, <1>11 DEF Fault, CallRaises, StreamRaises, Vanish, ExceptRaises, Goto
<1>. QED
  BY <1>2, <1>3, <1>7, <1>8, <1>9, <1>10, <1>11, OwnSteps DEF Step

\* A duplicate that came late finds the response, and a request that does not
\* stream looks for it before anything else.
LateInv ==
    \A r \in Requests : late[r] =>
        /\ pc[r] # "new" /\ HasKey(r) /\ replay[req[r].key] # NoResponse
        /\ ~req[r].stream => /\ pc[r] \in {"replay"} \cup Over
                             /\ ~called[r] /\ usage[r] = 0 /\ ~Left(r, "usage")

(***************************************************************************)
(* Until REPLAY_CACHE_TTL_SECONDS run out, a duplicate sent after the      *)
(* response was stored reaches no provider and costs nothing, whatever     *)
(* else happens to it or to the first request.                             *)
(***************************************************************************)
THEOREM LateDuplicatesAreReplayed ==
    ASSUME "replay_ttl" \notin Faults
    PROVE  Spec => []LateDuplicateIsReplayed
<1>1. Init => LateInv
  BY DEF Init, LateInv
<1>2. PipeInv /\ StageInv /\ LateInv /\ [Next]_vars => LateInv'
  <2>. SUFFICES ASSUME PipeInv, StageInv, LateInv, [Next]_vars, NEW r \in Requests, late'[r]
                PROVE  /\ pc'[r] # "new" /\ HasKey(r)' /\ replay'[req'[r].key] # NoResponse
                       /\ ~req'[r].stream => /\ pc'[r] \in {"replay"} \cup Over
                                             /\ ~called'[r] /\ usage'[r] = 0
                                             /\ ~Left(r, "usage")'
    BY DEF LateInv
  <2>1. \A k \in Keys : replay[k] # NoResponse => replay'[k] # NoResponse
    <3>. SUFFICES ASSUME NEW k \in Keys, replay[k] # NoResponse, replay'[k] = NoResponse
                  PROVE  FALSE
      OBVIOUS
    <3>1. ~UNCHANGED idemVars
      BY DEF idemVars
    <3>2. ASSUME NEW s \in Requests, \/ Idem!TryAcquireLock(s, req[s].key)
                                     \/ Idem!ReleaseLock(s) \/ Idem!AbandonLock(s)
          PROVE  FALSE
      BY <3>2 DEF Idem!TryAcquireLock, Idem!ReleaseLock, Idem!AbandonLock
    <3>3. ASSUME NEW s \in Requests, Idem!StoreResponse(s) PROVE FALSE
      BY <3>3, ChatAssumption DEF Idem!StoreResponse, PipeInv, Shape, ChatAssumption
    <3>4. ASSUME NEW j \in Keys, Idem!LockExpires(j) \/ Idem!ReplayExpires(j) PROVE FALSE
      BY <3>4 DEF Idem!LockExpires, Idem!ReplayExpires
    <3>. QED
      BY <3>1, <3>2, <3>3, <3>4, IdemCommands
  <2>2. RecordUsage(r) => Left(r, "usage")
    BY PerformFacts DEF RecordUsage, PipeInv, Effects
  <2>3. req[r].key \in Keys \cup {NoKey}
    BY BodyFacts DEF PipeInv, Shape
  <2>4. CASE pc[r] \in Over
    BY <2>1, <2>2, <2>3, <2>4, OverIsOver, BodyAndBillStay, SMT DEF LateInv, HasKey, Over, Effects
  <2>5. CASE pc[r] = "new"
    <3>1. ~late[r]
      BY <2>5 DEF LateInv
    <3>2. ~Alike(r) /\ ~Step(r) /\ ~Fault(r)
      <4>1. ~Alike(r)
        BY <3>1 DEF Alike
      <4>2. ~Step(r)
        BY <2>5 DEF Step, ReplayLookup, Lock, Limits, AcquireSlot, Redact, Detect, CacheLookup,
                    Call, Chunk, StreamEnds, StreamFails, ReleaseConcurrencySlot, ReleaseLock,
                    RecordUsage, StoreCachedCompletion, StoreResponse, Perform
      <4>3. ~Fault(r)
        BY <2>5 DEF Fault, CallRaises, StreamRaises, Vanish, ExceptRaises
      <4>. QED
        BY <4>1, <4>2, <4>3
    <3>3. PICK body \in Bodies : Arrive(r, body)
      BY <3>2, OwnSteps
    <3>4. /\ req'[r] = body /\ body.key # NoKey /\ replay[body.key] # NoResponse
          /\ pc'[r] = IF body.stream THEN "lock" ELSE "replay"
          /\ UNCHANGED <<replay, todo, called, usage>>
      BY <3>3 DEF Arrive, Goto, Idem!GetCachedResponse, idemVars, PipeInv, Shape
    <3>5. ~called[r] /\ usage[r] = 0 /\ ~Left(r, "usage")
      BY <2>5 DEF StageInv, PipeInv, BillOK, RestOK, Left, Over
    <3>. QED
      BY <3>4, <3>5 DEF HasKey, Left
  <2>6. CASE pc[r] \notin {"new"} \cup Over
    <3>1. late[r] /\ req'[r] = req[r]
      BY <2>6, BodyAndBillStay
    <3>2. HasKey(r) /\ replay'[req[r].key] # NoResponse
      BY <2>1, <2>3, <3>1 DEF LateInv, HasKey
    <3>3. pc'[r] # "new"
      BY <2>6, NeverNewAgain
    <3>4. ASSUME ~req[r].stream
          PROVE  /\ pc'[r] \in {"replay"} \cup Over
                 /\ ~called'[r] /\ usage'[r] = 0 /\ ~Left(r, "usage")'
      <4>1. /\ pc[r] = "replay" /\ ~called[r] /\ usage[r] = 0 /\ ~Left(r, "usage")
            /\ replay[req[r].key] # NoResponse
        BY <2>6, <3>1, <3>4 DEF LateInv
      <4>2. CASE Alike(r)
        BY <4>1, <4>2 DEF Alike, Left
      <4>3. CASE Settle(r, "replayed", "full", <<>>) /\ UNCHANGED <<called, usage>>
        <5>1. IsPlan(<<>>) /\ Elements(<<>>) = {}
          BY PlanFacts
        <5>. QED
          BY <4>1, <4>3, <5>1, SettleFacts DEF PipeInv, Statuses, Texts, Effects
      <4>4. CASE Vanish(r)
        <5>1. pc'[r] = "done" /\ DOMAIN todo'[r] = {} /\ UNCHANGED <<called, usage>>
          BY <4>4, EmptyRest DEF Vanish, Goto, PipeInv, Shape
        <5>. QED
          BY <4>1, <5>1 DEF Over, Left
      <4>5. Step(r) => Settle(r, "replayed", "full", <<>>) /\ UNCHANGED <<called, usage>>
        <5>1. Step(r) => ReplayLookup(r)
          BY <4>1 DEF Step, Lock, Limits, AcquireSlot, Redact, Detect, CacheLookup,
                      Call, Chunk, StreamEnds, StreamFails, ReleaseConcurrencySlot, ReleaseLock,
                      RecordUsage, StoreCachedCompletion, StoreResponse, Perform
        <5>. QED
          BY <4>1, <5>1 DEF ReplayLookup, Idem!GetCachedResponse
      <4>6. ~(\E body \in Bodies : Arrive(r, body)) /\ (Fault(r) => Vanish(r))
        BY <4>1 DEF Arrive, Fault, CallRaises, StreamRaises, ExceptRaises
      <4>. QED
        BY <4>2, <4>3, <4>4, <4>5, <4>6, OwnSteps
    <3>. QED
      BY <3>1, <3>2, <3>3, <3>4 DEF HasKey
  <2>. QED
    BY <2>4, <2>5, <2>6
<1>3. LateInv => LateDuplicateIsReplayed
  BY DEF LateInv, LateDuplicateIsReplayed
<1>. QED
  BY <1>1, <1>2, <1>3, PipelineIsOrderly, StageInvariance, PTL DEF Spec

-----------------------------------------------------------------------------
(* Conflicts. *)

\* A lock that exists is somebody's.
LockHeld == \A k \in Keys : lock[k] => \E r \in Requests : holds[r] = k

\* It stays so as long as nobody leaves a lock behind.
LEMMA LocksAreHeld ==
    ASSUME "vanish" \notin Faults, "unexpected" \notin Faults
    PROVE  Spec => []LockHeld
<1>1. Init => LockHeld
  BY DEF Init, Idem!IdemInit, LockHeld
<1>2. PipeInv /\ LockHeld /\ [Next]_vars => LockHeld'
  <2>. SUFFICES ASSUME PipeInv, LockHeld, [Next]_vars PROVE LockHeld'
    OBVIOUS
  <2>. USE ChatAssumption DEF ChatAssumption, LockHeld, PipeInv, Shape
  <2>1. CASE UNCHANGED idemVars
    BY <2>1 DEF idemVars
  <2>2. ASSUME NEW r \in Requests, NEW k \in Keys, Idem!TryAcquireLock(r, k) PROVE LockHeld'
    BY <2>2 DEF Idem!TryAcquireLock
  <2>3. ASSUME NEW r \in Requests, Idem!StoreResponse(r) PROVE LockHeld'
    BY <2>3 DEF Idem!StoreResponse
  <2>4. ASSUME NEW r \in Requests, Idem!ReleaseLock(r) PROVE LockHeld'
    BY <2>4 DEF Idem!ReleaseLock, Idem!Leave
  <2>5. ASSUME NEW r \in Requests PROVE ~Fault(r)
    BY DEF Fault, CallRaises, StreamRaises, Vanish, ExceptRaises
  <2>6. ASSUME NEW k \in Keys, Idem!LockExpires(k) \/ Idem!ReplayExpires(k) PROVE LockHeld'
    BY <2>6 DEF Idem!LockExpires, Idem!ReplayExpires
  <2>. QED
    BY <2>1, <2>2, <2>3, <2>4, <2>5, <2>6, IdemCommands
<1>. QED
  BY <1>1, <1>2, PipelineIsOrderly, PTL DEF Spec

(***************************************************************************)
(* "False means another request with the same idempotency key is already   *)
(* in flight": a 409 is never the answer to a key nobody is working on,    *)
(* unless a request left its lock behind.                                  *)
(***************************************************************************)
THEOREM ConflictsAreTruthful ==
    ASSUME "vanish" \notin Faults, "unexpected" \notin Faults
    PROVE  Spec => ConflictIsTruthful
<1>1. PipeInv /\ PipeInv' /\ LockHeld /\ [Next]_vars => TruthfulConflicts
  <2>. SUFFICES ASSUME PipeInv, PipeInv', LockHeld, [Next]_vars, NEW r \in Requests,
                       status[r] # "conflict", status'[r] = "conflict"
                PROVE  \E s \in Requests \ {r} : /\ req[s].key = req[r].key
                                                 /\ pc[s] \notin {"new", "done"}
    BY DEF TruthfulConflicts
  <2>1. pc'[r] \in Over /\ pc[r] \notin Over
    BY OverIsOver DEF PipeInv, BillOK
  <2>2. Settles(r)
    <3>1. ~Alike(r) /\ ~Vanish(r) /\ ~ExceptRaises(r)
      BY DEF Alike, Vanish, ExceptRaises
    <3>2. ~\E effect \in Effects : Perform(r, effect)
      BY <2>1 DEF Perform, Over
    <3>. QED
      BY <2>1, <3>1, <3>2, Endings
  <2>3. pc[r] = "lock" /\ lock[req[r].key]
    BY <2>2, AfterSettling DEF Outcome
  <2>4. req[r].key \in Keys /\ holds[r] = NoKey
    BY <2>3, BodyFacts DEF PipeInv, Shape, RestOK, HoldsOK, HasKey, Left, Work
  <2>5. PICK s \in Requests : holds[s] = req[r].key
    BY <2>3, <2>4 DEF LockHeld
  <2>6. holds[s] # NoKey /\ s # r
    BY <2>4, <2>5, ChatAssumption DEF ChatAssumption
  <2>7. holds[s] = req[s].key /\ pc[s] \in Work \cup {"finish"}
    BY <2>6 DEF PipeInv, HoldsOK, RestOK, Left
  <2>. QED
    BY <2>5, <2>6, <2>7 DEF Work
<1>2. Spec => []LockHeld
  BY LocksAreHeld
<1>. QED
  BY <1>1, <1>2, PipelineIsOrderly, PTL DEF Spec, ConflictIsTruthful

-----------------------------------------------------------------------------
(* The counter. *)

\* What is known of finite sets; only the proofs from here on need it.
INSTANCE FiniteSetTheorems

\* Sets of requests are finite.
LEMMA RequestSets ==
    ASSUME NEW S \in SUBSET Requests
    PROVE  IsFiniteSet(S) /\ Cardinality(S) \in Nat /\ Cardinality(S) <= Cardinality(Requests)
BY ChatAssumption, FS_Subset, FS_CardinalityType DEF ChatAssumption

\* The counter is the number of requests between INCR and DECR.
CountIsBusy == count = Cardinality(Slots!Busy)

\* It stays so as long as nobody leaves without DECR and the key outlives the
\* requests it counts.
LEMMA CounterIsExact ==
    ASSUME "vanish" \notin Faults, "slot_ttl" \notin Faults
    PROVE  Spec => []CountIsBusy
<1>1. Init => CountIsBusy
  <2>1. Init => Slots!Busy = {} /\ count = 0
    BY SMT DEF Init, Slots!SlotInit, Slots!Busy
  <2>. QED
    BY <2>1, FS_EmptySet DEF CountIsBusy
<1>2. PipeInv /\ CountIsBusy /\ [Next]_vars => CountIsBusy'
  <2>. SUFFICES ASSUME PipeInv, CountIsBusy, [Next]_vars PROVE CountIsBusy'
    OBVIOUS
  <2>. USE DEF CountIsBusy, Slots!Busy
  <2>0. /\ slot \in [Requests -> SlotStates] /\ IsFiniteSet(Slots!Busy)
        /\ Cardinality(Slots!Busy) \in Nat
    BY RequestSets DEF PipeInv, Shape
  <2>1. CASE UNCHANGED slotVars
    BY <2>1 DEF slotVars
  <2>2. ASSUME NEW r \in Requests, Slots!IncrSlot(r) PROVE CountIsBusy'
    <3>1. r \notin Slots!Busy /\ Slots!Busy' = Slots!Busy \cup {r} /\ count' = count + 1
      BY <2>0, <2>2 DEF Slots!IncrSlot, Slots!Verdict
    <3>. QED
      BY <2>0, <3>1, FS_AddElement
  <2>3. ASSUME NEW r \in Requests, Slots!SetSlotExpiry(r) PROVE CountIsBusy'
    BY <2>0, <2>3 DEF Slots!SetSlotExpiry, Slots!Verdict
  <2>4. ASSUME NEW r \in Requests, Slots!RejectOverLimit(r) \/ Slots!ReleaseSlot(r)
        PROVE  CountIsBusy'
    <3>1. r \in Slots!Busy /\ Slots!Busy' = Slots!Busy \ {r} /\ count' = count - 1
      BY <2>0, <2>4 DEF Slots!RejectOverLimit, Slots!ReleaseSlot, Slots!DecrSlot
    <3>. QED
      BY <2>0, <3>1, FS_RemoveElement
  <2>5. ASSUME NEW r \in Requests PROVE ~Vanish(r)
    BY DEF Vanish
  <2>6. CASE Slots!SlotKeyExpires
    <3>1. count' = 0 /\ Slots!Busy' = {}
      BY <2>6 DEF Slots!SlotKeyExpires
    <3>. QED
      BY <3>1, FS_EmptySet
  <2>. QED
    BY <2>1, <2>2, <2>3, <2>4, <2>5, <2>6, SlotCommands
<1>. QED
  BY <1>1, <1>2, PipelineIsOrderly, PTL DEF Spec

(***************************************************************************)
(* Every path through chat_completions and stream_response gives back the  *)
(* slot and the lock, and Redis holds what the requests in progress hold,  *)
(* as long as no request vanishes or meets an exception no handler covers, *)
(* and the counter outlives those it counts.  (LOCK_TTL_SECONDS may run    *)
(* out.)                                                                   *)
(***************************************************************************)
THEOREM NothingIsLeaked ==
    ASSUME "vanish" \notin Faults, "unexpected" \notin Faults, "slot_ttl" \notin Faults
    PROVE  Spec => []NothingLeaks
<1>1. PipeInv /\ LockHeld /\ CountIsBusy => NothingLeaks
  BY DEF PipeInv, RestOK, HoldsOK, Left, LockHeld, CountIsBusy, Slots!Busy, NothingLeaks,
         Work, Inside
<1>2. Spec => []LockHeld
  BY LocksAreHeld
<1>3. Spec => []CountIsBusy
  BY CounterIsExact
<1>. QED
  BY <1>1, <1>2, <1>3, PipelineIsOrderly, PTL

\* An answered request takes no step.
LEMMA DoneIsDone ==
    ASSUME PipeInv, [Next]_vars, NEW r \in Requests, pc[r] = "done"
    PROVE  Alike(r)
<1>1. pc'[r] \in Over
  BY OverIsOver DEF Over
<1>2. ~Settles(r)
  BY AfterSettling DEF Over
<1>3. ~Vanish(r) /\ ~ExceptRaises(r) /\ ~\E effect \in Effects : Perform(r, effect)
  BY DEF Vanish, ExceptRaises, Perform
<1>. QED
  BY <1>1, <1>2, <1>3, Endings

\* An error stays one.
LEMMA ErrorsStay ==
    ASSUME PipeInv, [Next]_vars, NEW r \in Requests, status[r] = "error"
    PROVE  status'[r] = "error" /\ req'[r] = req[r]
<1>1. pc[r] \in Over
  BY DEF PipeInv, BillOK
<1>2. pc'[r] \in Over /\ req'[r] = req[r]
  BY <1>1, OverIsOver
<1>3. ~Settles(r)
  BY <1>1, AfterSettling
<1>4. CASE Alike(r)
  BY <1>4 DEF Alike
<1>5. ASSUME NEW effect \in Effects, Perform(r, effect) PROVE status'[r] = "error"
  BY <1>5 DEF Perform
<1>6. CASE Vanish(r) \/ ExceptRaises(r)
  BY <1>6 DEF Vanish, ExceptRaises, PipeInv, Shape
<1>. QED
  BY <1>2, <1>3, <1>4, <1>5, <1>6, Endings

CountIsAccounted == count <= Cardinality(Accountable)

\* INCR adds its request to those that answer for the counter, and only DECR
\* takes one away from them: with a slot nobody is answered but by an error.
LEMMA CounterIsAccounted == Spec => []CountIsAccounted
<1>1. Init => CountIsAccounted
  <2>1. Init => count = 0 /\ Accountable \subseteq Requests
    BY DEF Init, Slots!SlotInit, Accountable
  <2>. QED
    BY <2>1, RequestSets, SMT DEF CountIsAccounted
<1>2. PipeInv /\ PipeInv' /\ CountIsAccounted /\ [Next]_vars => CountIsAccounted'
  <2>. SUFFICES ASSUME PipeInv, PipeInv', CountIsAccounted, [Next]_vars PROVE CountIsAccounted'
    OBVIOUS
  <2>. DEFINE size == Cardinality(Accountable)
              sizeNow == Cardinality(Accountable')
  <2>1. Accountable \subseteq Requests /\ Accountable' \subseteq Requests
    BY DEF Accountable
  <2>2. /\ IsFiniteSet(Accountable) /\ IsFiniteSet(Accountable')
        /\ size \in Nat /\ sizeNow \in Nat
    BY <2>1, RequestSets
  <2>3. slot \in [Requests -> SlotStates] /\ count \in Int
    BY DEF PipeInv, Shape
  <2>4. ASSUME NEW s \in Requests, slot'[s] # "out" PROVE s \in Accountable'
    BY <2>4 DEF PipeInv, HoldsOK, RestOK, Left, Inside, Accountable
  <2>5. ASSUME NEW s \in Accountable, pc[s] = "done" PROVE s \in Accountable'
    BY <2>5, DoneIsDone DEF Alike, Accountable
  <2>6. ASSUME NEW s \in Accountable, pc[s] # "done" PROVE slot[s] # "out"
    BY <2>6 DEF Accountable
  <2>7. ASSUME Accountable \subseteq Accountable', count' = count PROVE CountIsAccounted'
    <3>1. size <= sizeNow
      BY <2>2, <2>7, FS_Subset
    <3>. QED
      BY <2>2, <2>3, <2>7, <3>1, SMT DEF CountIsAccounted
  <2>8. CASE UNCHANGED slotVars
    BY <2>1, <2>4, <2>5, <2>6, <2>7, <2>8 DEF slotVars
  <2>9. ASSUME NEW r \in Requests, Slots!IncrSlot(r), AcquireSlot(r) PROVE CountIsAccounted'
    <3>1. /\ slot[r] = "out" /\ slot'[r] # "out" /\ pc[r] # "done" /\ count' = count + 1
          /\ \A s \in Requests \ {r} : slot'[s] = slot[s]
      BY <2>3, <2>9 DEF Slots!IncrSlot, Slots!Verdict, AcquireSlot
    <3>2. Accountable \cup {r} \subseteq Accountable' /\ r \notin Accountable
      BY <2>1, <2>4, <2>5, <2>6, <3>1
    <3>3. Cardinality(Accountable \cup {r}) = size + 1
      BY <2>2, <3>2, FS_AddElement
    <3>4. Cardinality(Accountable \cup {r}) <= sizeNow
      BY <2>2, <3>2, FS_Subset
    <3>. QED
      BY <2>2, <2>3, <3>1, <3>3, <3>4, SMT DEF CountIsAccounted
  <2>10. ASSUME NEW r \in Requests, Slots!SetSlotExpiry(r) PROVE CountIsAccounted'
    <3>1. count' = count /\ \A s \in Requests : slot[s] # "out" => slot'[s] # "out"
      BY <2>3, <2>10 DEF Slots!SetSlotExpiry, Slots!Verdict
    <3>. QED
      BY <2>1, <2>4, <2>5, <2>6, <2>7, <3>1
  <2>11. ASSUME NEW r \in Requests, Slots!RejectOverLimit(r) \/ Slots!ReleaseSlot(r)
         PROVE  CountIsAccounted'
    <3>1. /\ slot[r] # "out" /\ count' = count - 1
          /\ \A s \in Requests \ {r} : slot'[s] = slot[s]
      BY <2>3, <2>11 DEF Slots!RejectOverLimit, Slots!ReleaseSlot, Slots!DecrSlot
    <3>2. pc[r] # "done"
      BY <3>1 DEF PipeInv, HoldsOK, RestOK, Left, Inside
    <3>3. r \in Accountable /\ Accountable \ {r} \subseteq Accountable'
      BY <2>1, <2>4, <2>5, <2>6, <3>1, <3>2 DEF Accountable
    <3>4. Cardinality(Accountable \ {r}) = size - 1
      BY <2>2, <3>3, FS_RemoveElement
    <3>5. Cardinality(Accountable \ {r}) <= sizeNow
      BY <2>2, <3>3, FS_Subset
    <3>. QED
      BY <2>2, <2>3, <3>1, <3>4, <3>5, SMT DEF CountIsAccounted
  <2>12. ASSUME NEW r \in Requests, Slots!LoseSlot(r), Vanish(r) PROVE CountIsAccounted'
    <3>1. count' = count /\ \A s \in Requests \ {r} : slot'[s] = slot[s]
      BY <2>3, <2>12 DEF Slots!LoseSlot
    <3>2. r \in Accountable'
      BY <2>12 DEF Vanish, Goto, Accountable, PipeInv, Shape
    <3>. QED
      BY <2>1, <2>4, <2>5, <2>6, <2>7, <3>1, <3>2
  <2>13. CASE Slots!SlotKeyExpires
    BY <2>2, <2>13, SMT DEF Slots!SlotKeyExpires, CountIsAccounted
  <2>. QED
    BY <2>8, <2>9, <2>10, <2>11, <2>12, <2>13, SlotCommands
<1>. QED
  BY <1>1, <1>2, PipelineIsOrderly, PTL DEF Spec

LockIsAccounted ==
    \A k \in Keys : lock[k] =>
        \E r \in Requests : holds[r] = k \/ (status[r] = "error" /\ req[r].key = k)

\* A request gives up its lock with release_lock, or in a fault that is its end.
LEMMA LocksAreAccounted == Spec => []LockIsAccounted
<1>1. Init => LockIsAccounted
  BY DEF Init, Idem!IdemInit, LockIsAccounted
<1>2. PipeInv /\ LockIsAccounted /\ [Next]_vars => LockIsAccounted'
  <2>. SUFFICES ASSUME PipeInv, LockIsAccounted, [Next]_vars, NEW k \in Keys, lock'[k]
                PROVE  \E r \in Requests : \/ holds'[r] = k
                                           \/ status'[r] = "error" /\ req'[r].key = k
    BY DEF LockIsAccounted
  <2>. DEFINE Goal == \E r \in Requests : \/ holds'[r] = k
                                          \/ status'[r] = "error" /\ req'[r].key = k
  <2>1. ASSUME lock[k], \A s \in Requests : holds[s] = k => holds'[s] = k PROVE Goal
    <3>1. PICK r \in Requests : holds[r] = k \/ (status[r] = "error" /\ req[r].key = k)
      BY <2>1 DEF LockIsAccounted
    <3>2. status[r] = "error" => status'[r] = "error" /\ req'[r] = req[r]
      BY ErrorsStay
    <3>. QED
      BY <2>1, <3>1, <3>2
  <2>. USE DEF PipeInv, Shape
  <2>2. CASE UNCHANGED idemVars
    BY <2>1, <2>2 DEF idemVars
  <2>3. ASSUME NEW r \in Requests, NEW j \in Keys, Idem!TryAcquireLock(r, j) PROVE Goal
    <3>1. CASE j = k
      BY <2>3, <3>1 DEF Idem!TryAcquireLock
    <3>2. CASE j # k
      <4>1. lock[k] /\ \A s \in Requests : holds[s] = k => holds'[s] = k
        BY <2>3, <3>2, ChatAssumption DEF Idem!TryAcquireLock, ChatAssumption
      <4>. QED
        BY <2>1, <4>1
    <3>. QED
      BY <3>1, <3>2
  <2>4. ASSUME NEW r \in Requests, Idem!StoreResponse(r) PROVE Goal
    BY <2>1, <2>4 DEF Idem!StoreResponse
  <2>5. ASSUME NEW r \in Requests, Idem!ReleaseLock(r) PROVE Goal
    <3>1. lock[k] /\ holds[r] # k
      BY <2>5 DEF Idem!ReleaseLock
    <3>2. \A s \in Requests : holds[s] = k => holds'[s] = k
      BY <2>5, <3>1 DEF Idem!ReleaseLock, Idem!Leave
    <3>. QED
      BY <2>1, <3>1, <3>2
  <2>6. ASSUME NEW r \in Requests, Fault(r), Idem!AbandonLock(r) PROVE Goal
    <3>1. lock[k] /\ \A s \in Requests \ {r} : holds[s] = k => holds'[s] = k
      BY <2>6 DEF Idem!AbandonLock, Idem!Leave
    <3>2. status'[r] = "error" /\ req'[r] = req[r]
      BY <2>6 DEF Fault, CallRaises, StreamRaises, Vanish, ExceptRaises, Settle
    <3>3. holds[r] = k => req[r].key = k
      BY ChatAssumption DEF HoldsOK, ChatAssumption
    <3>. QED
      BY <2>1, <3>1, <3>2, <3>3
  <2>7. ASSUME NEW j \in Keys, Idem!LockExpires(j) \/ Idem!ReplayExpires(j) PROVE Goal
    <3>1. lock[k] /\ holds' = holds
      BY <2>7 DEF Idem!LockExpires, Idem!ReplayExpires
    <3>. QED
      BY <2>1, <3>1
  <2>. QED
    BY <2>2, <2>3, <2>4, <2>5, <2>6, <2>7, IdemCommands
<1>. QED
  BY <1>1, <1>2, PipelineIsOrderly, PTL DEF Spec

(***************************************************************************)
(* Whatever requests vanish, raise or end early and whatever keys expire,  *)
(* a slot or a lock that outlives its request in Redis is that of one that *)
(* failed: every other way out of chat_completions and of the generators   *)
(* gives back what the request took.                                       *)
(***************************************************************************)
THEOREM OnlyErrorsLeave == Spec => []OnlyErrorsLeak
<1>1. PipeInv /\ CountIsAccounted /\ LockIsAccounted => OnlyErrorsLeak
  <2>. SUFFICES ASSUME PipeInv, CountIsAccounted, LockIsAccounted PROVE OnlyErrorsLeak
    OBVIOUS
  <2>1. ASSUME NEW k \in Keys, NEW r \in Requests, holds[r] = k
        PROVE  req[r].key = k /\ pc[r] # "done"
    BY <2>1, ChatAssumption DEF PipeInv, HoldsOK, RestOK, Left, Work, ChatAssumption
  <2>. QED
    BY <2>1 DEF CountIsAccounted, LockIsAccounted, OnlyErrorsLeak
<1>. QED
  BY <1>1, PipelineIsOrderly, CounterIsAccounted, LocksAreAccounted, PTL

\* The stages before the verdict on the slot.
Front == {"new", "replay", "lock", "limits", "slot"}

\* A request never goes back to them.
LEMMA FrontIsFirst ==
    ASSUME PipeInv, [Next]_vars, NEW r \in Requests, pc[r] \notin Front
    PROVE  pc'[r] \notin Front
<1>1. r \in DOMAIN pc
  BY DEF PipeInv, Shape
<1>2. CASE Alike(r)
  BY <1>2 DEF Alike
<1>3. ASSUME NEW body \in Bodies PROVE ~Arrive(r, body)
  BY DEF Arrive, Front
<1>4. ASSUME NEW outcome, NEW text, NEW plan, Settle(r, outcome, text, plan)
      PROVE  pc'[r] \notin Front
  BY <1>1, <1>4 DEF Settle, Goto, Front
<1>5. ASSUME NEW effect, Perform(r, effect) PROVE pc'[r] \notin Front
  BY <1>1, <1>5 DEF Perform, Goto, Front
<1>6. ~(ReplayLookup(r) \/ Lock(r) \/ Limits(r) \/ AcquireSlot(r))
  BY DEF ReplayLookup, Lock, Limits, AcquireSlot, Front
<1>7. CASE Redact(r) \/ Detect(r) \/ CacheLookup(r)
  BY <1>1, <1>4, <1>7 DEF Redact, Detect, CacheLookup, Goto, Front
<1>8. CASE Call(r) \/ Chunk(r) \/ StreamEnds(r) \/ StreamFails(r)
  BY <1>4, <1>8 DEF Call, Chunk, StreamEnds, StreamFails
<1>9. CASE \/ ReleaseConcurrencySlot(r) \/ ReleaseLock(r) \/ RecordUsage(r)
           \/ StoreCachedCompletion(r) \/ StoreResponse(r)
  BY <1>5, <1>9 DEF ReleaseConcurrencySlot, ReleaseLock, RecordUsage, StoreCachedCompletion,
                    StoreResponse
<1>10. CASE Fault(r)
  BY <1>1, <1>4, <1>10 DEF Fault, CallRaises, StreamRaises, Vanish, ExceptRaises, Goto, Front
<1>. QED
  BY <1>2, <1>3, <1>6, <1>7, <1>8, <1>9, <1>10, OwnSteps DEF Step

\* The requests that have tried for a slot, and those of them that are out
\* again: a request counts up and down at most once.
Tried == {r \in Requests : slot[r] # "out" \/ pc[r] \notin Front}
OutAgain == {r \in Requests : slot[r] = "out" /\ pc[r] \notin Front}

CountBounds == -Cardinality(OutAgain) <= count /\ count <= Cardinality(Tried)

\* Both sets only grow, and each command that changes the counter adds its
\* request to the one it counts against.
LEMMA CounterIsBounded == Spec => []CountBounds
<1>1. Init => CountBounds
  <2>1. Init => count = 0 /\ OutAgain \subseteq Requests /\ Tried \subseteq Requests
    BY DEF Init, Slots!SlotInit, OutAgain, Tried
  <2>. QED
    BY <2>1, RequestSets, SMT DEF CountBounds
<1>2. PipeInv /\ CountBounds /\ [Next]_vars => CountBounds'
  <2>. SUFFICES ASSUME PipeInv, CountBounds, [Next]_vars PROVE CountBounds'
    OBVIOUS
  <2>. DEFINE outs == Cardinality(OutAgain)
              outsNow == Cardinality(OutAgain')
              tries == Cardinality(Tried)
              triesNow == Cardinality(Tried')
  <2>1. /\ OutAgain \subseteq Requests /\ OutAgain' \subseteq Requests
        /\ Tried \subseteq Requests /\ Tried' \subseteq Requests
    BY DEF OutAgain, Tried
  <2>2. /\ IsFiniteSet(OutAgain) /\ IsFiniteSet(OutAgain') /\ outs \in Nat /\ outsNow \in Nat
        /\ IsFiniteSet(Tried) /\ IsFiniteSet(Tried') /\ tries \in Nat /\ triesNow \in Nat
    BY <2>1, RequestSets
  <2>3. slot \in [Requests -> SlotStates] /\ count \in Int
    BY DEF PipeInv, Shape
  <2>4. \A r \in Requests : pc[r] \notin Front => pc'[r] \notin Front
    BY FrontIsFirst
  <2>5. ASSUME OutAgain \subseteq OutAgain', Tried \subseteq Tried'
        PROVE  outs <= outsNow /\ tries <= triesNow
    BY <2>2, <2>5, FS_Subset
  <2>6. ASSUME OutAgain \subseteq OutAgain', Tried \subseteq Tried', count' = count
        PROVE  CountBounds'
    BY <2>2, <2>3, <2>5, <2>6, SMT DEF CountBounds
  <2>7. CASE UNCHANGED slotVars
    BY <2>4, <2>6, <2>7 DEF slotVars, OutAgain, Tried
  <2>8. ASSUME NEW r \in Requests, Slots!IncrSlot(r), AcquireSlot(r) PROVE CountBounds'
    <3>1. /\ OutAgain \subseteq OutAgain' /\ Tried \cup {r} \subseteq Tried' /\ r \notin Tried
          /\ count' = count + 1
      BY <2>3, <2>4, <2>8 DEF Slots!IncrSlot, Slots!Verdict, AcquireSlot, OutAgain, Tried, Front
    <3>2. Cardinality(Tried \cup {r}) = tries + 1
      BY <2>2, <3>1, FS_AddElement
    <3>3. outs <= outsNow /\ Cardinality(Tried \cup {r}) <= triesNow
      BY <2>2, <3>1, FS_Subset
    <3>. QED
      BY <2>2, <2>3, <3>1, <3>2, <3>3, SMT DEF CountBounds
  <2>9. ASSUME NEW r \in Requests, Slots!SetSlotExpiry(r) PROVE CountBounds'
    BY <2>3, <2>4, <2>6, <2>9 DEF Slots!SetSlotExpiry, Slots!Verdict, OutAgain, Tried
  <2>10. ASSUME NEW r \in Requests, \/ Slots!RejectOverLimit(r) /\ AcquireSlot(r)
                                    \/ Slots!ReleaseSlot(r) /\ ReleaseConcurrencySlot(r)
         PROVE  CountBounds'
    <3>1. pc'[r] \notin Front /\ slot[r] # "out" /\ slot' = [slot EXCEPT ![r] = "out"]
          /\ count' = count - 1
      <4>1. r \in DOMAIN pc
        BY DEF PipeInv, Shape
      <4>2. CASE Slots!RejectOverLimit(r) /\ AcquireSlot(r)
        BY <2>3, <4>1, <4>2 DEF AcquireSlot, Settle, Goto, Slots!RejectOverLimit,
              Slots!IncrSlot, Slots!SetSlotExpiry, Slots!DecrSlot, Front
      <4>3. CASE Slots!ReleaseSlot(r) /\ ReleaseConcurrencySlot(r)
        BY <4>1, <4>3 DEF ReleaseConcurrencySlot, Perform, Goto, Slots!ReleaseSlot,
              Slots!DecrSlot, Front
      <4>. QED
        BY <2>10, <4>2, <4>3
    <3>2. OutAgain \cup {r} \subseteq OutAgain' /\ r \notin OutAgain /\ Tried \subseteq Tried'
      BY <2>3, <2>4, <3>1 DEF OutAgain, Tried
    <3>3. Cardinality(OutAgain \cup {r}) = outs + 1
      BY <2>2, <3>2, FS_AddElement
    <3>4. Cardinality(OutAgain \cup {r}) <= outsNow /\ tries <= triesNow
      BY <2>2, <3>2, FS_Subset
    <3>. QED
      BY <2>2, <2>3, <3>1, <3>3, <3>4, SMT DEF CountBounds
  <2>11. ASSUME NEW r \in Requests, Slots!LoseSlot(r), Vanish(r) PROVE CountBounds'
    <3>1. pc'[r] \notin Front
      BY <2>11 DEF Vanish, Goto, Front, PipeInv, Shape
    <3>. QED
      BY <2>3, <2>4, <2>6, <2>11, <3>1 DEF Slots!LoseSlot, OutAgain, Tried
  <2>12. CASE Slots!SlotKeyExpires
    BY <2>2, <2>12, SMT DEF Slots!SlotKeyExpires, CountBounds
  <2>. QED
    BY <2>7, <2>8, <2>9, <2>10, <2>11, <2>12, SlotCommands
<1>. QED
  BY <1>1, <1>2, PipelineIsOrderly, PTL DEF Spec

HistoryBounds == outlived \in [Keys -> 0..Cardinality(Requests)]

\* The count of a lock's expiries stops at the number of requests.
LEMMA HistoryIsBounded == Spec => []HistoryBounds
<1>0. Cardinality(Requests) \in Nat /\ Idem!Cardinality(Requests) = Cardinality(Requests)
  BY RequestSets DEF Cardinality, Idem!Cardinality
<1>1. Init => HistoryBounds
  BY <1>0, SMT DEF Init, Idem!IdemInit, HistoryBounds
<1>2. PipeInv /\ HistoryBounds /\ [Next]_vars => HistoryBounds'
  <2>. SUFFICES ASSUME PipeInv, HistoryBounds, [Next]_vars PROVE HistoryBounds'
    OBVIOUS
  <2>. USE DEF HistoryBounds
  <2>1. CASE UNCHANGED outlived
    BY <2>1
  <2>2. ASSUME NEW r \in Requests, Idem!Leave(r) PROVE HistoryBounds'
    <3>1. \/ outlived' = [outlived EXCEPT ![holds[r]] = 0]
          \/ outlived' = [outlived EXCEPT ![holds[r]] = outlived[holds[r]]]
      <4>1. CASE Idem!InProgress(holds[r]) = {r}
        BY <2>2, <4>1 DEF Idem!Leave
      <4>2. CASE Idem!InProgress(holds[r]) # {r}
        BY <2>2, <4>2 DEF Idem!Leave
      <4>. QED
        BY <4>1, <4>2
    <3>. QED
      BY <1>0, <3>1, SMT
  <2>3. ASSUME NEW k \in Keys, Idem!LockExpires(k) PROVE HistoryBounds'
    BY <1>0, <2>3, SMT DEF Idem!LockExpires
  <2>. QED
    BY <2>1, <2>2, <2>3, IdemCommands DEF idemVars, Idem!TryAcquireLock, Idem!StoreResponse,
       Idem!ReleaseLock, Idem!AbandonLock, Idem!ReplayExpires
<1>. QED
  BY <1>1, <1>2, PipelineIsOrderly, PTL DEF Spec

(***************************************************************************)
(* Type correctness, with the range of the counter: whatever goes wrong,   *)
(* it is off by no more than the number of requests.                       *)
(***************************************************************************)
THEOREM TypesAreRight == Spec => []TypeOK
<1>1. PipeInv /\ CountBounds /\ HistoryBounds => TypeOK
  <2>. SUFFICES ASSUME PipeInv, CountBounds, HistoryBounds PROVE TypeOK
    OBVIOUS
  <2>1. Idem!IdemTypeOK
    <3>1. Idem!Cardinality(Requests) = Cardinality(Requests)
      BY DEF Cardinality, Idem!Cardinality
    <3>. QED
      BY <3>1 DEF PipeInv, Shape, HistoryBounds, Idem!IdemTypeOK
  <2>2. count \in -Cardinality(Requests)..(Cardinality(Requests) + Cardinality(Requests))
    <3>1. OutAgain \subseteq Requests /\ Tried \subseteq Requests
      BY DEF OutAgain, Tried
    <3>2. /\ Cardinality(OutAgain) \in Nat /\ Cardinality(OutAgain) <= Cardinality(Requests)
          /\ Cardinality(Tried) \in Nat /\ Cardinality(Tried) <= Cardinality(Requests)
          /\ Cardinality(Requests) \in Nat
      BY <3>1, RequestSets
    <3>. QED
      BY <3>2, SMT DEF CountBounds, PipeInv, Shape
  <2>3. Slots!SlotTypeOK
    <3>1. Slots!Cardinality(Requests) = Cardinality(Requests)
      BY DEF Cardinality, Slots!Cardinality
    <3>. QED
      BY <2>2, <3>1 DEF PipeInv, Shape, Slots!SlotTypeOK, Slots!Flaws, SlotStates
  <2>4. usage \in [Requests -> 0..1]
    BY SMT DEF PipeInv, Shape, BillOK
  <2>. QED
    BY <2>1, <2>3, <2>4 DEF PipeInv, Shape, Rests, TypeOK
<1>. QED
  BY <1>1, PipelineIsOrderly, CounterIsBounded, HistoryIsBounded, PTL

-----------------------------------------------------------------------------
(* Every step of a request brings it closer to its end. *)

\* How many steps a request has yet to take, at most: those of the stages to
\* come and those left in its stage.
Rank == [done |-> 0, finish |-> 1, provider |-> 7, cache |-> 9, detect |-> 10, redact |-> 11,
         slot |-> 12, limits |-> 15, lock |-> 16, replay |-> 17, new |-> 18]

Substeps(r) ==
    CASE pc[r] = "finish" -> Cardinality(DOMAIN todo[r])
      [] pc[r] = "provider" /\ got[r] = "nothing" -> 1
      [] pc[r] = "slot" /\ slot[r] = "out" -> 2
      [] pc[r] = "slot" /\ slot[r] = "expiring" -> 1
      [] OTHER -> 0

Remaining(r) == Rank[pc[r]] + Substeps(r)

\* What that is at each stage.
RankFits(r) ==
    /\ pc[r] = "done" => Remaining(r) = 0
    /\ pc[r] = "finish" => /\ Remaining(r) = 1 + Cardinality(DOMAIN todo[r])
                           /\ Cardinality(DOMAIN todo[r]) \in 0..5
    /\ pc[r] = "provider" => Remaining(r) = IF got[r] = "nothing" THEN 8 ELSE 7
    /\ pc[r] = "cache" => Remaining(r) = 9
    /\ pc[r] = "detect" => Remaining(r) = 10
    /\ pc[r] = "redact" => Remaining(r) = 11
    /\ pc[r] = "slot" => Remaining(r) = IF slot[r] = "out" THEN 14
                                        ELSE IF slot[r] = "expiring" THEN 13 ELSE 12
    /\ pc[r] = "limits" => Remaining(r) = 15
    /\ pc[r] = "lock" => Remaining(r) = 16
    /\ pc[r] = "replay" => Remaining(r) = 17
    /\ pc[r] = "new" => Remaining(r) = 18

RankInv == \A r \in Requests : RankFits(r)

\* At most five effects are left.
LEMMA FewEffects ==
    ASSUME Shape, NEW r \in Requests
    PROVE  IsFiniteSet(DOMAIN todo[r]) /\ Cardinality(DOMAIN todo[r]) \in 0..5
<1>1. todo[r] \in Rests
  BY DEF Shape
<1>2. DOMAIN todo[r] \in SUBSET (1..5)
  <2>1. PICK places \in SUBSET (1..5) : todo[r] \in [places -> Effects]
    BY <1>1 DEF Rests
  <2>. QED
    BY <2>1
<1>3. IsFiniteSet(1..5) /\ Cardinality(1..5) = 5
  <2>1. 1 \in Int /\ 5 \in Int /\ (IF 1 > 5 THEN 0 ELSE 5 - 1 + 1) = 5
    BY SMT
  <2>. QED
    BY <2>1, FS_Interval
<1>4. /\ IsFiniteSet(DOMAIN todo[r])
      /\ Cardinality(DOMAIN todo[r]) <= 5 /\ Cardinality(DOMAIN todo[r]) \in Nat
  BY <1>2, <1>3, FS_Subset, FS_CardinalityType
<1>. QED
  BY <1>4, SMT

LEMMA RanksFit == Spec => []RankInv
<1>1. PipeInv => RankInv
  <2>. SUFFICES ASSUME PipeInv, NEW r \in Requests PROVE RankFits(r)
    BY DEF RankInv
  <2>1. PICK n : n = Cardinality(DOMAIN todo[r])
    OBVIOUS
  <2>2. n \in 0..5
    BY <2>1, FewEffects DEF PipeInv
  <2>. QED
    BY <2>1, <2>2, SMT DEF RankFits, Remaining, Rank, Substeps
<1>. QED
  BY <1>1, PipelineIsOrderly, PTL

\* A request has moved on: to its end, by one of its effects, to a later stage,
\* or to a later command of its stage.
Onward(r) ==
    \/ pc[r] \notin Over /\ pc'[r] \in Over
    \/ pc[r] = "finish" /\ pc'[r] = "done"
    \/ /\ pc[r] = "finish" /\ pc'[r] = "finish"
       /\ \E i \in DOMAIN todo[r] : DOMAIN todo'[r] = DOMAIN todo[r] \ {i}
    \/ pc[r] = "new" /\ pc'[r] \in {"replay", "lock", "limits"}
    \/ pc[r] = "replay" /\ pc'[r] = "lock"
    \/ pc[r] = "lock" /\ pc'[r] = "limits"
    \/ pc[r] = "limits" /\ pc'[r] = "slot"
    \/ /\ pc[r] = "slot" /\ pc'[r] = "slot"
       /\ \/ slot[r] = "out" /\ slot'[r] \in {"expiring", "over"}
          \/ slot[r] = "expiring" /\ slot'[r] = "over"
    \/ pc[r] = "slot" /\ pc'[r] = "redact"
    \/ pc[r] = "redact" /\ pc'[r] = "detect"
    \/ pc[r] = "detect" /\ pc'[r] = "cache"
    \/ pc[r] = "cache" /\ pc'[r] = "provider"
    \/ /\ pc[r] = "provider" /\ pc'[r] = "provider"
       /\ got[r] = "nothing" /\ got'[r] = "partial"

\* Whatever a request does moves it on.
LEMMA StepsMoveOn ==
    ASSUME PipeInv, NEW r \in Requests,
           (\E body \in Bodies : Arrive(r, body)) \/ Step(r) \/ Fault(r)
    PROVE  Onward(r)
<1>1. /\ r \in DOMAIN pc /\ r \in DOMAIN todo /\ r \in DOMAIN slot /\ r \in DOMAIN got
      /\ pc[r] \in Stages
  BY DEF PipeInv, Shape
<1>2. ASSUME NEW outcome, NEW text, NEW plan, Settle(r, outcome, text, plan)
      PROVE  pc'[r] \in Over
  BY <1>1, <1>2 DEF Settle, Goto, Over
<1>3. ASSUME NEW effect, Perform(r, effect) PROVE Onward(r)
  <2>1. PICK i \in DOMAIN todo[r] :
            /\ todo' = [todo EXCEPT ![r] = [j \in DOMAIN todo[r] \ {i} |-> todo[r][j]]]
            /\ pc' = [pc EXCEPT ![r] = IF DOMAIN todo[r] \ {i} = {} THEN "done" ELSE "finish"]
    BY <1>3 DEF Perform, Goto
  <2>2. DOMAIN todo'[r] = DOMAIN todo[r] \ {i} /\ pc'[r] \in {"done", "finish"}
    BY <1>1, <2>1
  <2>3. pc[r] = "finish"
    BY <1>3 DEF Perform
  <2>. QED
    BY <2>2, <2>3 DEF Onward
<1>4. ASSUME NEW body \in Bodies, Arrive(r, body) PROVE Onward(r)
  BY <1>1, <1>4 DEF Arrive, Goto, Onward
<1>5. CASE ReplayLookup(r) \/ Lock(r) \/ Limits(r)
  BY <1>1, <1>2, <1>5 DEF ReplayLookup, Lock, Limits, Goto, Onward, Over
<1>6. CASE AcquireSlot(r)
  <2>1. CASE Settle(r, "refused", "nothing", <<"unlock">>)
    BY <1>2, <1>6, <2>1 DEF AcquireSlot, Onward, Over
  <2>2. CASE /\ Slots!IncrSlot(r) \/ Slots!SetSlotExpiry(r)
             /\ Goto(r, IF slot'[r] = "held" THEN "redact" ELSE "slot")
    <3>1. \/ slot[r] = "out" /\ slot'[r] \in {"expiring", "over", "held"}
          \/ slot[r] = "expiring" /\ slot'[r] \in {"over", "held"}
      BY <1>1, <2>2 DEF Slots!IncrSlot, Slots!SetSlotExpiry, Slots!Verdict
    <3>2. pc[r] = "slot" /\ pc'[r] = IF slot'[r] = "held" THEN "redact" ELSE "slot"
      BY <1>1, <1>6, <2>2 DEF AcquireSlot, Goto
    <3>. QED
      BY <3>1, <3>2 DEF Onward
  <2>. QED
    BY <1>6, <2>1, <2>2 DEF AcquireSlot
<1>7. CASE Redact(r) \/ Detect(r) \/ CacheLookup(r)
  BY <1>1, <1>2, <1>7 DEF Redact, Detect, CacheLookup, Goto, Onward, Over
<1>8. CASE Call(r) \/ StreamEnds(r) \/ StreamFails(r) \/ CallRaises(r) \/ StreamRaises(r)
  BY <1>2, <1>8 DEF Call, StreamEnds, StreamFails, CallRaises, StreamRaises, Onward, Over
<1>9. CASE Chunk(r)
  BY <1>1, <1>9 DEF Chunk, Onward
<1>10. CASE \/ ReleaseConcurrencySlot(r) \/ ReleaseLock(r) \/ RecordUsage(r)
            \/ StoreCachedCompletion(r) \/ StoreResponse(r)
  BY <1>3, <1>10 DEF ReleaseConcurrencySlot, ReleaseLock, RecordUsage, StoreCachedCompletion,
                     StoreResponse
<1>11. CASE Vanish(r)
  BY <1>1, <1>11 DEF Vanish, Goto, Onward, Over
<1>12. CASE ExceptRaises(r)
  <2>1. pc[r] = "finish" /\ pc'[r] = "finish"
    BY <1>12 DEF ExceptRaises
  <2>2. todo[r] = <<"unlock", "slot">> /\ todo'[r] = [j \in {2} |-> "slot"]
    BY <1>1, <1>12 DEF ExceptRaises
  <2>3. 1 \in DOMAIN todo[r] /\ DOMAIN todo'[r] = DOMAIN todo[r] \ {1}
    BY <2>2, SMT
  <2>. QED
    BY <2>1, <2>3 DEF Onward
<1>. QED
  BY <1>4, <1>5, <1>6, <1>7, <1>8, <1>9, <1>10, <1>11, <1>12 DEF Step, Fault

\* A request that has moved on has fewer steps left.
LEMMA LessRemains ==
    ASSUME PipeInv, NEW r \in Requests, RankFits(r), RankFits(r)', Onward(r)
    PROVE  Remaining(r)' < Remaining(r)
<1>1. CASE pc[r] = "finish" /\ pc'[r] = "finish"
  <2>1. PICK i \in DOMAIN todo[r] : DOMAIN todo'[r] = DOMAIN todo[r] \ {i}
    BY <1>1 DEF Onward, Over
  <2>2. IsFiniteSet(DOMAIN todo[r])
    BY FewEffects DEF PipeInv
  <2>3. Cardinality(DOMAIN todo'[r]) = Cardinality(DOMAIN todo[r]) - 1
    BY <2>1, <2>2, FS_RemoveElement
  <2>. QED
    BY <1>1, <2>3, SMT DEF RankFits
<1>2. CASE pc[r] \notin Over /\ pc'[r] \in Over
  <2>1. Remaining(r)' \in 0..6
    BY <1>2, SMT DEF RankFits, Over
  <2>2. Remaining(r) \in 7..18
    BY <1>2, SMT DEF RankFits, Over, PipeInv, Shape, Stages
  <2>. QED
    BY <2>1, <2>2, SMT
<1>3. CASE pc[r] = "finish" /\ pc'[r] = "done"
  BY <1>3, SMT DEF RankFits
<1>4. CASE pc'[r] \notin Over
  BY <1>4, SMT DEF RankFits, Onward, Over
<1>. QED
  BY <1>1, <1>2, <1>3, <1>4 DEF Onward, Over

(***************************************************************************)
(* Whatever vanishes, raises or expires, no stage of chat_completions is   *)
(* entered twice and no effect awaited twice: every step but the expiry of *)
(* a Redis key takes one request forward by at least one of the at most 18 *)
(* steps it had left, and leaves the others where they were.  (Of an open  *)
(* stream the first chunk is a step; the chunks that follow change nothing *)
(* the model has.)  A request that keeps taking steps is therefore         *)
(* answered; that it keeps taking them is what fairness adds in            *)
(* EveryRequestEnds.                                                       *)
(***************************************************************************)
OneAdvances ==
    \/ Expiry
    \/ \E r \in Requests : /\ Remaining(r)' < Remaining(r)
                           /\ \A s \in Requests \ {r} : Remaining(s)' = Remaining(s)

THEOREM RequestsOnlyAdvance == Spec => [][OneAdvances]_vars
<1>1. PipeInv /\ RankInv /\ RankInv' /\ [Next]_vars => [OneAdvances]_vars
  <2>. SUFFICES ASSUME PipeInv, RankInv, RankInv', [Next]_vars
                PROVE  [OneAdvances]_vars
    OBVIOUS
  <2>1. ASSUME NEW r \in Requests,
               (\E body \in Bodies : Arrive(r, body)) \/ Step(r) \/ Fault(r)
        PROVE  OneAdvances
    <3>1. Remaining(r)' < Remaining(r)
      BY <2>1, StepsMoveOn, LessRemains DEF RankInv
    <3>2. \A s \in Requests \ {r} : Alike(s)
      BY <2>1, OwnStepIsGood DEF Good
    <3>3. \A s \in Requests \ {r} : Remaining(s)' = Remaining(s)
      BY <3>2 DEF Alike, Remaining, Substeps
    <3>. QED
      BY <3>1, <3>3 DEF OneAdvances
  <2>. QED
    BY <2>1 DEF Next, AllDone, OneAdvances
<1>. QED
  BY <1>1, PipelineIsOrderly, RanksFit, PTL DEF Spec

-----------------------------------------------------------------------------
(* The cap and the lock. *)

\* What is proved of the commands of both guards, for the pipeline's.
Guards == INSTANCE RequestGuardsProofs WITH
    ExpiresUnderHolders <- "slot_ttl" \in Faults,
    LossPoints <- {"expiring", "over", "held"},
    MaxLeaks <- Cardinality(Requests),
    Attempts <- Requests,
    ReplayMayExpire <- "replay_ttl" \in Faults

\* The assumptions of both modules follow from the pipeline's.
LEMMA GuardsApply ==
    /\ Guards!IsFiniteSet(Requests) /\ Limit \in Nat /\ Cardinality(Requests) \in Nat
    /\ NoKey \notin Keys /\ NoResponse \notin Requests
  BY ChatAssumption, FS_CardinalityType DEF ChatAssumption, IsFiniteSet, Guards!IsFiniteSet

(***************************************************************************)
(* So the cap on concurrent requests, proved of the commands, holds of the *)
(* pipeline: until the key expires under its holders no more than          *)
(* max_concurrent_requests requests are past acquire_concurrency_slot.     *)
(***************************************************************************)
THEOREM PipelineKeepsCap == Spec => []Slots!ConcurrencyCap
<1>1. Guards!SlotSpec => []Guards!ConcurrencyCap
  BY GuardsApply, Guards!CapIsHard, SMT
<1>2. Slots!SlotInit => Guards!SlotInit
  BY DEF Slots!SlotInit, Guards!SlotInit
<1>3. [Slots!SlotNext]_(Slots!slotVars) => [Guards!SlotNext]_(Guards!slotVars)
  BY DEF Slots!SlotNext, Slots!IncrSlot, Slots!SetSlotExpiry, Slots!RejectOverLimit,
         Slots!ReleaseSlot, Slots!LoseSlot, Slots!SlotKeyExpires, Slots!DecrSlot,
         Slots!Verdict, Slots!Drift, Slots!Busy, Slots!slotVars, Slots!Cardinality,
         Guards!SlotNext, Guards!IncrSlot, Guards!SetSlotExpiry, Guards!RejectOverLimit,
         Guards!ReleaseSlot, Guards!LoseSlot, Guards!SlotKeyExpires, Guards!DecrSlot,
         Guards!Verdict, Guards!Drift, Guards!Busy, Guards!slotVars, Guards!Cardinality
<1>4. Guards!ConcurrencyCap => Slots!ConcurrencyCap
  BY DEF Guards!ConcurrencyCap, Guards!Held, Guards!Cardinality,
         Slots!ConcurrencyCap, Slots!Held, Slots!Cardinality
<1>. QED
  BY <1>1, <1>2, <1>3, <1>4, PipelineUsesSlots, PTL
     DEF Slots!SlotSpec, Guards!SlotSpec

\* And so does what is proved of the lock, although the pipeline gives it back
\* on some paths, lets it go on others and may leave it behind.
LEMMA PipelineOverlaps == Spec => []Idem!OverlapNeedsExpiry
<1>1. Guards!IdemSpec => []Guards!OverlapNeedsExpiry
  BY GuardsApply, Guards!OverlapsNeedExpiries, SMT
<1>2. Idem!IdemInit => Guards!IdemInit
  BY DEF Idem!IdemInit, Guards!IdemInit
<1>3. [Idem!IdemNext]_(Idem!idemVars) => [Guards!IdemNext]_(Guards!idemVars)
  BY DEF Idem!IdemNext, Idem!TryAcquireLock, Idem!StoreResponse, Idem!ReleaseLock,
         Idem!AbandonLock, Idem!Leave, Idem!LockExpires, Idem!ReplayExpires, Idem!idemVars,
         Idem!InProgress, Idem!Cardinality,
         Guards!IdemNext, Guards!TryAcquireLock, Guards!StoreResponse, Guards!ReleaseLock,
         Guards!AbandonLock, Guards!Leave, Guards!LockExpires, Guards!ReplayExpires,
         Guards!idemVars, Guards!InProgress, Guards!Cardinality
<1>4. Guards!OverlapNeedsExpiry => Idem!OverlapNeedsExpiry
  BY DEF Guards!OverlapNeedsExpiry, Guards!InProgress, Guards!Cardinality,
         Idem!OverlapNeedsExpiry, Idem!InProgress, Idem!Cardinality
<1>. QED
  BY <1>1, <1>2, <1>3, <1>4, PipelineUsesIdempotency, PTL DEF Idem!IdemSpec, Guards!IdemSpec

(***************************************************************************)
(* For clients that retry with the same Idempotency-Key this means: the    *)
(* requests with one key that are between the lock and their outcome,      *)
(* where limits are charged and the provider is called, are at most one    *)
(* more than the expiries of the lock under requests with the key, and so  *)
(* at most one as long as none takes longer than LOCK_TTL_SECONDS.         *)
(***************************************************************************)
THEOREM DuplicatesNeedExpiries == Spec => []DuplicatesNeedExpiry
<1>1. PipeInv /\ HistoryBounds /\ Idem!OverlapNeedsExpiry => DuplicatesNeedExpiry
  <2>. SUFFICES ASSUME PipeInv, HistoryBounds, Idem!OverlapNeedsExpiry, NEW k \in Keys
                PROVE  Cardinality(Executing(k)) <= 1 + outlived[k]
    BY DEF DuplicatesNeedExpiry
  <2>1. Executing(k) \subseteq Idem!InProgress(k) /\ Idem!InProgress(k) \subseteq Requests
    BY DEF PipeInv, HoldsOK, Executing, Idem!InProgress
  <2>2. /\ Cardinality(Executing(k)) <= Cardinality(Idem!InProgress(k))
        /\ Cardinality(Executing(k)) \in Nat /\ Cardinality(Idem!InProgress(k)) \in Nat
    BY <2>1, RequestSets, FS_Subset
  <2>3. Cardinality(Idem!InProgress(k)) <= 1 + outlived[k]
    BY DEF Idem!OverlapNeedsExpiry, Idem!Cardinality, Cardinality
  <2>4. outlived[k] \in Nat
    BY RequestSets, SMT DEF HistoryBounds
  <2>. QED
    BY <2>2, <2>3, <2>4, SMT
<1>. QED
  BY <1>1, PipelineIsOrderly, HistoryIsBounded, PipelineOverlaps, PTL
=============================================================================
