--------------------------- MODULE RequestLimits ---------------------------
(***************************************************************************)
(* enforce_request_limits (services/rate_limiter.py) for concurrent        *)
(* requests of one tenant, with the budget script _BUDGET_LUA and, after   *)
(* it, the cost that record_usage writes.  Each script call is an await:   *)
(* other requests run between two of them.                                 *)
(*                                                                         *)
(* The two buckets are their levels here; what one bucket does over time   *)
(* is the subject of TokenBucket.  Money is in units of 1e-8 dollars: a    *)
(* price with two decimals per million tokens is a whole number of units,  *)
(* and Lua's tostring, at 14 significant digits, writes such an amount     *)
(* exactly below a million dollars.  The comparison with the limit is made *)
(* on the unrounded double: at equality it may go either way.              *)
(***************************************************************************)
EXTENDS Integers, FiniteSets, FiniteSetsExt, Functions, ModelTables

CONSTANTS
    Requests,          \* requests of the tenant
    Rpm, Tpm,          \* rate_limit_rpm, rate_limit_tpm
    Budget,            \* monthly_budget_usd
    PromptTokens,      \* sizes of prompts, as the gateway counts them
    ReportedTokens,    \* sizes of prompts, as a response has them
    CompletionTokens,  \* sizes of completions
    Models,            \* names of models, as in ModelTables
    EchoedModels,      \* names a response may have for its model
    Providers,         \* the providers that are configured
    LastMonth          \* bound: months observed

ASSUME LimitsAssumption ==
    /\ {Rpm, Tpm, Budget} \subseteq Nat
    /\ PromptTokens \cup ReportedTokens \cup CompletionTokens \subseteq Nat
    /\ IsFiniteSet(Requests)
    /\ IsFiniteSet(PromptTokens) /\ IsFiniteSet(ReportedTokens)
    /\ IsFiniteSet(CompletionTokens) /\ CompletionTokens # {}
    /\ Models # {} /\ \A m \in Models \cup EchoedModels : m \in Seq(STRING)
    /\ "ollama" \in Providers
    /\ LastMonth \in Nat \ {0}

VARIABLES
    stage,     \* where each request is
    tokens,    \* its prompt_tokens
    model,     \* the model it asks for
    filed,     \* the month its reservation is made in
    rpm, tpm,  \* levels of the buckets
    reserved,  \* the value under budget_key, by month
    spent,     \* cost_usd of the usage_records, by month
    month,     \* the calendar
    undercounted  \* history: the requests whose prompt was billed above its
                  \* estimate

vars == <<stage, tokens, model, filed, rpm, tpm, reserved, spent, month, undercounted>>

Months == 1..LastMonth

Init ==
    /\ stage = [r \in Requests |-> "new"]
    /\ tokens = [r \in Requests |-> 0]
    /\ model = [r \in Requests |-> CHOOSE m \in Models : TRUE]
    /\ filed = [r \in Requests |-> 0]
    /\ rpm = Rpm /\ tpm = Tpm
    /\ reserved = [m \in Months |-> 0]
    /\ spent = [m \in Months |-> 0]
    /\ month = 1
    /\ undercounted = {}

-----------------------------------------------------------------------------
Price(r) == PriceFor(model[r], Resolve(model[r], Providers))

EstimatePromptCost(r) == tokens[r] * Price(r).prompt

\* What a bill charges for the tokens of model m: the provider is the one the
\* request was routed to.
BilledPrice(r, m) == PriceFor(m, Resolve(model[r], Providers))

\* The two prices are exchanged.
CalculateCostSwapped(r, p, n, m) ==
    p * BilledPrice(r, m).completion + n * BilledPrice(r, m).prompt

CalculateCost(r, p, n, m) ==
    p * BilledPrice(r, m).prompt + n * BilledPrice(r, m).completion

\* A row has six decimals: round(cost_usd, 6), of a double, so that a tie may go
\* either way.
Micro == 100
Rounded(cost) ==
    LET down == Micro * (cost \div Micro)
    IN  {c \in {down, down + Micro} : 2 * (c - cost) <= Micro /\ 2 * (cost - c) <= Micro}

Goto(r, s) == stage' = [stage EXCEPT ![r] = s]

\* The model is resolved and the prompt counted.
Enter(r, n, m) ==
    /\ stage[r] = "new"
    /\ Goto(r, "rpm")
    /\ tokens' = [tokens EXCEPT ![r] = n]
    /\ model' = [model EXCEPT ![r] = m]
    /\ UNCHANGED <<filed, rpm, tpm, reserved, spent, month, undercounted>>

CheckRpm(r) ==
    /\ stage[r] = "rpm"
    /\ \/ rpm >= 1 /\ rpm' = rpm - 1 /\ Goto(r, "tpm")
       \/ rpm < 1 /\ Goto(r, "refused") /\ UNCHANGED rpm
    /\ UNCHANGED <<tokens, model, filed, tpm, reserved, spent, month, undercounted>>

\* A request that costs nothing is through; for another one the month is read
\* off the clock and the budget script is called.
CheckTpm(r) ==
    /\ stage[r] = "tpm"
    /\ \/ /\ tpm >= tokens[r]
          /\ tpm' = tpm - tokens[r]
          /\ IF EstimatePromptCost(r) > 0
             THEN Goto(r, "budget") /\ filed' = [filed EXCEPT ![r] = month]
             ELSE Goto(r, "admitted") /\ UNCHANGED filed
       \/ /\ tpm < tokens[r]
          /\ Goto(r, "refused")
          /\ UNCHANGED <<tpm, filed>>
    /\ UNCHANGED <<tokens, model, rpm, reserved, spent, month, undercounted>>

\* The limit is compared with the spend before this request.
CheckBudgetCurrent(r) ==
    /\ stage[r] = "budget"
    /\ \/ /\ reserved[filed[r]] <= Budget
          /\ reserved' = [reserved EXCEPT ![filed[r]] = @ + EstimatePromptCost(r)]
          /\ Goto(r, "admitted")
       \/ /\ reserved[filed[r]] >= Budget
          /\ Goto(r, "refused")
          /\ UNCHANGED reserved
    /\ UNCHANGED <<tokens, model, filed, rpm, tpm, spent, month, undercounted>>

\* The increment is written before the limit is compared.
CheckBudgetKeeps(r) ==
    /\ stage[r] = "budget"
    /\ reserved' = [reserved EXCEPT ![filed[r]] = @ + EstimatePromptCost(r)]
    /\ Goto(r, IF reserved[filed[r]] + EstimatePromptCost(r) <= Budget
               THEN "admitted" ELSE "refused")
    /\ UNCHANGED <<tokens, model, filed, rpm, tpm, spent, month, undercounted>>

\* One run of the budget script.  Its key outlives the month it is for.
CheckBudget(r) ==
    /\ stage[r] = "budget"
    /\ LET total == reserved[filed[r]] + EstimatePromptCost(r) IN
       \/ /\ total <= Budget
          /\ reserved' = [reserved EXCEPT ![filed[r]] = total]
          /\ Goto(r, "admitted")
       \/ /\ total >= Budget
          /\ Goto(r, "refused")
          /\ UNCHANGED reserved
    /\ UNCHANGED <<tokens, model, filed, rpm, tpm, spent, month, undercounted>>

\* The request is served and its usage recorded.  The prompt is billed by the
\* gateway's count (a stream, or a response without usage) or by the one in the
\* response or the cached response; a cached completion that is streamed is
\* billed at the model the response names.
Bill(r, p, n, m) ==
    /\ stage[r] = "admitted"
    /\ Goto(r, "billed")
    /\ \E cost \in Rounded(CalculateCost(r, p, n, m)) :
          spent' = [spent EXCEPT ![month] = @ + cost]
    /\ undercounted' = IF p * BilledPrice(r, m).prompt > EstimatePromptCost(r)
                       THEN undercounted \cup {r} ELSE undercounted
    /\ UNCHANGED <<tokens, model, filed, rpm, tpm, reserved, month>>

\* It is refused a slot, blocked, or fails upstream: nothing is given back.
Lapse(r) ==
    /\ stage[r] = "admitted"
    /\ Goto(r, "lapsed")
    /\ UNCHANGED <<tokens, model, filed, rpm, tpm, reserved, spent, month, undercounted>>

\* Time passes for the buckets.
Refill ==
    /\ rpm < Rpm \/ tpm < Tpm
    /\ rpm' \in rpm..Rpm /\ tpm' \in tpm..Tpm
    /\ UNCHANGED <<stage, tokens, model, filed, reserved, spent, month, undercounted>>

NextMonth ==
    /\ month < LastMonth
    /\ month' = month + 1
    /\ UNCHANGED <<stage, tokens, model, filed, rpm, tpm, reserved, spent, undercounted>>

Finished == \A r \in Requests : stage[r] \in {"refused", "lapsed", "billed"}

Next ==
    \/ \E r \in Requests :
          \/ \E n \in PromptTokens, m \in Models : Enter(r, n, m)
          \/ CheckRpm(r) \/ CheckTpm(r) \/ CheckBudget(r)
          \/ \E p \in ReportedTokens \cup {tokens[r]}, n \in CompletionTokens,
                m \in EchoedModels \cup {model[r]} : Bill(r, p, n, m)
          \/ Lapse(r)
    \/ Refill
    \/ NextMonth
    \/ Finished /\ UNCHANGED vars

Spec == Init /\ [][Next]_vars

-----------------------------------------------------------------------------
\* What the prompt of each request is estimated to cost.
Estimates == [r \in Requests |-> EstimatePromptCost(r)]

\* The requests the budget script let through for a month.
Cleared(m) == {r \in Requests : filed[r] = m /\ stage[r] \in {"admitted", "lapsed", "billed"}}

(***************************************************************************)
(* "Two concurrent requests reading current spend before either writes     *)
(* back could both pass a check that, combined, exceeds the cap": they do  *)
(* not.  The estimates of all requests cleared for a month stay within the *)
(* budget, also for requests caught by the turn of the month.              *)
(***************************************************************************)
BudgetHolds ==
    \A m \in Months : SumFunctionOnSet(Estimates, Cleared(m)) <= Budget

(***************************************************************************)
(* The guardrail's number is the sum of the estimates of the requests it   *)
(* cleared: a refused request leaves nothing behind, and one that fails    *)
(* later stays counted.                                                    *)
(***************************************************************************)
LedgerMatches ==
    \A m \in Months : reserved[m] = SumFunctionOnSet(Estimates, Cleared(m))

Billed == {r \in Requests : stage[r] = "billed"}

BilledModels == Models \cup EchoedModels

\* What completions and prompts can be billed at, and the most of it.
CompletionCosts ==
    {n * PriceFor(m, "openai").completion : n \in CompletionTokens, m \in BilledModels}
PromptCosts ==
    {n * PriceFor(m, "openai").prompt :
        n \in PromptTokens \cup ReportedTokens \cup {0}, m \in BilledModels}
CompletionCost == Max(CompletionCosts)
PromptCost == Max(PromptCosts)

(***************************************************************************)
(* What the guardrail is worth.  It reserves the cost of prompts and is    *)
(* never told of the usage_records, so over the months observed the tenant *)
(* can be billed more than was reserved, but only by the completions of    *)
(* the requests served, half a unit of the last decimal for each row, and  *)
(* the prompts of those whose response counts more tokens than the gateway *)
(* did or names a dearer model.                                            *)
(***************************************************************************)
SpendIsBounded ==
    SumFunctionOnSet(spent, Months)
      <= SumFunctionOnSet(reserved, Months)
         + (CompletionCost + 50) * Cardinality(Billed)
         + PromptCost * Cardinality(undercounted)

(***************************************************************************)
(* What a request is reserved and, unless it is a cached stream, billed    *)
(* at: nothing when it is served by the self-hosted provider; else the     *)
(* price of the most specific entry its model has in the table, although   *)
(* the table is searched in order and entries are prefixes of one another; *)
(* and never nothing.                                                      *)
(***************************************************************************)
PriceIsMostSpecific ==
    \A r \in Requests : stage[r] # "new" =>
        IF Resolve(model[r], Providers) = "ollama"
        THEN Price(r) = OllamaPrice
        ELSE /\ Price(r) = MostSpecificPrice(model[r])
             /\ Price(r).prompt > 0 /\ Price(r).completion > 0
=============================================================================
