\* Three requests around the budget, both buckets and the turn of a month.
CONSTANTS
    Requests = {r1, r2, r3}
    Rpm = 2
    Tpm = 3
    Budget = 500
    PromptTokens = {2}
    ReportedTokens = {3}
    CompletionTokens = {1}
    Models <- MCModels
    EchoedModels <- MCEchoedModels
    Providers = {"openai", "ollama"}
    LastMonth = 2
SPECIFICATION Spec
SYMMETRY RequestSymmetry
INVARIANTS BudgetHolds LedgerMatches SpendIsBounded PriceIsMostSpecific
