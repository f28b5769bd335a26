CONSTANTS
    MaxBigint = 7
    Providers = {"grok"}
    Outcomes <- MCTurns
    MaxFacts = 4
    MaxCollected <- MCMaxCollected
SPECIFICATION Spec
INVARIANTS
    RecordsCompose
CHECK_DEADLOCK FALSE
