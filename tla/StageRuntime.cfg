SPECIFICATION Spec
CONSTANTS
    Plan <- TwoStages
    MaxAttempts <- Policies
    Declinable <- DeclinableStages
    Executions = {1, 2}
    l1 = l1
    l2 = l2
    Lenses <- MCLenses
    Outputs <- AllAdvisory
    Transports = 2
    Concurrency = 2
    Reserve = 2
    Usages = {3}
    MaxCost = 2
    MaxTokens = 4
    MaxFaults = 1
SYMMETRY Symmetric
INVARIANTS
    CalledOnce
    BudgetHolds
    CompletedIsSettled
    RunningLedgerComplete
CHECK_DEADLOCK FALSE
