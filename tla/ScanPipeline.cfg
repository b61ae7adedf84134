SPECIFICATION FairSpec
CONSTANTS
    w1 = w1
    w2 = w2
    xtraceKey = xtraceKey
    structuredKey = structuredKey
    NoKey = NoKey
    NoWorker = NoWorker
    MaxRuns = 1
    Keys <- MCKeys
    Workers <- MCWorkers
    Clients = {c1}
    LeaseTicks = 2
    Skew <- LaggingClock
    Stages <- OneOfEachKind
    StructuredKeys <- MCStructured
    MaxFaults = 2
INVARIANTS
    OutcomeBacked
    WarningsMatchOutcome
PROPERTIES
    QueuedRunsSettle
CHECK_DEADLOCK FALSE
