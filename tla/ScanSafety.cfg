SPECIFICATION Spec
CONSTANTS
    w1 = w1
    w2 = w2
    xtraceKey = xtraceKey
    structuredKey = structuredKey
    NoKey = NoKey
    NoWorker = NoWorker
    MaxRuns = 2
    Keys <- OneKey
    Workers <- MCWorkers
    Clients = {c1, c2}
    LeaseTicks = 2
    Skew <- LaggingClock
    Stages <- ShortPipeline
    StructuredKeys = {}
    MaxFaults = 1
INVARIANTS
    OneActivePerKey
    SingleDriverUntilFault
PROPERTIES
    LifecycleSpec
CHECK_DEADLOCK FALSE
