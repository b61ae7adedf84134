\* Two workers, two competing confirmations, two faults, one document.
SPECIFICATION Spec
CONSTANTS
    MaxDocs = 1
    Workers = {w1, w2}
    WorkerIds = {id}
    id = id
    NoWorker = NoWorker
    IdOf <- OneId
    Tokens <- ThreeTokens
    NoToken = NoToken
    Previews = {p1, p2}
    NoPreview = NoPreview
    Choices = {k1, k2}
    NoChoice = NoChoice
    LeaseTicks = 2
    Clients = {c1, c2}
    Unindexable <- NobodyFails
    MaxFaults = 2
INVARIANTS SoleHolder ReceiptsHold FailedForCause IngestedOnceUntilFault
PROPERTIES PromiseSpec
SYMMETRY Symmetry
