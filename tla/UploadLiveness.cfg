\* Two documents, the younger of which can never be indexed; two faults.
SPECIFICATION FairSpec
CONSTANTS
    MaxDocs = 2
    Workers = {w1}
    WorkerIds = {id}
    id = id
    NoWorker = NoWorker
    IdOf <- OneId
    Tokens <- ThreeTokens
    NoToken = NoToken
    Previews = {p1}
    NoPreview = NoPreview
    Choices = {k1}
    NoChoice = NoChoice
    LeaseTicks = 2
    Clients = {c1}
    Unindexable <- YoungestFails
    MaxFaults = 2
PROPERTIES QueuedAreReviewed ConfirmedBecomeReady ScansGetTurns
