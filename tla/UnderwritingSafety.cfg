SPECIFICATION Spec
CONSTANTS
    a1 = a1
    a2 = a2
    d1 = d1
    d2 = d2
    p1 = p1
    p2 = p2
    v1 = v1
    v2 = v2
    Attempts <- MCAttempts
    Nonces <- MCAttempts
    NoNonce = NoNonce
    Deals <- MCDeals
    Prints <- TwoPrints
    Ranked <- TwoDealsSelected
    Variants <- MCVariants
    NoVariant = NoVariant
    ForceChoices = {TRUE, FALSE}
    MaxFaults = 1
SYMMETRY Symmetric
INVARIANTS
    ArtifactsOwned
    FinalizedAsCheckpointed
    DoneMeansSettled
PROPERTIES
    PromiseSpec
CHECK_DEADLOCK FALSE
