SPECIFICATION MCSpec
CONSTANTS
    d1 = d1
    d2 = d2
    Deals <- MCDeals
    Statuses = {"screening", "watchlist"}
    Sources = {"source"}
    MaxRevision = 2
    Requests = {"q1", "q2", "q3"}
    MaxConfirms = 3
    MaxAttempts = 2
    Runs = {1, 2}
    Resets = {"a", "b"}
    MaxJobs = 3
    MaxPolls = 2
    MaxFaults = 2
    Limit = 2
    Window = 3
    MaxTime = 8
    Critical = {"customer_evidence", "arr", "reported_valuation"}
    Minimum = {"arr", "reported_valuation"}
    MaxEdits = 2
    Providers <- MCProviders
    Items <- MCItems
    Alike <- MCAlike
    Themed = {1, 3, 4}
    Portfolio = {"p", "q"}
    Overlap <- MCOverlap
    MaxItems = 2
    Slots = 2
    Excerpt <- MCExcerpt
    Public = {"web"}
    Lineage <- MCLineage
    Fixtures = {"note"}
    Tokens <- MCTokens
    NameTokens <- MCNameTokens
    EventTokens <- MCEventTokens
    Statements <- MCStatements
    Citations <- MCCitations
    Ratings <- OneRating
    MaxClaims = 2
    MaxImplications = 1
    MaxMatches = 1
    Callers = {"x", "y", "z"}
    MaxLoads = 2
    MaxCalls = 2
    LensCards <- MCLensCards
    Mandatory = {"market"}
    Topics <- MCTopics
    Packs <- MCPacks
    Suggested = {"arr", "venture", "ghost"}
    Stray = {"ghost"}
    Files <- MCFiles
    Answers <- MCAnswers
    NoQuote = "none"
    SourceOf <- MCSourceOf
    Strangers = {"r3"}
    RowRevision <- MCRowRevision
    Recallable = {"m1", "m2"}
    Links <- MCLinks
    NoLink <- NotLinked
    MaxBuilds = 2
    MaxEntries = 2
    Managers = {"a", "b"}
    PolicyValues = {"recommended", "bold"}
    RecommendedValues = "recommended"
    MaxPolicies = 3
    Promotions = {"p", "r"}
    PendingUploads = {"u1", "u2"}
    LaterRevisions <- MCLaterRevisions
    CompanyOf <- MCCompanyOf
    AssignmentRequests = {"q1", "q2"}
    ItemCount = 2
    Nothing = "nothing"
    MaxThrows = 1
SYMMETRY Symmetric
INVARIANTS
    BundlesWereTrue
    HiddenOnlyIfOverlapping
    IngestedResolves
    ResubmittedForCause
    RecallKeepsRecorded
    LimitsHold
    InvestCandidateEarned
    NoSourceLost
    DealsKeepTheirEvent
    MatchesGrounded
    CatalogServesWaiters
    ArtifactsReadable
    EvidenceTraceable
    PacksGrounded
    PoliciesReplaceWhatWasSeen
    PromotionsAreWhole
PROPERTIES
    ReportTrueWhenStored
    
CHECK_DEADLOCK FALSE
