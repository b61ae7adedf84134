SPECIFICATION MatchingSpec
CONSTANTS
    Excerpt <- MCExcerpt
    Public = {"web"}
    Lineage <- MCLineage
    Fixtures = {"note"}
    Tokens <- MCTokens
    NameTokens <- MCNameTokens
    EventTokens <- MCEventTokens
    Statements <- OneSentence
    Citations <- OneCitation
    Ratings <- TwoRatings
    MaxClaims = 2
    MaxImplications = 0
    MaxMatches = 2
INVARIANTS
    QualifiedMatchRevises
CHECK_DEADLOCK FALSE
