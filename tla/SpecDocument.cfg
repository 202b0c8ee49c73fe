CONSTANTS
    Canonical <- MCCanonical
    TokensOf <- MCTokensOf
    None = None
    Timeout = 3
    MaxDelay = 1
    Runner <- MCRunner
    MaxBreaks = 1
    Linked <- MCLinked
    Features <- MCFeatures
    Found <- MCFound
    Starts <- MCStarts
    AskedFor <- MCAskedFor
SPECIFICATION FairSpec
INVARIANTS TypeOK NothingIsOverlooked NarrativesAreGrounded AgentsBounded
PROPERTIES DocumentAnswered
\* a request that is answered stops
CHECK_DEADLOCK FALSE
