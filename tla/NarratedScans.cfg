CONSTANTS
    r1 = r1
    r2 = r2
    Runs <- TwoRuns
    Codes <- TwoCodes
    Languages <- TwoLanguages
    Answers <- TwoAnswers
    Parts <- AllParts
    Width <- Widths
    None = None
    MaxKills = 1
    MaxErrors = 1
SPECIFICATION FairSpec
INVARIANTS TypeOK CacheIsGenuine NarrativeIsGrounded
PROPERTIES CachedIsKept RunsEnd
\* a run that has ended does not start again
CHECK_DEADLOCK FALSE
