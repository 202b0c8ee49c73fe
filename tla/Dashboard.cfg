CONSTANTS
    s1 = s1
    s2 = s2
    None = None
    Scans <- TwoScans
    Broken <- OneBroken
    MaxEvents = 3
SPECIFICATION FairSpec
INVARIANTS TypeOK IntervalsOfTheSelected PaneOfTheSelected
PROPERTY PolledOutcomeIsShown
\* with every scan finished and shown nothing is left to do
CHECK_DEADLOCK FALSE
