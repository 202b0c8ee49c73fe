CONSTANTS
    s1 = s1
    s2 = s2
    None = None
    Scans <- TwoScans
    Broken <- OneBroken
    MaxEvents = 1
SPECIFICATION FairSpec
PROPERTY OutcomeIsShown
\* with every scan finished and shown nothing is left to do
CHECK_DEADLOCK FALSE
