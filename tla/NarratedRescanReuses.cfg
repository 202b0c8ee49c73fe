CONSTANTS
    r1 = r1
    r2 = r2
    Runs <- TwoRuns
    Codes <- OneCode
    Languages <- English
    Answers <- TwoAnswers
    Parts <- AllParts
    Width <- Widths
    None = None
    MaxKills = 0
    MaxErrors = 0
SPECIFICATION Spec
PROPERTIES RescanReuses
CHECK_DEADLOCK FALSE
