CONSTANTS
    s1 = s1
    s2 = s2
    m1 = m1
    m2 = m2
    NoMeta = NoMeta
    Uploads <- FirstIsUpload
    Scans <- OneScan
    Metas <- TwoMetas
    MaxMeta = 1
    MaxCrash = 0
SPECIFICATION Spec
INVARIANT PersistedIsCompleted
CHECK_DEADLOCK FALSE
