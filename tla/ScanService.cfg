CONSTANTS
    s1 = s1
    s2 = s2
    m1 = m1
    m2 = m2
    NoMeta = NoMeta
    Uploads <- FirstIsUpload
    Scans <- TwoScans
    Metas <- TwoMetas
    MaxMeta = 1
    MaxCrash = 2
SPECIFICATION FairSpec
INVARIANTS TypeOK FinishedIsTruthful UndisturbedIsDurable UploadOutlivesPipeline
PROPERTIES RestoredStays ImplementsLifecycle ScansSettle
\* a service with nothing left to do stops
CHECK_DEADLOCK FALSE
