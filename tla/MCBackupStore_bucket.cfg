\* A nightly run and a manual run, with uploads and a bucket whose transfers can be
\* cut and whose credential may not delete.
SPECIFICATION FairSpec
CONSTANTS
    NoOne = NoOne
    Torn = Torn
    Scheduled = {nightly}
    Manual = {manual}
    Release = {}
    Keepers = {}
    Readers = {}
    History = {1}
    RetentionDays = 1
    StalePart = 0
    StartTime = 2
    MaxTime = 3
    Jump = 0
    FloorSets = 1
    FutureTolerance = 0
    HasBucket = TRUE
    HasUploads = TRUE
    SharedStamps = FALSE
    Faults <- BucketFaults
INVARIANTS
    ManifestVouches
PROPERTIES
    LockIsFreed
    HeartbeatMeansBackup
\* Every process runs once, so the system stops when all of them have ended.
CHECK_DEADLOCK FALSE
