\* One run whose manifest write can stop half-way, then the start of a scheduler.
SPECIFICATION Spec
CONSTANTS
    NoOne = NoOne
    Torn = Torn
    Scheduled = {nightly}
    Manual = {}
    Release = {}
    Keepers = {keeper}
    Readers = {}
    History = {1}
    RetentionDays = 1
    StalePart = 0
    StartTime = 2
    MaxTime = 3
    Jump = 0
    FloorSets = 1
    FutureTolerance = 0
    HasBucket = FALSE
    HasUploads = FALSE
    SharedStamps = FALSE
    Faults <- TornManifest
INVARIANTS
    LastGoodSetSurvives
\* Every process runs once, so the system stops when all of them have ended.
CHECK_DEADLOCK FALSE
