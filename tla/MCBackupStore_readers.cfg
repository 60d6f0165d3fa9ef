\* A restore selects, downloads and opens a set while a run, the start of a scheduler
\* and the environment change what is stored.
SPECIFICATION Spec
CONSTANTS
    NoOne = NoOne
    Torn = Torn
    Scheduled = {nightly}
    Manual = {}
    Release = {}
    Keepers = {keeper}
    Readers = {restore}
    History = {1}
    RetentionDays = 1
    StalePart = 0
    StartTime = 3
    MaxTime = 3
    Jump = 2
    FloorSets = 1
    FutureTolerance = 0
    HasBucket = TRUE
    HasUploads = FALSE
    SharedStamps = FALSE
    Faults <- ReaderFaults
INVARIANTS
    OpensWhatWasVerified
\* Every process runs once, so the system stops when all of them have ended.
CHECK_DEADLOCK FALSE
