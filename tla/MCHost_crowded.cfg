\* One host with production and the demo: the workflow, an update by hand, the reset
\* timer and recovery.  Beside it a nightly run, a manual run and a release run meet
\* the start of a scheduler.
SPECIFICATION HostSpec
CONSTANTS
    Kinds = {"stack", "demo"}
    Free = Free
    NoJournal = NoJournal
    Deploys = {}
    Updates = {update}
    Workflows = {job}
    Recoveries = {recovery}
    Resets = {reset}
    Releases = {1, 2}
    First = 1
    Ready = {1, 2}
    Level <- OneEach
    NoOne = NoOne
    Torn = Torn
    Scheduled = {nightly}
    Manual = {manual}
    Release = {release}
    Keepers = {keeper}
    Readers = {}
    History = {1}
    RetentionDays = 1
    StalePart = 0
    StartTime = 2
    MaxTime = 3
    Jump = 0
    FloorSets = 1
    FutureTolerance = 0
    HasBucket = FALSE
    HasUploads = FALSE
    SharedStamps = FALSE
    Faults <- NoFaults
INVARIANTS
    TargetIsKept
    LockMeansWork
PROPERTIES
    FloorKept
    SweepSparesWork
\* Every backup runs once, so that part stops when all of them have ended.
CHECK_DEADLOCK FALSE
