\* Live restores: one that terminates connections and one that gives up the single
\* transaction meet a waiting backup and the pool of a service.  The parts end or
\* are cut off at their bounds: no deadlock check.
SPECIFICATION OperatorSpec
CONSTANTS
    Live = Live
    Nothing = Nothing
    NoOne = NoOne
    Restores = {first, second}
    Backups = {backup}
    Writers = {api}
    avatars = avatars
    invoices = invoices
    Paths <- MCPaths
    Terminating = {first}
    NoSafetyDump = {}
    NoSingleTransaction = {second}
    WithUploads = {first, second}
    WritersKeepOut = TRUE
    MaxWrites = 2
    t1 = t1
    t2 = t2
    Tables <- MCTables
    Sizes <- MCSizes
    MaxChanges = 1
    Absent = Absent
    NoDatabase = NoDatabase
    s1 = s1
    s2 = s2
    Setups <- MCSetups
    MaxTouches = 1
    NoFile = NoFile
    j1 = j1
    j2 = j2
    Jobs <- MCJobs
    MaxDeploys = 1
    Deploy = Deploy
    Unheld = Unheld
    NoAccount = NoAccount
    MaxRuns = 2
    MaxEdits = 4
    Gone = Gone
    MaxRenames = 3
    NotGiven = NotGiven
    CutShort = CutShort
INVARIANTS
    NoAckedWriteIsLost
    DumpsAreWhole
    HalvesInStep
    UploadsFollowDatabase
    DrillProves
    GapsClose
    GreenMeansDone
    ProvisionedStackIsSound
    RenameIsWhole
PROPERTIES
    KeepsPromise
VIEW SeenOfOperator
CHECK_DEADLOCK FALSE
