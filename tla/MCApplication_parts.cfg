\* The parts are cut off at their bounds: no deadlock check.
SPECIFICATION AppSpec
CONSTANTS
    m1 = m1
    m2 = m2
    NONE = NONE
    Kit <- MCKit
    LastRelease <- MCLastRelease
    Times <- MCTimes
    Upgrade <- MCUpgrade
    MaxBuilds <- MCMaxBuilds
    MaxLimbo <- MCMaxLimbo
    Migrators <- MCMigrators
    p1 = p1
    p2 = p2
    p3 = p3
    r1 = r1
    Nobody = Nobody
    Probes <- MCProbes
    Requests <- MCRequests
    ReadinessBudget = 1
    ConnectBudget = 2
    DrainBudget = 2
    FlushBudget = 1
    CloseBudget = 1
    FatalBudget = 1
    Grace = 5
    ca = ca
    cb = cb
    Callers <- MCCallers
    Limiters <- MCLimiters
    WindowMs <- MCWindowMs
    MaxCalls <- MCMaxCalls
    s1 = s1
    Refunding <- MCRefunding
    Streams <- MCStreams
    FirstMoment = 3
    LastMoment = 6
    i1 = i1
    i2 = i2
    Items <- MCItems
    MaxChanges = 2
    MaxLoads = 2
    NotLoaded = NotLoaded
    Nothing = Nothing
    MaxIssued = 4
    MaxSessions = 2
    MaxPresses = 4
    NoSession = NoSession
    a1 = a1
    a2 = a2
    Addresses <- MCAddresses
    NoAddress = NoAddress
    Silent = Silent
    MaxSecrets = 2
    MaxAsked = 2
INVARIANTS
    ExitZeroMeansApplied
    RunsOnce
    KitReleaseApplies
    NoMigrationIsLost
    StopsInGrace
    PingsHoldOneConnection
    WithinAllowance
    ReadsYourWrites
    CodesShownWork
    NoDeadEnd
    SaysWhatHappened
PROPERTIES
    ReadyIsFresh
    RequestsGetTheirTime
ACTION_CONSTRAINTS
    RepositoryFirst
    OneOutlives
    OneSignsUp
    TwoAtOnce
    FirstSpare
    FirstCaller
    OneAwaits
VIEW SeenOfApp
CHECK_DEADLOCK FALSE
