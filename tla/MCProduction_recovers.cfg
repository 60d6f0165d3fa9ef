\* Production: deploys and rollbacks by hand, recovered and abandoned; recovery is
\* repeated until it passes.  And the scheduler beside a manual backup, a deploy's
\* release backup and a restore.
SPECIFICATION FairProductionSpec
CONSTANTS
    Kinds = {"stack"}
    Free = Free
    NoJournal = NoJournal
    Deploys = {deploy}
    Updates = {}
    Workflows = {}
    Recoveries = {recovery}
    Resets = {}
    Releases = {1, 2, 3}
    First = 1
    Ready = {1, 2, 3}
    Level <- TwoThenOne
    None = None
    Forever = Forever
    Interval = 2
    RunMax = 1
    MaxAge = 3
    Cap = 6
    Ahead = 3
    Histories <- SomeHistories
    Envs <- SomeEnvs
    Signals = {"SIGTERM"}
    Hand <- SomeLines
INVARIANTS
    CodeFitsSchema
    RevivalIsSafe
    OneRunAtATime
    NewestSetIsRecent
PROPERTIES
    EveryJournalEnds
    JournalClosesWhole
    StopEnds
    RunsKeepComing
