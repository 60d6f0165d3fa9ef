SPECIFICATION Spec
CONSTANTS
    m1 = m1
    m2 = m2
    NONE = NONE
    Kit <- MCKit
    LastRelease <- MCLastRelease
    Times <- MCTimes
    Upgrade <- MCUpgrade
    MaxBuilds <- MCMaxBuilds
    MaxLimbo <- MCMaxLimbo
    Migrators <- MCMigrators
ACTION_CONSTRAINTS
    RepositoryFirst
    OneOutlives
VIEW Seen
INVARIANT DatabaseRecovers
