\* Release 2 never becomes ready.
SPECIFICATION AbandonSpec
CONSTANTS
    Kinds = {"stack"}
    Free = Free
    NoJournal = NoJournal
    Deploys = {deploy}
    Updates = {}
    Workflows = {}
    Recoveries = {recovery}
    Resets = {}
    Releases = {1, 2, 3}
    First = 1
    Ready = {1, 3}
    Level <- OneEach
PROPERTIES
    EveryJournalEnds
