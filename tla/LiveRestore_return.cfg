\* A service that reconnects as soon as its session has been terminated.
SPECIFICATION Spec
CONSTANTS
    Live = Live
    Nothing = Nothing
    NoOne = NoOne
    Restores = {first}
    Backups = {backup}
    Writers = {api}
    Paths = {avatars, invoices}
    Terminating = {first}
    NoSafetyDump = {}
    NoSingleTransaction = {}
    WithUploads = {}
    WritersKeepOut = FALSE
    MaxWrites = 2
INVARIANTS
    NoAckedWriteIsLost
\* Every process runs once, so the system stops when all of them have ended.
CHECK_DEADLOCK FALSE
