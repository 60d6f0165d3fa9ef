---------------------------- MODULE LiveRestore ------------------------------
(***************************************************************************)
(* A live restore (restore in infra/backup/src/restore.ts, from taking the *)
(* lock to giving it back) among the application's sessions, the runs of   *)
(* runBackup and other restores.  The dump it restores has been selected   *)
(* and verified (BackupStore); here it is the set of the restore.          *)
(*                                                                         *)
(* The session that holds the lock is assumed not to drop (BackupStore has *)
(* that fault).  pg_dump, psql and tar act when they end; psql's session   *)
(* takes its locks and commits in two steps.                               *)
(***************************************************************************)
EXTENDS Naturals, FiniteSets

CONSTANTS
    Restores,             \* live restores with --yes
    Backups,              \* runs of the scheduler or of a release
    Writers,              \* services with a connection pool on the database
    Paths,                \* top-level entries of an uploads archive
    Terminating,          \* restores run with --terminate-connections
    NoSafetyDump,         \* ... with --no-safety-dump
    NoSingleTransaction,  \* ... with --no-single-transaction
    WithUploads,          \* ... with --uploads
    WritersKeepOut,       \* nobody connects once the writers have been checked
    MaxWrites,            \* bound on the writes of the services
    Live,                 \* content that no restore has brought
    Nothing,              \* no dump
    NoOne                 \* the lock is free

Procs == Restores \union Backups

Content == [base : Restores \union {Live}, writes : SUBSET (1..MaxWrites)]

ASSUME RestoreAssumption ==
    /\ Terminating \union NoSafetyDump \union NoSingleTransaction \union WithUploads
         \subseteq Restores
    /\ WritersKeepOut \in BOOLEAN /\ MaxWrites \in Nat
    /\ Live \notin Restores /\ NoOne \notin Procs /\ Nothing \notin Content
    /\ Restores \intersect Backups = {}

VARIABLES
    lock,       \* the process whose session holds the advisory lock
    stage,      \* where each process is
    connected,  \* services with a session on the database
    db,         \* the database: what it was restored from, the writes it holds
    half,       \* objects of it are dropped and not yet back
    acked,      \* how many writes have been acknowledged
    safety,     \* the pre-restore dump of each restore
    replaced,   \* restores whose set has taken the database's place
    uploads,    \* where the file at each path comes from
    staged,     \* files waiting in each restore's staging directory
    dirs,       \* restores whose staging directory exists
    outcome,    \* how each process ended
    taken       \* what each backup dumped and archived

dataVars  == <<db, half, acked>>
filesVars == <<uploads, staged, dirs>>
vars == <<lock, stage, connected, dataVars, safety, replaced, filesVars, outcome, taken>>

-----------------------------------------------------------------------------
\* From the moment the other sessions have been looked at.
Checked    == {"stage", "safety", "pipeline", "cleared", "install"}
Restoring  == {"archive", "writers"} \union Checked
BackingUp  == {"dump", "tar"}
Working    == Restoring \union BackingUp
Stages     == {"idle", "wait", "done"} \union Working

SetOf(r) == [base |-> r, writes |-> {}]

Init ==
    /\ lock = NoOne
    /\ stage = [p \in Procs |-> "idle"]
    /\ connected \in SUBSET Writers
    /\ db = [base |-> Live, writes |-> {}] /\ half = FALSE /\ acked = 0
    /\ safety = [r \in Restores |-> Nothing]
    /\ replaced = {}
    /\ uploads = [f \in Paths |-> Live]
    /\ staged = [r \in Restores |-> {}] /\ dirs = {}
    /\ outcome = [p \in Procs |-> "none"]
    /\ taken = [b \in Backups |-> [dump |-> Nothing, uploads |-> Nothing]]

Goto(p, s) == stage' = [stage EXCEPT ![p] = s]

\* `finally`: whatever happened, the session is closed and the lock with it.
Ends(p, o) ==
    /\ Goto(p, "done")
    /\ outcome' = [outcome EXCEPT ![p] = o]
    /\ lock' = IF lock = p THEN NoOne ELSE lock

-----------------------------------------------------------------------------
(* The services *)

\* One transaction holds ACCESS EXCLUSIVE locks on every object once it has
\* cleared the database.
Blocked == \E r \in Restores \ NoSingleTransaction : stage[r] = "cleared"

Write ==
    /\ connected # {}
    /\ ~Blocked /\ ~half
    /\ acked < MaxWrites
    /\ acked' = acked + 1
    /\ db' = [db EXCEPT !.writes = @ \union {acked + 1}]
    /\ UNCHANGED <<lock, stage, connected, half, safety, replaced, filesVars, outcome, taken>>

Connect(w) ==
    /\ w \notin connected
    /\ WritersKeepOut => \A r \in Restores : stage[r] \notin Checked
    /\ connected' = connected \union {w}
    /\ UNCHANGED <<lock, stage, dataVars, safety, replaced, filesVars, outcome, taken>>

Disconnect(w) ==
    /\ w \in connected
    /\ connected' = connected \ {w}
    /\ UNCHANGED <<lock, stage, dataVars, safety, replaced, filesVars, outcome, taken>>

-----------------------------------------------------------------------------
(* The backup of the same database, as far as the restore can see it *)

AskUnlocked(b) ==   \* wrong: a run that finds the lock held carries on
    /\ stage[b] = "idle"
    /\ Goto(b, "dump")
    /\ lock' = IF lock = NoOne THEN b ELSE lock
    /\ UNCHANGED <<connected, dataVars, safety, replaced, filesVars, outcome, taken>>

Ask(b) ==
    /\ stage[b] \in {"idle", "wait"}
    /\ IF lock = NoOne THEN lock' = b /\ Goto(b, "dump")
                       ELSE UNCHANGED lock /\ Goto(b, "wait")
    /\ UNCHANGED <<connected, dataVars, safety, replaced, filesVars, outcome, taken>>

Dump(b) ==
    /\ stage[b] = "dump"
    /\ ~Blocked
    /\ taken' = [taken EXCEPT ![b].dump = [content |-> db, half |-> half]]
    /\ Goto(b, "tar")
    /\ UNCHANGED <<lock, connected, dataVars, safety, replaced, filesVars, outcome>>

\* tar leaves the staging directories out of the archive.
Archive(b) ==
    /\ stage[b] = "tar"
    /\ taken' = [taken EXCEPT ![b].uploads = uploads]
    /\ Ends(b, "ok")
    /\ UNCHANGED <<connected, dataVars, safety, replaced, filesVars>>

\* The wait runs out, or a command fails.
BackupFails(b) ==
    /\ stage[b] \in {"wait"} \union BackingUp
    /\ Ends(b, "failed")
    /\ UNCHANGED <<connected, dataVars, safety, replaced, filesVars, taken>>

-----------------------------------------------------------------------------
(* The restore, up to the last thing that can still say no *)

\* Restores pass no wait: they refuse at once.
Acquire(r) ==
    /\ stage[r] = "idle"
    /\ IF lock = NoOne THEN lock' = r /\ Goto(r, "archive") /\ UNCHANGED outcome
                       ELSE Ends(r, "refused")
    /\ UNCHANGED <<connected, dataVars, safety, replaced, filesVars, taken>>

RequireReadableArchive(r) ==
    /\ stage[r] = "archive"
    /\ Goto(r, "writers")
    /\ UNCHANGED <<lock, connected, dataVars, safety, replaced, filesVars, outcome, taken>>

\* A backup that waits for the lock polls it on a session of its own.
Queued == {b \in Backups : stage[b] = "wait"}
IdlePools(r) == Queued   \* wrong: the pools of the services are not asked for
OtherSessions(r) == connected \union {p \in Procs \ {r} : stage[p] \in {"wait"} \union Working}

RequireNoWriters(r) ==
    /\ stage[r] = "writers"
    /\ OtherSessions(r) = {}
    /\ Goto(r, "stage")
    /\ UNCHANGED <<lock, connected, dataVars, safety, replaced, filesVars, outcome, taken>>

\* A run whose polling session is terminated reconnects or fails, as its driver
\* has it.
TerminateConnections(r) ==
    /\ stage[r] = "writers"
    /\ r \in Terminating /\ OtherSessions(r) # {}
    /\ connected' = {}
    /\ \E gone \in SUBSET Queued :
         /\ stage' = [p \in Procs |-> IF p = r THEN "stage"
                                      ELSE IF p \in gone THEN "done" ELSE stage[p]]
         /\ outcome' = [p \in Procs |-> IF p \in gone THEN "failed" ELSE outcome[p]]
    /\ UNCHANGED <<lock, dataVars, safety, replaced, filesVars, taken>>

\* The archive is extracted whole beside the live files before anything is dropped.
StageUploads(r) ==
    /\ stage[r] = "stage"
    /\ IF r \in WithUploads
         THEN /\ staged' = [staged EXCEPT ![r] = Paths]
              /\ dirs' = dirs \union {r}
         ELSE UNCHANGED <<staged, dirs>>
    /\ Goto(r, "safety")
    /\ UNCHANGED <<lock, connected, dataVars, safety, replaced, uploads, outcome, taken>>

DumpIfPossible(r) ==   \* wrong: a pre-restore dump that fails does not stop the restore
    /\ stage[r] = "safety"
    /\ safety' = safety \/ safety' = [safety EXCEPT ![r] = db]
    /\ Goto(r, "pipeline")
    /\ UNCHANGED <<lock, connected, dataVars, replaced, filesVars, outcome, taken>>

TakeSafetyDump(r) ==
    /\ stage[r] = "safety"
    /\ safety' = IF r \in NoSafetyDump THEN safety ELSE [safety EXCEPT ![r] = db]
    /\ Goto(r, "pipeline")
    /\ UNCHANGED <<lock, connected, dataVars, replaced, filesVars, outcome, taken>>

\* tar has been at work in the staging directory and not finished.
HalfStaged(r) ==
    /\ stage[r] = "stage" /\ r \in WithUploads
    /\ dirs' = dirs \union {r}
    /\ \E files \in SUBSET Paths : staged' = [staged EXCEPT ![r] = files]

\* The directory is removed with what was extracted into it; an `rm` that fails is logged,
\* and leaves the rest where it is.
DiscardStage(r) ==
    \/ staged' = [staged EXCEPT ![r] = {}] /\ dirs' = dirs \ {r}
    \/ /\ r \in dirs /\ UNCHANGED dirs
       /\ \E rest \in SUBSET staged[r] : staged' = [staged EXCEPT ![r] = rest]
    \/ HalfStaged(r)

\* Any step up to the end of the pipeline can fail, the pipeline by a statement,
\* by lock_timeout or by its ceiling.  psql's transaction is rolled back; without
\* it the objects that are gone stay gone.
Fails(r) ==
    /\ stage[r] \in Restoring \ {"install"}
    /\ Ends(r, IF stage[r] \in {"pipeline", "cleared"} THEN "failed" ELSE "refused")
    /\ DiscardStage(r)
    /\ UNCHANGED <<connected, dataVars, safety, replaced, uploads, taken>>

-----------------------------------------------------------------------------
(* The restore proper *)

Replaces(r) == db' = SetOf(r) /\ replaced' = replaced \union {r}

\* CLEAR_DATABASE_SQL, first in the transaction or on its own.
Clear(r) ==
    /\ stage[r] = "pipeline"
    /\ IF r \in NoSingleTransaction THEN Replaces(r) /\ half' = TRUE
                                    ELSE UNCHANGED <<db, half, replaced>>
    /\ Goto(r, "cleared")
    /\ UNCHANGED <<lock, connected, acked, safety, filesVars, outcome, taken>>

LoadEarly(r) ==   \* wrong: the lock is given back before the uploads are in place
    /\ stage[r] = "cleared"
    /\ Replaces(r) /\ half' = FALSE
    /\ Goto(r, "install")
    /\ lock' = NoOne
    /\ UNCHANGED <<connected, acked, safety, filesVars, outcome, taken>>

\* pg_restore's last statement is the COMMIT.
Load(r) ==
    /\ stage[r] = "cleared"
    /\ Replaces(r) /\ half' = FALSE
    /\ Goto(r, "install")
    /\ UNCHANGED <<lock, connected, acked, safety, filesVars, outcome, taken>>

\* The COMMIT takes effect and psql or pg_restore still ends with an error (the
\* connection breaks, the ceiling is reached): the restore counts as failed.
LoadUnreported(r) ==
    /\ stage[r] = "cleared"
    /\ Replaces(r) /\ half' = FALSE
    /\ Ends(r, "failed")
    /\ DiscardStage(r)
    /\ UNCHANGED <<connected, acked, safety, uploads, taken>>

\* promoteStagedUploads renames entry by entry.
PromoteOne(r) ==
    /\ stage[r] = "install"
    /\ \E f \in staged[r] :
         /\ uploads' = [uploads EXCEPT ![f] = r]
         /\ staged' = [staged EXCEPT ![r] = @ \ {f}]
    /\ UNCHANGED <<lock, stage, connected, dataVars, safety, replaced, dirs, outcome, taken>>

Installed(r) ==
    /\ stage[r] = "install" /\ staged[r] = {}
    /\ dirs' = dirs \ {r}
    /\ Ends(r, "ok")
    /\ UNCHANGED <<connected, dataVars, safety, replaced, uploads, staged, taken>>

InstallGivesUp(r) ==   \* wrong: the staging directory is cleaned up after a failure
    /\ stage[r] = "install" /\ r \in dirs
    /\ staged' = [staged EXCEPT ![r] = {}] /\ dirs' = dirs \ {r}
    /\ Ends(r, "kept-stage")
    /\ UNCHANGED <<connected, dataVars, safety, replaced, uploads, taken>>

\* What has not been promoted is kept for the same restore to be run again.
InstallFails(r) ==
    /\ stage[r] = "install" /\ r \in dirs
    /\ Ends(r, "kept-stage")
    /\ UNCHANGED <<connected, dataVars, safety, replaced, filesVars, taken>>

\* The container is killed, psql with it.
Crash(p) ==
    /\ stage[p] \notin {"idle", "done"}
    /\ Ends(p, "crashed")
    /\ UNCHANGED <<staged, dirs>> \/ (p \in Restores /\ HalfStaged(p))
    /\ UNCHANGED <<connected, dataVars, safety, replaced, uploads, taken>>

-----------------------------------------------------------------------------
Restore(r) ==
    \/ Acquire(r) \/ RequireReadableArchive(r)
    \/ RequireNoWriters(r) \/ TerminateConnections(r)
    \/ StageUploads(r) \/ TakeSafetyDump(r) \/ Fails(r)
    \/ Clear(r) \/ Load(r) \/ LoadUnreported(r)
    \/ PromoteOne(r) \/ Installed(r) \/ InstallFails(r)

Backup(b) == Ask(b) \/ Dump(b) \/ Archive(b) \/ BackupFails(b)

Next == \/ \E r \in Restores : Restore(r)
        \/ \E b \in Backups : Backup(b)
        \/ \E w \in Writers : Connect(w) \/ Disconnect(w)
        \/ Write
        \/ \E p \in Procs : Crash(p)

Spec == Init /\ [][Next]_vars

-----------------------------------------------------------------------------
(* Properties *)

\* The shape of the state, and that a restore past its safety dump has one.
TypeOK ==
    /\ lock \in Procs \union {NoOne}
    /\ stage \in [Procs -> Stages]
    /\ connected \subseteq Writers
    /\ db \in Content /\ half \in BOOLEAN /\ acked \in 0..MaxWrites
    /\ safety \in [Restores -> Content \union {Nothing}]
    /\ replaced \subseteq Restores
    /\ uploads \in [Paths -> Restores \union {Live}]
    /\ staged \in [Restores -> SUBSET Paths] /\ dirs \subseteq Restores
    /\ outcome \in [Procs -> {"none", "ok", "failed", "refused", "kept-stage", "crashed"}]
    /\ \A r \in Restores \ NoSafetyDump :
         r \in replaced \/ stage[r] \in {"pipeline", "cleared"} => safety[r] # Nothing

\* One process at a time is at work on the database, and it holds the lock.
LockMeansWork == \A p \in Procs : stage[p] \in Working <=> lock = p

\* "One restore away from being undone" (takeSafetyDump): no write that was ever
\* acknowledged is lost; the database or the pre-restore dump of a restore that
\* replaced it holds it, unless a restore was told not to take one.
NoAckedWriteIsLost ==
    replaced \intersect NoSafetyDump = {} =>
        \A n \in 1..acked :
            \/ n \in db.writes
            \/ \E r \in replaced : n \in safety[r].writes

\* "A scheduled backup cannot start mid-restore" (runBackup, restore): a dump
\* holds a half-restored database only when a restore that gave up the single
\* transaction has failed and told so, or was killed.
DumpsAreWhole ==
    \A b \in Backups :
        taken[b].dump # Nothing /\ taken[b].dump.half =>
            \E r \in NoSingleTransaction : outcome[r] \in {"failed", "crashed"}

\* The two halves of a backup belong together: one that dumped the database of
\* a restore that ends well has archived that restore's files, not those before.
HalvesInStep ==
    \A b \in Backups :
        outcome[b] = "ok" /\ taken[b].dump.content.base \in WithUploads =>
            LET r == taken[b].dump.content.base IN
            outcome[r] \in {"none", "ok"} => \A f \in Paths : taken[b].uploads[f] = r

\* The live files come from the set the database came from, by a restore that did not say
\* it had changed nothing.  While that set is the one in place, a restore that ended well
\* has brought every file of it; one whose installation broke off ("remaining staged files
\* were kept", installStagedUploads) has each of them in place or still staged.  Other
\* restores and backups come in between, and a staging directory whose removal failed
\* stays behind: none of its files gets among the live ones.
UploadsFollowDatabase ==
    \A r \in Restores :
        /\ (\E f \in Paths : uploads[f] = r) =>
               r \in replaced /\ outcome[r] \notin {"refused", "failed"}
        /\ r \in WithUploads /\ db.base = r =>
               /\ outcome[r] = "ok" => \A f \in Paths : uploads[f] = r
               /\ outcome[r] = "kept-stage" => \A f \in Paths : uploads[f] = r \/ f \in staged[r]

\* The restore keeps its promise: see RestorePromise.
Promise == INSTANCE RestorePromise WITH
    data <- db,
    undo <- [r \in Restores |-> IF r \in replaced THEN safety[r] ELSE Nothing]

KeepsPromise == Promise!Spec
=============================================================================
