----------------------------- MODULE BackupStore -----------------------------
(***************************************************************************)
(* The sets the backup tool keeps (infra/backup/src): every run of         *)
(* runBackup, the scheduler's housekeeping at start, and the restores and  *)
(* drills that pick a set, over the backup directory, its release          *)
(* directory and the bucket.  Each of them is a process of its own, in its *)
(* own container, so any step of one can fall between two steps of         *)
(* another; only runs take the advisory lock.                              *)
(*                                                                         *)
(* Files are records [stamp, kind, by]: `by` is the run whose work the     *)
(* bytes are, or Torn for bytes that are not a whole artifact.             *)
(***************************************************************************)
EXTENDS Retention, Sequences

CONSTANTS
    Scheduled,      \* runs of the scheduler: wait for the lock, page on failure
    Manual,         \* `backup`: refuse at once when the lock is held
    Release,        \* `backup --release`: wait, own directory, no bucket
    Keepers,        \* starts of the scheduler, each tidying up once
    Readers,        \* restores and drills
    History,        \* stamps of sets already stored when the behaviour begins
    RetentionDays,  \* BACKUP_RETENTION_DAYS, in clock units
    StalePart,      \* STALE_PART_MS, in clock units
    StartTime,      \* real time when the behaviour begins
    MaxTime,        \* bound on real time
    Jump,           \* how far ahead a wrong clock is
    HasBucket,      \* BACKUP_S3_BUCKET is set
    SharedStamps,   \* a run may start in the second of another or of a stored set
    HasUploads,     \* STORAGE_DIR is a local directory
    Faults,         \* which faults of the environment can occur
    NoOne,          \* the lock is free
    Torn            \* content that is not a whole artifact

Runs    == Scheduled \union Manual \union Release
Tidiers == Runs \union Keepers
Procs   == Tidiers \union Readers
Places  == {"nightly", "release", "bucket"}

FaultKinds ==
    {"cutTransfer",   \* an upload or download stores fewer bytes than it was fed
     "deleteDenied",  \* the bucket credential may not delete
     "tornManifest",  \* a write of the manifest stops half-way (disk full, crash)
     "lockLost",      \* the session holding the lock drops (Postgres restart)
     "clockWrong"}    \* the machine's clock is ahead for a while

ASSUME StoreAssumption ==
    /\ RetentionDays \in Nat \ {0} /\ StalePart \in Nat
    /\ StartTime \in Nat \ {0} /\ MaxTime \in Nat /\ Jump \in Nat
    /\ {HasBucket, HasUploads, SharedStamps} \subseteq BOOLEAN
    /\ History \subseteq 1..StartTime /\ Runs \intersect History = {}
    /\ StartTime \in History => SharedStamps
    /\ Faults \subseteq FaultKinds
    /\ NoOne \notin Procs /\ Torn \notin Runs \union History
    /\ Scheduled \intersect Manual = {} /\ Release \intersect (Scheduled \union Manual) = {}
    /\ Runs \intersect Keepers = {} /\ Readers \intersect Tidiers = {}

VARIABLES
    time,     \* real time
    skew,     \* what the machine's clock shows beyond real time
    lock,     \* the session holding the advisory lock, or NoOne
    stage,    \* where each process is
    started,  \* `now` of each process, taken before it does anything
    files,    \* place -> set of [stamp, kind, by]
    parts,    \* .part files: [place, stamp, touched]
    copied,   \* artifacts a run has uploaded and verified
    fed,      \* the bytes the last put was fed from the local file
    retried,  \* the artifact being uploaded failed verification once
    outcome,  \* how a process ended, or how its attempt went so far
    beat,     \* the heartbeat a run sent
    todo,     \* names selected for pruning and not removed yet
    pick      \* what a reader selected, read and opened

storeVars == <<files, parts>>
procVars  == <<started, copied, fed, retried, outcome, beat, todo>>
vars == <<time, skew, lock, stage, storeVars, procVars, pick>>

-----------------------------------------------------------------------------
(* Configuration of a process *)

Now == time + skew
Dir(p)        == IF p \in Release THEN "release" ELSE "nightly"
Retained(p)   == IF p \in Release THEN 0 ELSE RetentionDays
UsesBucket(p) == HasBucket /\ p \notin Release
Archives(p)   == HasUploads /\ p \notin Release
Waits(p)      == p \in Scheduled \union Release
Pages(p)      == p \in Scheduled

\* The order a run uploads in: the manifest goes last.
ManifestFirst(p) == IF Archives(p) THEN <<"manifest", "dump", "uploads">>   \* wrong
                                   ELSE <<"manifest", "dump">>
UploadOrder(p) == IF Archives(p) THEN <<"dump", "uploads", "manifest">>
                                 ELSE <<"dump", "manifest">>

\* Stages in which a run produces its set, and in which it must hold the lock.
Producing == {"preflight", "dump", "dumping", "archive", "archiving",
              "manifest", "writing", "put", "head"}
Tidying   == {"scan", "prune", "scanBucket", "pruneBucket"}
Working   == Producing \union Tidying \union {"report"}
Reading   == {"download", "load", "verify", "open"}
Stages    == {"idle", "lock", "wait", "done"} \union Working \union Reading

-----------------------------------------------------------------------------
(* The file system and the bucket *)

Contents == Runs \union History \union {Torn}
Artifact == [stamp : Nat, kind : ArtifactKinds, by : Contents]
Name     == [stamp : Nat, kind : ArtifactKinds]

Without(fs, s, k)  == {f \in fs : ~(f.stamp = s /\ f.kind = k)}
With(fs, s, k, c)  == Without(fs, s, k)
                        \union {[stamp |-> s, kind |-> k, by |-> c]}
Content(fs, s, k)  == (CHOOSE f \in fs : f.stamp = s /\ f.kind = k).by
NamesOf(fs)        == {[stamp |-> f.stamp, kind |-> f.kind] : f \in fs}

PartsOf(p) == {q \in parts : q.place = Dir(p) /\ q.stamp = started[p]}

\* The set of stamp s in a place is whole: every artifact is c's own work.
WholeSet(fs, s, c, kinds) ==
    \A k \in kinds : Has(fs, s, k) /\ Content(fs, s, k) = c

-----------------------------------------------------------------------------
KindsIn(place) == IF HasUploads /\ place # "release" THEN ArtifactKinds
                                                     ELSE ArtifactKinds \ {"uploads"}

\* The sets earlier runs have left in a place.
Stored0(place) ==
    IF place = "bucket" /\ ~HasBucket THEN {}
    ELSE {[stamp |-> s, kind |-> k, by |-> s] : s \in History, k \in KindsIn(place)}

Init ==
    /\ time = StartTime /\ skew = 0
    /\ lock = NoOne
    /\ stage = [p \in Procs |-> "idle"]
    /\ started = [p \in Tidiers |-> 0]
    /\ files = [place \in Places |-> Stored0(place)]
    /\ parts = {}
    /\ copied = [p \in Runs |-> 0]
    /\ fed = [p \in Runs |-> Torn]
    /\ retried = [p \in Runs |-> FALSE]
    /\ outcome = [p \in Procs |-> "none"]
    /\ beat = [p \in Runs |-> "none"]
    /\ todo = [p \in Tidiers |-> {}]
    /\ pick = [d \in Readers |->
                 [stamp |-> NoStamp, source |-> "none", says |-> Torn, opened |-> NoOne]]

Goto(p, s) == stage' = [stage EXCEPT ![p] = s]
Ends(p, o) == Goto(p, "done") /\ outcome' = [outcome EXCEPT ![p] = o]

-----------------------------------------------------------------------------
(* acquireLock *)

\* A run reads the clock and names its set before it asks for the lock.
Start(r) ==
    /\ stage[r] = "idle"
    /\ SharedStamps \/ \A q \in Runs :
          Dir(q) = Dir(r) /\ stage[q] # "idle" => started[q] # Now
    /\ started' = [started EXCEPT ![r] = Now]
    /\ Goto(r, "lock")
    /\ UNCHANGED <<time, skew, lock, storeVars, copied, fed, retried, outcome, beat, todo, pick>>

TakeLockUnchecked(r) ==   \* wrong: the answer of pg_try_advisory_lock ignored
    /\ stage[r] \in {"lock", "wait"}
    /\ lock' = r
    /\ Goto(r, "preflight")
    /\ UNCHANGED <<time, skew, storeVars, procVars, pick>>

TakeLock(r) ==
    /\ stage[r] \in {"lock", "wait"}
    /\ lock = NoOne
    /\ lock' = r
    /\ Goto(r, "preflight")
    /\ UNCHANGED <<time, skew, storeVars, procVars, pick>>

WaitForLock(r) ==
    /\ stage[r] = "lock"
    /\ lock # NoOne
    /\ Waits(r)
    /\ Goto(r, "wait")
    /\ UNCHANGED <<time, skew, lock, storeVars, procVars, pick>>

\* Held by another: at once for a manual run, at the deadline for one that waits.
LockRefused(r) ==
    /\ lock # NoOne
    /\ stage[r] = IF Waits(r) THEN "wait" ELSE "lock"
    /\ Ends(r, "refused")
    /\ beat' = [beat EXCEPT ![r] = IF Pages(r) THEN "fail" ELSE "none"]
    /\ UNCHANGED <<time, skew, lock, storeVars, started, copied, fed, retried, todo, pick>>

-----------------------------------------------------------------------------
(* produceSet *)

Preflight(r) ==
    /\ stage[r] = "preflight"
    /\ Goto(r, "dump")
    /\ UNCHANGED <<time, skew, lock, storeVars, procVars, pick>>

\* writeViaPartFile opens its .part file: pg_dump for the dump, tar for the uploads.
BeginPart(r) ==
    /\ stage[r] \in {"dump", "archive"}
    /\ Goto(r, IF stage[r] = "dump" THEN "dumping" ELSE "archiving")
    /\ parts' = (parts \ PartsOf(r)) \union
                  {[place |-> Dir(r), stamp |-> started[r], touched |-> Now]}
    /\ UNCHANGED <<time, skew, lock, files, procVars, pick>>

\* pg_restore --list has opened the dump while it is still the .part file; the
\* rename makes it an artifact.
FinishDump(r) ==
    /\ stage[r] = "dumping"
    /\ PartsOf(r) # {}
    /\ files' = [files EXCEPT ![Dir(r)] = With(@, started[r], "dump", r)]
    /\ parts' = parts \ PartsOf(r)
    /\ Goto(r, IF Archives(r) THEN "archive" ELSE "manifest")
    /\ UNCHANGED <<time, skew, lock, procVars, pick>>

\* tar exiting 1 keeps an archive that is known to be incomplete.
FinishArchive(r) ==
    /\ stage[r] = "archiving"
    /\ PartsOf(r) # {}
    /\ files' = [files EXCEPT ![Dir(r)] = With(@, started[r], "uploads", r)]
    /\ parts' = parts \ PartsOf(r)
    /\ \E o \in {"none", "degraded"} : outcome' = [outcome EXCEPT ![r] = o]
    /\ Goto(r, "manifest")
    /\ UNCHANGED <<time, skew, lock, started, copied, fed, retried, beat, todo, pick>>

\* Bun.write opens and truncates the manifest under its final name ...
BeginManifest(r) ==
    /\ stage[r] = "manifest"
    /\ "tornManifest" \in Faults
    /\ files' = [files EXCEPT ![Dir(r)] = With(@, started[r], "manifest", Torn)]
    /\ Goto(r, "writing")
    /\ UNCHANGED <<time, skew, lock, parts, procVars, pick>>

Produced(r) == outcome' = [outcome EXCEPT ![r] = IF @ = "none" THEN "ok" ELSE @]

\* ... and then has written it.
WriteManifest(r) ==
    /\ stage[r] = IF "tornManifest" \in Faults THEN "writing" ELSE "manifest"
    /\ files' = [files EXCEPT ![Dir(r)] = With(@, started[r], "manifest", r)]
    /\ IF UsesBucket(r) THEN Goto(r, "put") /\ UNCHANGED outcome
                        ELSE Goto(r, "scan") /\ Produced(r)
    /\ UNCHANGED <<time, skew, lock, parts, started, copied, fed, retried, beat, todo, pick>>

Uploading(r) == UploadOrder(r)[copied[r] + 1]

\* bucket.put: the object is what the local file holds, unless the transfer was cut.
PutObject(r) ==
    /\ stage[r] = "put"
    /\ Has(files["nightly"], started[r], Uploading(r))
    /\ fed' = [fed EXCEPT ![r] = Content(files["nightly"], started[r], Uploading(r))]
    /\ \E c \in {fed'[r]} \union (IF "cutTransfer" \in Faults THEN {Torn} ELSE {}) :
         files' = [files EXCEPT !["bucket"] = With(@, started[r], Uploading(r), c)]
    /\ Goto(r, "head")
    /\ UNCHANGED <<time, skew, lock, parts, started, copied, retried, outcome, beat, todo, pick>>

Stored(r)   == Has(files["bucket"], started[r], Uploading(r))
HeadIgnored(r) == TRUE   \* wrong: the size the bucket reports is not compared
SameSize(r) == Content(files["bucket"], started[r], Uploading(r)) = fed[r]

HeadMatches(r) ==
    /\ stage[r] = "head"
    /\ Stored(r) /\ SameSize(r)
    /\ copied' = [copied EXCEPT ![r] = @ + 1]
    /\ fed' = [fed EXCEPT ![r] = Torn]
    /\ retried' = [retried EXCEPT ![r] = FALSE]
    /\ IF copied[r] + 1 = Len(UploadOrder(r))
         THEN Goto(r, "scan") /\ Produced(r)
         ELSE Goto(r, "put") /\ UNCHANGED outcome
    /\ UNCHANGED <<time, skew, lock, storeVars, started, beat, todo, pick>>

\* Another size: the object is deleted, which the credential may not allow, and
\* the upload is tried once more; the second mismatch fails the run.
HeadMismatch(r) ==
    /\ stage[r] = "head"
    /\ Stored(r) /\ ~SameSize(r)
    /\ \/ files' = [files EXCEPT !["bucket"] = Without(@, started[r], Uploading(r))]
       \/ "deleteDenied" \in Faults /\ UNCHANGED files
    /\ IF retried[r]
         THEN /\ Goto(r, "scan")
              /\ outcome' = [outcome EXCEPT ![r] = "failed"]
              /\ UNCHANGED retried
         ELSE /\ Goto(r, "put")
              /\ retried' = [retried EXCEPT ![r] = TRUE]
              /\ UNCHANGED outcome
    /\ UNCHANGED <<time, skew, lock, parts, started, copied, fed, beat, todo, pick>>

\* Any step of produceSet can fail; a .part file is removed, a file that was
\* already renamed, uploaded or half-written stays, and housekeeping follows.
ProduceFails(r) ==
    /\ stage[r] \in Producing
    /\ parts' = parts \ (IF stage[r] \in {"dumping", "archiving"} THEN PartsOf(r) ELSE {})
    /\ outcome' = [outcome EXCEPT ![r] = "failed"]
    /\ Goto(r, "scan")
    /\ UNCHANGED <<time, skew, lock, files, started, copied, fed, retried, beat, todo, pick>>

-----------------------------------------------------------------------------
(* housekeep, for a run after its attempt and for the scheduler's start *)

KeeperStartsLocked(k) ==   \* wrong: housekeeping at start takes over the lock
    /\ stage[k] = "idle"
    /\ started' = [started EXCEPT ![k] = Now]
    /\ Goto(k, "scan")
    /\ lock' = k
    /\ UNCHANGED <<time, skew, storeVars, copied, fed, retried, outcome, beat, todo, pick>>

KeeperStarts(k) ==
    /\ stage[k] = "idle"
    /\ started' = [started EXCEPT ![k] = Now]
    /\ Goto(k, "scan")
    /\ UNCHANGED <<time, skew, lock, storeVars, copied, fed, retried, outcome, beat, todo, pick>>

\* The set a run has just written is never a candidate; a keeper has written none.
Candidates(p, place) ==
    {f \in files[place] : p \in Runs => f.stamp # started[p]}

Expired(p, place) ==
    NamesOf(SelectExpired(Candidates(p, place), Retained(p), started[p]))

\* readdir or bucket.list, and the selection: one look, acted on name by name.
Scan(p) ==
    /\ \/ /\ stage[p] = "scan"
          /\ todo' = [todo EXCEPT ![p] = Expired(p, Dir(p))]
          /\ Goto(p, "prune")
       \/ /\ stage[p] = "scanBucket"
          /\ todo' = [todo EXCEPT ![p] = Expired(p, "bucket")]
          /\ Goto(p, "pruneBucket")
    /\ UNCHANGED <<time, skew, lock, storeVars, started, copied, fed, retried, outcome, beat, pick>>

PruneOne(p) ==
    /\ stage[p] \in {"prune", "pruneBucket"}
    /\ LET place == IF stage[p] = "prune" THEN Dir(p) ELSE "bucket" IN
       \E n \in todo[p] :
         /\ files' = [files EXCEPT ![place] = Without(@, n.stamp, n.kind)]
         /\ todo' = [todo EXCEPT ![p] = @ \ {n}]
    /\ UNCHANGED <<time, skew, lock, stage, parts, started, copied, fed, retried, outcome, beat, pick>>

\* Only a .part file nobody has touched for long is garbage of a crashed run.
AnyParts(p) == {q \in parts : q.place = Dir(p)}   \* wrong: whatever its age
StaleParts(p) ==
    {q \in parts : q.place = Dir(p) /\ q.touched + StalePart < started[p]}

AfterLocal(p) == IF UsesBucket(p) THEN "scanBucket" ELSE "report"

LocalPruned(p) ==
    /\ stage[p] = "prune" /\ todo[p] = {}
    /\ parts' = parts \ StaleParts(p)
    /\ Goto(p, AfterLocal(p))
    /\ UNCHANGED <<time, skew, lock, files, procVars, pick>>

\* An error stops the pruning of that place, is logged and changes nothing else;
\* locally it also skips the sweep of the .part files.
PruneStops(p) ==
    /\ \/ stage[p] \in {"scan", "prune"} /\ Goto(p, AfterLocal(p))
       \/ stage[p] \in {"scanBucket", "pruneBucket"} /\ Goto(p, "report")
    /\ todo' = [todo EXCEPT ![p] = {}]
    /\ UNCHANGED <<time, skew, lock, storeVars, started, copied, fed, retried, outcome, beat, pick>>

BucketPruned(p) ==
    /\ stage[p] = "pruneBucket" /\ todo[p] = {}
    /\ Goto(p, "report")
    /\ UNCHANGED <<time, skew, lock, storeVars, procVars, pick>>

\* The end of runBackup: a degraded set pages; a failed one pages when the
\* scheduler ran it; the lock is released whichever way it went.
ReportKeepingLock(p) ==   \* wrong: a failed attempt returns without the release
    /\ stage[p] = "report"
    /\ Goto(p, "done")
    /\ lock' = IF lock = p /\ outcome[p] # "failed" THEN NoOne ELSE lock
    /\ UNCHANGED <<time, skew, storeVars, procVars, pick>>

Report(p) ==
    /\ stage[p] = "report"
    /\ Goto(p, "done")
    /\ lock' = IF lock = p THEN NoOne ELSE lock
    /\ beat' = IF p \in Keepers \union Release THEN beat ELSE
         [beat EXCEPT ![p] =
            CASE outcome[p] = "ok"       -> "ok"
              [] outcome[p] = "degraded" -> "fail"
              [] OTHER                   -> IF Pages(p) THEN "fail" ELSE "none"]
    /\ UNCHANGED <<time, skew, storeVars, started, copied, fed, retried, outcome, todo, pick>>

\* A process can be killed in any stage.  Its session ends, so its lock is free;
\* what it had written stays.
Crash(p) ==
    /\ stage[p] \notin {"idle", "done"}
    /\ Ends(p, "crashed")
    /\ lock' = IF lock = p THEN NoOne ELSE lock
    /\ UNCHANGED <<time, skew, storeVars, started, copied, fed, retried, beat, todo, pick>>

\* Known ceiling: the holder's session drops and its work goes on.
LoseLock ==
    /\ "lockLost" \in Faults
    /\ lock # NoOne
    /\ lock' = NoOne
    /\ UNCHANGED <<time, skew, stage, storeVars, procVars, pick>>

-----------------------------------------------------------------------------
(* Restores and drills, up to the moment pg_restore reads the dump.  None of *)
(* these steps holds the lock.                                               *)

Selects(d, s, source) ==
    /\ pick' = [pick EXCEPT ![d].stamp = s, ![d].source = source]
    /\ Goto(d, IF source = "s3" THEN "download" ELSE "load")
    /\ UNCHANGED outcome

RemoteListing == IF HasBucket THEN files["bucket"] ELSE {}

\* locateDump, for `latest` and for an explicit stamp.
Locate(d) ==
    /\ stage[d] = "idle"
    /\ \/ LET latest == SelectLatest(files["nightly"], RemoteListing, Now) IN
          IF latest.stamp = NoStamp
            THEN Ends(d, "refused") /\ UNCHANGED pick
            ELSE Selects(d, latest.stamp, latest.source)
       \/ \E s \in {f.stamp : f \in files["nightly"] \union RemoteListing} :
            IF Has(files["nightly"], s, "dump") THEN Selects(d, s, "local")
            ELSE IF HasBucket THEN Selects(d, s, "s3")
            ELSE Ends(d, "refused") /\ UNCHANGED pick
    /\ UNCHANGED <<time, skew, lock, storeVars, started, copied, fed, retried, beat, todo>>

\* bucket.download through a .part file, into the backup directory.  A short
\* body is not noticed here.
Fetched(d, k) ==
    {Content(files["bucket"], pick[d].stamp, k)} \union
        (IF "cutTransfer" \in Faults THEN {Torn} ELSE {})

Download(d) ==
    /\ stage[d] = "download"
    /\ Has(files["bucket"], pick[d].stamp, "dump")
    /\ \E c \in Fetched(d, "dump") :
         files' = [files EXCEPT !["nightly"] = With(@, pick[d].stamp, "dump", c)]
    /\ Goto(d, "load")
    /\ UNCHANGED <<time, skew, lock, parts, procVars, pick>>

\* loadManifest: from the bucket when the set was selected there or the local
\* copy is missing, and a manifest that does not parse refuses the restore.
FromBucket(d) ==
    HasBucket /\ (pick[d].source = "s3" \/ ~Has(files["nightly"], pick[d].stamp, "manifest"))

Reads(d, c) ==
    /\ pick' = [pick EXCEPT ![d].says = c]
    /\ IF c = Torn THEN Ends(d, "refused") ELSE Goto(d, "verify") /\ UNCHANGED outcome

LoadManifest(d) ==
    /\ stage[d] = "load"
    /\ \/ /\ FromBucket(d)
          /\ Has(files["bucket"], pick[d].stamp, "manifest")
          /\ \E c \in Fetched(d, "manifest") :
               /\ files' = [files EXCEPT !["nightly"] = With(@, pick[d].stamp, "manifest", c)]
               /\ Reads(d, c)
       \/ /\ ~FromBucket(d)
          /\ Has(files["nightly"], pick[d].stamp, "manifest")
          /\ Reads(d, Content(files["nightly"], pick[d].stamp, "manifest"))
          /\ UNCHANGED files
    /\ UNCHANGED <<time, skew, lock, parts, started, copied, fed, retried, beat, todo>>

\* verifyArtifact: size and SHA-256 of the dump against the manifest.
MatchesBySizeOnly(d) ==   \* wrong: no checksum, any bytes of the right size pass
    Has(files["nightly"], pick[d].stamp, "dump")

Matches(d) ==
    /\ Has(files["nightly"], pick[d].stamp, "dump")
    /\ Content(files["nightly"], pick[d].stamp, "dump") = pick[d].says

Verify(d) ==
    /\ stage[d] = "verify"
    /\ Matches(d)
    /\ Goto(d, "open")
    /\ UNCHANGED <<time, skew, lock, storeVars, procVars, pick>>

Open(d) ==
    /\ stage[d] = "open"
    /\ Has(files["nightly"], pick[d].stamp, "dump")
    /\ pick' = [pick EXCEPT ![d].opened = Content(files["nightly"], pick[d].stamp, "dump")]
    /\ Ends(d, "ok")
    /\ UNCHANGED <<time, skew, lock, storeVars, started, copied, fed, retried, beat, todo>>

\* A file that is gone, a download that fails, bytes that do not match.
ReadRefused(d) ==
    /\ stage[d] \in Reading
    /\ Ends(d, "refused")
    /\ UNCHANGED <<time, skew, lock, storeVars, started, copied, fed, retried, beat, todo, pick>>

-----------------------------------------------------------------------------
(* Time *)

\* A run is over within the retention: its lock wait and every command it
\* spawns have ceilings of hours, the retention is a day or more.
InTime == \A r \in Runs :
    stage[r] \in {"lock", "wait"} \union Producing => time < started[r] + RetentionDays

\* A file still being written is touched as time passes.
Tick ==
    /\ time < MaxTime
    /\ InTime
    /\ time' = time + 1
    /\ parts' = {q \in parts : \A r \in Runs :
                    stage[r] \in {"dumping", "archiving"} => q \notin PartsOf(r)}
                \union
                {[q EXCEPT !.touched = Now + 1] : q \in
                    UNION {PartsOf(r) : r \in {w \in Runs : stage[w] \in {"dumping", "archiving"}}}}
    /\ UNCHANGED <<skew, lock, stage, files, procVars, pick>>

ClockGoesWrong ==
    /\ "clockWrong" \in Faults
    /\ skew = 0
    /\ skew' = Jump
    /\ UNCHANGED <<time, lock, stage, storeVars, procVars, pick>>

ClockCorrected ==
    /\ skew # 0
    /\ skew' = 0
    /\ UNCHANGED <<time, lock, stage, storeVars, procVars, pick>>

-----------------------------------------------------------------------------
Tidy(p) == Scan(p) \/ PruneOne(p) \/ LocalPruned(p) \/ PruneStops(p) \/ BucketPruned(p)
              \/ Report(p)

Produce(r) ==
    \/ Preflight(r) \/ BeginPart(r) \/ FinishDump(r) \/ FinishArchive(r)
    \/ BeginManifest(r) \/ WriteManifest(r)
    \/ PutObject(r) \/ HeadMatches(r) \/ HeadMismatch(r)
    \/ ProduceFails(r)

RunBackup(r) == Start(r) \/ TakeLock(r) \/ WaitForLock(r) \/ LockRefused(r)
                  \/ Produce(r) \/ Tidy(r)

Housekeeping(k) == KeeperStarts(k) \/ Tidy(k)

Restore(d) == Locate(d) \/ Download(d) \/ LoadManifest(d) \/ Verify(d) \/ Open(d)
                \/ ReadRefused(d)

Environment == Tick \/ ClockGoesWrong \/ ClockCorrected \/ LoseLock
                 \/ \E p \in Procs : Crash(p)

Next == \/ \E r \in Runs : RunBackup(r)
        \/ \E k \in Keepers : Housekeeping(k)
        \/ \E d \in Readers : Restore(d)
        \/ Environment

Spec == Init /\ [][Next]_vars

\* A process that can take its next step takes it: spawned commands are killed
\* at their ceilings, the bucket and the database answer or their call fails.
Fairness == \A r \in Runs : WF_vars(RunBackup(r) /\ stage[r] # "idle")

FairSpec == Spec /\ Fairness

-----------------------------------------------------------------------------
(* Properties *)

\* The shape of the state, and that a reader that is under way has a set.
TypeOK ==
    /\ time \in Nat /\ skew \in {0, Jump}
    /\ lock \in Runs \union {NoOne}
    /\ stage \in [Procs -> Stages]
    /\ started \in [Tidiers -> Nat]
    /\ files \in [Places -> SUBSET Artifact]
    /\ parts \subseteq [place : Places, stamp : Nat, touched : Nat]
    /\ copied \in [Runs -> Nat]
    /\ fed \in [Runs -> Contents]
    /\ retried \in [Runs -> BOOLEAN]
    /\ outcome \in [Procs -> {"none", "ok", "degraded", "failed", "refused", "crashed"}]
    /\ beat \in [Runs -> {"none", "ok", "fail"}]
    /\ todo \in [Tidiers -> SUBSET Name]
    /\ pick \in [Readers -> [stamp : Nat, source : {"none", "local", "s3"},
                             says : Contents, opened : Contents \union {NoOne}]]

\* While the lock's session lives, the run that works is the one that holds the
\* lock (acquireLock, and the `finally` of runBackup).
LockMeansWork == \A r \in Runs : stage[r] \in Working <=> lock = r

\* And so two runs never produce or prune at the same time (lock.ts).
OneRunWorks == \A r, q \in Runs :
    stage[r] \in Working /\ stage[q] \in Working => r = q

RetainedIn(place) == IF place = "release" THEN 0 ELSE RetentionDays

\* "The manifest is written and uploaded last, so its presence is what makes a
\* set restorable" (names.ts): a manifest that is there in full vouches for the
\* artifacts beside it, whatever failed, crashed or was cut, and they can be
\* missing only once retention has started to remove the set.
ManifestVouches ==
    \A place \in Places : \A m \in files[place] :
        m.kind = "manifest" /\ m.by # Torn =>
            \A k \in KindsIn(place) :
                \/ Has(files[place], m.stamp, k)
                     /\ Content(files[place], m.stamp, k) = m.by
                \/ ~Has(files[place], m.stamp, k)
                     /\ m.stamp + RetainedIn(place) < Now

\* Retention has a floor: when a complete set stops being one, at least
\* FloorSets newer complete sets are still there, also when two processes prune
\* one place from listings of different age (selectExpired, pruneLocal).
FloorKept ==
    [][\A place \in Places :
         \A s \in CompleteStamps(files[place]) \ CompleteStamps(files'[place]) :
            Cardinality(NewerComplete(files'[place], s)) >= FloorSets]_vars

\* The heartbeat means "a backup exists": when a run reports success its set is
\* whole in every place it belongs to, with the uploads that were archived.
HeartbeatMeansBackup ==
    [][\A r \in Runs :
         beat[r] = "none" /\ beat'[r] = "ok" =>
            /\ WholeSet(files[Dir(r)], started[r], r, KindsIn(Dir(r)))
            /\ UsesBucket(r) =>
                 WholeSet(files["bucket"], started[r], r, KindsIn("bucket"))]_vars

\* The sweep of .part files, which the scheduler's start runs without the lock,
\* never takes the file a run is writing.
SweepSparesWork ==
    [][\A r \in Runs :
         /\ stage[r] \in {"dumping", "archiving"} /\ stage'[r] = stage[r]
         /\ PartsOf(r) # {}
         => PartsOf(r)' # {}]_vars

\* What pg_restore reads is the dump its manifest was written for, although no
\* lock is held from the selection to the check and files come and go meanwhile.
OpensWhatWasVerified ==
    \A d \in Readers : outcome[d] = "ok" =>
        pick[d].opened = pick[d].says /\ pick[d].opened # Torn

\* Whoever takes the lock gives it back: every stage of a run ends in the
\* `finally` of runBackup.
LockIsFreed == \A r \in Runs : lock = r ~> lock # r

-----------------------------------------------------------------------------
(* What the documentation says and these definitions do not give; a run that *)
(* expects a counterexample checks it.                                       *)

\* names.ts:156-158, the floor is there for "the last good set": once a set that
\* can be restored is on disk, one always is, whatever attempts that are over left.
LastGoodSetSurvives ==
    (\A r \in Runs : stage[r] # "writing") =>
    \E s \in CompleteStamps(files["nightly"]) :
        Content(files["nightly"], s, "manifest") # Torn

=============================================================================
