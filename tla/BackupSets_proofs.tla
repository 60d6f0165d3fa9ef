------------------------- MODULE BackupSets_proofs --------------------------
(***************************************************************************)
(* What the sets of BackupStore are worth, for every number of runs and    *)
(* keepers and every choice of faults: what a manifest and a heartbeat     *)
(* stand for, and the floor of retention.  The theorems share the          *)
(* hypotheses that no two runs take one stamp, that the clock is right and *)
(* that nobody downloads a set into the backup directory.                  *)
(***************************************************************************)
EXTENDS BackupStore_proofs, FiniteSetTheorems

-----------------------------------------------------------------------------
(* What a manifest vouches for                                             *)
(*                                                                         *)
(* The invariant follows a run through its stages: which artifacts of its  *)
(* set are in place by then (Made), and that no manifest of its own exists *)
(* before the artifacts do.                                                *)

\* An artifact holds c's work, or retention has begun to remove its set.
Gone(place, s) == s + RetainedIn(place) < time

Kept(place, s, k, c) ==
    /\ \A f \in files[place] : f.stamp = s /\ f.kind = k => f.by = c
    /\ Has(files[place], s, k) \/ Gone(place, s)

NoManifest(r, place) == \A f \in files[place] : f.by = r => f.kind # "manifest"

BeforeManifest == {"idle", "lock", "wait", "preflight", "dump", "dumping", "archive",
                   "archiving", "manifest", "writing"}
LastPut(r) == copied[r] + 1 = Len(UploadOrder(r))

Made(r) ==
    /\ stage[r] \in BeforeManifest => NoManifest(r, Dir(r)) /\ copied[r] = 0
    /\ stage[r] \in {"archive", "archiving", "manifest", "writing", "put", "head"} =>
         Kept(Dir(r), started[r], "dump", r)
    /\ stage[r] \in {"manifest", "writing", "put", "head"} /\ Archives(r) =>
         Kept(Dir(r), started[r], "uploads", r)
    /\ stage[r] \in {"put", "head"} =>
         /\ UsesBucket(r)
         /\ Kept(Dir(r), started[r], "manifest", r)
         /\ copied[r] < Len(UploadOrder(r))
         /\ \A i \in 1..copied[r] : Kept("bucket", started[r], UploadOrder(r)[i], r)
    /\ stage[r] \in BeforeManifest \union {"put"} \/ (stage[r] = "head" /\ ~LastPut(r)) =>
         NoManifest(r, "bucket")
    /\ stage[r] = "head" => fed[r] = r

Vouched == \A place \in Places : \A m \in files[place] :
    m.kind = "manifest" /\ m.by # Torn =>
        \A k \in KindsIn(place) : Kept(place, m.stamp, k, m.by)

\* Nobody downloads a set into the backup directory.
NoDownloads == ~HasBucket \/ Readers = {}

Local == \A d \in Readers : stage[d] = "download" => HasBucket

LEMMA UploadOrderIs ==
    ASSUME NEW r
    PROVE  /\ Len(UploadOrder(r)) \in {2, 3}
           /\ UploadOrder(r)[1] = "dump"
           /\ Archives(r) => Len(UploadOrder(r)) = 3 /\ UploadOrder(r)[2] = "uploads"
                                /\ UploadOrder(r)[3] = "manifest"
           /\ ~Archives(r) => Len(UploadOrder(r)) = 2 /\ UploadOrder(r)[2] = "manifest"
  BY DEF UploadOrder

\* What a run has copied is not what it uploads now; the manifest goes last.
LEMMA UploadingIs ==
    ASSUME TypeOK, NEW r \in Runs, copied[r] < Len(UploadOrder(r))
    PROVE  /\ Uploading(r) \in {"dump", "manifest"} \union (IF Archives(r) THEN {"uploads"} ELSE {})
           /\ Uploading(r) = "manifest" <=> LastPut(r)
           /\ \A i \in 1..copied[r] : UploadOrder(r)[i] # Uploading(r)
           /\ LastPut(r) => \A k \in {"dump"} \union (IF Archives(r) THEN {"uploads"} ELSE {}) :
                               \E i \in 1..copied[r] : UploadOrder(r)[i] = k
  <1>1. copied[r] \in Nat
    BY DEF TypeOK
  <1>2. CASE Archives(r)
    <2>1. /\ Len(UploadOrder(r)) = 3 /\ UploadOrder(r)[1] = "dump" /\ UploadOrder(r)[2] = "uploads"
          /\ UploadOrder(r)[3] = "manifest"
      BY <1>2, UploadOrderIs
    <2>2. copied[r] \in {0, 1, 2}
      BY <1>1, <2>1
    <2> QED  BY <1>2, <2>1, <2>2 DEF Uploading, LastPut
  <1>3. CASE ~Archives(r)
    <2>1. /\ Len(UploadOrder(r)) = 2 /\ UploadOrder(r)[1] = "dump" /\ UploadOrder(r)[2] = "manifest"
      BY <1>3, UploadOrderIs
    <2>2. copied[r] \in {0, 1}
      BY <1>1, <2>1
    <2> QED  BY <1>3, <2>1, <2>2 DEF Uploading, LastPut
  <1> QED  BY <1>2, <1>3

\* A run writes its own names, with its own work or a torn file.
Makes(w, place, k, c) ==
    /\ Writes(place, started[w], k, c)
    /\ \/ /\ place = Dir(w) /\ c = w
          /\ \/ FinishDump(w) /\ k = "dump"
             \/ FinishArchive(w) /\ k = "uploads"
             \/ WriteManifest(w) /\ k = "manifest"
       \/ place = Dir(w) /\ c = Torn /\ k = "manifest" /\ BeginManifest(w)
       \/ /\ place = "bucket" /\ k = Uploading(w) /\ PutObject(w) /\ UsesBucket(w)
          /\ c \in {w} \union (IF "cutTransfer" \in Faults THEN {Torn} ELSE {})

PlaceOf(p) == IF stage[p] = "prune" THEN Dir(p) ELSE "bucket"

\* Somebody has selected the stamp in that place.
Selected(place, s) == \E p \in Tidiers :
    /\ stage[p] \in {"prune", "pruneBucket"} /\ place = PlaceOf(p)
    /\ \E n \in todo[p] : n.stamp = s

FilesMove ==
    \/ files' = files
    \/ \E place \in Places, s \in Nat, k \in ArtifactKinds :
         Removes(place, s, k) /\ Gone(place, s) /\ Selected(place, s)
    \/ \E w \in Runs : /\ HeadMismatch(w) /\ UsesBucket(w)
                     /\ Removes("bucket", started[w], Uploading(w))
    \/ \E w \in Runs, place \in Places, k \in ArtifactKinds, c \in Contents : Makes(w, place, k, c)

LEMMA PrunedAreGone ==
    ASSUME TypeOK, ClockInv, NEW p \in Tidiers, PruneOne(p)
    PROVE  \E place \in Places, s \in Nat, k \in ArtifactKinds :
              Removes(place, s, k) /\ Gone(place, s) /\ Selected(place, s)
  <1> DEFINE place == IF stage[p] = "prune" THEN Dir(p) ELSE "bucket"
  <1>1. PICK n \in todo[p] : Removes(place, n.stamp, n.kind)
    BY DEF PruneOne, Removes
  <1>2. n.stamp \in Nat /\ n.kind \in ArtifactKinds
    BY DEF TypeOK, Name
  <1>3. place \in Places
    BY DirIsPlace DEF Places
  <1>4. n.stamp + Retained(p) < started[p] /\ started[p] <= time
    BY DEF ClockInv, Clocked
  <1>5. Retained(p) = RetainedIn(place)
    BY DEF PruneOne, ClockInv, Clocked, UsesBucket, Retained, RetainedIn, Dir
  <1>6. started[p] \in Nat /\ time \in Nat /\ Retained(p) \in Nat
    BY StoreAssumption DEF TypeOK, Retained
  <1>7. Gone(place, n.stamp)
    BY <1>2, <1>4, <1>5, <1>6 DEF Gone
  <1>8. Selected(place, n.stamp)
    BY DEF Selected, PlaceOf, PruneOne
  <1> QED  BY <1>1, <1>2, <1>3, <1>7, <1>8

LEMMA ProduceMoves ==
    ASSUME TypeOK, NEW r \in Runs, Made(r), Produce(r)
    PROVE  FilesMove
  <1> USE DEF storeVars, procVars
  <1>0. r \in Contents /\ Torn \in Contents /\ Dir(r) \in Places /\ "bucket" \in Places
          /\ {"dump", "uploads", "manifest"} = ArtifactKinds
    BY DirIsPlace DEF Contents, Places, ArtifactKinds
  <1>1. CASE FinishDump(r)
    BY <1>0, <1>1 DEF FilesMove, Makes, Writes, FinishDump
  <1>2. CASE FinishArchive(r)
    BY <1>0, <1>2 DEF FilesMove, Makes, Writes, FinishArchive
  <1>3. CASE BeginManifest(r)
    BY <1>0, <1>3 DEF FilesMove, Makes, Writes, BeginManifest
  <1>4. CASE WriteManifest(r)
    BY <1>0, <1>4 DEF FilesMove, Makes, Writes, WriteManifest
  <1>5. CASE PutObject(r)
    <2>1. UsesBucket(r) /\ copied[r] < Len(UploadOrder(r)) /\ Dir(r) = "nightly"
      BY <1>5 DEF PutObject, Made, UsesBucket, Dir
    <2>2. Uploading(r) \in ArtifactKinds /\ (Uploading(r) = "uploads" => Archives(r))
      BY <1>0, <2>1, UploadingIs
    <2>3. Kept(Dir(r), started[r], Uploading(r), r)
      BY <1>5, <2>2 DEF PutObject, Made, ArtifactKinds
    <2>4. Content(files["nightly"], started[r], Uploading(r)) = r
      BY <1>5, <2>1, <2>3 DEF PutObject, Kept, Has, Content
    <2>5. fed'[r] = r
      BY <1>5, <2>4 DEF PutObject, TypeOK
    <2>6. PICK c \in {r} \union (IF "cutTransfer" \in Faults THEN {Torn} ELSE {}) :
             Writes("bucket", started[r], Uploading(r), c)
      BY <1>5, <2>5 DEF PutObject, Writes
    <2> QED  BY <1>0, <1>5, <2>1, <2>2, <2>6 DEF FilesMove, Makes
  <1>6. CASE HeadMismatch(r)
    BY <1>6 DEF FilesMove, HeadMismatch, Removes, Made
  <1>7. CASE HeadMatches(r) \/ Preflight(r) \/ BeginPart(r) \/ ProduceFails(r)
    BY <1>7 DEF FilesMove, HeadMatches, Preflight, BeginPart, ProduceFails
  <1> QED  BY <1>1, <1>2, <1>3, <1>4, <1>5, <1>6, <1>7 DEF Produce

LEMMA FileMoves ==
    ASSUME TypeOK, ClockInv, \A r \in Runs : Made(r), NoDownloads, Local, [Next]_vars
    PROVE  FilesMove
  <1> USE DEF storeVars, procVars
  <1>1. ASSUME NEW p \in Tidiers, Tidy(p) PROVE FilesMove
    <2>1. CASE PruneOne(p)
      BY <2>1, PrunedAreGone DEF FilesMove
    <2>2. CASE Scan(p) \/ LocalPruned(p) \/ PruneStops(p) \/ BucketPruned(p) \/ Report(p)
      BY <2>2 DEF FilesMove, Scan, LocalPruned, PruneStops, BucketPruned, Report
    <2> QED  BY <1>1, <2>1, <2>2 DEF Tidy
  <1>2. ASSUME NEW d \in Readers, Restore(d) PROVE FilesMove
    <2>1. ~HasBucket /\ ~Download(d) /\ ~FromBucket(d)
      BY DEF NoDownloads, Local, Download, FromBucket
    <2> QED  BY <1>2, <2>1 DEF FilesMove, Restore, Locate, LoadManifest, Verify, Open, ReadRefused
  <1>3. ASSUME NEW r \in Runs, Start(r) \/ TakeLock(r) \/ WaitForLock(r) \/ LockRefused(r)
        PROVE  FilesMove
    BY <1>3 DEF FilesMove, Start, TakeLock, WaitForLock, LockRefused
  <1>4. ASSUME NEW k \in Keepers, KeeperStarts(k) PROVE FilesMove
    BY <1>4 DEF FilesMove, KeeperStarts
  <1>5. CASE Environment \/ UNCHANGED vars
    BY <1>5 DEF FilesMove, Environment, Tick, ClockGoesWrong, ClockCorrected, LoseLock, Crash, vars
  <1>6. Runs \subseteq Tidiers /\ Keepers \subseteq Tidiers
    BY DEF Tidiers
  <1> QED
    BY <1>1, <1>2, <1>3, <1>4, <1>5, <1>6, ProduceMoves DEF Next, RunBackup, Housekeeping

\* An artifact in place stays what it is, but for three steps of its own run.
LEMMA KeptStays ==
    ASSUME TypeOK, NamesInv, FilesMove, [Next]_vars, ~SharedStamps,
           NEW place \in Places, NEW s \in Nat, NEW k \in ArtifactKinds, NEW c \in Contents \ {Torn},
           Kept(place, s, k, c), Rightful(place, s, c)
    PROVE  \/ Kept(place, s, k, c)'
           \/ c \in Runs /\ BeginManifest(c) /\ place = Dir(c) /\ k = "manifest"
           \/ /\ c \in Runs /\ (PutObject(c) \/ HeadMismatch(c))
              /\ place = "bucket" /\ k = Uploading(c)
  <1>0. Gone(place, s) => Gone(place, s)'
    <2>1. time \in Nat /\ RetainedIn(place) \in Nat
      BY StoreAssumption DEF TypeOK, RetainedIn
    <2> QED  BY <2>1, TimePasses DEF Gone, RetainedIn
  <1>1. CASE files' = files
    BY <1>0, <1>1 DEF Kept
  <1>2. ASSUME NEW p \in Places, NEW t \in Nat, NEW j \in ArtifactKinds, Removes(p, t, j), Gone(p, t)
        PROVE  Kept(place, s, k, c)'
    <2>1. CASE p = place /\ t = s /\ j = k
      BY <1>0, <1>2, <2>1, RemovesOne DEF Kept
    <2>2. CASE ~(p = place /\ t = s /\ j = k)
      <3>1. Has(files[place], s, k) => Has(files'[place], s, k)
        BY <1>2, <2>2, RemovesOne DEF Has
      <3> QED  BY <1>0, <1>2, <3>1, RemovesOne DEF Kept
    <2> QED  BY <2>1, <2>2
  <1>3. \A w \in Runs : stage[w] # "idle" /\ (place = Dir(w) \/ (place = "bucket" /\ UsesBucket(w)))
                           /\ started[w] = s => w = c
    <2>1. ASSUME NEW w \in Runs, stage[w] # "idle", started[w] = s,
                 place = Dir(w) \/ (place = "bucket" /\ UsesBucket(w))
          PROVE  w = c
      <3>1. Rightful(place, s, w) /\ w # Torn
        BY <2>1, StoreAssumption DEF Rightful, Dir, UsesBucket
      <3> QED  BY <3>1, OneClaim
    <2> QED  BY <2>1
  <1>4. ASSUME NEW w \in Runs, HeadMismatch(w), UsesBucket(w),
               Removes("bucket", started[w], Uploading(w)),
               ~(w = c /\ place = "bucket" /\ k = Uploading(c))
        PROVE  Kept(place, s, k, c)'
    <2>1. stage[w] # "idle" /\ "bucket" \in Places
      BY <1>4 DEF HeadMismatch, Places
    <2>2. ~(place = "bucket" /\ started[w] = s /\ Uploading(w) = k)
      BY <1>3, <1>4, <2>1
    <2>3. /\ Has(files[place], s, k) => Has(files'[place], s, k)
          /\ files'[place] \subseteq files[place]
      BY <1>4, <2>1, <2>2, RemovesOne DEF Has
    <2> QED  BY <1>0, <2>3 DEF Kept
  <1>5. ASSUME NEW w \in Runs, NEW p \in Places, NEW j \in ArtifactKinds, NEW e \in Contents,
               Makes(w, p, j, e),
               ~(w = c /\ BeginManifest(c) /\ place = Dir(c) /\ k = "manifest"),
               ~(w = c /\ PutObject(c) /\ place = "bucket" /\ k = Uploading(c))
        PROVE  Kept(place, s, k, c)'
    <2>0. Writes(p, started[w], j, e) /\ (p = Dir(w) \/ (p = "bucket" /\ UsesBucket(w)))
      BY <1>5 DEF Makes
    <2>1. stage[w] # "idle" /\ started[w] \in Nat
      <3>1. stage[w] # "idle"
        <4>1. \/ FinishDump(w) \/ FinishArchive(w) \/ WriteManifest(w) \/ BeginManifest(w)
              \/ PutObject(w)
          BY <1>5 DEF Makes
        <4> QED  BY <4>1 DEF FinishDump, FinishArchive, WriteManifest, BeginManifest, PutObject
      <3> QED  BY <3>1 DEF TypeOK, Tidiers
    <2>2. CASE p = place /\ started[w] = s /\ j = k
      <3>1. w = c
        BY <1>3, <2>0, <2>1, <2>2
      <3>2. e = c
        BY <1>5, <2>2, <3>1 DEF Makes
      <3>3. /\ \A f \in files'[place] : f.stamp = s /\ f.kind = k => f.by = c
            /\ [stamp |-> s, kind |-> k, by |-> c] \in files'[place]
        BY <2>0, <2>1, <2>2, <3>2, WritesOne
      <3> QED  BY <3>3 DEF Kept, Has
    <2>3. CASE ~(p = place /\ started[w] = s /\ j = k)
      <3>1. Has(files[place], s, k) => Has(files'[place], s, k)
        BY <2>0, <2>1, <2>3, WritesOne DEF Has
      <3>2. \A f \in files'[place] : f.stamp = s /\ f.kind = k => f \in files[place]
        BY <2>0, <2>1, <2>3, WritesOne
      <3> QED  BY <1>0, <3>1, <3>2 DEF Kept
    <2> QED  BY <2>2, <2>3
  <1> QED  BY <1>1, <1>2, <1>4, <1>5 DEF FilesMove

\* A run's manifest comes from the run, in the two places it belongs to.
LEMMA NoManifestStays ==
    ASSUME TypeOK, FilesMove, NEW r \in Runs, NEW place \in Places, NoManifest(r, place),
           ~(WriteManifest(r) /\ place = Dir(r)),
           ~(PutObject(r) /\ place = "bucket" /\ Uploading(r) = "manifest")
    PROVE  NoManifest(r, place)'
  <1>1. CASE files' = files
    BY <1>1 DEF NoManifest
  <1>2. ASSUME NEW q \in Places, NEW s, NEW k, Removes(q, s, k)
        PROVE  NoManifest(r, place)'
    <2>1. files'[place] \subseteq files[place]
      BY <1>2, RemovesOne
    <2> QED  BY <2>1 DEF NoManifest
  <1>3. ASSUME NEW w \in Runs, NEW q \in Places, NEW k \in ArtifactKinds, NEW c \in Contents,
               Makes(w, q, k, c)
        PROVE  NoManifest(r, place)'
    <2>1. ~(q = place /\ k = "manifest" /\ c = r)
      BY <1>3, StoreAssumption DEF Makes
    <2>2. \A f \in files'[place] :
            IF place = q /\ f.stamp = started[w] /\ f.kind = k THEN f.by = c ELSE f \in files[place]
      BY <1>3, WritesOne DEF Makes
    <2> QED  BY <2>1, <2>2 DEF NoManifest
  <1> QED  BY <1>1, <1>2, <1>3 DEF FilesMove, Places

\* The manifest that is written, or uploaded, finds its artifacts in place.
LEMMA NewlyVouched ==
    ASSUME TypeOK, NamesInv, FilesMove, [Next]_vars, ~SharedStamps,
           NEW w \in Runs, Made(w), NEW s \in Nat, s = started[w],
           NEW place \in Places, NEW c \in Contents,
           Makes(w, place, "manifest", c), c # Torn,
           NEW k \in KindsIn(place)
    PROVE  Kept(place, s, k, c)'
  <1>1. c = w /\ stage[w] # "idle" /\ k \in ArtifactKinds
    BY DEF Makes, WriteManifest, PutObject, KindsIn
  <1>2. Rightful(place, s, w)
    BY <1>1 DEF Makes, Rightful, Dir, UsesBucket
  <1>3. Writes(place, started[w], "manifest", c)
    BY DEF Makes
  <1>4. CASE k = "manifest"
    <2>1. /\ \A f \in files'[place] : f.stamp = s /\ f.kind = k => f.by = c
          /\ [stamp |-> s, kind |-> k, by |-> c] \in files'[place]
      BY <1>3, <1>4, WritesOne
    <2> QED  BY <2>1 DEF Kept, Has
  <1>5. CASE k # "manifest"
    <2>1. Kept(place, s, k, w)
      <3>1. CASE place = Dir(w) /\ WriteManifest(w)
        <4>1. stage[w] \in {"manifest", "writing"}
          BY <3>1 DEF WriteManifest
        <4>2. k = "dump" \/ (k = "uploads" /\ Archives(w))
          BY <1>5, <3>1 DEF KindsIn, ArtifactKinds, Archives, Dir
        <4> QED  BY <3>1, <4>1, <4>2 DEF Made
      <3>2. CASE place = "bucket" /\ PutObject(w) /\ Uploading(w) = "manifest"
        <4>1. /\ UsesBucket(w) /\ copied[w] < Len(UploadOrder(w))
              /\ \A i \in 1..copied[w] : Kept("bucket", s, UploadOrder(w)[i], w)
          BY <3>2 DEF PutObject, Made
        <4>2. k = "dump" \/ (k = "uploads" /\ Archives(w))
          BY <1>5, <3>2, <4>1 DEF KindsIn, ArtifactKinds, Archives, UsesBucket
        <4>3. PICK i \in 1..copied[w] : UploadOrder(w)[i] = k
          BY <3>2, <4>1, <4>2, UploadingIs
        <4> QED  BY <3>2, <4>1, <4>3
      <3> QED  BY <1>1, <3>1, <3>2, StoreAssumption DEF Makes
    <2>2. ~((PutObject(w) \/ HeadMismatch(w)) /\ place = "bucket" /\ k = Uploading(w))
      BY <1>5 DEF Makes, PutObject, WriteManifest, HeadMismatch, Dir, BeginManifest
    <2> QED  BY <1>1, <1>2, <1>5, <2>1, <2>2, KeptStays
  <1> QED  BY <1>4, <1>5

LEMMA NextVouched ==
    ASSUME TypeOK, NamesInv, FilesMove, [Next]_vars, ~SharedStamps,
           \A r \in Runs : Made(r), Vouched
    PROVE  Vouched'
  <1> SUFFICES ASSUME NEW place \in Places, NEW m \in files'[place],
                      m.kind = "manifest", m.by # Torn, NEW k \in KindsIn(place)
               PROVE  Kept(place, m.stamp, k, m.by)'
    BY DEF Vouched
  <1>1. CASE m \in files[place]
    <2>1. /\ Kept(place, m.stamp, k, m.by) /\ Rightful(place, m.stamp, m.by)
          /\ m \in Artifact /\ k \in ArtifactKinds
      BY <1>1 DEF Vouched, NamesInv, Owned, TypeOK, KindsIn
    <2>2. m.stamp \in Nat /\ m.by \in Contents \ {Torn}
      BY <2>1 DEF Artifact
    <2>3. ~(m.by \in Runs /\ BeginManifest(m.by) /\ place = Dir(m.by))
      BY <1>1 DEF BeginManifest, Made, BeforeManifest, NoManifest
    <2>4. ~(m.by \in Runs /\ PutObject(m.by) /\ place = "bucket")
      BY <1>1 DEF PutObject, Made, NoManifest
    <2>5. ~(m.by \in Runs /\ HeadMismatch(m.by) /\ place = "bucket" /\ k = Uploading(m.by))
      <3> SUFFICES ASSUME m.by \in Runs, HeadMismatch(m.by), place = "bucket", k = Uploading(m.by)
                   PROVE  FALSE
        OBVIOUS
      <3>1. stage[m.by] = "head" /\ Stored(m.by) /\ ~SameSize(m.by)
        BY DEF HeadMismatch
      <3>2. LastPut(m.by) /\ copied[m.by] < Len(UploadOrder(m.by)) /\ fed[m.by] = m.by
        BY <1>1, <3>1 DEF Made, NoManifest
      <3>3. k = "manifest"
        BY <3>2, UploadingIs
      <3>4. m.stamp = started[m.by]
        BY <2>1, <2>2, StoreAssumption DEF Rightful
      <3>5. Content(files["bucket"], m.stamp, "manifest") = m.by
        BY <1>1 DEF Content, NamesInv, OneFile
      <3> QED  BY <3>1, <3>2, <3>3, <3>4, <3>5 DEF SameSize
    <2> QED  BY <2>1, <2>2, <2>3, <2>4, <2>5, KeptStays
  <1>2. CASE m \notin files[place]
    <2>1. PICK w \in Runs, q \in Places, j \in ArtifactKinds, c \in Contents : Makes(w, q, j, c)
      BY <1>2, RemovesOne DEF FilesMove, Places
    <2>2. q = place /\ m.stamp = started[w] /\ j = "manifest" /\ c = m.by
      BY <1>2, <2>1, WritesOne DEF Makes
    <2>3. m.stamp \in Nat
      BY <2>2 DEF TypeOK, Tidiers
    <2> QED  BY <2>1, <2>2, <2>3, NewlyVouched
  <1> QED  BY <1>1, <1>2

\* What a run has made stays, but for three of its own steps.
LEMMA SetStays ==
    ASSUME TypeOK, NamesInv, FilesMove, [Next]_vars, ~SharedStamps,
           NEW r \in Runs, stage[r] # "idle", NEW place, NEW k \in ArtifactKinds,
           place = Dir(r) \/ (place = "bucket" /\ UsesBucket(r)),
           Kept(place, started[r], k, r),
           ~(BeginManifest(r) /\ place = Dir(r) /\ k = "manifest"),
           ~((PutObject(r) \/ HeadMismatch(r)) /\ place = "bucket" /\ k = Uploading(r))
    PROVE  Kept(place, started[r], k, r)'
  <1>1. started'[r] = started[r] /\ Rightful(place, started[r], r)
    BY StepMoves, AllStampsStay DEF StampsStay, Rightful, Dir, UsesBucket
  <1>2. place \in Places /\ r \in Contents \ {Torn}
    BY DirIsPlace, StoreAssumption DEF Contents, Places
  <1>3. PICK s \in Nat : s = started[r]
    BY DEF TypeOK, Tidiers
  <1>4. Kept(place, s, k, r)'
    BY <1>1, <1>2, <1>3, KeptStays
  <1> QED  BY <1>1, <1>3, <1>4 DEF Kept, Gone

\* Made, stage by stage.
MadeLocally(r) ==
    /\ stage[r] \in {"archive", "archiving", "manifest", "writing", "put", "head"} =>
         Kept(Dir(r), started[r], "dump", r)
    /\ stage[r] \in {"manifest", "writing", "put", "head"} /\ Archives(r) =>
         Kept(Dir(r), started[r], "uploads", r)
    /\ stage[r] \in {"put", "head"} => UsesBucket(r) /\ Kept(Dir(r), started[r], "manifest", r)

Uploaded(r) ==
    /\ stage[r] \in BeforeManifest => copied[r] = 0
    /\ stage[r] \in {"put", "head"} =>
         /\ copied[r] < Len(UploadOrder(r))
         /\ \A i \in 1..copied[r] : Kept("bucket", started[r], UploadOrder(r)[i], r)
    /\ stage[r] = "head" => fed[r] = r

Unvouched(r) ==
    /\ stage[r] \in BeforeManifest => NoManifest(r, Dir(r))
    /\ stage[r] \in BeforeManifest \union {"put"} \/ (stage[r] = "head" /\ ~LastPut(r)) =>
         NoManifest(r, "bucket")

LEMMA MadeIs == \A r : Made(r) <=> MadeLocally(r) /\ Uploaded(r) /\ Unvouched(r)
  BY DEF Made, MadeLocally, Uploaded, Unvouched

\* The stages a run goes through.
LEMMA RunSteps ==
    ASSUME TypeOK, [Next]_vars, NEW r \in Runs
    PROVE  \/ Same(r)
           \/ /\ copied' = copied /\ fed' = fed
              /\ \/ /\ stage'[r] \in BeforeManifest
                    /\ stage'[r] \notin {"archive", "archiving", "manifest", "writing"}
                    /\ stage[r] \in BeforeManifest
                    /\ ~WriteManifest(r) /\ ~PutObject(r)
                 \/ stage'[r] = "archiving" /\ stage[r] = "archive"
                 \/ stage'[r] \notin BeforeManifest \union {"put", "head"}
           \/ FinishDump(r) \/ FinishArchive(r) \/ BeginManifest(r) \/ WriteManifest(r)
           \/ PutObject(r) \/ HeadMatches(r) \/ HeadMismatch(r)
  <1>0. r \in Tidiers /\ r \in Procs /\ r \notin Keepers
    BY StoreAssumption DEF Tidiers, Procs
  <1> USE DEF procVars
  <1>1. CASE Start(r) \/ TakeLock(r) \/ WaitForLock(r) \/ LockRefused(r) \/ Crash(r)
    BY <1>0, <1>1 DEF Start, TakeLock, WaitForLock, LockRefused, Crash, Ends, Goto, TypeOK,
         BeforeManifest, WriteManifest, PutObject
  <1>2. CASE Tidy(r)
    <2>1. CASE PruneOne(r)
      BY <2>1 DEF PruneOne, BeforeManifest
    <2>2. CASE Scan(r) \/ LocalPruned(r) \/ PruneStops(r) \/ BucketPruned(r) \/ Report(r)
      BY <1>0, <2>2 DEF Scan, LocalPruned, PruneStops, BucketPruned, Report, AfterLocal, Goto,
           TypeOK, BeforeManifest
    <2> QED  BY <1>2, <2>1, <2>2 DEF Tidy
  <1>3. CASE Preflight(r) \/ BeginPart(r) \/ ProduceFails(r)
    BY <1>0, <1>3 DEF Preflight, BeginPart, ProduceFails, Goto, TypeOK, BeforeManifest,
         WriteManifest, PutObject
  <1> QED  BY <1>0, <1>1, <1>2, <1>3, TidierSteps DEF RunBackup, Produce

LEMMA RunStages ==
    ASSUME TypeOK, NEW r \in Runs
    PROVE  /\ FinishDump(r) =>
                /\ stage[r] = "dumping" /\ stage'[r] = IF Archives(r) THEN "archive" ELSE "manifest"
                /\ Writes(Dir(r), started[r], "dump", r) /\ copied' = copied /\ fed' = fed
           /\ FinishArchive(r) =>
                /\ stage[r] = "archiving" /\ stage'[r] = "manifest"
                /\ Writes(Dir(r), started[r], "uploads", r) /\ copied' = copied /\ fed' = fed
           /\ BeginManifest(r) =>
                stage[r] = "manifest" /\ stage'[r] = "writing" /\ copied' = copied /\ fed' = fed
           /\ WriteManifest(r) =>
                /\ stage[r] \in {"manifest", "writing"}
                /\ stage'[r] = IF UsesBucket(r) THEN "put" ELSE "scan"
                /\ Writes(Dir(r), started[r], "manifest", r) /\ copied' = copied /\ fed' = fed
           /\ PutObject(r) =>
                stage[r] = "put" /\ stage'[r] = "head" /\ copied' = copied
           /\ HeadMatches(r) =>
                /\ stage[r] = "head" /\ Stored(r) /\ SameSize(r) /\ copied'[r] = copied[r] + 1
                /\ stage'[r] = IF LastPut(r) THEN "scan" ELSE "put"
                /\ files' = files
           /\ HeadMismatch(r) =>
                stage[r] = "head" /\ ~SameSize(r) /\ Stored(r) /\ stage'[r] \in {"put", "scan"}
                /\ copied' = copied
  <1>0. r \in Procs
    BY DEF Procs, Tidiers
  <1> USE <1>0 DEF Goto, TypeOK, procVars, storeVars
  <1>1. FinishDump(r) =>
          /\ stage[r] = "dumping" /\ stage'[r] = IF Archives(r) THEN "archive" ELSE "manifest"
          /\ Writes(Dir(r), started[r], "dump", r) /\ copied' = copied /\ fed' = fed
    BY DEF FinishDump, Writes
  <1>2. FinishArchive(r) =>
          /\ stage[r] = "archiving" /\ stage'[r] = "manifest"
          /\ Writes(Dir(r), started[r], "uploads", r) /\ copied' = copied /\ fed' = fed
    BY DEF FinishArchive, Writes
  <1>3. BeginManifest(r) =>
          stage[r] = "manifest" /\ stage'[r] = "writing" /\ copied' = copied /\ fed' = fed
    BY DEF BeginManifest
  <1>4. WriteManifest(r) =>
          /\ stage[r] \in {"manifest", "writing"}
          /\ stage'[r] = IF UsesBucket(r) THEN "put" ELSE "scan"
          /\ Writes(Dir(r), started[r], "manifest", r) /\ copied' = copied /\ fed' = fed
    BY DEF WriteManifest, Writes
  <1>5. PutObject(r) => stage[r] = "put" /\ stage'[r] = "head" /\ copied' = copied
    BY DEF PutObject
  <1>6. HeadMatches(r) =>
          /\ stage[r] = "head" /\ Stored(r) /\ SameSize(r) /\ copied'[r] = copied[r] + 1
          /\ stage'[r] = IF LastPut(r) THEN "scan" ELSE "put"
          /\ files' = files
    BY DEF HeadMatches, LastPut
  <1>7. HeadMismatch(r) =>
          stage[r] = "head" /\ ~SameSize(r) /\ Stored(r) /\ stage'[r] \in {"put", "scan"}
          /\ copied' = copied
    BY DEF HeadMismatch
  <1> QED  BY <1>1, <1>2, <1>3, <1>4, <1>5, <1>6, <1>7

LEMMA NextMadeLocally ==
    ASSUME TypeOK, NamesInv, FilesMove, [Next]_vars, ~SharedStamps,
           NEW r \in Runs, MadeLocally(r)
    PROVE  MadeLocally(r)'
  <1>0. /\ Dir(r) \in Places /\ {"dump", "uploads", "manifest"} \subseteq ArtifactKinds
        /\ UsesBucket(r) => Dir(r) # "bucket"
    BY DirIsPlace DEF ArtifactKinds, Dir
  <1>1. stage[r] # "idle" => started'[r] = started[r]
    BY StepMoves, AllStampsStay DEF StampsStay
  <1>2. ASSUME NEW k \in ArtifactKinds, stage[r] # "idle", Kept(Dir(r), started[r], k, r),
               k = "manifest" => ~BeginManifest(r)
        PROVE  Kept(Dir(r), started[r], k, r)'
    BY <1>0, <1>2, SetStays DEF Dir
  <1>3. ASSUME NEW k \in ArtifactKinds, Writes(Dir(r), started[r], k, r), stage[r] # "idle"
        PROVE  Kept(Dir(r), started[r], k, r)'
    <2>1. /\ \A f \in files'[Dir(r)] : f.stamp = started[r] /\ f.kind = k => f.by = r
          /\ [stamp |-> started[r], kind |-> k, by |-> r] \in files'[Dir(r)]
      BY <1>0, <1>3, WritesOne
    <2> QED  BY <1>1, <1>3, <2>1 DEF Kept, Has
  <1> USE DEF MadeLocally, BeforeManifest
  <1>4. CASE Same(r)
    <2>1. stage'[r] = stage[r] /\ ~BeginManifest(r)
      BY <1>4, RunStages DEF Same
    <2> QED  BY <1>0, <1>2, <2>1 DEF UsesBucket, Archives
  <1>5. CASE stage'[r] \in BeforeManifest \ {"archive", "archiving", "manifest", "writing"}
    BY <1>5
  <1>6. CASE stage'[r] = "archiving" /\ stage[r] = "archive"
    BY <1>0, <1>2, <1>6
  <1>7. CASE stage'[r] \notin BeforeManifest \union {"put", "head"}
    BY <1>7
  <1>8. CASE FinishDump(r)
    BY <1>0, <1>3, <1>8, RunStages DEF Archives
  <1>9. CASE FinishArchive(r)
    BY <1>0, <1>2, <1>3, <1>9, RunStages DEF Archives
  <1>10. CASE BeginManifest(r)
    BY <1>0, <1>2, <1>10, RunStages DEF Archives
  <1>11. CASE WriteManifest(r)
    BY <1>0, <1>2, <1>3, <1>11, RunStages DEF Archives, UsesBucket
  <1>12. CASE PutObject(r) \/ HeadMatches(r) \/ HeadMismatch(r)
    <2>1. ~BeginManifest(r) /\ stage[r] \in {"put", "head"} /\ stage'[r] \in {"put", "head", "scan"}
      BY <1>12, RunStages
    <2> QED  BY <1>0, <1>2, <2>1 DEF Archives, UsesBucket
  <1> QED  BY <1>4, <1>5, <1>6, <1>7, <1>8, <1>9, <1>10, <1>11, <1>12, RunSteps

LEMMA NextUploaded ==
    ASSUME TypeOK, NamesInv, FilesMove, [Next]_vars, ~SharedStamps,
           NEW r \in Runs, Made(r)
    PROVE  Uploaded(r)'
  <1>0. /\ copied[r] \in Nat /\ Len(UploadOrder(r)) \in Nat /\ "bucket" \in Places
        /\ MadeLocally(r) /\ Uploaded(r)
    BY MadeIs, UploadOrderIs DEF TypeOK, Places
  <1>1. stage[r] # "idle" => started'[r] = started[r]
    BY StepMoves, AllStampsStay DEF StampsStay
  <1>2. ASSUME NEW i \in 1..copied[r], stage[r] \in {"put", "head"}
        PROVE  Kept("bucket", started[r], UploadOrder(r)[i], r)'
    <2>1. /\ UsesBucket(r) /\ copied[r] < Len(UploadOrder(r))
          /\ Kept("bucket", started[r], UploadOrder(r)[i], r)
      BY <1>0, <1>2 DEF MadeLocally, Uploaded
    <2>2. UploadOrder(r)[i] \in ArtifactKinds
      BY <1>0, <2>1, UploadOrderIs DEF ArtifactKinds
    <2>3. UploadOrder(r)[i] # Uploading(r)
      BY <2>1, UploadingIs
    <2>4. Dir(r) # "bucket"
      BY DEF Dir
    <2> QED  BY <1>2, <2>1, <2>2, <2>3, <2>4, SetStays
  <1> USE DEF Uploaded, BeforeManifest
  <1>4. CASE Same(r)
    BY <1>0, <1>2, <1>4 DEF Same, SameRun
  <1>5. CASE copied' = copied /\ stage'[r] \in BeforeManifest /\ stage[r] \in BeforeManifest
    BY <1>0, <1>5
  <1>6. CASE stage'[r] \notin BeforeManifest \union {"put", "head"}
    BY <1>6
  <1>7. CASE FinishDump(r) \/ FinishArchive(r) \/ BeginManifest(r)
    BY <1>0, <1>7, RunStages
  <1>8. CASE WriteManifest(r)
    <2>1. stage'[r] \in {"put", "scan"} /\ copied'[r] = 0
      BY <1>0, <1>8, RunStages
    <2>2. 0 < Len(UploadOrder(r))
      BY UploadOrderIs
    <2> QED  BY <2>1, <2>2
  <1>9. CASE PutObject(r)
    <2>1. stage[r] = "put" /\ stage'[r] = "head" /\ copied' = copied
      BY <1>9, RunStages
    <2>2. UsesBucket(r) /\ copied[r] < Len(UploadOrder(r)) /\ Dir(r) = "nightly"
      BY <1>0, <2>1 DEF MadeLocally, UsesBucket, Dir
    <2>3. Kept(Dir(r), started[r], Uploading(r), r)
      BY <1>0, <2>1, <2>2, UploadingIs DEF MadeLocally
    <2>4. fed'[r] = r
      BY <1>9, <2>2, <2>3 DEF PutObject, Kept, Has, Content, TypeOK
    <2> QED  BY <1>2, <2>1, <2>2, <2>4
  <1>10. CASE HeadMatches(r)
    <2>1. /\ stage[r] = "head" /\ Stored(r) /\ SameSize(r) /\ copied'[r] = copied[r] + 1
          /\ stage'[r] = IF LastPut(r) THEN "scan" ELSE "put"
          /\ files' = files
      BY <1>10, RunStages
    <2>2. CASE ~LastPut(r)
      <3>1. copied'[r] < Len(UploadOrder(r))
        BY <1>0, <2>1, <2>2 DEF LastPut
      <3>2. Content(files["bucket"], started[r], Uploading(r)) = r
        BY <1>0, <2>1 DEF SameSize
      <3>3. \A f \in files["bucket"] : f.stamp = started[r] /\ f.kind = Uploading(r) => f.by = r
        BY <1>0, <3>2 DEF Content, NamesInv, OneFile
      <3>4. ASSUME NEW i \in 1..copied'[r] PROVE Kept("bucket", started[r], UploadOrder(r)[i], r)'
        <4>1. CASE i \in 1..copied[r]
          BY <1>2, <2>1, <4>1
        <4>2. CASE i = copied[r] + 1
          <5>1. UploadOrder(r)[i] = Uploading(r)
            BY <4>2 DEF Uploading
          <5> QED  BY <1>1, <2>1, <3>3, <5>1 DEF Kept, Stored, Has
        <4> QED  BY <1>0, <2>1, <4>1, <4>2
      <3> QED  BY <1>0, <2>1, <2>2, <3>1, <3>4
    <2> QED  BY <2>1, <2>2
  <1>11. CASE HeadMismatch(r)
    BY <1>0, <1>2, <1>11, RunStages
  <1> QED
    BY <1>4, <1>5, <1>6, <1>7, <1>8, <1>9, <1>10, <1>11, RunSteps

LEMMA NextUnvouched ==
    ASSUME TypeOK, NamesInv, FilesMove, [Next]_vars, ~SharedStamps,
           NEW r \in Runs, Made(r)
    PROVE  Unvouched(r)'
  <1>0. /\ copied[r] \in Nat /\ "bucket" \in Places /\ Dir(r) \in Places /\ Dir(r) # "bucket"
        /\ MadeLocally(r) /\ Uploaded(r) /\ Unvouched(r)
    BY MadeIs, DirIsPlace DEF TypeOK, Places, Dir
  <1>1. ~WriteManifest(r) => (NoManifest(r, Dir(r)) => NoManifest(r, Dir(r))')
    BY <1>0, NoManifestStays DEF NoManifest, Dir
  <1>2. ~(PutObject(r) /\ Uploading(r) = "manifest") =>
           (NoManifest(r, "bucket") => NoManifest(r, "bucket")')
    BY <1>0, NoManifestStays
  <1>3. ~PutObject(r) \/ ~WriteManifest(r)
    BY RunStages
  <1> USE DEF Unvouched, BeforeManifest
  <1>4. CASE Same(r)
    <2>1. stage'[r] = stage[r] /\ copied'[r] = copied[r] /\ ~WriteManifest(r) /\ ~PutObject(r)
      BY <1>4, RunStages DEF Same, SameRun
    <2> QED  BY <1>0, <1>1, <1>2, <2>1 DEF LastPut
  <1>5. CASE /\ stage'[r] \in BeforeManifest /\ stage[r] \in BeforeManifest
             /\ ~WriteManifest(r) /\ ~PutObject(r)
    BY <1>0, <1>1, <1>2, <1>5
  <1>6. CASE stage'[r] \notin BeforeManifest \union {"put", "head"}
    BY <1>6
  <1>7. CASE FinishDump(r) \/ FinishArchive(r) \/ BeginManifest(r)
    <2>1. ~WriteManifest(r) /\ ~PutObject(r) /\ stage[r] \in BeforeManifest
      BY <1>7, RunStages DEF FinishDump, FinishArchive, BeginManifest, WriteManifest
    <2> QED  BY <1>0, <1>1, <1>2, <1>7, <2>1, RunStages
  <1>8. CASE WriteManifest(r)
    BY <1>0, <1>2, <1>3, <1>8, RunStages
  <1>9. CASE PutObject(r)
    <2>1. stage[r] = "put" /\ stage'[r] = "head" /\ copied' = copied
      BY <1>9, RunStages
    <2>2. copied[r] < Len(UploadOrder(r))
      BY <1>0, <2>1 DEF Uploaded
    <2>3. ~LastPut(r) => Uploading(r) # "manifest"
      BY <2>2, UploadingIs
    <2>4. LastPut(r)' <=> LastPut(r)
      BY <2>1 DEF LastPut
    <2> QED  BY <1>0, <1>2, <2>1, <2>3, <2>4
  <1>10. CASE HeadMatches(r)
    BY <1>0, <1>2, <1>10, RunStages
  <1>11. CASE HeadMismatch(r)
    <2>1. stage[r] = "head" /\ ~SameSize(r) /\ stage'[r] \in {"put", "scan"} /\ fed[r] = r
          /\ copied[r] < Len(UploadOrder(r)) /\ ~PutObject(r)
      BY <1>0, <1>11, RunStages DEF Uploaded
    <2>2. NoManifest(r, "bucket")
      <3>1. CASE ~LastPut(r)
        BY <1>0, <2>1, <3>1
      <3>2. CASE LastPut(r)
        <4>1. Uploading(r) = "manifest"
          BY <2>1, <3>2, UploadingIs
        <4>2. ASSUME NEW m \in files["bucket"], m.by = r, m.kind = "manifest" PROVE FALSE
          <5>1. m.stamp = started[r]
            BY <1>0, <4>2, StoreAssumption DEF NamesInv, Owned, Rightful
          <5>2. Content(files["bucket"], started[r], "manifest") = r
            BY <1>0, <4>2, <5>1 DEF Content, NamesInv, OneFile
          <5> QED  BY <2>1, <4>1, <5>2 DEF SameSize
        <4> QED  BY <4>2 DEF NoManifest
      <3> QED  BY <3>1, <3>2
    <2> QED  BY <1>2, <2>1, <2>2
  <1> QED
    BY <1>4, <1>5, <1>6, <1>7, <1>8, <1>9, <1>10, <1>11, RunSteps

LEMMA NextLocal ==
    ASSUME TypeOK, Local, [Next]_vars
    PROVE  Local'
  <1> SUFFICES ASSUME NEW d \in Readers, stage'[d] = "download" PROVE HasBucket
    BY DEF Local
  <1>0. d \in Procs
    BY DEF Procs
  <1>1. CASE Locate(d)
    <2>1. ~HasBucket => SelectLatest(files["nightly"], RemoteListing, Now).source # "s3"
      BY DEF SelectLatest, RemoteListing, LatestDumpStamp, CompleteStamps
    <2> QED  BY <1>0, <1>1, <2>1 DEF Locate, Selects, Ends, Goto, TypeOK
  <1>2. CASE Restore(d) /\ ~Locate(d)
    BY <1>0, <1>2 DEF Restore, Download, LoadManifest, Reads, Verify, Open, ReadRefused, Ends, Goto,
         TypeOK
  <1> QED  BY <1>1, <1>2, ReaderSteps DEF Local

\* What holds of the sets while the clock is right and nobody downloads.
SetsInv == NamesInv /\ ClockInv /\ Local /\ (\A r \in Runs : Made(r)) /\ Vouched

LEMMA InitSets == Init => SetsInv
  <1> SUFFICES ASSUME Init PROVE SetsInv
    OBVIOUS
  <1>1. /\ \A place \in Places : files[place] = Stored0(place)
        /\ \A p \in Procs : stage[p] = "idle"
        /\ \A r \in Runs : copied[r] = 0
    BY DEF Init
  <1>2. \A place : \A f \in Stored0(place) :
           /\ f.by \in History /\ f.stamp = f.by
           /\ \A k \in KindsIn(place) : Has(Stored0(place), f.stamp, k)
    <2> SUFFICES ASSUME NEW place, NEW f \in Stored0(place)
                 PROVE  /\ f.by \in History /\ f.stamp = f.by
                        /\ \A k \in KindsIn(place) : Has(Stored0(place), f.stamp, k)
      OBVIOUS
    <2>1. f.by \in History /\ f.stamp = f.by /\ ~(place = "bucket" /\ ~HasBucket)
      BY DEF Stored0
    <2>2. \A k \in KindsIn(place) : [stamp |-> f.by, kind |-> k, by |-> f.by] \in Stored0(place)
      BY <2>1 DEF Stored0
    <2> QED  BY <2>1, <2>2 DEF Has
  <1>3. ASSUME NEW r \in Runs PROVE Made(r)
    <2>1. r \in Procs /\ r \notin History /\ Dir(r) \in Places /\ "bucket" \in Places
      BY DirIsPlace, StoreAssumption DEF Procs, Tidiers, Places
    <2> QED  BY <1>1, <1>2, <2>1 DEF Made, NoManifest, BeforeManifest
  <1>4. Vouched
    BY <1>1, <1>2 DEF Vouched, Kept, Has
  <1>5. Local
    BY <1>1 DEF Local, Procs
  <1> QED  BY <1>3, <1>4, <1>5, InitNames, InitClock DEF SetsInv

LEMMA NextSets ==
    ASSUME TypeOK, SetsInv, [Next]_vars, ~SharedStamps, "clockWrong" \notin Faults, NoDownloads
    PROVE  SetsInv'
  <1>1. FilesMove
    BY FileMoves DEF SetsInv
  <1>2. \A r \in Runs : Made(r)'
    <2>1. ASSUME NEW r \in Runs PROVE MadeLocally(r)' /\ Uploaded(r)' /\ Unvouched(r)'
      BY <1>1, NextMadeLocally, NextUploaded, NextUnvouched, MadeIs DEF SetsInv
    <2> QED  BY <2>1 DEF Made, MadeLocally, Uploaded, Unvouched
  <1>3. NamesInv' /\ ClockInv' /\ Local' /\ Vouched'
    BY <1>1, NextNames, NextClock, NextLocal, NextVouched DEF SetsInv
  <1> QED  BY <1>2, <1>3 DEF SetsInv

\* A manifest that is there in full vouches for the artifacts beside it: after
\* cut uploads, refused deletions, torn writes, crashes in any stage and a lost
\* lock, with any number of runs and keepers.  A downloaded set is excluded: its
\* dump can be a cut one (Download), and the archive is not downloaded with it.
THEOREM ManifestsVouch ==
    ASSUME ~SharedStamps, "clockWrong" \notin Faults, NoDownloads
    PROVE  Spec => []ManifestVouches
  <1>1. Init => TypeOK /\ SetsInv
    BY InitTypeOK, InitSets
  <1>2. TypeOK /\ SetsInv /\ [Next]_vars => (TypeOK /\ SetsInv)'
    BY NextTypeOK, NextSets
  <1>3. TypeOK /\ SetsInv => ManifestVouches
    <2> SUFFICES ASSUME TypeOK, SetsInv, NEW place \in Places, NEW m \in files[place],
                        m.kind = "manifest", m.by # Torn, NEW k \in KindsIn(place)
                 PROVE  \/ Has(files[place], m.stamp, k)
                             /\ Content(files[place], m.stamp, k) = m.by
                        \/ ~Has(files[place], m.stamp, k)
                             /\ m.stamp + RetainedIn(place) < Now
      BY DEF ManifestVouches
    <2>1. Kept(place, m.stamp, k, m.by)
      BY DEF SetsInv, Vouched
    <2>2. Now = time
      BY DEF SetsInv, ClockInv, Now, TypeOK
    <2> QED  BY <2>1, <2>2 DEF Kept, Gone, Has, Content
  <1> QED  BY <1>1, <1>2, <1>3, PTL DEF Spec

-----------------------------------------------------------------------------
(* What a heartbeat means                                                  *)

AllKept(r) ==
    /\ \A k \in KindsIn(Dir(r)) : Kept(Dir(r), started[r], k, r)
    /\ UsesBucket(r) => \A k \in KindsIn("bucket") : Kept("bucket", started[r], k, r)

Achieved(r) ==
    /\ stage[r] \in Producing \union {"idle", "lock", "wait"} => outcome[r] # "ok"
    /\ stage[r] \in Tidying \union {"report"} /\ outcome[r] = "ok" => AllKept(r)

\* What a run has reached by the step that ends its attempt.
LEMMA KindsOfRun ==
    ASSUME NEW r
    PROVE  \A place \in {Dir(r)} \union (IF UsesBucket(r) THEN {"bucket"} ELSE {}) :
              KindsIn(place) =
                {"dump", "manifest"} \union (IF Archives(r) THEN {"uploads"} ELSE {})
  BY DEF KindsIn, Dir, Archives, UsesBucket, ArtifactKinds

LEMMA AllKeptStays ==
    ASSUME TypeOK, NamesInv, FilesMove, [Next]_vars, ~SharedStamps,
           NEW r \in Runs, stage[r] \in Tidying \union {"report"}, AllKept(r)
    PROVE  AllKept(r)'
  <1>1. ~BeginManifest(r) /\ ~PutObject(r) /\ ~HeadMismatch(r) /\ stage[r] # "idle"
    BY RunStages DEF Tidying
  <1>2. \A place, k : k \in KindsIn(place) => k \in ArtifactKinds
    BY DEF KindsIn
  <1> QED  BY <1>1, <1>2, SetStays DEF AllKept, KindsIn, Dir, UsesBucket

LEMMA LastStepKeeps ==
    ASSUME TypeOK, NamesInv, FilesMove, [Next]_vars, ~SharedStamps,
           NEW r \in Runs, Made(r), outcome'[r] = "ok",
           \/ WriteManifest(r) /\ ~UsesBucket(r)
           \/ HeadMatches(r) /\ LastPut(r)
    PROVE  AllKept(r)'
  <1>0. /\ MadeLocally(r) /\ Uploaded(r) /\ Dir(r) # "bucket"
        /\ Dir(r) \in Places /\ "bucket" \in Places
        /\ {"dump", "uploads", "manifest"} = ArtifactKinds /\ r \in Procs
    BY MadeIs, DirIsPlace DEF Dir, ArtifactKinds, Places, Procs, Tidiers
  <1>1. ASSUME NEW k \in ArtifactKinds, Kept(Dir(r), started[r], k, r), k # "manifest", stage[r] # "idle"
        PROVE  Kept(Dir(r), started[r], k, r)'
    BY <1>0, <1>1, SetStays
  <1>2. CASE WriteManifest(r) /\ ~UsesBucket(r)
    <2>1. stage[r] \in {"manifest", "writing"} /\ Writes(Dir(r), started[r], "manifest", r)
      BY <1>2, RunStages
    <2>2. Kept(Dir(r), started[r], "manifest", r)'
      <3>1. started' = started
        BY <1>2 DEF WriteManifest
      <3>2. /\ \A f \in files'[Dir(r)] : f.stamp = started[r] /\ f.kind = "manifest" => f.by = r
            /\ [stamp |-> started[r], kind |-> "manifest", by |-> r] \in files'[Dir(r)]
        BY <1>0, <2>1, WritesOne
      <3> QED  BY <3>1, <3>2 DEF Kept, Has
    <2>3. \A k \in KindsIn(Dir(r)) : Kept(Dir(r), started[r], k, r)'
      BY <1>0, <1>1, <2>1, <2>2, KindsOfRun DEF MadeLocally
    <2> QED  BY <1>2, <2>3 DEF AllKept, KindsIn, Dir, UsesBucket
  <1>3. CASE HeadMatches(r) /\ LastPut(r)
    <2>1. /\ stage[r] = "head" /\ Stored(r) /\ SameSize(r) /\ files' = files
          /\ started' = started /\ time' = time
      BY <1>3, RunStages DEF HeadMatches
    <2>2. copied[r] < Len(UploadOrder(r)) /\ fed[r] = r
      BY <1>0, <2>1 DEF Uploaded
    <2>3. Uploading(r) = "manifest"
      BY <1>3, <2>2, UploadingIs
    <2>4. Kept("bucket", started[r], "manifest", r)
      <3>1. Content(files["bucket"], started[r], "manifest") = r
        BY <2>1, <2>2, <2>3 DEF SameSize
      <3>2. \A f \in files["bucket"] : f.stamp = started[r] /\ f.kind = "manifest" => f.by = r
        BY <1>0, <3>1 DEF Content, NamesInv, OneFile
      <3> QED  BY <2>1, <2>3, <3>2 DEF Kept, Stored
    <2>5. \A k \in KindsIn("bucket") : UsesBucket(r) => Kept("bucket", started[r], k, r)
      <3>1. \A k \in {"dump"} \union (IF Archives(r) THEN {"uploads"} ELSE {}) :
               \E i \in 1..copied[r] : UploadOrder(r)[i] = k
        BY <1>3, <2>2, UploadingIs
      <3>2. \A i \in 1..copied[r] : Kept("bucket", started[r], UploadOrder(r)[i], r)
        BY <1>0, <2>1 DEF Uploaded
      <3> QED  BY <2>4, <3>1, <3>2, KindsOfRun
    <2>6. AllKept(r)
      BY <1>0, <2>1, <2>5, KindsOfRun DEF MadeLocally, AllKept
    <2> QED  BY <2>1, <2>6 DEF AllKept, Kept, Gone
  <1> QED  BY <1>2, <1>3

LEMMA NextAchieved ==
    ASSUME TypeOK, NamesInv, FilesMove, [Next]_vars, ~SharedStamps,
           NEW r \in Runs, Made(r), Achieved(r)
    PROVE  Achieved(r)'
  <1>0. r \in Tidiers /\ r \in Procs /\ r \notin Keepers
    BY StoreAssumption DEF Tidiers, Procs
  <1> USE DEF procVars
  <1>1. CASE Same(r)
    BY <1>1, AllKeptStays DEF Same, Achieved
  <1>2. CASE Crash(r)
    BY <1>0, <1>2 DEF Crash, Ends, Goto, TypeOK, Achieved, Producing, Tidying
  <1>3. CASE Start(r) \/ TakeLock(r) \/ WaitForLock(r) \/ LockRefused(r)
    BY <1>0, <1>3 DEF Start, TakeLock, WaitForLock, LockRefused, Ends, Goto, TypeOK, Achieved,
         Producing, Tidying
  <1>4. CASE Tidy(r)
    <2>1. stage[r] \in Tidying \union {"report"} /\ outcome' = outcome
      BY <1>4 DEF Tidy, Scan, PruneOne, LocalPruned, PruneStops, BucketPruned, Report, Tidying
    <2>2. stage'[r] \notin Producing \union {"idle", "lock", "wait"}
      <3>1. CASE PruneOne(r)
        BY <3>1 DEF PruneOne, Producing
      <3>2. CASE Scan(r) \/ LocalPruned(r) \/ PruneStops(r) \/ BucketPruned(r) \/ Report(r)
        BY <1>0, <3>2 DEF Scan, LocalPruned, PruneStops, BucketPruned, Report, AfterLocal, Goto,
             TypeOK, Producing
      <3> QED  BY <1>4, <3>1, <3>2 DEF Tidy
    <2> QED  BY <2>1, <2>2, AllKeptStays DEF Achieved
  <1>5. CASE Produce(r)
    <2>0. stage[r] \in Producing /\ outcome[r] # "ok"
      BY <1>5 DEF Produce, Preflight, BeginPart, FinishDump, FinishArchive, BeginManifest,
           WriteManifest, PutObject, HeadMatches, HeadMismatch, ProduceFails, Achieved, Producing
    <2>1. CASE \/ outcome'[r] # "ok"
      BY <2>1 DEF Achieved
    <2>2. CASE outcome'[r] = "ok"
      <3>1. \/ WriteManifest(r) /\ ~UsesBucket(r)
            \/ HeadMatches(r) /\ LastPut(r)
        BY <1>0, <1>5, <2>0, <2>2 DEF Produce, Preflight, BeginPart, FinishDump, FinishArchive,
             BeginManifest, WriteManifest, PutObject, HeadMatches, HeadMismatch, ProduceFails,
             Produced, TypeOK, LastPut
      <3>2. stage'[r] = "scan"
        BY <3>1, RunStages
      <3> QED  BY <2>2, <3>1, <3>2, LastStepKeeps DEF Achieved, Producing
    <2> QED  BY <2>1, <2>2
  <1> QED  BY <1>0, <1>1, <1>2, <1>3, <1>4, <1>5, TidierSteps DEF RunBackup

\* A run is over before retention reaches its own set: its commands and its wait
\* have ceilings of hours, the retention is days.
RunsEndInTime == \A r \in Runs :
    stage[r] \notin {"idle", "done"} => time <= started[r] + RetentionDays

\* A success that is reported stands for a set that is whole in every place it
\* belongs to, with the uploads that were archived, whatever failed before.
THEOREM HeartbeatsMeanBackups ==
    ASSUME ~SharedStamps, "clockWrong" \notin Faults, NoDownloads
    PROVE  Spec /\ []RunsEndInTime => HeartbeatMeansBackup
  <1> DEFINE Inv == TypeOK /\ SetsInv /\ \A r \in Runs : Achieved(r)
  <1>1. Init => Inv
    <2>1. Init => \A r \in Runs : Achieved(r)
      BY DEF Init, Achieved, Procs, Tidiers, Tidying
    <2> QED  BY <2>1, InitTypeOK, InitSets
  <1>2. Inv /\ [Next]_vars => Inv'
    <2> SUFFICES ASSUME Inv, [Next]_vars PROVE Inv'
      OBVIOUS
    <2>1. FilesMove
      BY FileMoves DEF SetsInv
    <2>2. ASSUME NEW r \in Runs PROVE Achieved(r)'
      BY <2>1, NextAchieved DEF SetsInv
    <2> QED  BY <2>2, NextTypeOK, NextSets
  <1>3. Inv /\ RunsEndInTime /\ [Next]_vars =>
          [\A r \in Runs :
             beat[r] = "none" /\ beat'[r] = "ok" =>
                /\ WholeSet(files[Dir(r)], started[r], r, KindsIn(Dir(r)))
                /\ UsesBucket(r) =>
                     WholeSet(files["bucket"], started[r], r, KindsIn("bucket"))]_vars
    <2> SUFFICES ASSUME Inv, RunsEndInTime, [Next]_vars, NEW r \in Runs,
                        beat[r] = "none", beat'[r] = "ok"
                 PROVE  /\ WholeSet(files[Dir(r)], started[r], r, KindsIn(Dir(r)))
                        /\ UsesBucket(r) =>
                             WholeSet(files["bucket"], started[r], r, KindsIn("bucket"))
      OBVIOUS
    <2>0. r \in Tidiers /\ r \in Procs /\ r \notin Keepers
      BY StoreAssumption DEF Tidiers, Procs
    <2>1. ~Same(r) /\ ~Crash(r)
      BY DEF Same, SameRun, Crash
    <2>2. ~Produce(r)
      BY DEF Produce, Preflight, BeginPart, FinishDump, FinishArchive, BeginManifest,
           WriteManifest, PutObject, HeadMatches, HeadMismatch, ProduceFails, procVars
    <2>3. ~(Start(r) \/ TakeLock(r) \/ WaitForLock(r) \/ LockRefused(r))
      BY DEF Start, TakeLock, WaitForLock, LockRefused, TypeOK, procVars
    <2>4. ~(Scan(r) \/ PruneOne(r) \/ LocalPruned(r) \/ PruneStops(r) \/ BucketPruned(r))
      BY DEF Scan, PruneOne, LocalPruned, PruneStops, BucketPruned, procVars
    <2>5. Report(r)
      BY <2>0, <2>1, <2>2, <2>3, <2>4, TidierSteps DEF RunBackup, Tidy
    <2>6. stage[r] = "report" /\ outcome[r] = "ok" /\ r \notin Release
      BY <2>0, <2>5 DEF Report, TypeOK
    <2>7. AllKept(r)
      BY <2>6 DEF Achieved
    <2>8. time <= started[r] + RetentionDays /\ Dir(r) = "nightly"
      BY <2>6 DEF RunsEndInTime, Dir
    <2>9. ~Gone("nightly", started[r]) /\ ~Gone("bucket", started[r])
      BY <2>0, <2>8, StoreAssumption DEF Gone, RetainedIn, TypeOK
    <2> QED  BY <2>7, <2>8, <2>9 DEF AllKept, Kept, WholeSet, Has, Content
  <1> QED  BY <1>1, <1>2, <1>3, PTL DEF Spec, HeartbeatMeansBackup

-----------------------------------------------------------------------------
(* The floor of retention                                                  *)
(*                                                                         *)
(* What a process has selected and not removed yet stays above the floor   *)
(* while others prune the same place: whoever removes a newer set has      *)
(* FloorSets newer ones above that.                                        *)

AboveFloor(place, s) == s \in CompleteStamps(files[place]) =>
    Cardinality(NewerComplete(files[place], s)) >= FloorSets

FloorInv == \A p \in Tidiers : stage[p] \in {"prune", "pruneBucket"} =>
    \A n \in todo[p] : AboveFloor(PlaceOf(p), n.stamp)

StampsPast == \A place \in Places : \A f \in files[place] : f.stamp <= time

BucketFull == "cutTransfer" \notin Faults => \A f \in files["bucket"] : f.by # Torn

LEMMA NewerIsFinite ==
    ASSUME TypeOK, StampsPast, NEW place \in Places, NEW fs \in SUBSET files[place], NEW s
    PROVE  IsFiniteSet(NewerComplete(fs, s))
  <1>1. time \in Nat /\ files[place] \in SUBSET Artifact
    BY DEF TypeOK
  <1>2. \A t \in NewerComplete(fs, s) : t \in Nat /\ t <= time
    BY <1>1 DEF NewerComplete, CompleteStamps, StampsPast, Artifact
  <1> QED  BY <1>1, <1>2, FS_BoundedSetOfNaturals

\* More complete sets, more above the floor.
LEMMA FloorGrows ==
    ASSUME TypeOK, StampsPast, NEW place \in Places, NEW fs \in SUBSET files[place],
           NEW s, NEW S \in SUBSET NewerComplete(files[place], s), Cardinality(S) >= FloorSets
    PROVE  Cardinality(NewerComplete(files[place], s)) >= FloorSets
  <1>1. IsFiniteSet(NewerComplete(files[place], s))
    BY NewerIsFinite
  <1>2. IsFiniteSet(S) /\ Cardinality(S) <= Cardinality(NewerComplete(files[place], s))
    BY <1>1, FS_Subset
  <1>3. Cardinality(S) \in Nat /\ Cardinality(NewerComplete(files[place], s)) \in Nat
    BY <1>1, <1>2, FS_CardinalityType
  <1> QED  BY <1>2, <1>3, RetentionAssumption

\* What a fresh selection names is above the floor.
LEMMA ExpiredAboveFloor ==
    ASSUME TypeOK, StampsPast, NEW p \in Tidiers, NEW place \in Places,
           NEW n \in Expired(p, place)
    PROVE  AboveFloor(place, n.stamp)
  <1> DEFINE C == Candidates(p, place)
  <1>1. PICK f \in C : n.stamp = f.stamp /\ f.stamp \notin NewestCompleteStamps(C, FloorSets)
    BY ExpiredAreOld
  <1>2. C \subseteq files[place] /\ \A g \in files[place] : g.stamp = f.stamp => g \in C
    BY DEF Candidates
  <1>3. SUFFICES ASSUME f.stamp \in CompleteStamps(files[place])
                 PROVE  Cardinality(NewerComplete(files[place], f.stamp)) >= FloorSets
    BY <1>1 DEF AboveFloor
  <1>4. f.stamp \in CompleteStamps(C)
    BY <1>1, <1>2, <1>3 DEF CompleteStamps, Has
  <1>5. /\ IsFiniteSet(NewerComplete(C, f.stamp))
        /\ ~(Cardinality(NewerComplete(C, f.stamp)) < FloorSets)
    BY <1>1, <1>2, <1>4, NewerIsFinite DEF NewestCompleteStamps
  <1>6. Cardinality(NewerComplete(C, f.stamp)) >= FloorSets
    BY <1>5, FS_CardinalityType, RetentionAssumption
  <1>7. NewerComplete(C, f.stamp) \subseteq NewerComplete(files[place], f.stamp)
    BY <1>2 DEF NewerComplete, CompleteStamps, Has
  <1> QED  BY <1>2, <1>6, <1>7, FloorGrows

-----------------------------------------------------------------------------
LEMMA NextStampsPast ==
    ASSUME TypeOK, ClockInv, FilesMove, [Next]_vars, StampsPast
    PROVE  StampsPast'
  <1>0. time \in Nat /\ time' \in Nat /\ time' >= time
    BY TimePasses DEF TypeOK
  <1>1. \A place \in Places : \A f \in files'[place] : f.stamp <= time
    <2>1. CASE files' = files
      BY <2>1 DEF StampsPast
    <2>2. ASSUME NEW q \in Places, NEW s, NEW k, Removes(q, s, k)
          PROVE  \A place \in Places : \A f \in files'[place] : f.stamp <= time
      BY <2>2, RemovesOne DEF StampsPast
    <2>3. ASSUME NEW w \in Runs, NEW q \in Places, NEW k, NEW c, Makes(w, q, k, c)
          PROVE  \A place \in Places : \A f \in files'[place] : f.stamp <= time
      <3>1. started[w] <= time
        BY DEF ClockInv, Clocked, Tidiers
      <3>2. \A place \in Places : \A f \in files'[place] :
              IF place = q /\ f.stamp = started[w] /\ f.kind = k THEN f.by = c
              ELSE f \in files[place]
        BY <2>3, WritesOne DEF Makes
      <3> QED  BY <3>1, <3>2 DEF StampsPast
    <2> QED  BY <2>1, <2>2, <2>3 DEF FilesMove, Places
  <1>2. \A place \in Places : \A f \in files'[place] : f.stamp \in Nat
    BY NextTypeOK DEF TypeOK, Artifact
  <1> QED  BY <1>0, <1>1, <1>2 DEF StampsPast

LEMMA NextBucketFull ==
    ASSUME TypeOK, FilesMove, [Next]_vars, BucketFull
    PROVE  BucketFull'
  <1> SUFFICES ASSUME "cutTransfer" \notin Faults, NEW f \in files'["bucket"] PROVE f.by # Torn
    BY DEF BucketFull
  <1>0. "bucket" \in Places
    BY DEF Places
  <1>1. CASE f \in files["bucket"]
    BY <1>1 DEF BucketFull
  <1>2. CASE f \notin files["bucket"]
    <2>1. PICK w \in Runs, q \in Places, j \in ArtifactKinds, c \in Contents : Makes(w, q, j, c)
      BY <1>0, <1>2, RemovesOne DEF FilesMove
    <2>2. q = "bucket" /\ c = f.by
      BY <1>0, <1>2, <2>1, WritesOne DEF Makes
    <2>3. c # Torn
      BY <2>1, <2>2, StoreAssumption DEF Makes, Dir
    <2> QED  BY <2>2, <2>3
  <1> QED  BY <1>1, <1>2

\* What the bucket holds under a run's name is what it was fed.
LEMMA HeadIsGood ==
    ASSUME TypeOK, NamesInv, ~SharedStamps, BucketFull, "cutTransfer" \notin Faults,
           NEW r \in Runs, Made(r)
    PROVE  ~HeadMismatch(r)
  <1> SUFFICES ASSUME HeadMismatch(r) PROVE FALSE
    OBVIOUS
  <1>1. stage[r] = "head" /\ Stored(r) /\ ~SameSize(r) /\ UsesBucket(r) /\ fed[r] = r
    BY DEF HeadMismatch, Made
  <1>2. PICK f \in files["bucket"] : /\ f.stamp = started[r] /\ f.kind = Uploading(r)
                                     /\ f.by = Content(files["bucket"], started[r], Uploading(r))
    BY <1>1 DEF Stored, Has, Content
  <1>3. Rightful("bucket", started[r], f.by) /\ f.by # Torn
    BY <1>2 DEF NamesInv, Owned, BucketFull, Places
  <1>4. Rightful("bucket", started[r], r) /\ r # Torn
    BY <1>1, StoreAssumption DEF Rightful, UsesBucket
  <1>5. f.by = r
    BY <1>3, <1>4, OneClaim
  <1> QED  BY <1>1, <1>2, <1>5 DEF SameSize

-----------------------------------------------------------------------------
LEMMA CompleteIs ==
    ASSUME NEW fs, NEW t
    PROVE  t \in CompleteStamps(fs) <=> Has(fs, t, "dump") /\ Has(fs, t, "manifest")
  BY DEF CompleteStamps, Has

\* A removal takes at most one set out of the complete ones, a write none.
LEMMA RemovalAt ==
    ASSUME TypeOK, NEW place \in Places, NEW s, NEW k, Removes(place, s, k), NEW q \in Places
    PROVE  /\ CompleteStamps(files'[q]) \subseteq CompleteStamps(files[q])
           /\ \A t \in CompleteStamps(files[q]) :
                ~(q = place /\ t = s) => t \in CompleteStamps(files'[q])
  <1>1. \A t, j : Has(files'[q], t, j) => Has(files[q], t, j)
    BY RemovesOne DEF Has
  <1>2. \A t, j : ~(q = place /\ t = s) /\ Has(files[q], t, j) => Has(files'[q], t, j)
    BY RemovesOne DEF Has
  <1> QED  BY <1>1, <1>2, CompleteIs

LEMMA WriteAt ==
    ASSUME TypeOK, NEW place \in Places, NEW s, NEW k, NEW c, Writes(place, s, k, c),
           NEW q \in Places
    PROVE  /\ CompleteStamps(files[q]) \subseteq CompleteStamps(files'[q])
           /\ \A t \in CompleteStamps(files'[q]) :
                ~(q = place /\ t = s) => t \in CompleteStamps(files[q])
  <1>1. ASSUME NEW t, NEW j, Has(files[q], t, j) PROVE Has(files'[q], t, j)
    <2>1. PICK f \in files[q] : f.stamp = t /\ f.kind = j
      BY <1>1 DEF Has
    <2>2. [stamp |-> s, kind |-> k, by |-> c] \in files'[place]
      BY WritesOne
    <2>3. ~(q = place /\ t = s /\ j = k) => f \in files'[q]
      BY <2>1, WritesOne
    <2> QED  BY <2>1, <2>2, <2>3 DEF Has
  <1>2. \A t, j : ~(q = place /\ t = s) /\ Has(files'[q], t, j) => Has(files[q], t, j)
    BY WritesOne DEF Has
  <1> QED  BY <1>1, <1>2, CompleteIs

\* What was above the floor is, with no fewer sets above it.
LEMMA StillAboveFloor ==
    ASSUME TypeOK', StampsPast', NEW q \in Places, NEW t,
           NEW S \in SUBSET NewerComplete(files'[q], t), Cardinality(S) >= FloorSets
    PROVE  Cardinality(NewerComplete(files'[q], t)) >= FloorSets
  <1>1. IsFiniteSet(NewerComplete(files'[q], t))
    <2>1. time' \in Nat /\ \A u \in NewerComplete(files'[q], t) : u \in Nat /\ u <= time'
      BY DEF TypeOK, StampsPast, NewerComplete, CompleteStamps, Artifact
    <2> QED  BY <2>1, FS_BoundedSetOfNaturals
  <1>2. IsFiniteSet(S) /\ Cardinality(S) <= Cardinality(NewerComplete(files'[q], t))
    BY <1>1, FS_Subset
  <1>3. Cardinality(S) \in Nat /\ Cardinality(NewerComplete(files'[q], t)) \in Nat
    BY <1>1, <1>2, FS_CardinalityType
  <1> QED  BY <1>2, <1>3, RetentionAssumption

\* A removal of a set above the floor leaves every other one above it.
LEMMA RemovalKeepsFloor ==
    ASSUME TypeOK, TypeOK', StampsPast', NEW place \in Places, NEW s \in Nat, NEW k,
           Removes(place, s, k), AboveFloor(place, s), NEW q \in Places, NEW t \in Nat,
           AboveFloor(q, t), t \in CompleteStamps(files[q])
    PROVE  Cardinality(NewerComplete(files'[q], t)) >= FloorSets
  <1>1. /\ \A u \in CompleteStamps(files[q]) :
             ~(q = place /\ u = s) => u \in CompleteStamps(files'[q])
        /\ CompleteStamps(files[q]) \subseteq Nat
    BY RemovalAt DEF TypeOK, Artifact, CompleteStamps
  <1>2. CASE q = place /\ s > t /\ s \in CompleteStamps(files[q])
    <2>1. NewerComplete(files[q], s) \subseteq NewerComplete(files'[q], t)
      BY <1>1, <1>2 DEF NewerComplete
    <2>2. Cardinality(NewerComplete(files[q], s)) >= FloorSets
      BY <1>2 DEF AboveFloor
    <2> QED  BY <2>1, <2>2, StillAboveFloor
  <1>3. CASE ~(q = place /\ s > t /\ s \in CompleteStamps(files[q]))
    <2>1. NewerComplete(files[q], t) \subseteq NewerComplete(files'[q], t)
      BY <1>1, <1>3 DEF NewerComplete
    <2>2. Cardinality(NewerComplete(files[q], t)) >= FloorSets
      BY DEF AboveFloor
    <2> QED  BY <2>1, <2>2, StillAboveFloor
  <1> QED  BY <1>2, <1>3

-----------------------------------------------------------------------------
\* Between its selection and the end of its pruning a process only removes.
LEMMA PruningSteps ==
    ASSUME TypeOK, [Next]_vars, NEW p \in Tidiers, stage'[p] \in {"prune", "pruneBucket"}
    PROVE  \/ Scan(p)
           \/ stage'[p] = stage[p] /\ todo'[p] \subseteq todo[p]
  <1>0. p \in Procs
    BY DEF Procs
  <1>1. CASE p \in Runs /\ (Start(p) \/ TakeLock(p) \/ WaitForLock(p) \/ LockRefused(p))
    BY <1>0, <1>1 DEF Start, TakeLock, WaitForLock, LockRefused, Ends, Goto, TypeOK
  <1>2. CASE p \in Runs /\ Produce(p)
    BY <1>0, <1>2 DEF Produce, Preflight, BeginPart, FinishDump, FinishArchive, BeginManifest,
         WriteManifest, PutObject, HeadMatches, HeadMismatch, ProduceFails, Goto, TypeOK
  <1>3. CASE KeeperStarts(p) \/ Crash(p)
    BY <1>0, <1>3 DEF KeeperStarts, Crash, Ends, Goto, TypeOK
  <1>4. CASE Tidy(p)
    <2>1. CASE PruneOne(p)
      BY <2>1 DEF PruneOne, TypeOK
    <2>2. CASE LocalPruned(p) \/ PruneStops(p) \/ BucketPruned(p) \/ Report(p)
      BY <1>0, <2>2 DEF LocalPruned, PruneStops, BucketPruned, Report, AfterLocal, Goto, TypeOK
    <2> QED  BY <1>4, <2>1, <2>2 DEF Tidy
  <1> QED  BY <1>1, <1>2, <1>3, <1>4, TidierSteps DEF RunBackup, Housekeeping, Same

\* Nobody completes a set that another has selected: a run is over before
\* retention reaches its set, and releases, which age at once, exclude each other.
LEMMA NotCompletedLate ==
    ASSUME TypeOK, ClockInv, "lockLost" \notin Faults \/ Release = {},
           "lockLost" \notin Faults => LockMeansWork,
           NEW p \in Tidiers, stage[p] \in {"prune", "pruneBucket"}, NEW n \in todo[p],
           NEW w \in Runs, NEW k, NEW c, Makes(w, PlaceOf(p), k, c)
    PROVE  n.stamp # started[w]
  <1> SUFFICES ASSUME n.stamp = started[w] PROVE FALSE
    OBVIOUS
  <1>1. stage[w] \in Producing
    <2>1. FinishDump(w) \/ FinishArchive(w) \/ WriteManifest(w) \/ BeginManifest(w) \/ PutObject(w)
      BY DEF Makes
    <2> QED  BY <2>1 DEF FinishDump, FinishArchive, WriteManifest, BeginManifest, PutObject,
                         Producing
  <1>2. /\ n.stamp + Retained(p) < started[p] /\ started[p] <= time
        /\ time <= started[w] + RetentionDays
    BY <1>1 DEF ClockInv, Clocked, UnderWay, Tidiers
  <1>3. n.stamp \in Nat /\ started[p] \in Nat /\ time \in Nat /\ RetentionDays \in Nat
    BY StoreAssumption DEF TypeOK, Tidiers
  <1>4. CASE p \notin Release
    BY <1>2, <1>3, <1>4 DEF Retained
  <1>5. CASE p \in Release
    <2>1. stage[p] = "prune"
      BY <1>5 DEF ClockInv, Clocked, UsesBucket
    <2>2. w \in Release
      BY <1>5, <2>1 DEF PlaceOf, Makes, Dir
    <2>3. stage[p] \in Working /\ stage[w] \in Working /\ p \in Runs
      BY <1>1, <1>5, <2>1 DEF Working, Tidying, Runs
    <2>4. p = w
      BY <1>5, <2>3 DEF LockMeansWork
    <2> QED  BY <1>1, <2>1, <2>4 DEF Producing
  <1> QED  BY <1>4, <1>5

FloorHolds ==
    /\ SetsInv /\ StampsPast /\ BucketFull /\ FloorInv
    /\ "lockLost" \notin Faults => LockMeansWork

LEMMA NextFloor ==
    ASSUME TypeOK, TypeOK', FloorHolds, StampsPast', FilesMove, [Next]_vars, ~SharedStamps,
           "lockLost" \notin Faults \/ Release = {}, "cutTransfer" \notin Faults \/ ~HasBucket
    PROVE  FloorInv'
  <1> SUFFICES ASSUME NEW p \in Tidiers, stage'[p] \in {"prune", "pruneBucket"},
                      NEW n \in todo'[p], NEW q \in Places, q = PlaceOf(p)',
                      NEW t \in Nat, t = n.stamp, t \in CompleteStamps(files'[q])
               PROVE  Cardinality(NewerComplete(files'[q], t)) >= FloorSets
    <2>1. \A p \in Tidiers : PlaceOf(p)' \in Places /\ \A n \in todo'[p] : n.stamp \in Nat
      BY DEF PlaceOf, Dir, Places, TypeOK, Name
    <2> QED  BY <2>1 DEF FloorInv, AboveFloor
  <1>1. CASE Scan(p)
    <2>1. p \in Procs
      BY DEF Procs
    <2>2. files' = files /\ todo'[p] = Expired(p, q)
      <3>1. /\ files' = files
            /\ \/ stage'[p] = "prune" /\ todo'[p] = Expired(p, Dir(p))
               \/ stage'[p] = "pruneBucket" /\ todo'[p] = Expired(p, "bucket")
        BY <1>1, <2>1 DEF Scan, Goto, TypeOK, storeVars
      <3>2. q = IF stage'[p] = "prune" THEN Dir(p) ELSE "bucket"
        BY DEF PlaceOf, Dir
      <3> QED  BY <3>1, <3>2
    <2>3. AboveFloor(q, t)
      BY <2>2, ExpiredAboveFloor DEF FloorHolds
    <2> QED  BY <2>2, <2>3 DEF AboveFloor
  <1>2. CASE stage'[p] = stage[p] /\ todo'[p] \subseteq todo[p]
    <2>1. q = PlaceOf(p) /\ AboveFloor(q, t)
      BY <1>2 DEF PlaceOf, FloorHolds, FloorInv
    <2>2. CASE files' = files
      BY <2>1, <2>2 DEF AboveFloor
    <2>3. ASSUME NEW place \in Places, NEW s \in Nat, NEW k \in ArtifactKinds, Removes(place, s, k),
                 Selected(place, s)
          PROVE  Cardinality(NewerComplete(files'[q], t)) >= FloorSets
      <3>1. AboveFloor(place, s)
        BY <2>3 DEF Selected, FloorHolds, FloorInv
      <3>2. t \in CompleteStamps(files[q])
        BY <2>3, RemovalAt
      <3> QED  BY <2>1, <2>3, <3>1, <3>2, RemovalKeepsFloor
    <2>4. ASSUME NEW w \in Runs, HeadMismatch(w), UsesBucket(w) PROVE FALSE
      BY <2>4, HeadIsGood DEF FloorHolds, SetsInv, UsesBucket
    <2>5. ASSUME NEW w \in Runs, NEW place \in Places, NEW k \in ArtifactKinds, NEW c \in Contents,
                 Makes(w, place, k, c)
          PROVE  Cardinality(NewerComplete(files'[q], t)) >= FloorSets
      <3>1. t \in CompleteStamps(files[q])
        <4>1. ~(q = place /\ t = started[w])
          BY <1>2, <2>1, <2>5, NotCompletedLate DEF FloorHolds, SetsInv
        <4> QED  BY <2>5, <4>1, WriteAt DEF Makes
      <3>2. Cardinality(NewerComplete(files[q], t)) >= FloorSets
        BY <2>1, <3>1 DEF AboveFloor
      <3>3. NewerComplete(files[q], t) \subseteq NewerComplete(files'[q], t)
        BY <2>5, WriteAt DEF NewerComplete, Makes
      <3> QED  BY <3>2, <3>3, StillAboveFloor
    <2> QED  BY <2>2, <2>3, <2>4, <2>5 DEF FilesMove
  <1> QED  BY <1>1, <1>2, PruningSteps

LEMMA StepKeepsFloor ==
    ASSUME TypeOK, TypeOK', FloorHolds, StampsPast', FilesMove, [Next]_vars, ~SharedStamps,
           "cutTransfer" \notin Faults \/ ~HasBucket, NEW place \in Places,
           NEW s \in CompleteStamps(files[place]) \ CompleteStamps(files'[place])
    PROVE  Cardinality(NewerComplete(files'[place], s)) >= FloorSets
  <1>0. s \in Nat
    BY DEF CompleteStamps, TypeOK, Artifact
  <1>1. ASSUME NEW w \in Runs, HeadMismatch(w), UsesBucket(w) PROVE FALSE
    BY <1>1, HeadIsGood DEF FloorHolds, SetsInv, UsesBucket
  <1>2. ASSUME NEW w \in Runs, NEW q \in Places, NEW k \in ArtifactKinds, NEW c \in Contents,
               Makes(w, q, k, c)
        PROVE  FALSE
    BY <1>2, WriteAt DEF Makes
  <1>3. PICK q \in Places, t \in Nat, k \in ArtifactKinds : Removes(q, t, k) /\ Selected(q, t)
    BY <1>1, <1>2 DEF FilesMove
  <1>4. q = place /\ t = s
    BY <1>3, RemovalAt
  <1>5. AboveFloor(place, s)
    BY <1>3, <1>4 DEF Selected, FloorHolds, FloorInv
  <1> QED  BY <1>0, <1>3, <1>4, <1>5, RemovalKeepsFloor

\* Retention has a floor in every place, also while runs and keepers prune it
\* from listings of different age.  A lost lock is allowed where there are no
\* release backups, cut transfers where there is no bucket.
THEOREM FloorIsKept ==
    ASSUME ~SharedStamps, "clockWrong" \notin Faults, NoDownloads,
           "lockLost" \notin Faults \/ Release = {}, "cutTransfer" \notin Faults \/ ~HasBucket
    PROVE  Spec => FloorKept
  <1>1. Init => TypeOK /\ FloorHolds
    <2> SUFFICES ASSUME Init PROVE FloorHolds
      BY InitTypeOK
    <2>1. StampsPast /\ BucketFull
      <3>1. /\ \A place \in Places : files[place] = Stored0(place)
            /\ time = StartTime
        BY DEF Init
      <3>2. \A place : \A f \in Stored0(place) : f.stamp \in History /\ f.by \in History
        BY DEF Stored0
      <3>3. \A h \in History : h <= StartTime /\ h # Torn
        BY StoreAssumption
      <3> QED  BY <3>1, <3>2, <3>3 DEF StampsPast, BucketFull, Places
    <2>2. FloorInv
      BY DEF Init, FloorInv, Procs
    <2> QED  BY <2>1, <2>2, InitSets, InitLockMeansWork DEF FloorHolds
  <1>2. TypeOK /\ FloorHolds /\ [Next]_vars => (TypeOK /\ FloorHolds)'
    <2> SUFFICES ASSUME TypeOK, FloorHolds, [Next]_vars PROVE TypeOK' /\ FloorHolds'
      OBVIOUS
    <2>1. FilesMove
      BY FileMoves DEF FloorHolds, SetsInv
    <2>2. TypeOK' /\ SetsInv' /\ StampsPast' /\ BucketFull'
      BY <2>1, NextTypeOK, NextSets, NextStampsPast, NextBucketFull DEF FloorHolds, SetsInv
    <2>3. FloorInv'
      BY <2>1, <2>2, NextFloor
    <2>4. "lockLost" \notin Faults => LockMeansWork'
      BY NextLockMeansWork DEF FloorHolds
    <2> QED  BY <2>2, <2>3, <2>4 DEF FloorHolds
  <1>3. TypeOK /\ FloorHolds /\ [Next]_vars /\ (TypeOK /\ FloorHolds)' =>
          [\A place \in Places :
             \A s \in CompleteStamps(files[place]) \ CompleteStamps(files'[place]) :
                Cardinality(NewerComplete(files'[place], s)) >= FloorSets]_vars
    <2> SUFFICES ASSUME TypeOK, FloorHolds, [Next]_vars, TypeOK', FloorHolds'
                 PROVE  \A place \in Places :
                          \A s \in CompleteStamps(files[place]) \ CompleteStamps(files'[place]) :
                             Cardinality(NewerComplete(files'[place], s)) >= FloorSets
      OBVIOUS
    <2>1. FilesMove
      BY FileMoves DEF FloorHolds, SetsInv
    <2> QED  BY <2>1, StepKeepsFloor DEF FloorHolds
  <1> QED  BY <1>1, <1>2, <1>3, PTL DEF Spec, FloorKept
=============================================================================
