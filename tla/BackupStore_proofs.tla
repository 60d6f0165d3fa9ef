------------------------- MODULE BackupStore_proofs --------------------------
(***************************************************************************)
(* What holds of BackupStore for every number of runs, keepers and         *)
(* readers, every history, clock and choice of faults.                     *)
(***************************************************************************)
EXTENDS BackupStore, TLAPS

-----------------------------------------------------------------------------
(* The operators on listings and files *)

\* Content names a file that is there (it is used behind Has everywhere).
LEMMA ContentIsArtifact ==
    ASSUME NEW fs \in SUBSET Artifact, NEW s, NEW k, Has(fs, s, k)
    PROVE  Content(fs, s, k) \in Contents
  <1>1. PICK f \in fs : f.stamp = s /\ f.kind = k
    BY DEF Has
  <1>2. (CHOOSE g \in fs : g.stamp = s /\ g.kind = k) \in fs
    BY <1>1
  <1> QED  BY <1>2 DEF Content, Artifact

\* Writing an artifact keeps a place a set of artifacts.
LEMMA WithIsArtifacts ==
    ASSUME NEW fs \in SUBSET Artifact, NEW s \in Nat, NEW k \in ArtifactKinds, NEW c \in Contents
    PROVE  With(fs, s, k, c) \in SUBSET Artifact
  BY DEF With, Without, Artifact

LEMMA WithoutIsArtifacts ==
    ASSUME NEW fs \in SUBSET Artifact, NEW s, NEW k
    PROVE  Without(fs, s, k) \in SUBSET Artifact
  BY DEF Without

\* The selection for pruning names files of the place.
LEMMA ExpiredAreNames ==
    ASSUME TypeOK, NEW p \in Tidiers, NEW place \in Places
    PROVE  Expired(p, place) \in SUBSET Name
  <1>1. files[place] \in SUBSET Artifact
    BY DEF TypeOK
  <1>2. SelectExpired(Candidates(p, place), Retained(p), started[p]) \subseteq files[place]
    BY DEF SelectExpired, Candidates
  <1> QED  BY <1>1, <1>2 DEF Expired, NamesOf, Name, Artifact

\* `latest` is no stamp, or the stamp of a file of the listing.
LEMMA LatestIsListed ==
    ASSUME NEW fs, NEW now
    PROVE  \/ LatestDumpStamp(fs, now) = NoStamp
           \/ LatestDumpStamp(fs, now) \in {f.stamp : f \in fs}
  BY DEF LatestDumpStamp, CompleteStamps

-----------------------------------------------------------------------------
(* Type correctness *)

LEMMA InitTypeOK == Init => TypeOK
  <1> SUFFICES ASSUME Init PROVE TypeOK
    OBVIOUS
  <1> USE StoreAssumption DEF Init
  <1>1. \A place \in Places : Stored0(place) \in SUBSET Artifact
    BY DEF Stored0, Artifact, Contents, KindsIn, ArtifactKinds
  <1>2. files \in [Places -> SUBSET Artifact]
    BY <1>1
  <1>3. pick \in [Readers -> [stamp : Nat, source : {"none", "local", "s3"},
                             says : Contents, opened : Contents \union {NoOne}]]
    BY DEF NoStamp, Contents
  <1>4. stage \in [Procs -> Stages] /\ outcome \in
          [Procs -> {"none", "ok", "degraded", "failed", "refused", "crashed"}]
    BY DEF Stages
  <1>5. /\ fed \in [Runs -> Contents] /\ todo \in [Tidiers -> SUBSET Name]
        /\ started \in [Tidiers -> Nat] /\ copied \in [Runs -> Nat]
        /\ retried \in [Runs -> BOOLEAN] /\ beat \in [Runs -> {"none", "ok", "fail"}]
    BY DEF Contents
  <1>6. time \in Nat /\ skew \in {0, Jump} /\ lock \in Runs \union {NoOne}
        /\ parts \subseteq [place : Places, stamp : Nat, touched : Nat]
    OBVIOUS
  <1> QED  BY <1>2, <1>3, <1>4, <1>5, <1>6 DEF TypeOK

\* One lemma for the actions of each kind of process.
LEMMA LockTypeOK ==
    ASSUME TypeOK, NEW r \in Runs,
           Start(r) \/ TakeLock(r) \/ WaitForLock(r) \/ LockRefused(r)
    PROVE  TypeOK'
  <1> USE StoreAssumption DEF TypeOK, storeVars, procVars, Goto, Ends, Stages, Working,
          Tidiers, Procs
  <1>1. CASE Start(r)
    <2>1. Now \in Nat
      BY DEF Now
    <2> QED  BY <1>1, <2>1 DEF Start
  <1>2. CASE TakeLock(r)
    BY <1>2 DEF TakeLock, Producing
  <1>3. CASE WaitForLock(r)
    BY <1>3 DEF WaitForLock
  <1>4. CASE LockRefused(r)
    BY <1>4 DEF LockRefused
  <1> QED  BY <1>1, <1>2, <1>3, <1>4

LEMMA NowIsNat == TypeOK => Now \in Nat
  BY StoreAssumption DEF TypeOK, Now

LEMMA DirIsPlace == \A p : Dir(p) \in Places
  BY DEF Dir, Places

LEMMA ProduceTypeOK ==
    ASSUME TypeOK, NEW r \in Runs, Produce(r)
    PROVE  TypeOK'
  <1> USE DEF TypeOK, storeVars, procVars, Goto, Ends, Stages, Working,
          Producing, Tidying, Tidiers, Procs
  <1>0. Dir(r) \in Places /\ Now \in Nat
    BY DirIsPlace, NowIsNat
  <1>1. CASE Preflight(r)
    BY <1>1 DEF Preflight
  <1>2. CASE BeginPart(r)
    <2>1. parts' \subseteq [place : Places, stamp : Nat, touched : Nat]
      <3>1. parts' = (parts \ PartsOf(r)) \union
                       {[place |-> Dir(r), stamp |-> started[r], touched |-> Now]}
        BY <1>2 DEF BeginPart
      <3>2. [place |-> Dir(r), stamp |-> started[r], touched |-> Now]
               \in [place : Places, stamp : Nat, touched : Nat]
        BY <1>0
      <3>3. parts \subseteq [place : Places, stamp : Nat, touched : Nat]
        OBVIOUS
      <3> HIDE DEF TypeOK
      <3> QED  BY <3>1, <3>2, <3>3
    <2>2. stage' \in [Procs -> Stages]
      BY <1>2 DEF BeginPart
    <2> QED  BY <1>2, <2>1, <2>2 DEF BeginPart
  <1>3. CASE FinishDump(r)
    <2>1. With(files[Dir(r)], started[r], "dump", r) \in SUBSET Artifact
      BY <1>0, WithIsArtifacts DEF ArtifactKinds, Contents
    <2> QED  BY <1>3, <1>0, <2>1 DEF FinishDump, PartsOf
  <1>4. CASE FinishArchive(r)
    <2>1. With(files[Dir(r)], started[r], "uploads", r) \in SUBSET Artifact
      BY <1>0, WithIsArtifacts DEF ArtifactKinds, Contents
    <2> QED  BY <1>4, <1>0, <2>1 DEF FinishArchive, PartsOf
  <1>5. CASE BeginManifest(r)
    <2>1. With(files[Dir(r)], started[r], "manifest", Torn) \in SUBSET Artifact
      BY <1>0, WithIsArtifacts DEF ArtifactKinds, Contents
    <2> QED  BY <1>5, <1>0, <2>1 DEF BeginManifest
  <1>6. CASE WriteManifest(r)
    <2>1. With(files[Dir(r)], started[r], "manifest", r) \in SUBSET Artifact
      BY <1>0, WithIsArtifacts DEF ArtifactKinds, Contents
    <2> QED  BY <1>6, <1>0, <2>1 DEF WriteManifest, Produced
  <1>7. CASE PutObject(r)
    <2> DEFINE k == Uploading(r)
    <2>1. k \in ArtifactKinds
      <3>1. PICK f \in files["nightly"] : f.kind = k
        BY <1>7 DEF PutObject, Has
      <3>2. files["nightly"] \in SUBSET Artifact
        BY DEF Places
      <3> HIDE DEF k
      <3> QED  BY <3>1, <3>2 DEF Artifact
    <2>2. Content(files["nightly"], started[r], k) \in Contents
      BY <1>7, ContentIsArtifact DEF PutObject, Places
    <2>3. \A c \in Contents : With(files["bucket"], started[r], k, c) \in SUBSET Artifact
      BY <2>1, WithIsArtifacts DEF Places
    <2>4. fed'[r] \in Contents /\ fed' \in [Runs -> Contents]
      BY <1>7, <2>2 DEF PutObject
    <2>5. files' \in [Places -> SUBSET Artifact]
      <3>1. PICK c \in Contents :
              files' = [files EXCEPT !["bucket"] = With(@, started[r], Uploading(r), c)]
        BY <1>7, <2>4 DEF PutObject, Contents
      <3> QED  BY <3>1, <2>3 DEF Places
    <2> HIDE DEF k
    <2>6. stage' \in [Procs -> Stages]
      BY <1>7 DEF PutObject
    <2> QED  BY <1>7, <2>4, <2>5, <2>6 DEF PutObject
  <1>8. CASE HeadMatches(r)
    <2>1. stage' \in [Procs -> Stages]
      <3>1. \E g \in {"scan", "put"} : stage' = [stage EXCEPT ![r] = g]
        BY <1>8 DEF HeadMatches
      <3> QED  BY <3>1
    <2>2. copied' \in [Runs -> Nat] /\ fed' \in [Runs -> Contents]
            /\ retried' \in [Runs -> BOOLEAN]
      <3>1. /\ copied' = [copied EXCEPT ![r] = @ + 1]
            /\ fed' = [fed EXCEPT ![r] = Torn]
            /\ retried' = [retried EXCEPT ![r] = FALSE]
        BY <1>8 DEF HeadMatches
      <3>2. copied[r] \in Nat
        OBVIOUS
      <3>3. Torn \in Contents
        BY DEF Contents
      <3> HIDE DEF TypeOK
      <3>4. copied[r] + 1 \in Nat
        BY <3>2
      <3> QED  BY <3>1, <3>3, <3>4 DEF TypeOK
    <2>3. outcome' \in [Procs -> {"none", "ok", "degraded", "failed", "refused", "crashed"}]
      BY <1>8 DEF HeadMatches, Produced
    <2> QED  BY <1>8, <2>1, <2>2, <2>3 DEF HeadMatches
  <1>9. CASE HeadMismatch(r)
    <2>1. files' \in [Places -> SUBSET Artifact]
      <3>1. Without(files["bucket"], started[r], Uploading(r)) \in SUBSET Artifact
        BY WithoutIsArtifacts DEF Places
      <3>2. \/ files' = [files EXCEPT !["bucket"] =
                            Without(files["bucket"], started[r], Uploading(r))]
            \/ files' = files
        BY <1>9 DEF HeadMismatch
      <3> QED  BY <3>1, <3>2
    <2>2. /\ stage' \in [Procs -> Stages] /\ retried' \in [Runs -> BOOLEAN]
          /\ outcome' \in [Procs -> {"none", "ok", "degraded", "failed", "refused", "crashed"}]
      BY <1>9 DEF HeadMismatch
    <2> QED  BY <1>9, <2>1, <2>2 DEF HeadMismatch
  <1>10. CASE ProduceFails(r)
    BY <1>10 DEF ProduceFails
  <1> QED  BY <1>1, <1>2, <1>3, <1>4, <1>5, <1>6, <1>7, <1>8, <1>9, <1>10 DEF Produce

LEMMA TidyTypeOK ==
    ASSUME TypeOK, NEW p \in Tidiers, Tidy(p)
    PROVE  TypeOK'
  <1> USE DEF TypeOK, storeVars, procVars, Goto, Stages, Working, Tidying, Procs
  <1>0. Dir(p) \in Places /\ "bucket" \in Places
    BY DEF Dir, Places
  <1>1. CASE Scan(p)
    <2>1. Expired(p, Dir(p)) \in SUBSET Name /\ Expired(p, "bucket") \in SUBSET Name
      BY <1>0, ExpiredAreNames
    <2>2. PICK place \in {Dir(p), "bucket"} :
             todo' = [todo EXCEPT ![p] = Expired(p, place)]
      BY <1>1 DEF Scan
    <2>3. todo' \in [Tidiers -> SUBSET Name]
      BY <2>1, <2>2
    <2>4. stage' \in [Procs -> Stages]
      BY <1>1 DEF Scan
    <2> QED  BY <1>1, <2>3, <2>4 DEF Scan
  <1>2. CASE PruneOne(p)
    <2> DEFINE place == IF stage[p] = "prune" THEN Dir(p) ELSE "bucket"
    <2>1. PICK n \in todo[p] : /\ files' = [files EXCEPT ![place] = Without(@, n.stamp, n.kind)]
                               /\ todo' = [todo EXCEPT ![p] = @ \ {n}]
      BY <1>2 DEF PruneOne
    <2>2. Without(files[place], n.stamp, n.kind) \in SUBSET Artifact
      BY <1>0, WithoutIsArtifacts
    <2> QED  BY <1>2, <1>0, <2>1, <2>2 DEF PruneOne
  <1>3. CASE LocalPruned(p)
    BY <1>3 DEF LocalPruned, AfterLocal
  <1>4. CASE PruneStops(p)
    BY <1>4 DEF PruneStops, AfterLocal
  <1>5. CASE BucketPruned(p)
    BY <1>5 DEF BucketPruned
  <1>6. CASE Report(p)
    <2>1. beat' \in [Runs -> {"none", "ok", "fail"}]
      BY <1>6 DEF Report
    <2> QED  BY <1>6, <2>1 DEF Report
  <1> QED  BY <1>1, <1>2, <1>3, <1>4, <1>5, <1>6 DEF Tidy

LEMMA KeeperTypeOK ==
    ASSUME TypeOK, NEW k \in Keepers, KeeperStarts(k)
    PROVE  TypeOK'
  <1>1. Now \in Nat
    BY StoreAssumption DEF TypeOK, Now
  <1> QED  BY <1>1 DEF KeeperStarts, TypeOK, Goto, storeVars, Stages, Working, Tidying,
                       Tidiers, Procs

Picks == [stamp : Nat, source : {"none", "local", "s3"},
          says : Contents, opened : Contents \union {NoOne}]

\* A reader's selection is a stamp, and what it reads is the content of a file.
LEMMA SelectsTypeOK ==
    ASSUME TypeOK, NEW d \in Readers, NEW s \in Nat, NEW source \in {"local", "s3"},
           Selects(d, s, source)
    PROVE  pick' \in [Readers -> Picks] /\ stage' \in [Procs -> Stages] /\ outcome' = outcome
  <1>1. pick' = [pick EXCEPT ![d].stamp = s, ![d].source = source]
    BY DEF Selects
  <1>2. pick' \in [Readers -> Picks]
    <2>1. pick \in [Readers -> Picks]
      BY DEF TypeOK, Picks
    <2>2. [pick[d] EXCEPT !.stamp = s, !.source = source] \in Picks
      <3>1. pick[d] \in Picks
        BY <2>1
      <3> QED  BY <3>1 DEF Picks
    <2>3. pick' = [pick EXCEPT ![d] = [pick[d] EXCEPT !.stamp = s, !.source = source]]
      BY <1>1, <2>1
    <2> QED  BY <2>1, <2>2, <2>3
  <1>3. stage \in [Procs -> Stages] /\ d \in Procs
    BY DEF TypeOK, Procs
  <1>4. PICK g \in {"download", "load"} : stage' = [stage EXCEPT ![d] = g]
    BY DEF Selects, Goto
  <1>5. stage' \in [Procs -> Stages]
    BY <1>3, <1>4 DEF Stages, Reading
  <1> QED  BY <1>2, <1>5 DEF Selects

LEMMA ReaderEnds ==
    ASSUME TypeOK, NEW p \in Procs, NEW o \in {"ok", "refused", "crashed"}, Ends(p, o)
    PROVE  /\ stage' \in [Procs -> Stages]
           /\ outcome' \in [Procs -> {"none", "ok", "degraded", "failed", "refused", "crashed"}]
  BY DEF TypeOK, Ends, Goto, Stages

LEMMA FetchedIsContents ==
    ASSUME TypeOK, NEW d \in Readers, NEW k, Has(files["bucket"], pick[d].stamp, k)
    PROVE  Fetched(d, k) \subseteq Contents
  <1>1. files["bucket"] \in SUBSET Artifact
    BY DEF TypeOK, Places
  <1>2. Torn \in Contents
    BY DEF Contents
  <1> QED  BY <1>1, <1>2, ContentIsArtifact DEF Fetched

LEMMA FetchTypeOK ==
    ASSUME TypeOK, NEW d \in Readers, NEW k \in ArtifactKinds, NEW c \in Contents,
           files' = [files EXCEPT !["nightly"] = With(@, pick[d].stamp, k, c)]
    PROVE  files' \in [Places -> SUBSET Artifact]
  <1>1. pick[d].stamp \in Nat /\ files["nightly"] \in SUBSET Artifact
    BY DEF TypeOK, Places
  <1>2. With(files["nightly"], pick[d].stamp, k, c) \in SUBSET Artifact
    BY <1>1, WithIsArtifacts
  <1> QED  BY <1>2 DEF TypeOK

LEMMA RestoreTypeOK ==
    ASSUME TypeOK, NEW d \in Readers, Restore(d)
    PROVE  TypeOK'
  <1>0. d \in Procs /\ TypeOK
    BY DEF Procs
  <1>1. CASE Locate(d)
    <2> DEFINE listed == {f.stamp : f \in files["nightly"] \union RemoteListing}
    <2>1. listed \subseteq Nat
      BY DEF TypeOK, RemoteListing, Artifact, Places
    <2> DEFINE latest == SelectLatest(files["nightly"], RemoteListing, Now)
    <2>2. latest.stamp \in Nat
      BY <2>1, LatestIsListed DEF SelectLatest, NoStamp
    <2>3. latest.stamp # NoStamp => latest.source \in {"local", "s3"}
      BY DEF SelectLatest
    <2>4. \/ Ends(d, "refused") /\ UNCHANGED pick
          \/ \E s \in Nat, source \in {"local", "s3"} : Selects(d, s, source)
      <3> HIDE DEF latest, listed
      <3>1. \/ IF latest.stamp = NoStamp
                 THEN Ends(d, "refused") /\ UNCHANGED pick
                 ELSE Selects(d, latest.stamp, latest.source)
            \/ \E s \in listed :
                 IF Has(files["nightly"], s, "dump") THEN Selects(d, s, "local")
                 ELSE IF HasBucket THEN Selects(d, s, "s3")
                 ELSE Ends(d, "refused") /\ UNCHANGED pick
        BY <1>1 DEF Locate, latest, listed
      <3> QED  BY <2>1, <2>2, <2>3, <3>1
    <2>5. /\ stage' \in [Procs -> Stages] /\ pick' \in [Readers -> Picks]
          /\ outcome' \in [Procs -> {"none", "ok", "degraded", "failed", "refused", "crashed"}]
      BY <1>0, <2>4, SelectsTypeOK, ReaderEnds DEF TypeOK, Picks
    <2> QED  BY <1>1, <2>5 DEF Locate, TypeOK, Picks, storeVars
  <1>2. CASE Download(d)
    <2>1. PICK c \in Contents :
             files' = [files EXCEPT !["nightly"] = With(@, pick[d].stamp, "dump", c)]
      BY <1>2, FetchedIsContents DEF Download
    <2>2. files' \in [Places -> SUBSET Artifact]
      BY <2>1, FetchTypeOK DEF ArtifactKinds
    <2>3. stage' \in [Procs -> Stages]
      BY <1>0, <1>2 DEF Download, Goto, TypeOK, Stages, Reading
    <2> QED  BY <1>2, <2>2, <2>3 DEF Download, TypeOK, procVars
  <1>3. CASE LoadManifest(d)
    <2>1. PICK c \in Contents : Reads(d, c) /\ files' \in [Places -> SUBSET Artifact]
      <3>1. CASE FromBucket(d) /\ Has(files["bucket"], pick[d].stamp, "manifest")
                 /\ \E c \in Fetched(d, "manifest") :
                      /\ files' = [files EXCEPT !["nightly"] =
                                      With(@, pick[d].stamp, "manifest", c)]
                      /\ Reads(d, c)
        BY <3>1, FetchedIsContents, FetchTypeOK DEF ArtifactKinds
      <3>2. CASE /\ Has(files["nightly"], pick[d].stamp, "manifest")
                 /\ Reads(d, Content(files["nightly"], pick[d].stamp, "manifest"))
                 /\ UNCHANGED files
        <4>1. files["nightly"] \in SUBSET Artifact
          BY DEF TypeOK, Places
        <4>2. Content(files["nightly"], pick[d].stamp, "manifest") \in Contents
          BY <3>2, <4>1, ContentIsArtifact
        <4> QED  BY <3>2, <4>2 DEF TypeOK
      <3> QED  BY <1>3, <3>1, <3>2 DEF LoadManifest
    <2>2. pick' \in [Readers -> Picks]
      BY <2>1 DEF Reads, TypeOK, Picks
    <2>3. /\ stage' \in [Procs -> Stages]
          /\ outcome' \in [Procs -> {"none", "ok", "degraded", "failed", "refused", "crashed"}]
      BY <1>0, <2>1, ReaderEnds DEF Reads, Goto, TypeOK, Stages, Reading
    <2> QED  BY <1>3, <2>1, <2>2, <2>3 DEF LoadManifest, TypeOK, Picks
  <1>4. CASE Verify(d)
    BY <1>0, <1>4 DEF Verify, Goto, TypeOK, Stages, Reading, storeVars, procVars
  <1>5. CASE Open(d)
    <2>1. files["nightly"] \in SUBSET Artifact
      BY DEF TypeOK, Places
    <2>2. Content(files["nightly"], pick[d].stamp, "dump") \in Contents
      BY <1>5, <2>1, ContentIsArtifact DEF Open
    <2>3. pick' \in [Readers -> Picks]
      BY <1>5, <2>2 DEF Open, TypeOK, Picks
    <2>4. /\ stage' \in [Procs -> Stages]
          /\ outcome' \in [Procs -> {"none", "ok", "degraded", "failed", "refused", "crashed"}]
      BY <1>0, <1>5, ReaderEnds DEF Open
    <2> QED  BY <1>5, <2>3, <2>4 DEF Open, TypeOK, Picks, storeVars
  <1>6. CASE ReadRefused(d)
    BY <1>0, <1>6, ReaderEnds DEF ReadRefused, TypeOK, storeVars
  <1> QED  BY <1>1, <1>2, <1>3, <1>4, <1>5, <1>6 DEF Restore

LEMMA EnvironmentTypeOK ==
    ASSUME TypeOK, Environment
    PROVE  TypeOK'
  <1>1. CASE Tick
    <2> DEFINE Part == [place : Places, stamp : Nat, touched : Nat]
    <2>1. Now + 1 \in Nat
      BY NowIsNat
    <2>2. parts \subseteq Part /\ \A p : PartsOf(p) \subseteq parts
      BY DEF TypeOK, PartsOf
    <2>3. \A q \in Part : [q EXCEPT !.touched = Now + 1] \in Part
      BY <2>1
    <2>4. parts' \subseteq Part
      <3> HIDE DEF Part
      <3> QED  BY <1>1, <2>2, <2>3 DEF Tick
    <2>5. time' \in Nat
      BY <1>1 DEF Tick, TypeOK
    <2> QED  BY <1>1, <2>4, <2>5 DEF Tick, TypeOK, procVars
  <1>2. CASE ClockGoesWrong \/ ClockCorrected
    BY <1>2 DEF ClockGoesWrong, ClockCorrected, TypeOK, storeVars, procVars
  <1>3. CASE LoseLock
    BY <1>3 DEF LoseLock, TypeOK, storeVars, procVars
  <1>4. ASSUME NEW p \in Procs, Crash(p) PROVE TypeOK'
    BY <1>4, ReaderEnds DEF Crash, TypeOK, storeVars
  <1> QED  BY <1>1, <1>2, <1>3, <1>4 DEF Environment

LEMMA NextTypeOK == TypeOK /\ [Next]_vars => TypeOK'
  <1> SUFFICES ASSUME TypeOK, [Next]_vars PROVE TypeOK'
    OBVIOUS
  <1>1. ASSUME NEW r \in Runs, RunBackup(r) PROVE TypeOK'
    <2>1. r \in Tidiers
      BY DEF Tidiers
    <2> QED  BY <1>1, <2>1, LockTypeOK, ProduceTypeOK, TidyTypeOK DEF RunBackup
  <1>2. ASSUME NEW k \in Keepers, Housekeeping(k) PROVE TypeOK'
    <2>1. k \in Tidiers
      BY DEF Tidiers
    <2> QED  BY <1>2, <2>1, KeeperTypeOK, TidyTypeOK DEF Housekeeping
  <1>3. ASSUME NEW d \in Readers, Restore(d) PROVE TypeOK'
    BY <1>3, RestoreTypeOK
  <1>4. CASE Environment
    BY <1>4, EnvironmentTypeOK
  <1>5. CASE UNCHANGED vars
    BY <1>5 DEF vars, storeVars, procVars, TypeOK
  <1> QED  BY <1>1, <1>2, <1>3, <1>4, <1>5 DEF Next

\* Every run of the tool, in any number, keeps the state well formed.
THEOREM TypeCorrect == Spec => []TypeOK
  BY InitTypeOK, NextTypeOK, PTL DEF Spec

-----------------------------------------------------------------------------
(* Mutual exclusion by the advisory lock                                     *)
(*                                                                           *)
(* LockMeansWork is inductive together with TypeOK: an action either leaves  *)
(* the lock alone and moves its run within, or outside, the working stages,  *)
(* or takes the free lock, or frees it on the way out.  The one exception is *)
(* a session that drops while its run works on (LoseLock), so the theorem    *)
(* assumes that it does not.                                                 *)

LEMMA InitLockMeansWork == Init => LockMeansWork
  BY StoreAssumption DEF Init, LockMeansWork, Working, Producing, Tidying, Procs, Tidiers

\* A step that leaves the lock alone and keeps its process inside, or outside,
\* the working stages.
LEMMA StaysPut ==
    ASSUME TypeOK, LockMeansWork, NEW p \in Procs, NEW s, Goto(p, s), lock' = lock,
           p \in Runs => (s \in Working <=> stage[p] \in Working)
    PROVE  LockMeansWork'
  BY DEF LockMeansWork, Goto, TypeOK

LEMMA LockLockMeansWork ==
    ASSUME TypeOK, LockMeansWork, NEW r \in Runs,
           Start(r) \/ TakeLock(r) \/ WaitForLock(r) \/ LockRefused(r)
    PROVE  LockMeansWork'
  <1>0. r \in Procs /\ NoOne \notin Runs
    BY StoreAssumption DEF Procs, Tidiers
  <1> USE DEF Working, Producing, Tidying
  <1>1. CASE Start(r)
    BY <1>0, <1>1, StaysPut DEF Start
  <1>2. CASE TakeLock(r)
    <2>1. /\ stage' = [stage EXCEPT ![r] = "preflight"]
          /\ lock = NoOne /\ lock' = r
      BY <1>2 DEF TakeLock, Goto
    <2>2. "preflight" \in Working
      OBVIOUS
    <2> HIDE DEF Working, Producing, Tidying
    <2> QED  BY <1>0, <2>1, <2>2 DEF LockMeansWork, TypeOK
  <1>3. CASE WaitForLock(r)
    BY <1>0, <1>3, StaysPut DEF WaitForLock
  <1>4. CASE LockRefused(r)
    BY <1>0, <1>4, StaysPut DEF LockRefused, Ends
  <1> QED  BY <1>1, <1>2, <1>3, <1>4

LEMMA ProduceLockMeansWork ==
    ASSUME TypeOK, LockMeansWork, NEW r \in Runs, Produce(r)
    PROVE  LockMeansWork'
  <1>0. r \in Procs
    BY DEF Procs, Tidiers
  <1>1. stage[r] \in Working
    BY DEF Produce, Preflight, BeginPart, FinishDump, FinishArchive, BeginManifest,
           WriteManifest, PutObject, HeadMatches, HeadMismatch, ProduceFails,
           Working, Producing
  <1>2. lock' = lock
    BY DEF Produce, Preflight, BeginPart, FinishDump, FinishArchive, BeginManifest,
           WriteManifest, PutObject, HeadMatches, HeadMismatch, ProduceFails
  <1>3. \E s \in Working : Goto(r, s)
    BY DEF Produce, Preflight, BeginPart, FinishDump, FinishArchive, BeginManifest,
           WriteManifest, PutObject, HeadMatches, HeadMismatch, ProduceFails,
           Working, Producing, Tidying
  <1> QED  BY <1>0, <1>1, <1>2, <1>3, StaysPut

\* A keeper passes through the same stages without being a run, so that its
\* steps say nothing of the lock.
LEMMA TidyLockMeansWork ==
    ASSUME TypeOK, LockMeansWork, NEW p \in Tidiers, Tidy(p)
    PROVE  LockMeansWork'
  <1>0. p \in Procs
    BY DEF Procs
  <1>1. CASE Scan(p) \/ LocalPruned(p) \/ PruneStops(p) \/ BucketPruned(p)
    <2>1. stage[p] \in Working /\ lock' = lock
      BY <1>1 DEF Scan, LocalPruned, PruneStops, BucketPruned, Working, Tidying
    <2>2. \E s \in Working : Goto(p, s)
      BY <1>1 DEF Scan, LocalPruned, PruneStops, BucketPruned, AfterLocal, Working, Tidying
    <2> QED  BY <1>0, <2>1, <2>2, StaysPut
  <1>2. CASE PruneOne(p)
    BY <1>2 DEF PruneOne, LockMeansWork
  <1>3. CASE Report(p)
    <2>1. /\ stage' = [stage EXCEPT ![p] = "done"]
          /\ lock' = IF lock = p THEN NoOne ELSE lock
          /\ stage[p] = "report"
      BY <1>3 DEF Report, Goto
    <2>2. "report" \in Working /\ "done" \notin Working
      BY DEF Working, Producing, Tidying
    <2>3. NoOne \notin Runs
      BY StoreAssumption DEF Procs, Tidiers
    <2> QED  BY <1>0, <2>1, <2>2, <2>3 DEF LockMeansWork, TypeOK
  <1> QED  BY <1>1, <1>2, <1>3 DEF Tidy

LEMMA OthersLockMeansWork ==
    ASSUME TypeOK, LockMeansWork, "lockLost" \notin Faults,
           \/ \E k \in Keepers : KeeperStarts(k)
           \/ \E d \in Readers : Restore(d)
           \/ Environment
    PROVE  LockMeansWork'
  <1>0. /\ Readers \subseteq Procs \ Runs /\ Keepers \subseteq Procs \ Runs
        /\ NoOne \notin Runs
    BY StoreAssumption DEF Procs, Tidiers
  <1>1. ASSUME NEW k \in Keepers, KeeperStarts(k) PROVE LockMeansWork'
    BY <1>0, <1>1, StaysPut DEF KeeperStarts
  <1>2. ASSUME NEW d \in Readers, Restore(d) PROVE LockMeansWork'
    <2>1. lock' = lock
      BY <1>2 DEF Restore, Locate, Download, LoadManifest, Verify, Open, ReadRefused
    <2>2. \E s \in Stages : Goto(d, s)
      BY <1>2 DEF Restore, Locate, Selects, Download, LoadManifest, Reads, Verify, Open,
                  ReadRefused, Ends, Stages, Reading
    <2> QED  BY <1>0, <2>1, <2>2, StaysPut
  <1>3. ASSUME NEW p \in Procs, Crash(p) PROVE LockMeansWork'
    <2>1. /\ stage' = [stage EXCEPT ![p] = "done"]
          /\ lock' = IF lock = p THEN NoOne ELSE lock
      BY <1>3 DEF Crash, Ends, Goto
    <2>2. "done" \notin Working
      BY DEF Working, Producing, Tidying
    <2>3. \A r \in Runs \ {p} : stage'[r] = stage[r]
      <3>1. Runs \subseteq Procs /\ stage \in [Procs -> Stages]
        BY DEF Procs, Tidiers, TypeOK
      <3> QED  BY <2>1, <3>1
    <2>4. p \in Runs => stage'[p] = "done"
      BY <2>1 DEF TypeOK
    <2>5. lock = p => p \in Runs
      BY <1>3, StoreAssumption DEF TypeOK
    <2> QED  BY <1>0, <1>3, <2>1, <2>2, <2>3, <2>4, <2>5 DEF LockMeansWork
  <1>4. CASE Tick \/ ClockGoesWrong \/ ClockCorrected
    BY <1>4 DEF Tick, ClockGoesWrong, ClockCorrected, LockMeansWork
  <1>5. ~LoseLock
    BY DEF LoseLock
  <1> QED  BY <1>1, <1>2, <1>3, <1>4, <1>5 DEF Environment

LEMMA NextLockMeansWork ==
    ASSUME "lockLost" \notin Faults, TypeOK, LockMeansWork, [Next]_vars
    PROVE  LockMeansWork'
  <1>1. ASSUME NEW r \in Runs, RunBackup(r) PROVE LockMeansWork'
    <2>1. r \in Tidiers
      BY DEF Tidiers
    <2> QED  BY <1>1, <2>1, LockLockMeansWork, ProduceLockMeansWork, TidyLockMeansWork
                DEF RunBackup
  <1>2. ASSUME NEW k \in Keepers, Housekeeping(k) PROVE LockMeansWork'
    <2>1. k \in Tidiers
      BY DEF Tidiers
    <2> QED  BY <1>2, <2>1, OthersLockMeansWork, TidyLockMeansWork DEF Housekeeping
  <1>3. CASE (\E d \in Readers : Restore(d)) \/ Environment
    BY <1>3, OthersLockMeansWork
  <1>4. CASE UNCHANGED vars
    BY <1>4 DEF vars, LockMeansWork
  <1> QED  BY <1>1, <1>2, <1>3, <1>4 DEF Next

\* While no session is lost, exactly the run that holds the lock is at work.
THEOREM LockCorrect ==
    ASSUME "lockLost" \notin Faults
    PROVE  Spec => []LockMeansWork
  <1>1. Init => TypeOK /\ LockMeansWork
    BY InitTypeOK, InitLockMeansWork
  <1>2. TypeOK /\ LockMeansWork /\ [Next]_vars => (TypeOK /\ LockMeansWork)'
    BY NextTypeOK, NextLockMeansWork
  <1> QED  BY <1>1, <1>2, PTL DEF Spec

\* Two runs never produce, upload or prune at the same time, whichever of the
\* three ways they were started in.
THEOREM RunsExclude ==
    ASSUME "lockLost" \notin Faults
    PROVE  Spec => []OneRunWorks
  <1>1. LockMeansWork => OneRunWorks
    BY DEF LockMeansWork, OneRunWorks
  <1> QED  BY <1>1, LockCorrect, PTL

-----------------------------------------------------------------------------
(* Whose bytes a name holds                                                *)

Writes(place, s, k, c) == files' = [files EXCEPT ![place] = With(@, s, k, c)]
Removes(place, s, k)   == files' = [files EXCEPT ![place] = Without(@, s, k)]

\* What a write leaves in every place, and what a removal does.
LEMMA WritesOne ==
    ASSUME TypeOK, NEW place \in Places, NEW s, NEW k, NEW c, Writes(place, s, k, c)
    PROVE  /\ \A q \in Places : \A f \in files'[q] :
                IF q = place /\ f.stamp = s /\ f.kind = k THEN f.by = c ELSE f \in files[q]
           /\ \A q \in Places : \A f \in files[q] :
                ~(q = place /\ f.stamp = s /\ f.kind = k) => f \in files'[q]
           /\ [stamp |-> s, kind |-> k, by |-> c] \in files'[place]
  <1>1. files'[place] = With(files[place], s, k, c)
    BY DEF Writes, TypeOK
  <1>2. \A q \in Places \ {place} : files'[q] = files[q]
    BY DEF Writes, TypeOK
  <1> QED  BY <1>1, <1>2 DEF With, Without

LEMMA RemovesOne ==
    ASSUME TypeOK, NEW place \in Places, NEW s, NEW k, Removes(place, s, k)
    PROVE  /\ \A q \in Places : files'[q] \subseteq files[q]
           /\ \A q \in Places : \A f \in files[q] :
                ~(q = place /\ f.stamp = s /\ f.kind = k) => f \in files'[q]
  <1>1. files'[place] = Without(files[place], s, k)
    BY DEF Removes, TypeOK
  <1>2. \A q \in Places \ {place} : files'[q] = files[q]
    BY DEF Removes, TypeOK
  <1> QED  BY <1>1, <1>2 DEF Without

Rightful(place, s, c) ==
    \/ c = Torn
    \/ c \in History /\ s = c
    \/ /\ c \in Runs /\ stage[c] # "idle" /\ s = started[c]
       /\ IF c \in Release THEN place = "release" ELSE place \in {"nightly", "bucket"}

OneFile == \A place \in Places : \A f, g \in files[place] :
    f.stamp = g.stamp /\ f.kind = g.kind => f.by = g.by

Owned == \A place \in Places : \A f \in files[place] : Rightful(place, f.stamp, f.by)

Distinct == \A r, q \in Runs :
    stage[r] # "idle" /\ stage[q] # "idle" /\ Dir(r) = Dir(q) /\ started[r] = started[q]
      => r = q

AfterHistory ==
    /\ StartTime <= time
    /\ \A r \in Runs : stage[r] # "idle" => StartTime <= started[r]

\* Only a cut transfer leaves a dump that is not whole.
Full(k, c) == "cutTransfer" \notin Faults /\ k = "dump" => c # Torn

DumpsAreFull == \A place \in Places : \A f \in files[place] : Full(f.kind, f.by)

NamesInv == OneFile /\ Owned /\ DumpsAreFull /\ Distinct /\ AfterHistory

LEMMA InitNames == Init => NamesInv
  <1> SUFFICES ASSUME Init PROVE NamesInv
    OBVIOUS
  <1>1. \A place \in Places : files[place] = Stored0(place)
    BY DEF Init
  <1>2. \A r \in Runs : stage[r] = "idle"
    BY DEF Init, Procs, Tidiers
  <1>3. OneFile /\ Owned /\ DumpsAreFull
    <2>1. \A place \in Places : \A f \in Stored0(place) : f.by \in History /\ f.stamp = f.by
      BY DEF Stored0
    <2> QED  BY <1>1, <2>1, StoreAssumption DEF OneFile, Owned, Rightful, DumpsAreFull, Full
  <1>4. StartTime <= time
    BY StoreAssumption DEF Init
  <1> QED  BY <1>2, <1>3, <1>4 DEF NamesInv, Distinct, AfterHistory

\* A run that has started keeps its stamp and never becomes idle again.
StampsStay == \A r \in Runs :
    stage[r] # "idle" => stage'[r] # "idle" /\ started'[r] = started[r]

\* A step moves at most one process, and only its start sets its clock.
Moves ==
    \/ UNCHANGED <<stage, started>>
    \/ \E p \in Procs, s \in Stages \ {"idle"} :
         Goto(p, s) /\ started' = started /\ (p \in Runs => stage[p] # "idle")
    \/ \E p \in Tidiers, s \in Stages \ {"idle"} :
         /\ stage[p] = "idle" /\ Goto(p, s) /\ started' = [started EXCEPT ![p] = Now]
         /\ p \in Runs => Start(p)

LEMMA StepMoves ==
    ASSUME TypeOK, [Next]_vars
    PROVE  Moves
  <1> USE DEF storeVars, procVars, Stages, Working, Producing, Tidying, Reading
  <1>0. /\ Runs \subseteq Tidiers /\ Keepers \subseteq Tidiers /\ Tidiers \subseteq Procs
        /\ Readers \subseteq Procs \ Runs /\ Keepers \intersect Runs = {}
    BY StoreAssumption DEF Procs, Tidiers
  <1>1. ASSUME NEW r \in Runs,
               Start(r) \/ TakeLock(r) \/ WaitForLock(r) \/ LockRefused(r) \/ Produce(r)
        PROVE  Moves
    <2>1. CASE Start(r)
      BY <1>0, <2>1 DEF Start, Moves
    <2>2. CASE TakeLock(r) \/ WaitForLock(r) \/ LockRefused(r)
      BY <1>0, <2>2 DEF TakeLock, WaitForLock, LockRefused, Ends, Moves
    <2>3. CASE Produce(r)
      <3>1. \E s \in Stages \ {"idle"} : Goto(r, s)
        BY <2>3 DEF Produce, Preflight, BeginPart, FinishDump, FinishArchive, BeginManifest,
             WriteManifest, PutObject, HeadMatches, HeadMismatch, ProduceFails
      <3>2. started' = started /\ stage[r] # "idle"
        BY <2>3 DEF Produce, Preflight, BeginPart, FinishDump, FinishArchive, BeginManifest,
             WriteManifest, PutObject, HeadMatches, HeadMismatch, ProduceFails
      <3> QED  BY <1>0, <3>1, <3>2 DEF Moves
    <2> QED  BY <1>1, <2>1, <2>2, <2>3
  <1>2. ASSUME NEW p \in Tidiers, Tidy(p) PROVE Moves
    <2>1. CASE PruneOne(p)
      BY <2>1 DEF PruneOne, Moves
    <2>2. CASE Scan(p) \/ LocalPruned(p) \/ PruneStops(p) \/ BucketPruned(p) \/ Report(p)
      <3>1. \E s \in Stages \ {"idle"} : Goto(p, s)
        BY <2>2 DEF Scan, LocalPruned, PruneStops, BucketPruned, Report, AfterLocal
      <3>2. started' = started /\ stage[p] # "idle"
        BY <2>2 DEF Scan, LocalPruned, PruneStops, BucketPruned, Report
      <3> QED  BY <1>0, <3>1, <3>2 DEF Moves
    <2> QED  BY <1>2, <2>1, <2>2 DEF Tidy
  <1>3. ASSUME NEW k \in Keepers, KeeperStarts(k) PROVE Moves
    BY <1>0, <1>3 DEF KeeperStarts, Moves
  <1>4. ASSUME NEW d \in Readers, Restore(d) PROVE Moves
    <2>1. \E s \in Stages \ {"idle"} : Goto(d, s)
      BY <1>4 DEF Restore, Locate, Selects, Download, LoadManifest, Reads, Verify, Open,
                  ReadRefused, Ends
    <2>2. started' = started
      BY <1>4 DEF Restore, Locate, Download, LoadManifest, Verify, Open, ReadRefused
    <2> QED  BY <1>0, <2>1, <2>2 DEF Moves
  <1>5. CASE Environment
    <2>1. CASE \E p \in Procs : Crash(p)
      BY <2>1 DEF Crash, Ends, Moves
    <2>2. CASE Tick \/ ClockGoesWrong \/ ClockCorrected \/ LoseLock
      BY <2>2 DEF Tick, ClockGoesWrong, ClockCorrected, LoseLock, Moves
    <2> QED  BY <1>5, <2>1, <2>2 DEF Environment
  <1>6. CASE UNCHANGED vars
    BY <1>6 DEF vars, Moves
  <1> QED  BY <1>0, <1>1, <1>2, <1>3, <1>4, <1>5, <1>6 DEF Next, RunBackup, Housekeeping

LEMMA AllStampsStay ==
    ASSUME TypeOK, Moves
    PROVE  StampsStay
  BY DEF Moves, StampsStay, TypeOK, Goto, Procs, Tidiers

\* No process touches time or its clock.
LEMMA ClockUntouched ==
    ASSUME [Next]_vars, ~Environment
    PROVE  time' = time /\ skew' = skew
  <1>1. ASSUME NEW p, Tidy(p) PROVE time' = time /\ skew' = skew
    BY <1>1 DEF Tidy, Scan, PruneOne, LocalPruned, PruneStops, BucketPruned, Report
  <1>2. ASSUME NEW r, Produce(r) PROVE time' = time /\ skew' = skew
    <2>1. CASE Preflight(r) \/ BeginPart(r) \/ FinishDump(r) \/ FinishArchive(r)
                 \/ BeginManifest(r) \/ WriteManifest(r)
      BY <2>1 DEF Preflight, BeginPart, FinishDump, FinishArchive, BeginManifest, WriteManifest
    <2>2. CASE PutObject(r) \/ HeadMatches(r) \/ HeadMismatch(r) \/ ProduceFails(r)
      BY <2>2 DEF PutObject, HeadMatches, HeadMismatch, ProduceFails
    <2> QED  BY <1>2, <2>1, <2>2 DEF Produce
  <1>3. ASSUME NEW r, RunBackup(r) PROVE time' = time /\ skew' = skew
    <2>1. CASE Start(r) \/ TakeLock(r) \/ WaitForLock(r) \/ LockRefused(r)
      BY <2>1 DEF Start, TakeLock, WaitForLock, LockRefused
    <2> QED  BY <1>1, <1>2, <1>3, <2>1 DEF RunBackup
  <1>4. ASSUME NEW k, Housekeeping(k) PROVE time' = time /\ skew' = skew
    <2>1. CASE KeeperStarts(k)
      BY <2>1 DEF KeeperStarts
    <2> QED  BY <1>1, <1>4, <2>1 DEF Housekeeping
  <1>5. ASSUME NEW d, Restore(d) PROVE time' = time /\ skew' = skew
    <2>1. CASE Locate(d) \/ Download(d) \/ LoadManifest(d)
      BY <2>1 DEF Locate, Download, LoadManifest
    <2>2. CASE Verify(d) \/ Open(d) \/ ReadRefused(d)
      BY <2>2 DEF Verify, Open, ReadRefused
    <2> QED  BY <1>5, <2>1, <2>2 DEF Restore
  <1>6. CASE UNCHANGED vars
    BY <1>6 DEF vars
  <1> QED  BY <1>3, <1>4, <1>5, <1>6 DEF Next

\* Time passes, and only Tick makes it.
LEMMA TimePasses ==
    ASSUME [Next]_vars
    PROVE  (Tick /\ time' = time + 1) \/ time' = time
  BY ClockUntouched DEF Environment, Tick, ClockGoesWrong, ClockCorrected, LoseLock, Crash

LEMMA RightfulStays ==
    ASSUME StampsStay, NEW place, NEW s, NEW c, Rightful(place, s, c)
    PROVE  Rightful(place, s, c)'
  BY DEF Rightful, StampsStay

\* At one stamp of one place no two runs have a claim.
LEMMA OneClaim ==
    ASSUME NamesInv, NEW place, NEW s, NEW c, NEW e,
           Rightful(place, s, c), Rightful(place, s, e), c # Torn, e # Torn, ~SharedStamps
    PROVE  c = e
  <1>1. StartTime \in Nat /\ \A h \in History : h \in Nat /\ h < StartTime
    <2>1. History \subseteq 1..StartTime /\ StartTime \in Nat /\ StartTime \notin History
      BY StoreAssumption
    <2> QED  BY <2>1
  <1>2. \A r \in Runs : stage[r] # "idle" => started[r] \notin History
    BY <1>1 DEF NamesInv, AfterHistory
  <1> QED  BY <1>2 DEF NamesInv, Distinct, Rightful, Dir

\* Every change of the stored files writes one name, or removes one.
FilesChange ==
    \/ files' = files
    \/ \E place \in Places, s \in Nat, k \in ArtifactKinds : Removes(place, s, k)
    \/ \E place \in Places, s \in Nat, k \in ArtifactKinds, c \in Contents :
         /\ Writes(place, s, k, c) /\ Rightful(place, s, c) /\ Full(k, c)
         /\ place = "nightly" /\ k = "dump" /\ c = Torn =>
              \E d \in Readers : stage[d] = "download"

LEMMA FileSteps ==
    ASSUME TypeOK, NamesInv, [Next]_vars
    PROVE  FilesChange
  <1> USE DEF storeVars, procVars
  <1>1. ASSUME NEW r \in Runs, Produce(r) PROVE FilesChange
    <2>0. /\ started[r] \in Nat /\ r \in Contents /\ Torn \in Contents /\ Dir(r) \in Places
          /\ r # Torn /\ \A k : Full(k, r)
      BY DirIsPlace, StoreAssumption DEF TypeOK, Tidiers, Contents, Full
    <2>1. stage[r] # "idle" => Rightful(Dir(r), started[r], r) /\ Rightful(Dir(r), started[r], Torn)
      BY DEF Rightful, Dir
    <2>2. CASE FinishDump(r)
      BY <2>0, <2>1, <2>2 DEF FilesChange, FinishDump, Writes, ArtifactKinds
    <2>3. CASE FinishArchive(r)
      BY <2>0, <2>1, <2>3 DEF FilesChange, FinishArchive, Writes, ArtifactKinds
    <2>4. CASE BeginManifest(r)
      BY <2>0, <2>1, <2>4 DEF FilesChange, BeginManifest, Writes, ArtifactKinds, Full
    <2>5. CASE WriteManifest(r)
      BY <2>0, <2>1, <2>5 DEF FilesChange, WriteManifest, Writes, ArtifactKinds
    <2>6. CASE PutObject(r)
      <3> DEFINE k == Uploading(r)
                 c == Content(files["nightly"], started[r], k)
      <3>1. Has(files["nightly"], started[r], k)
        BY <2>6 DEF PutObject
      <3>2. PICK f \in files["nightly"] : f.stamp = started[r] /\ f.kind = k /\ f.by = c
        BY <3>1 DEF Has, Content
      <3>3. k \in ArtifactKinds /\ c \in Contents
        BY <3>2 DEF TypeOK, Places, Artifact
      <3>4. Rightful("bucket", started[r], c)
        BY <3>2 DEF NamesInv, Owned, Rightful, Places
      <3>5. PICK e \in {c, Torn} : Writes("bucket", started[r], k, e) /\ Full(k, e)
        <4>1. fed'[r] = c
          BY <2>6 DEF PutObject, TypeOK
        <4>2. Full(k, c)
          BY <3>2 DEF NamesInv, DumpsAreFull, Places
        <4>3. PICK e \in {c} \union (IF "cutTransfer" \in Faults THEN {Torn} ELSE {}) :
                Writes("bucket", started[r], k, e)
          BY <2>6, <4>1 DEF PutObject, Writes
        <4> QED  BY <4>2, <4>3 DEF Full
      <3>6. Rightful("bucket", started[r], e)
        BY <3>4 DEF Rightful
      <3> HIDE DEF k, c
      <3> QED  BY <2>0, <3>3, <3>5, <3>6 DEF FilesChange, Places
    <2>7. CASE HeadMatches(r) \/ Preflight(r) \/ BeginPart(r) \/ ProduceFails(r)
      BY <2>7 DEF FilesChange, HeadMatches, Preflight, BeginPart, ProduceFails
    <2>8. CASE HeadMismatch(r)
      <3>1. Uploading(r) \in ArtifactKinds
        <4>1. PICK f \in files["bucket"] : f.kind = Uploading(r)
          BY <2>8 DEF HeadMismatch, Stored, Has
        <4> QED  BY <4>1 DEF TypeOK, Places, Artifact
      <3> QED  BY <2>0, <2>8, <3>1 DEF FilesChange, HeadMismatch, Removes, Places
    <2> QED  BY <1>1, <2>2, <2>3, <2>4, <2>5, <2>6, <2>7, <2>8 DEF Produce
  <1>2. ASSUME NEW p \in Tidiers, Tidy(p) PROVE FilesChange
    <2>1. CASE PruneOne(p)
      <3> DEFINE place == IF stage[p] = "prune" THEN Dir(p) ELSE "bucket"
      <3>1. PICK n \in todo[p] : Removes(place, n.stamp, n.kind)
        BY <2>1 DEF PruneOne, Removes
      <3>2. n \in Name
        BY DEF TypeOK
      <3>3. place \in Places
        BY DirIsPlace DEF Places
      <3> QED  BY <3>1, <3>2, <3>3 DEF FilesChange, Name
    <2>2. CASE Scan(p) \/ LocalPruned(p) \/ PruneStops(p) \/ BucketPruned(p) \/ Report(p)
      BY <2>2 DEF FilesChange, Scan, LocalPruned, PruneStops, BucketPruned, Report
    <2> QED  BY <1>2, <2>1, <2>2 DEF Tidy
  <1>3. ASSUME NEW d \in Readers, NEW k \in {"dump", "manifest"},
               k = "dump" => stage[d] = "download", NEW c \in Fetched(d, k),
               Has(files["bucket"], pick[d].stamp, k), Writes("nightly", pick[d].stamp, k, c)
        PROVE  FilesChange
    <2>1. PICK f \in files["bucket"] : f.stamp = pick[d].stamp /\ f.kind = k
                  /\ f.by = Content(files["bucket"], pick[d].stamp, k)
      BY <1>3 DEF Has, Content
    <2>2. Rightful("nightly", pick[d].stamp, f.by)
      BY <2>1 DEF NamesInv, Owned, Rightful, Places
    <2>3. (c = f.by \/ c = Torn) /\ Full(k, c)
      BY <1>3, <2>1 DEF Fetched, Full, NamesInv, DumpsAreFull, Places
    <2>4. Rightful("nightly", pick[d].stamp, c) /\ c \in Contents
      BY <1>3, <2>2, <2>3, FetchedIsContents DEF Rightful
    <2>5. pick[d].stamp \in Nat /\ k \in ArtifactKinds /\ "nightly" \in Places
      BY DEF TypeOK, ArtifactKinds, Places
    <2> QED  BY <1>3, <2>3, <2>4, <2>5 DEF FilesChange
  <1>4. ASSUME NEW d \in Readers, Restore(d) PROVE FilesChange
    <2>1. CASE Download(d)
      BY <1>3, <2>1 DEF Download, Writes
    <2>2. CASE LoadManifest(d)
      BY <1>3, <2>2 DEF FilesChange, LoadManifest, Writes
    <2>3. CASE Locate(d) \/ Verify(d) \/ Open(d) \/ ReadRefused(d)
      BY <2>3 DEF FilesChange, Locate, Verify, Open, ReadRefused
    <2> QED  BY <1>4, <2>1, <2>2, <2>3 DEF Restore
  <1>5. ASSUME NEW r \in Runs, Start(r) \/ TakeLock(r) \/ WaitForLock(r) \/ LockRefused(r)
        PROVE  FilesChange
    BY <1>5 DEF FilesChange, Start, TakeLock, WaitForLock, LockRefused
  <1>6. ASSUME NEW k \in Keepers, KeeperStarts(k) PROVE FilesChange
    BY <1>6 DEF FilesChange, KeeperStarts
  <1>7. CASE Environment
    BY <1>7 DEF FilesChange, Environment, Tick, ClockGoesWrong, ClockCorrected, LoseLock, Crash
  <1>8. CASE UNCHANGED vars
    BY <1>8 DEF FilesChange, vars
  <1>9. Runs \subseteq Tidiers /\ Keepers \subseteq Tidiers
    BY DEF Tidiers
  <1> QED
    BY <1>1, <1>2, <1>4, <1>5, <1>6, <1>7, <1>8, <1>9 DEF Next, RunBackup, Housekeeping

LEMMA NextNames ==
    ASSUME TypeOK, NamesInv, [Next]_vars, ~SharedStamps
    PROVE  NamesInv'
  <1>1. Moves /\ StampsStay
    BY StepMoves, AllStampsStay
  <1>2. OneFile' /\ Owned' /\ DumpsAreFull'
    <2>1. CASE files' = files
      BY <1>1, <2>1, RightfulStays DEF NamesInv, OneFile, Owned, DumpsAreFull, Full
    <2>2. ASSUME NEW place \in Places, NEW s \in Nat, NEW k \in ArtifactKinds, Removes(place, s, k)
          PROVE  OneFile' /\ Owned' /\ DumpsAreFull'
      <3>1. \A q \in Places : files'[q] \subseteq files[q]
        BY <2>2 DEF Removes, Without, TypeOK
      <3> QED  BY <1>1, <3>1, RightfulStays DEF NamesInv, OneFile, Owned, DumpsAreFull, Full
    <2>3. ASSUME NEW place \in Places, NEW s \in Nat, NEW k \in ArtifactKinds, NEW c \in Contents,
                 Writes(place, s, k, c), Rightful(place, s, c), Full(k, c)
          PROVE  OneFile' /\ Owned' /\ DumpsAreFull'
      <3>1. files'[place] = With(files[place], s, k, c)
        BY <2>3 DEF Writes, TypeOK
      <3>2. \A q \in Places \ {place} : files'[q] = files[q]
        BY <2>3 DEF Writes, TypeOK
      <3>3. OneFile'
        BY <3>1, <3>2 DEF NamesInv, OneFile, With, Without
      <3>4. \A q \in Places : \A f \in files'[q] : Rightful(q, f.stamp, f.by)
        BY <2>3, <3>1, <3>2 DEF NamesInv, Owned, With, Without
      <3>5. Owned'
        BY <1>1, <3>4, RightfulStays DEF Owned
      <3>6. DumpsAreFull'
        BY <2>3, <3>1, <3>2 DEF NamesInv, DumpsAreFull, With, Without
      <3> QED  BY <3>3, <3>5, <3>6
    <2> QED  BY <2>1, <2>2, <2>3, FileSteps DEF FilesChange
  <1>3. Distinct' /\ (\A r \in Runs : stage'[r] # "idle" => StartTime <= started'[r])
    <2>1. StartTime <= Now
      BY StoreAssumption DEF NamesInv, AfterHistory, TypeOK, Now
    <2>2. ASSUME NEW r \in Runs, Start(r)
          PROVE  Distinct' /\ (\A q \in Runs : stage'[q] # "idle" => StartTime <= started'[q])
      <3>1. /\ started'[r] = Now
            /\ \A q \in Runs \ {r} : started'[q] = started[q] /\ stage'[q] = stage[q]
            /\ \A q \in Runs : Dir(q) = Dir(r) /\ stage[q] # "idle" => started[q] # Now
        BY <2>2 DEF Start, Goto, TypeOK, Tidiers, Procs
      <3> QED  BY <2>1, <3>1 DEF NamesInv, Distinct, AfterHistory, Dir
    <2>3. CASE \A r \in Runs : stage[r] = "idle" => stage'[r] = "idle"
      BY <1>1, <2>3 DEF StampsStay, NamesInv, Distinct, AfterHistory, Dir
    <2>4. (\E r \in Runs : Start(r)) \/ (\A r \in Runs : stage[r] = "idle" => stage'[r] = "idle")
      BY <1>1 DEF Moves, Goto, TypeOK, Procs, Tidiers
    <2> QED  BY <2>2, <2>3, <2>4
  <1>4. StartTime <= time'
    BY TimePasses, StoreAssumption DEF NamesInv, AfterHistory, TypeOK
  <1> QED  BY <1>2, <1>3, <1>4 DEF NamesInv, AfterHistory

-----------------------------------------------------------------------------
(* What a restore opens                                                    *)

\* From the check to the opening nobody replaces the dump by other bytes: the
\* manifest that was read names the one claim on the stamp.
Checked(d) ==
    /\ stage[d] \in {"verify", "open"} =>
         pick[d].says # Torn /\ Rightful("nightly", pick[d].stamp, pick[d].says)
    /\ stage[d] = "open" =>
         \A f \in files["nightly"] :
            f.stamp = pick[d].stamp /\ f.kind = "dump" => f.by = pick[d].says
    /\ outcome[d] = "ok" => stage[d] = "done"
    /\ outcome[d] = "ok" => pick[d].opened = pick[d].says /\ pick[d].opened # Torn

\* A step is the reader's own, kills it, or leaves it where it is.
LEMMA ReaderSteps ==
    ASSUME TypeOK, [Next]_vars, NEW d \in Readers
    PROVE  \/ Restore(d)
           \/ pick' = pick /\ stage'[d] = "done" /\ outcome'[d] = "crashed"
           \/ pick'[d] = pick[d] /\ stage'[d] = stage[d] /\ outcome'[d] = outcome[d]
  <1> DEFINE Rests == pick'[d] = pick[d] /\ stage'[d] = stage[d] /\ outcome'[d] = outcome[d]
  <1>0. d \in Procs /\ d \notin Tidiers /\ Runs \subseteq Tidiers /\ Keepers \subseteq Tidiers
    BY StoreAssumption DEF Procs, Tidiers
  <1>1. ASSUME NEW r \in Runs, RunBackup(r) \/ Tidy(r) PROVE Rests
    <2>1. r # d
      BY <1>0
    <2>2. CASE Start(r) \/ TakeLock(r) \/ WaitForLock(r) \/ LockRefused(r)
      BY <1>0, <2>1, <2>2 DEF Start, TakeLock, WaitForLock, LockRefused, Goto, Ends, TypeOK,
                              procVars
    <2>3. CASE Produce(r)
      BY <1>0, <2>1, <2>3 DEF Produce, Preflight, BeginPart, FinishDump, FinishArchive,
           BeginManifest, WriteManifest, PutObject, HeadMatches, HeadMismatch, ProduceFails,
           Produced, Goto, TypeOK, procVars
    <2>4. CASE Tidy(r)
      BY <1>0, <2>1, <2>4 DEF Tidy, Scan, PruneOne, LocalPruned, PruneStops, BucketPruned, Report,
           Goto, TypeOK, procVars
    <2> QED  BY <1>1, <2>2, <2>3, <2>4 DEF RunBackup
  <1>2. ASSUME NEW k \in Keepers, Housekeeping(k) PROVE Rests
    <2>1. k # d
      BY <1>0
    <2> QED  BY <1>0, <1>2, <2>1 DEF Housekeeping, KeeperStarts, Tidy, Scan, PruneOne, LocalPruned,
           PruneStops, BucketPruned, Report, Goto, TypeOK, procVars
  <1>3. ASSUME NEW e \in Readers, e # d, Restore(e) PROVE Rests
    BY <1>0, <1>3 DEF Restore, Locate, Selects, Download, LoadManifest, Reads, Verify, Open,
           ReadRefused, Ends, Goto, TypeOK, procVars
  <1>4. ASSUME NEW p \in Procs, Crash(p)
        PROVE  (pick' = pick /\ stage'[d] = "done" /\ outcome'[d] = "crashed") \/ Rests
    BY <1>0, <1>4 DEF Crash, Ends, Goto, TypeOK
  <1>5. CASE Tick \/ ClockGoesWrong \/ ClockCorrected \/ LoseLock \/ UNCHANGED vars
    BY <1>5 DEF Tick, ClockGoesWrong, ClockCorrected, LoseLock, vars, procVars
  <1> QED  BY <1>1, <1>2, <1>3, <1>4, <1>5 DEF Next, Environment

LEMMA NextChecked ==
    ASSUME TypeOK, NamesInv, [Next]_vars, ~SharedStamps, NEW d \in Readers, Checked(d),
           "cutTransfer" \in Faults => \A e \in Readers : e = d
    PROVE  Checked(d)'
  <1>0. StampsStay /\ d \in Procs /\ "nightly" \in Places /\ "bucket" \in Places
    BY StepMoves, AllStampsStay DEF Procs, Places
  <1>1. \A place, s, c : Rightful(place, s, c) => Rightful(place, s, c)'
    BY <1>0, RightfulStays
  <1>2. CASE Restore(d)
    <2>0. outcome[d] # "ok"
      BY <1>2 DEF Checked, Restore, Locate, Download, LoadManifest, Verify, Open, ReadRefused,
                  Reading
    <2>1. CASE Locate(d) \/ Download(d) \/ ReadRefused(d)
      <3>1. stage'[d] \in {"download", "load", "done"} /\ outcome'[d] \in {outcome[d], "refused"}
        BY <1>0, <2>1 DEF Locate, Selects, Download, ReadRefused, Ends, Goto, TypeOK, procVars
      <3> QED  BY <2>0, <3>1 DEF Checked
    <2>2. CASE LoadManifest(d)
      <3>1. PICK c : Reads(d, c) /\ (c # Torn => Rightful("nightly", pick[d].stamp, c))
        <4>1. \A place \in {"nightly", "bucket"} : Has(files[place], pick[d].stamp, "manifest") =>
                 Rightful("nightly", pick[d].stamp,
                          Content(files[place], pick[d].stamp, "manifest"))
          BY <1>0 DEF Has, Content, NamesInv, Owned, Rightful
        <4> QED  BY <2>2, <4>1 DEF LoadManifest, Fetched
      <3>2. /\ pick'[d].says = c /\ pick'[d].stamp = pick[d].stamp
            /\ \/ c = Torn /\ stage'[d] = "done" /\ outcome'[d] = "refused"
               \/ c # Torn /\ stage'[d] = "verify" /\ outcome'[d] = outcome[d]
        BY <1>0, <3>1 DEF Reads, Ends, Goto, TypeOK
      <3>3. c # Torn => Rightful("nightly", pick[d].stamp, pick[d].says)'
        BY <1>0, <3>1, <3>2 DEF Rightful, StampsStay
      <3> QED  BY <2>0, <3>2, <3>3 DEF Checked
    <2>3. CASE Verify(d)
      <3>1. /\ pick' = pick /\ files' = files /\ outcome' = outcome
            /\ stage[d] = "verify" /\ stage'[d] = "open"
        BY <1>0, <2>3 DEF Verify, Goto, TypeOK, storeVars, procVars
      <3>2. \A f \in files["nightly"] :
               f.stamp = pick[d].stamp /\ f.kind = "dump" => f.by = pick[d].says
        BY <1>0, <2>3 DEF Verify, Matches, Content, Has, NamesInv, OneFile
      <3> QED  BY <1>1, <2>0, <3>1, <3>2 DEF Checked
    <2>4. CASE Open(d)
      <3>1. /\ pick' = [pick EXCEPT ![d].opened = Content(files["nightly"], pick[d].stamp, "dump")]
            /\ stage[d] = "open" /\ stage'[d] = "done"
        BY <1>0, <2>4 DEF Open, Ends, Goto, TypeOK
      <3>2. Content(files["nightly"], pick[d].stamp, "dump") = pick[d].says /\ pick[d].says # Torn
        BY <2>4, <3>1 DEF Open, Has, Content, Checked
      <3>3. pick'[d].opened = pick[d].says /\ pick'[d].says = pick[d].says
        BY <3>1, <3>2 DEF TypeOK
      <3> QED  BY <3>1, <3>2, <3>3 DEF Checked
    <2> QED  BY <1>2, <2>1, <2>2, <2>3, <2>4 DEF Restore
  <1>3. CASE pick' = pick /\ stage'[d] = "done" /\ outcome'[d] = "crashed"
    BY <1>3 DEF Checked
  <1>4. CASE pick'[d] = pick[d] /\ stage'[d] = stage[d] /\ outcome'[d] = outcome[d]
    <2>1. stage[d] = "open" =>
            \A f \in files'["nightly"] :
               f.stamp = pick[d].stamp /\ f.kind = "dump" => f.by = pick[d].says
      <3>0. SUFFICES ASSUME stage[d] = "open"
                     PROVE  \A f \in files'["nightly"] :
                              f.stamp = pick[d].stamp /\ f.kind = "dump" => f.by = pick[d].says
        OBVIOUS
      <3>1. \A f \in files["nightly"] :
               f.stamp = pick[d].stamp /\ f.kind = "dump" => f.by = pick[d].says
        BY <3>0 DEF Checked
      <3>2. CASE files' = files
        BY <3>1, <3>2
      <3>3. ASSUME NEW place \in Places, NEW s \in Nat, NEW k \in ArtifactKinds, Removes(place, s, k)
            PROVE  files'["nightly"] \subseteq files["nightly"]
        BY <1>0, <3>3, RemovesOne
      <3>4. ASSUME NEW place \in Places, NEW s \in Nat, NEW k \in ArtifactKinds, NEW c \in Contents,
                   Writes(place, s, k, c), Rightful(place, s, c), Full(k, c),
                   place = "nightly" /\ k = "dump" /\ c = Torn =>
                      \E e \in Readers : stage[e] = "download",
                   NEW f \in files'["nightly"], f.stamp = pick[d].stamp, f.kind = "dump"
            PROVE  f.by = pick[d].says
        <4>1. CASE ~(place = "nightly" /\ k = "dump" /\ s = pick[d].stamp)
          <5>1. ~("nightly" = place /\ f.stamp = s /\ f.kind = k)
            BY <3>4, <4>1
          <5>2. \A q \in Places : \A g \in files'[q] :
                  IF q = place /\ g.stamp = s /\ g.kind = k THEN g.by = c ELSE g \in files[q]
            BY <1>0, <3>4, WritesOne
          <5>3. f \in files["nightly"]
            BY <3>4, <5>1, <5>2 DEF Places
          <5> QED  BY <3>1, <3>4, <5>3
        <4>2. CASE place = "nightly" /\ k = "dump" /\ s = pick[d].stamp
          <5>1. c # Torn
            <6>1. c = Torn => "cutTransfer" \in Faults
              BY <3>4, <4>2 DEF Full
            <6>2. c = Torn => \E e \in Readers : stage[e] = "download"
              BY <3>4, <4>2
            <6> QED  BY <3>0, <6>1, <6>2
          <5>2. c = pick[d].says
            BY <3>0, <3>4, <4>2, <5>1, OneClaim DEF Checked
          <5>3. /\ f \in files'[place] /\ f.stamp = s /\ f.kind = k
                /\ Writes(place, s, k, c)
            BY <3>4, <4>2
          <5>4. \A g \in files'[place] : g.stamp = s /\ g.kind = k => g.by = c
            BY <5>3, WritesOne
          <5> QED  BY <5>2, <5>3, <5>4
        <4> QED  BY <4>1, <4>2
      <3> QED  BY <3>1, <3>2, <3>3, <3>4, FileSteps DEF FilesChange
    <2> QED  BY <1>1, <1>4, <2>1 DEF Checked
  <1> QED  BY <1>2, <1>3, <1>4, ReaderSteps

\* No restore and no drill reads a dump that is not the one its manifest was
\* written for, although none of them holds the lock.  Two readers that download
\* the same set over a bucket that cuts transfers are excluded: one may replace
\* what the other has just checked.
THEOREM OpensVerified ==
    ASSUME ~SharedStamps,
           "cutTransfer" \in Faults => \A d, e \in Readers : d = e
    PROVE  Spec => []OpensWhatWasVerified
  <1> DEFINE Inv == TypeOK /\ NamesInv /\ \A d \in Readers : Checked(d)
  <1>1. Init => Inv
    <2>1. Init => \A d \in Readers : Checked(d)
      BY DEF Init, Checked, Procs
    <2> QED  BY <2>1, InitTypeOK, InitNames
  <1>2. Inv /\ [Next]_vars => Inv'
    <2> SUFFICES ASSUME Inv, [Next]_vars PROVE Inv'
      OBVIOUS
    <2>1. TypeOK' /\ NamesInv'
      BY NextTypeOK, NextNames
    <2>2. ASSUME NEW d \in Readers PROVE Checked(d)'
      BY NextChecked
    <2> QED  BY <2>1, <2>2
  <1>3. Inv => OpensWhatWasVerified
    BY DEF OpensWhatWasVerified, Checked
  <1> QED  BY <1>1, <1>2, <1>3, PTL DEF Spec

-----------------------------------------------------------------------------
(* Clocks: what is selected for pruning is older than what is being made     *)

\* A step leaves a run or a keeper where it is, unless it is its own or kills it.
SameRun(r) == /\ copied'[r] = copied[r] /\ fed'[r] = fed[r] /\ retried'[r] = retried[r]
              /\ beat'[r] = beat[r]
Same(p) == /\ stage'[p] = stage[p] /\ started'[p] = started[p] /\ todo'[p] = todo[p]
           /\ outcome'[p] = outcome[p] /\ (p \in Runs => SameRun(p))

LEMMA TidierSteps ==
    ASSUME TypeOK, [Next]_vars, NEW p \in Tidiers
    PROVE  \/ p \in Runs /\ RunBackup(p)
           \/ p \in Keepers /\ Housekeeping(p)
           \/ Crash(p)
           \/ Same(p)
  <1>0. /\ p \in Procs /\ p \notin Readers /\ Runs \subseteq Tidiers /\ Keepers \subseteq Tidiers
        /\ Tidiers \subseteq Procs
    BY StoreAssumption DEF Procs, Tidiers
  <1>1. ASSUME NEW q \in Tidiers, q # p, Tidy(q) PROVE Same(p)
    BY <1>0, <1>1 DEF Tidy, Scan, PruneOne, LocalPruned, PruneStops, BucketPruned, Report,
         Goto, TypeOK, procVars, Same, SameRun
  <1>2. ASSUME NEW r \in Runs, r # p, RunBackup(r) PROVE Same(p)
    <2>1. CASE Start(r) \/ TakeLock(r) \/ WaitForLock(r) \/ LockRefused(r)
      BY <1>0, <1>2, <2>1 DEF Start, TakeLock, WaitForLock, LockRefused, Goto, Ends, TypeOK,
                              procVars, Same, SameRun
    <2>2. CASE Produce(r)
      BY <1>0, <1>2, <2>2 DEF Produce, Preflight, BeginPart, FinishDump, FinishArchive,
           BeginManifest, WriteManifest, PutObject, HeadMatches, HeadMismatch, ProduceFails,
           Produced, Goto, TypeOK, procVars, Same, SameRun
    <2> QED  BY <1>0, <1>1, <1>2, <2>1, <2>2 DEF RunBackup
  <1>3. ASSUME NEW k \in Keepers, k # p, Housekeeping(k) PROVE Same(p)
    <2>1. CASE KeeperStarts(k)
      BY <1>0, <1>3, <2>1 DEF KeeperStarts, Goto, TypeOK, Same, SameRun
    <2> QED  BY <1>0, <1>1, <1>3, <2>1 DEF Housekeeping
  <1>4. ASSUME NEW d \in Readers, Restore(d) PROVE Same(p)
    BY <1>0, <1>4 DEF Restore, Locate, Selects, Download, LoadManifest, Reads, Verify, Open,
           ReadRefused, Ends, Goto, TypeOK, procVars, Same, SameRun
  <1>5. ASSUME NEW q \in Procs, q # p, Crash(q) PROVE Same(p)
    BY <1>0, <1>5 DEF Crash, Ends, Goto, TypeOK, Same, SameRun
  <1>6. CASE Tick \/ ClockGoesWrong \/ ClockCorrected \/ LoseLock \/ UNCHANGED vars
    BY <1>6 DEF Tick, ClockGoesWrong, ClockCorrected, LoseLock, vars, procVars, Same, SameRun
  <1> QED  BY <1>1, <1>2, <1>3, <1>4, <1>5, <1>6 DEF Next, Environment

\* A run is under way until it has produced its set.
UnderWay == {"lock", "wait"} \union Producing

Clocked(p) ==
    /\ started[p] <= time
    /\ p \in Runs /\ stage[p] \in UnderWay => time <= started[p] + RetentionDays
    /\ \A n \in todo[p] : n.stamp + Retained(p) < started[p]
    /\ stage[p] = "idle" => todo[p] = {}
    /\ stage[p] \in {"scanBucket", "pruneBucket"} => UsesBucket(p)

ClockInv == skew = 0 /\ \A p \in Tidiers : Clocked(p)

LEMMA InitClock == Init => ClockInv
  <1> SUFFICES ASSUME Init PROVE ClockInv
    OBVIOUS
  <1>1. skew = 0 /\ time \in Nat
    BY StoreAssumption DEF Init
  <1>2. \A p \in Tidiers : started[p] = 0 /\ todo[p] = {} /\ stage[p] = "idle"
    BY DEF Init, Procs
  <1>3. "idle" \notin UnderWay
    BY DEF UnderWay, Producing
  <1> QED  BY <1>1, <1>2, <1>3 DEF ClockInv, Clocked, Tidiers

LEMMA ClockStaysRight ==
    ASSUME TypeOK, skew = 0, [Next]_vars, "clockWrong" \notin Faults
    PROVE  skew' = 0
  BY ClockUntouched DEF Environment, Tick, ClockGoesWrong, ClockCorrected, LoseLock, Crash

LEMMA ExpiredAreOld ==
    ASSUME NEW p, NEW place, NEW n \in Expired(p, place)
    PROVE  /\ n.stamp + Retained(p) < started[p]
           /\ \E f \in Candidates(p, place) : n.stamp = f.stamp /\ n.kind = f.kind
                  /\ f.stamp \notin NewestCompleteStamps(Candidates(p, place), FloorSets)
  BY DEF Expired, NamesOf, SelectExpired

LEMMA NextClock ==
    ASSUME TypeOK, ClockInv, [Next]_vars, "clockWrong" \notin Faults
    PROVE  ClockInv'
  <1>1. skew' = 0
    BY ClockStaysRight DEF ClockInv
  <1>2. ASSUME NEW p \in Tidiers PROVE Clocked(p)'
    <2>9. time \in Nat /\ started[p] \in Nat /\ RetentionDays \in Nat
      BY StoreAssumption DEF TypeOK
    <2>0. p \in Procs /\ Clocked(p) /\ Now = time
      BY <2>9 DEF Procs, ClockInv, Now, Tidiers
    <2>1. CASE Same(p)
      <3>1. /\ stage'[p] = stage[p] /\ started'[p] = started[p] /\ todo'[p] = todo[p]
        BY <2>1 DEF Same
      <3>2. CASE time' = time
        BY <2>0, <3>1, <3>2 DEF Clocked
      <3>3. CASE Tick /\ time' = time + 1
        <4>1. p \in Runs /\ stage[p] \in UnderWay => time < started[p] + RetentionDays
          BY <3>3 DEF Tick, InTime, UnderWay
        <4>2. p \in Runs /\ stage'[p] \in UnderWay => time' <= started'[p] + RetentionDays
          BY <2>9, <3>1, <3>3, <4>1 
        <4>3. started'[p] <= time'
          BY <2>9, <2>0, <3>1, <3>3 DEF Clocked, Tidiers
        <4> QED  BY <2>0, <3>1, <4>2, <4>3 DEF Clocked
      <3> QED  BY <3>2, <3>3, TimePasses
    <2>2. CASE Crash(p)
      <3>1. stage'[p] = "done" /\ started' = started /\ todo' = todo /\ time' = time
        BY <2>0, <2>2 DEF Crash, Ends, Goto, TypeOK
      <3> QED  BY <2>0, <3>1 DEF Clocked, UnderWay, Producing
    <2>3. CASE Tidy(p)
      <3>1. started' = started /\ time' = time
        BY <2>3 DEF Tidy, Scan, PruneOne, LocalPruned, PruneStops, BucketPruned, Report, procVars
      <3>2. \A n \in todo'[p] : n.stamp + Retained(p) < started[p]
        <4>1. CASE Scan(p)
          <5>1. PICK place : todo'[p] = Expired(p, place)
            BY <4>1 DEF Scan, TypeOK
          <5> QED  BY <5>1, ExpiredAreOld
        <4>2. CASE PruneOne(p) \/ LocalPruned(p) \/ PruneStops(p) \/ BucketPruned(p) \/ Report(p)
          <5>1. todo'[p] \subseteq todo[p]
            BY <4>2 DEF PruneOne, LocalPruned, PruneStops, BucketPruned, Report, TypeOK, procVars
          <5> QED  BY <2>0, <5>1 DEF Clocked
        <4> QED  BY <2>3, <4>1, <4>2 DEF Tidy
      <3>3. /\ stage'[p] \notin {"idle"} \union UnderWay
            /\ stage'[p] \in {"scanBucket", "pruneBucket"} => UsesBucket(p)
        BY <2>0, <2>3 DEF Tidy, Scan, PruneOne, LocalPruned, PruneStops, BucketPruned, Report, 
             Goto, AfterLocal, TypeOK, Clocked, UnderWay, Producing
      <3> QED  BY <2>0, <3>1, <3>2, <3>3 DEF Clocked
    <2>4. CASE p \in Runs /\ Start(p)
      <3>1. /\ stage[p] = "idle" /\ stage'[p] = "lock" /\ started'[p] = time /\ todo' = todo
            /\ time' = time
        BY <2>0, <2>4 DEF Start, Goto, TypeOK
      <3>2. started'[p] <= time' /\ time' <= started'[p] + RetentionDays
        BY <2>9, <3>1 
      <3> QED  BY <2>0, <3>1, <3>2 DEF Clocked
    <2>5. CASE p \in Keepers /\ KeeperStarts(p)
      <3>1. /\ stage[p] = "idle" /\ stage'[p] = "scan" /\ started'[p] = time /\ todo' = todo
            /\ time' = time /\ p \notin Runs
        BY <2>0, <2>5, StoreAssumption DEF KeeperStarts, Goto, TypeOK
      <3>2. started'[p] <= time'
        BY <2>9, <3>1 
      <3> QED  BY <2>0, <3>1, <3>2 DEF Clocked
    <2>6. CASE p \in Runs /\ (TakeLock(p) \/ WaitForLock(p) \/ LockRefused(p))
      <3>1. /\ stage[p] # "idle" /\ stage'[p] \in {"preflight", "wait", "done"}
            /\ stage[p] \in UnderWay /\ started' = started /\ todo' = todo /\ time' = time
        BY <2>0, <2>6 DEF TakeLock, WaitForLock, LockRefused, Ends, Goto, TypeOK, UnderWay, procVars
      <3> QED  BY <2>0, <3>1 DEF Clocked
    <2>7. CASE p \in Runs /\ Produce(p)
      <3>1. started' = started /\ todo' = todo /\ time' = time /\ stage[p] \in UnderWay
        BY <2>7 DEF Produce, Preflight, BeginPart, FinishDump, FinishArchive,
             BeginManifest, WriteManifest, PutObject, HeadMatches, HeadMismatch, ProduceFails,
             procVars, UnderWay, Producing
      <3>2. stage'[p] \in Producing \union {"scan"}
        BY <2>0, <2>7 DEF Produce, Preflight, BeginPart, FinishDump, FinishArchive,
             BeginManifest, WriteManifest, PutObject, HeadMatches, HeadMismatch, ProduceFails,
             Goto, TypeOK, Producing
      <3> QED  BY <2>0, <2>7, <3>1, <3>2 DEF Clocked, Producing
    <2> QED  BY <2>1, <2>2, <2>3, <2>4, <2>5, <2>6, <2>7, TidierSteps DEF RunBackup, Housekeeping
  <1> QED  BY <1>1, <1>2 DEF ClockInv

-----------------------------------------------------------------------------
(* The sweep of .part files                                                *)

\* A file that is being written has been touched in this unit of time.
PartsAreFresh == \A r \in Runs : stage[r] \in {"dumping", "archiving"} =>
    \A q \in PartsOf(r) : time <= q.touched

Writing == {"dumping", "archiving"}

EndPart(r) == parts' = parts \ PartsOf(r) /\ stage[r] \in Writing /\ stage'[r] # stage[r]

\* Every way in which the .part files change.
LEMMA PartSteps ==
    ASSUME TypeOK, [Next]_vars
    PROVE  \/ parts' = parts
           \/ \E r \in Runs : BeginPart(r)
           \/ \E r \in Runs : EndPart(r)
           \/ \E p \in Tidiers : parts' = parts \ StaleParts(p)
           \/ Tick
  <1> USE DEF storeVars, procVars
  <1>0. Runs \subseteq Tidiers /\ Keepers \subseteq Tidiers /\ Runs \subseteq Procs
    BY DEF Tidiers, Procs
  <1>1. ASSUME NEW r \in Runs, Produce(r)
        PROVE  \/ parts' = parts \/ BeginPart(r)
               \/ EndPart(r)
    <2>1. CASE FinishDump(r) \/ FinishArchive(r)
      BY <1>0, <2>1 DEF FinishDump, FinishArchive, Goto, TypeOK, Writing, EndPart
    <2>2. CASE ProduceFails(r)
      BY <1>0, <2>2 DEF ProduceFails, Goto, TypeOK, Writing, EndPart
    <2>3. CASE \/ Preflight(r) \/ BeginPart(r) \/ BeginManifest(r) \/ WriteManifest(r)
               \/ PutObject(r) \/ HeadMatches(r) \/ HeadMismatch(r)
      BY <2>3 DEF Preflight, BeginManifest, WriteManifest, PutObject, HeadMatches, HeadMismatch
    <2> QED  BY <1>1, <2>1, <2>2, <2>3 DEF Produce
  <1>2. ASSUME NEW p \in Tidiers, Tidy(p)
        PROVE  parts' = parts \/ parts' = parts \ StaleParts(p)
    BY <1>2 DEF Tidy, Scan, PruneOne, LocalPruned, PruneStops, BucketPruned, Report
  <1>3. ASSUME NEW r \in Runs, Start(r) \/ TakeLock(r) \/ WaitForLock(r) \/ LockRefused(r)
        PROVE  parts' = parts
    BY <1>3 DEF Start, TakeLock, WaitForLock, LockRefused
  <1>4. ASSUME NEW k \in Keepers, KeeperStarts(k) PROVE parts' = parts
    BY <1>4 DEF KeeperStarts
  <1>5. ASSUME NEW d \in Readers, Restore(d) PROVE parts' = parts
    BY <1>5 DEF Restore, Locate, Download, LoadManifest, Verify, Open, ReadRefused
  <1>6. ASSUME NEW p \in Procs, Crash(p) PROVE parts' = parts
    BY <1>6 DEF Crash
  <1>7. CASE ClockGoesWrong \/ ClockCorrected \/ LoseLock \/ UNCHANGED vars
    BY <1>7 DEF ClockGoesWrong, ClockCorrected, LoseLock, vars
  <1> QED  BY <1>0, <1>1, <1>2, <1>3, <1>4, <1>5, <1>6, <1>7
           DEF Next, RunBackup, Housekeeping, Environment

\* A run begins to write by BeginPart only.
LEMMA BeginsToWrite ==
    ASSUME TypeOK, [Next]_vars, NEW r \in Runs, stage'[r] \in Writing
    PROVE  BeginPart(r) \/ (stage[r] = stage'[r] /\ started'[r] = started[r])
  <1>0. r \in Tidiers /\ r \in Procs /\ r \notin Keepers
    BY StoreAssumption DEF Tidiers, Procs
  <1>1. CASE RunBackup(r) /\ ~BeginPart(r)
    <2>1. ~Tidy(r)
      BY <1>0 DEF Tidy, Scan, PruneOne, LocalPruned, PruneStops, BucketPruned, Report, Goto,
           AfterLocal, TypeOK, Writing
    <2>2. ~(Start(r) \/ TakeLock(r) \/ WaitForLock(r) \/ LockRefused(r))
      BY <1>0 DEF Start, TakeLock, WaitForLock, LockRefused, Ends, Goto, TypeOK, Writing
    <2>3. ~(Produce(r) /\ ~BeginPart(r))
      BY <1>0 DEF Produce, Preflight, FinishDump, FinishArchive, BeginManifest,
           WriteManifest, PutObject, HeadMatches, HeadMismatch, ProduceFails, Goto, TypeOK, Writing
    <2> QED  BY <1>1, <2>1, <2>2, <2>3 DEF RunBackup
  <1>2. CASE Crash(r)
    BY <1>0, <1>2 DEF Crash, Ends, Goto, TypeOK, Writing
  <1> QED  BY <1>0, <1>1, <1>2, TidierSteps DEF Same

LEMMA NextParts ==
    ASSUME TypeOK, PartsAreFresh, [Next]_vars
    PROVE  PartsAreFresh'
  <1> SUFFICES ASSUME NEW r \in Runs, stage'[r] \in Writing, NEW q \in PartsOf(r)'
               PROVE  time' <= q.touched
    BY DEF PartsAreFresh, Writing
  <1>0. time \in Nat /\ skew \in Nat
    BY StoreAssumption DEF TypeOK
  <1>1. q \in parts' /\ q.place = Dir(r) /\ q.stamp = started'[r]
    BY DEF PartsOf
  <1>2. CASE Tick
    <2>1. stage' = stage /\ started' = started /\ time' = time + 1
      BY <1>2 DEF Tick, procVars
    <2>2. CASE q \in parts /\ \A w \in Runs : stage[w] \in Writing => q \notin PartsOf(w)
      BY <1>1, <2>1, <2>2 DEF PartsOf
    <2>3. CASE \E o \in parts : q = [o EXCEPT !.touched = Now + 1]
      <3>1. PICK o \in parts : q = [o EXCEPT !.touched = Now + 1]
        BY <2>3
      <3>2. o \in [place : Places, stamp : Nat, touched : Nat]
        BY DEF TypeOK
      <3>3. q.touched = Now + 1
        BY <3>1, <3>2
      <3> QED  BY <1>0, <2>1, <3>3 DEF Now
    <2>4. \A w \in Runs : PartsOf(w) \subseteq parts
      BY DEF PartsOf
    <2> QED  BY <1>1, <1>2, <2>2, <2>3, <2>4 DEF Tick, Writing
  <1>3. CASE ~Tick
    <2>1. time' = time
      BY <1>3, TimePasses
    <2>2. CASE BeginPart(r)
      <3>1. /\ parts' = (parts \ PartsOf(r)) \union
                        {[place |-> Dir(r), stamp |-> started[r], touched |-> Now]}
            /\ started' = started
        BY <2>2 DEF BeginPart, procVars
      <3>2. q = [place |-> Dir(r), stamp |-> started[r], touched |-> Now]
        BY <1>1, <3>1 DEF PartsOf
      <3> QED  BY <1>0, <2>1, <3>2 DEF Now
    <2>3. CASE stage[r] = stage'[r] /\ started'[r] = started[r]
      <3>1. CASE q \in parts
        BY <1>1, <2>1, <2>3, <3>1 DEF PartsAreFresh, PartsOf, Writing
      <3>2. CASE q \notin parts
        <4>1. PICK w \in Runs : BeginPart(w)
          BY <1>1, <1>3, <3>2, PartSteps DEF EndPart
        <4>2. q.touched = Now
          BY <1>1, <3>2, <4>1 DEF BeginPart
        <4> QED  BY <1>0, <2>1, <4>2 DEF Now
      <3> QED  BY <3>1, <3>2
    <2> QED  BY <2>2, <2>3, BeginsToWrite
  <1> QED  BY <1>2, <1>3

LEMMA SweepSpares ==
    ASSUME TypeOK, NamesInv, ClockInv, PartsAreFresh, [Next]_vars, NEW r \in Runs,
           stage[r] \in Writing, stage'[r] = stage[r], PartsOf(r) # {}
    PROVE  PartsOf(r)' # {}
  <1>0. started'[r] = started[r] /\ r \in Procs /\ r \in Tidiers
    BY StepMoves, AllStampsStay DEF StampsStay, Writing, Procs, Tidiers
  <1>1. PICK q : q \in PartsOf(r)
    OBVIOUS
  <1>2. SUFFICES ASSUME q \notin parts' PROVE PartsOf(r)' # {}
    BY <1>0, <1>1 DEF PartsOf
  <1>3. CASE \E w \in Runs : BeginPart(w)
    <2>1. PICK w \in Runs : BeginPart(w)
      BY <1>3
    <2>2. w # r
      BY <1>0, <2>1 DEF BeginPart, Goto, TypeOK, Writing
    <2>3. q \in PartsOf(w)
      BY <1>1, <1>2, <2>1 DEF BeginPart, PartsOf
    <2>4. stage[w] # "idle" /\ stage[r] # "idle"
      BY <2>1 DEF BeginPart, Writing
    <2> QED  BY <1>1, <2>2, <2>3, <2>4 DEF PartsOf, NamesInv, Distinct
  <1>4. CASE \E w \in Runs : EndPart(w)
    <2>1. PICK w \in Runs : EndPart(w)
      BY <1>4
    <2>2. q \in PartsOf(w) /\ w # r
      BY <1>1, <1>2, <2>1 DEF PartsOf, EndPart
    <2> QED  BY <1>1, <2>1, <2>2 DEF PartsOf, NamesInv, Distinct, Writing, EndPart
  <1>5. ASSUME NEW p \in Tidiers, parts' = parts \ StaleParts(p) PROVE FALSE
    <2>1. q \in StaleParts(p)
      BY <1>1, <1>2, <1>5 DEF PartsOf
    <2>2. q.touched + StalePart < started[p] /\ time <= q.touched /\ started[p] <= time
      BY <1>1, <2>1 DEF StaleParts, PartsAreFresh, Writing, ClockInv, Clocked
    <2>3. q.touched \in Nat /\ StalePart \in Nat /\ started[p] \in Nat /\ time \in Nat
      BY <2>1, StoreAssumption DEF StaleParts, TypeOK
    <2> QED  BY <2>2, <2>3
  <1>6. CASE Tick
    <2> DEFINE written == UNION {PartsOf(w) : w \in {v \in Runs : stage[v] \in Writing}}
    <2>1. q \in written
      BY <1>1
    <2>2. q \in [place : Places, stamp : Nat, touched : Nat]
      BY <1>1 DEF PartsOf, TypeOK
    <2>3. {[o EXCEPT !.touched = Now + 1] : o \in written} \subseteq parts'
      BY <1>6 DEF Tick, Writing
    <2>4. [q EXCEPT !.touched = Now + 1] \in parts'
      <3> HIDE DEF written
      <3> QED  BY <2>1, <2>3
    <2> QED  BY <1>0, <1>1, <2>2, <2>4 DEF PartsOf
  <1> QED  BY <1>1, <1>2, <1>3, <1>4, <1>5, <1>6, PartSteps DEF PartsOf

\* The sweep never takes the file a run is writing, neither the sweep of a run
\* that took the lock nor the one at the scheduler's start, which takes none.
\* Both compare the file's age with their own clock, so that one must be right.
THEOREM SweepSpareWork ==
    ASSUME ~SharedStamps, "clockWrong" \notin Faults
    PROVE  Spec => SweepSparesWork
  <1> DEFINE Inv == TypeOK /\ NamesInv /\ ClockInv /\ PartsAreFresh
  <1>1. Init => Inv
    <2>1. Init => PartsAreFresh
      BY DEF Init, PartsAreFresh, PartsOf
    <2> QED  BY <2>1, InitTypeOK, InitNames, InitClock
  <1>2. Inv /\ [Next]_vars => Inv'
    BY NextTypeOK, NextNames, NextClock, NextParts
  <1>3. Inv /\ [Next]_vars =>
          [\A r \in Runs :
             /\ stage[r] \in {"dumping", "archiving"} /\ stage'[r] = stage[r]
             /\ PartsOf(r) # {}
             => PartsOf(r)' # {}]_vars
    BY SweepSpares DEF Writing
  <1> QED  BY <1>1, <1>2, <1>3, PTL DEF Spec, SweepSparesWork
=============================================================================
