------------------------- MODULE LiveRestore_proofs --------------------------
(***************************************************************************)
(* What holds of LiveRestore for every number of restores, backups and     *)
(* services, whatever their options: the lock excludes and the halves of a *)
(* set stay together; and as long as no service connects once the writers  *)
(* have been checked, the restore implements RestorePromise.               *)
(***************************************************************************)
EXTENDS LiveRestore, TLAPS

-----------------------------------------------------------------------------
(* The inductive invariant                                                  *)
(*                                                                          *)
(* The promise is kept because the pre-restore dump is still the database   *)
(* when its set takes its place.  That is so because nothing writes between *)
(* the two: no service is connected (KeptOut), no other restore is at work  *)
(* (LockMeansWork), and an emptied database refuses writes (Emptied).       *)

\* No service is connected from the check on.
KeptOut(r) == stage[r] \in Checked => connected = {}

\* A restore has replaced the database exactly from the step that did.
NotYet(r) ==
    \/ stage[r] \in {"idle", "archive", "writers", "stage", "safety", "pipeline"}
    \/ stage[r] = "cleared" /\ r \notin NoSingleTransaction

Fresh(r) == NotYet(r) => r \notin replaced

Emptied(r) ==
    r \in NoSingleTransaction /\ stage[r] = "cleared" =>
        r \in replaced /\ half /\ db = SetOf(r)

UndoIsCurrent(r) ==
    /\ r \in NoSafetyDump => safety[r] = Nothing
    /\ r \notin NoSafetyDump /\ NotYet(r) /\ stage[r] \in {"pipeline", "cleared"}
         => safety[r] = db

Sound(r) == KeptOut(r) /\ Fresh(r) /\ Emptied(r) /\ UndoIsCurrent(r)

RestoreInv == TypeOK /\ LockMeansWork /\ \A r \in Restores : Sound(r)

-----------------------------------------------------------------------------
LEMMA InitInv == Init => RestoreInv
  <1> SUFFICES ASSUME Init PROVE RestoreInv
    OBVIOUS
  <1> USE RestoreAssumption DEF Init
  <1>1. TypeOK
    <2>1. db \in Content /\ acked \in 0..MaxWrites /\ half \in BOOLEAN
      <3>1. 0 \in 0..MaxWrites
        OBVIOUS
      <3>2. [base |-> Live, writes |-> {}] \in Content
        BY DEF Content
      <3> QED  BY <3>1, <3>2
    <2>2. stage \in [Procs -> Stages] /\ lock \in Procs \union {NoOne}
      BY DEF Stages
    <2>3. \A r \in Restores : stage[r] = "idle"
      BY DEF Procs
    <2> QED  BY <2>1, <2>2, <2>3 DEF TypeOK
  <1>2. LockMeansWork
    BY DEF LockMeansWork, Working, Restoring, Checked, BackingUp, Procs
  <1>3. \A r \in Restores : Sound(r)
    BY DEF Sound, KeptOut, Fresh, Emptied, UndoIsCurrent, NotYet, Checked, Procs
  <1> QED  BY <1>1, <1>2, <1>3 DEF RestoreInv

\* Whatever is left of a staging directory is one, and the others are not touched.
LEMMA DiscardIsLocal ==
    ASSUME NEW r \in Restores, staged \in [Restores -> SUBSET Paths], dirs \subseteq Restores,
           DiscardStage(r) \/ HalfStaged(r)
    PROVE  /\ staged' \in [Restores -> SUBSET Paths] /\ dirs' \subseteq Restores
           /\ \A q \in Restores \ {r} : staged'[q] = staged[q] /\ (q \in dirs' <=> q \in dirs)
  BY DEF DiscardStage, HalfStaged

LEMMA SetIsContent == \A r \in Restores : SetOf(r) \in Content
  BY DEF SetOf, Content

\* The steps of a restore in the lock's and the writers' checks.
LEMMA CheckTypeOK ==
    ASSUME TypeOK, NEW r \in Restores,
           \/ Acquire(r) \/ RequireReadableArchive(r) \/ RequireNoWriters(r)
           \/ TerminateConnections(r) \/ StageUploads(r)
    PROVE  TypeOK'
  <1> USE DEF TypeOK, Goto, Ends, Stages, Working, Restoring, Checked, Procs, dataVars, filesVars
  <1>1. CASE Acquire(r)
    BY <1>1 DEF Acquire
  <1>2. CASE RequireReadableArchive(r)
    BY <1>2 DEF RequireReadableArchive
  <1>3. CASE RequireNoWriters(r)
    BY <1>3 DEF RequireNoWriters
  <1>4. CASE TerminateConnections(r)
    <2>1. PICK gone \in SUBSET Queued :
             /\ stage' = [p \in Procs |-> IF p = r THEN "stage"
                                          ELSE IF p \in gone THEN "done" ELSE stage[p]]
             /\ outcome' = [p \in Procs |-> IF p \in gone THEN "failed" ELSE outcome[p]]
      BY <1>4 DEF TerminateConnections
    <2>2. stage' \in [Procs -> Stages]
      BY <2>1
    <2>3. outcome' \in [Procs -> {"none", "ok", "failed", "refused", "kept-stage", "crashed"}]
      BY <2>1
    <2>4. \A q \in Restores : stage'[q] \in {"pipeline", "cleared"} => stage[q] = stage'[q]
      BY <2>1
    <2>5. UNCHANGED <<lock, db, half, acked, safety, replaced, uploads, staged, dirs>>
            /\ connected' = {}
      BY <1>4 DEF TerminateConnections
    <2> QED  BY <2>2, <2>3, <2>4, <2>5
  <1>5. CASE StageUploads(r)
    BY <1>5 DEF StageUploads
  <1> QED  BY <1>1, <1>2, <1>3, <1>4, <1>5

\* Its steps from the pre-restore dump to the end.
LEMMA ReplaceTypeOK ==
    ASSUME TypeOK, NEW r \in Restores,
           \/ TakeSafetyDump(r) \/ Fails(r) \/ Clear(r) \/ Load(r) \/ LoadUnreported(r)
           \/ PromoteOne(r) \/ Installed(r) \/ InstallFails(r)
    PROVE  TypeOK'
  <1> USE DEF TypeOK, Goto, Ends, Stages, Working, Restoring, Checked, Procs, dataVars, filesVars
  <1>0. SetOf(r) \in Content
    BY SetIsContent
  <1>1. CASE TakeSafetyDump(r)
    <2>1. db # Nothing
      BY RestoreAssumption
    <2> QED  BY <1>1, <2>1 DEF TakeSafetyDump
  <1>2. CASE Fails(r)
    <2>1. staged' \in [Restores -> SUBSET Paths] /\ dirs' \subseteq Restores
      BY <1>2, DiscardIsLocal DEF Fails
    <2>2. /\ stage' = [stage EXCEPT ![r] = "done"]
          /\ \E o \in {"failed", "refused"} : outcome' = [outcome EXCEPT ![r] = o]
          /\ lock' = IF lock = r THEN NoOne ELSE lock
          /\ UNCHANGED <<connected, db, half, acked, safety, replaced, uploads>>
      BY <1>2 DEF Fails
    <2> QED  BY <2>1, <2>2
  <1>3. CASE Clear(r)
    BY <1>0, <1>3 DEF Clear, Replaces
  <1>4. CASE Load(r)
    BY <1>0, <1>4 DEF Load, Replaces
  <1>5. CASE LoadUnreported(r)
    <2>1. /\ stage' = [stage EXCEPT ![r] = "done"]
          /\ outcome' = [outcome EXCEPT ![r] = "failed"]
          /\ lock' = IF lock = r THEN NoOne ELSE lock
          /\ db' = SetOf(r) /\ half' = FALSE /\ replaced' = replaced \union {r}
          /\ stage[r] = "cleared"
          /\ UNCHANGED <<connected, acked, safety, uploads>>
      BY <1>5 DEF LoadUnreported, Replaces
    <2>2. staged' \in [Restores -> SUBSET Paths] /\ dirs' \subseteq Restores
      BY <1>5, DiscardIsLocal DEF LoadUnreported
    <2> QED  BY <1>0, <2>1, <2>2
  <1>6. CASE PromoteOne(r)
    <2>1. PICK f \in staged[r] : uploads' = [uploads EXCEPT ![f] = r]
                                 /\ staged' = [staged EXCEPT ![r] = @ \ {f}]
      BY <1>6 DEF PromoteOne
    <2>2. f \in Paths
      OBVIOUS
    <2>3. uploads' \in [Paths -> Restores \union {Live}] /\ staged' \in [Restores -> SUBSET Paths]
      BY <2>1, <2>2
    <2>4. UNCHANGED <<lock, stage, connected, db, half, acked, safety, replaced, dirs, outcome>>
      BY <1>6 DEF PromoteOne
    <2> HIDE DEF Stages, Working, Restoring, Checked
    <2> QED  BY <2>3, <2>4
  <1>7. CASE Installed(r)
    BY <1>7 DEF Installed
  <1>8. CASE InstallFails(r)
    BY <1>8 DEF InstallFails
  <1> QED  BY <1>1, <1>2, <1>3, <1>4, <1>5, <1>6, <1>7, <1>8

LEMMA BackupTypeOK ==
    ASSUME TypeOK, NEW b \in Backups, Backup(b)
    PROVE  TypeOK'
  <1> USE RestoreAssumption DEF TypeOK, Goto, Ends, Stages, Working, BackingUp, Procs,
          dataVars, filesVars
  <1>1. CASE Ask(b)
    BY <1>1 DEF Ask
  <1>2. CASE Dump(b)
    BY <1>2 DEF Dump
  <1>3. CASE Archive(b)
    BY <1>3 DEF Archive
  <1>4. CASE BackupFails(b)
    BY <1>4 DEF BackupFails
  <1> QED  BY <1>1, <1>2, <1>3, <1>4 DEF Backup

LEMMA OthersTypeOK ==
    ASSUME TypeOK,
           \/ \E w \in Writers : Connect(w) \/ Disconnect(w)
           \/ Write
           \/ \E p \in Procs : Crash(p)
           \/ UNCHANGED vars
    PROVE  TypeOK'
  <1> USE DEF TypeOK, dataVars, filesVars
  <1>1. CASE \E w \in Writers : Connect(w) \/ Disconnect(w)
    BY <1>1 DEF Connect, Disconnect
  <1>2. CASE Write
    <2>1. acked' = acked + 1 /\ acked < MaxWrites /\ acked \in 0..MaxWrites
      BY <1>2 DEF Write
    <2>2. acked + 1 \in 1..MaxWrites /\ acked' \in 0..MaxWrites
      <3> HIDE DEF TypeOK
      <3> QED  BY <2>1, RestoreAssumption
    <2>3. db' \in Content
      BY <1>2, <2>2 DEF Write, Content
    <2> HIDE DEF TypeOK
    <2>4. UNCHANGED <<lock, stage, connected, half, safety, replaced, filesVars, outcome>>
      BY <1>2 DEF Write
    <2> QED  BY <2>2, <2>3, <2>4 DEF TypeOK
  <1>3. ASSUME NEW p \in Procs, Crash(p) PROVE TypeOK'
    <2>1. staged' \in [Restores -> SUBSET Paths] /\ dirs' \subseteq Restores
      BY <1>3, DiscardIsLocal DEF Crash
    <2>2. /\ stage' = [stage EXCEPT ![p] = "done"] /\ outcome' = [outcome EXCEPT ![p] = "crashed"]
          /\ lock' = IF lock = p THEN NoOne ELSE lock
          /\ UNCHANGED <<connected, db, half, acked, safety, replaced, uploads>>
      BY <1>3 DEF Crash, Ends, Goto
    <2> QED  BY <1>3, <2>1, <2>2 DEF Stages, Procs
  <1>4. CASE UNCHANGED vars
    BY <1>4 DEF vars
  <1> QED  BY <1>1, <1>2, <1>3, <1>4

LEMMA NextTypeOK == TypeOK /\ [Next]_vars => TypeOK'
  BY CheckTypeOK, ReplaceTypeOK, BackupTypeOK, OthersTypeOK DEF Next, Restore

\* The state is well formed, and no restore gets past its safety dump without one.
THEOREM TypeCorrect == Spec => []TypeOK
  BY InitInv, NextTypeOK, PTL DEF Spec, RestoreInv

-----------------------------------------------------------------------------
(* The lock *)

LEMMA StaysPut ==
    ASSUME TypeOK, LockMeansWork, NEW p \in Procs, NEW s, Goto(p, s), lock' = lock,
           s \in Working <=> stage[p] \in Working
    PROVE  LockMeansWork'
  BY DEF LockMeansWork, Goto, TypeOK

LEMMA Takes ==
    ASSUME TypeOK, LockMeansWork, NEW p \in Procs, NEW s \in Working, Goto(p, s),
           lock = NoOne, lock' = p
    PROVE  LockMeansWork'
  <1>1. NoOne \notin Procs
    BY RestoreAssumption
  <1> QED  BY <1>1 DEF LockMeansWork, Goto, TypeOK

LEMMA Leaves ==
    ASSUME TypeOK, LockMeansWork, NEW p \in Procs, NEW o, Ends(p, o)
    PROVE  LockMeansWork'
  <1>1. NoOne \notin Procs /\ "done" \notin Working
    BY RestoreAssumption DEF Working, Restoring, Checked, BackingUp
  <1>2. stage' = [stage EXCEPT ![p] = "done"] /\ lock' = IF lock = p THEN NoOne ELSE lock
    BY DEF Ends, Goto
  <1> QED  BY <1>1, <1>2 DEF LockMeansWork, TypeOK

LEMMA RestoreLockMeansWork ==
    ASSUME TypeOK, LockMeansWork, NEW r \in Restores, Restore(r)
    PROVE  LockMeansWork'
  <1>0. r \in Procs
    BY DEF Procs
  <1>1. CASE Acquire(r)
    <2>1. "archive" \in Working
      BY DEF Working, Restoring
    <2>2. \/ lock = NoOne /\ lock' = r /\ Goto(r, "archive")
          \/ Ends(r, "refused")
      BY <1>1 DEF Acquire
    <2> QED  BY <1>0, <2>1, <2>2, Takes, Leaves
  <1>2. CASE RequireReadableArchive(r) \/ RequireNoWriters(r) \/ StageUploads(r)
               \/ TakeSafetyDump(r) \/ Clear(r) \/ Load(r)
    <2>1. lock' = lock /\ stage[r] \in Working
      BY <1>2 DEF RequireReadableArchive, RequireNoWriters, StageUploads, TakeSafetyDump,
                  Clear, Load, Working, Restoring, Checked
    <2>2. \E s \in Working : Goto(r, s)
      BY <1>2 DEF RequireReadableArchive, RequireNoWriters, StageUploads, TakeSafetyDump,
                  Clear, Load, Working, Restoring, Checked
    <2> QED  BY <1>0, <2>1, <2>2, StaysPut
  <1>3. CASE TerminateConnections(r)
    <2>1. PICK gone \in SUBSET Queued :
             stage' = [p \in Procs |-> IF p = r THEN "stage"
                                       ELSE IF p \in gone THEN "done" ELSE stage[p]]
      BY <1>3 DEF TerminateConnections
    <2>2. \A p \in Procs : stage'[p] \in Working <=> stage[p] \in Working
      <3>1. stage[r] \in Working /\ "stage" \in Working
              /\ "done" \notin Working /\ "wait" \notin Working
        BY <1>3 DEF TerminateConnections, Working, Restoring, Checked, BackingUp
      <3> QED  BY <2>1, <3>1 DEF Queued
    <2> QED  BY <1>3, <2>2 DEF TerminateConnections, LockMeansWork
  <1>4. CASE Fails(r) \/ LoadUnreported(r) \/ Installed(r) \/ InstallFails(r)
    <2>1. \E o : Ends(r, o)
      BY <1>4 DEF Fails, LoadUnreported, Installed, InstallFails
    <2> QED  BY <1>0, <2>1, Leaves
  <1>5. CASE PromoteOne(r)
    BY <1>5 DEF PromoteOne, LockMeansWork
  <1> QED  BY <1>1, <1>2, <1>3, <1>4, <1>5 DEF Restore

LEMMA BackupLockMeansWork ==
    ASSUME TypeOK, LockMeansWork, NEW b \in Backups, Backup(b)
    PROVE  LockMeansWork'
  <1>0. /\ b \in Procs
        /\ "dump" \in Working /\ "tar" \in Working
        /\ "wait" \notin Working /\ "idle" \notin Working
    BY DEF Procs, Working, Restoring, Checked, BackingUp
  <1>1. CASE Ask(b)
    <2>1. \/ lock = NoOne /\ lock' = b /\ Goto(b, "dump")
          \/ lock' = lock /\ Goto(b, "wait")
      BY <1>1 DEF Ask
    <2>2. stage[b] \notin Working
      BY <1>0, <1>1 DEF Ask
    <2> QED  BY <1>0, <2>1, <2>2, Takes, StaysPut
  <1>2. CASE Dump(b)
    BY <1>0, <1>2, StaysPut DEF Dump
  <1>3. CASE Archive(b) \/ BackupFails(b)
    BY <1>0, <1>3, Leaves DEF Archive, BackupFails
  <1> QED  BY <1>1, <1>2, <1>3 DEF Backup

LEMMA NextLockMeansWork == TypeOK /\ LockMeansWork /\ [Next]_vars => LockMeansWork'
  <1> SUFFICES ASSUME TypeOK, LockMeansWork, [Next]_vars PROVE LockMeansWork'
    OBVIOUS
  <1>1. ASSUME NEW w \in Writers, Connect(w) \/ Disconnect(w) PROVE LockMeansWork'
    BY <1>1 DEF Connect, Disconnect, LockMeansWork
  <1>2. CASE Write
    BY <1>2 DEF Write, LockMeansWork
  <1>3. ASSUME NEW p \in Procs, Crash(p) PROVE LockMeansWork'
    BY <1>3, Leaves DEF Crash
  <1>4. CASE UNCHANGED vars
    BY <1>4 DEF vars, LockMeansWork
  <1> QED  BY <1>1, <1>2, <1>3, <1>4, RestoreLockMeansWork, BackupLockMeansWork DEF Next

\* A backup and a restore, or two of either, are never at work on the database
\* together, and whoever works holds the lock.
THEOREM LockCorrect == Spec => []LockMeansWork
  <1>1. Init => TypeOK /\ LockMeansWork
    BY InitInv DEF RestoreInv
  <1>2. TypeOK /\ LockMeansWork /\ [Next]_vars => (TypeOK /\ LockMeansWork)'
    BY NextTypeOK, NextLockMeansWork
  <1> QED  BY <1>1, <1>2, PTL DEF Spec

-----------------------------------------------------------------------------
(* Nothing comes between the pre-restore dump and the restore *)

\* A restore that is not at work stays sound whatever the one that is does.
LEMMA IdleSound ==
    ASSUME NEW q \in Restores, Sound(q), stage[q] \notin Working, stage'[q] = stage[q],
           safety'[q] = safety[q], q \in replaced' => q \in replaced
    PROVE  Sound(q)'
  <1>1. "pipeline" \in Working /\ "cleared" \in Working /\ Checked \subseteq Working
    BY DEF Working, Restoring, Checked
  <1> QED  BY <1>1 DEF Sound, KeptOut, Fresh, Emptied, UndoIsCurrent, NotYet

\* So does one that a step does not concern.
LEMMA SameSound ==
    ASSUME NEW q \in Restores, Sound(q), stage'[q] = stage[q],
           UNCHANGED <<db, half, safety, replaced>>, stage[q] \in Checked => connected' = {}
    PROVE  Sound(q)'
  BY DEF Sound, KeptOut, Fresh, Emptied, UndoIsCurrent, NotYet

\* And one that ends.
LEMMA DoneSound ==
    ASSUME NEW q \in Restores, Sound(q), stage'[q] = "done", safety' = safety
    PROVE  Sound(q)'
  BY DEF Sound, KeptOut, Fresh, Emptied, UndoIsCurrent, NotYet, Checked

\* Two restores are not at work together.
LEMMA OthersIdle ==
    ASSUME LockMeansWork, NEW r \in Restores, stage[r] \in Working,
           NEW q \in Restores \ {r}
    PROVE  stage[q] \notin Working
  BY DEF LockMeansWork, Procs

\* What a step of a restore leaves alone of the others.
LEMMA RestoreIsLocal ==
    ASSUME TypeOK, NEW r \in Restores, Restore(r), NEW q \in Restores \ {r}
    PROVE  /\ stage'[q] = stage[q] /\ safety'[q] = safety[q]
           /\ q \in replaced' => q \in replaced
  <1>0. r \in Procs /\ q \in Procs /\ q \notin Backups
    BY RestoreAssumption DEF Procs
  <1> USE <1>0 DEF TypeOK, Goto, Ends, dataVars, filesVars
  <1>1. CASE Acquire(r)
    BY <1>1 DEF Acquire
  <1>2. CASE RequireReadableArchive(r) \/ RequireNoWriters(r) \/ StageUploads(r)
    BY <1>2 DEF RequireReadableArchive, RequireNoWriters, StageUploads
  <1>3. CASE TerminateConnections(r)
    BY <1>3 DEF TerminateConnections, Queued
  <1>4. CASE TakeSafetyDump(r)
    BY <1>4 DEF TakeSafetyDump
  <1>5. CASE Fails(r) \/ InstallFails(r) \/ Installed(r) \/ PromoteOne(r)
    BY <1>5 DEF Fails, InstallFails, Installed, PromoteOne
  <1>6. CASE Clear(r) \/ Load(r) \/ LoadUnreported(r)
    BY <1>6 DEF Clear, Load, LoadUnreported, Replaces
  <1> QED  BY <1>1, <1>2, <1>3, <1>4, <1>5, <1>6 DEF Restore

LEMMA RestoreSound ==
    ASSUME TypeOK, NEW r \in Restores, Sound(r), Restore(r)
    PROVE  Sound(r)'
  <1>0. r \in Procs
    BY DEF Procs
  <1> USE <1>0 DEF TypeOK, Goto, Ends, dataVars
  <1>1. CASE Acquire(r)
    <2>1. stage'[r] \in {"archive", "done"} /\ UNCHANGED <<db, half, safety, replaced>>
            /\ stage[r] = "idle"
      BY <1>1 DEF Acquire
    <2> QED  BY <2>1, DoneSound
                DEF Sound, KeptOut, Fresh, Emptied, UndoIsCurrent, NotYet, Checked
  <1>2. CASE RequireReadableArchive(r) \/ StageUploads(r)
    <2>1. /\ UNCHANGED <<db, half, safety, replaced, connected>>
          /\ \/ stage[r] = "archive" /\ stage'[r] = "writers"
             \/ stage[r] = "stage" /\ stage'[r] = "safety"
      BY <1>2 DEF RequireReadableArchive, StageUploads
    <2> QED  BY <2>1 DEF Sound, KeptOut, Fresh, Emptied, UndoIsCurrent, NotYet, Checked
  <1>3. CASE RequireNoWriters(r) \/ TerminateConnections(r)
    <2>1. /\ UNCHANGED <<db, half, safety, replaced>> /\ connected' = {}
          /\ stage[r] = "writers" /\ stage'[r] = "stage"
      BY <1>3 DEF RequireNoWriters, TerminateConnections, OtherSessions
    <2> QED  BY <2>1 DEF Sound, KeptOut, Fresh, Emptied, UndoIsCurrent, NotYet
  <1>4. CASE TakeSafetyDump(r)
    <2>1. /\ UNCHANGED <<db, half, replaced, connected>>
          /\ stage[r] = "safety" /\ stage'[r] = "pipeline"
          /\ safety'[r] = IF r \in NoSafetyDump THEN safety[r] ELSE db
      BY <1>4 DEF TakeSafetyDump
    <2> QED  BY <2>1 DEF Sound, KeptOut, Fresh, Emptied, UndoIsCurrent, NotYet, Checked
  <1>5. CASE Clear(r)
    <2>1. /\ UNCHANGED <<safety, connected>>
          /\ stage[r] = "pipeline" /\ stage'[r] = "cleared"
          /\ IF r \in NoSingleTransaction
               THEN db' = SetOf(r) /\ half' /\ r \in replaced'
               ELSE UNCHANGED <<db, half, replaced>>
      BY <1>5 DEF Clear, Replaces
    <2> QED  BY <2>1 DEF Sound, KeptOut, Fresh, Emptied, UndoIsCurrent, NotYet, Checked, SetOf
  <1>6. CASE Load(r)
    <2>1. /\ UNCHANGED <<safety, connected>>
          /\ stage[r] = "cleared" /\ stage'[r] = "install"
      BY <1>6 DEF Load
    <2> QED  BY <2>1 DEF Sound, KeptOut, Fresh, Emptied, UndoIsCurrent, NotYet, Checked
  <1>7. CASE Fails(r) \/ LoadUnreported(r) \/ Installed(r) \/ InstallFails(r)
    <2>1. stage'[r] = "done" /\ safety' = safety
      BY <1>7 DEF Fails, LoadUnreported, Installed, InstallFails
    <2> QED  BY <2>1, DoneSound
  <1>8. CASE PromoteOne(r)
    BY <1>8, SameSound DEF PromoteOne, Sound, KeptOut
  <1> QED  BY <1>1, <1>2, <1>3, <1>4, <1>5, <1>6, <1>7, <1>8 DEF Restore

\* A restore does not make one that is not at work unsound; only its Acquire is
\* possible while another works, and that refuses.
LEMMA RestoreOthersSound ==
    ASSUME TypeOK, LockMeansWork, NEW r \in Restores, Restore(r),
           NEW q \in Restores \ {r}, Sound(q)
    PROVE  Sound(q)'
  <1>1. CASE Acquire(r)
    <2>1. UNCHANGED <<db, half, safety, replaced, connected>> /\ stage'[q] = stage[q]
      BY <1>1, RestoreIsLocal DEF Acquire, dataVars
    <2> QED  BY <2>1, SameSound DEF Sound, KeptOut
  <1>2. CASE ~Acquire(r)
    <2>1. stage[r] \in Working
      BY <1>2 DEF Restore, RequireReadableArchive, RequireNoWriters, TerminateConnections,
                  StageUploads, TakeSafetyDump, Fails, Clear, Load, LoadUnreported,
                  PromoteOne, Installed, InstallFails, Working, Restoring, Checked
    <2> QED  BY <2>1, OthersIdle, RestoreIsLocal, IdleSound
  <1> QED  BY <1>1, <1>2

\* The steps of the services, of the backups and a crash.
LEMMA OthersSound ==
    ASSUME TypeOK, WritersKeepOut, NEW q \in Restores, Sound(q),
           \/ \E b \in Backups : Backup(b)
           \/ \E w \in Writers : Connect(w) \/ Disconnect(w)
           \/ Write
           \/ \E p \in Procs : Crash(p)
           \/ UNCHANGED vars
    PROVE  Sound(q)'
  <1>0. q \in Procs /\ q \notin Backups
    BY RestoreAssumption DEF Procs
  <1> USE <1>0 DEF TypeOK, Goto, Ends, dataVars, filesVars
  <1>1. ASSUME NEW b \in Backups, Backup(b) PROVE Sound(q)'
    <2>1. stage'[q] = stage[q] /\ UNCHANGED <<db, half, safety, replaced, connected>>
      BY <1>1 DEF Backup, Ask, Dump, Archive, BackupFails
    <2> QED  BY <2>1, SameSound DEF Sound, KeptOut
  <1>2. ASSUME NEW w \in Writers, Connect(w) \/ Disconnect(w) PROVE Sound(q)'
    <2>1. /\ stage'[q] = stage[q] /\ UNCHANGED <<db, half, safety, replaced>>
          /\ stage[q] \in Checked => connected' \subseteq connected
      BY <1>2 DEF Connect, Disconnect
    <2>2. stage[q] \in Checked => connected' = {}
      BY <2>1 DEF Sound, KeptOut
    <2> QED  BY <2>1, <2>2, SameSound
  <1>3. CASE Write
    <2>1. connected # {} /\ stage' = stage /\ UNCHANGED <<connected, safety, replaced>>
      BY <1>3 DEF Write
    <2>2. stage[q] \notin Checked
      BY <2>1 DEF Sound, KeptOut
    <2> QED  BY <2>1, <2>2
                DEF Sound, KeptOut, Fresh, Emptied, UndoIsCurrent, NotYet, Checked
  <1>4. ASSUME NEW p \in Procs, Crash(p) PROVE Sound(q)'
    <2>1. UNCHANGED <<db, half, safety, replaced, connected>> /\ stage'[q] \in {stage[q], "done"}
      BY <1>4 DEF Crash
    <2> QED  BY <2>1, SameSound, DoneSound DEF Sound, KeptOut
  <1>5. CASE UNCHANGED vars
    BY <1>5, SameSound DEF vars, Sound, KeptOut
  <1> QED  BY <1>1, <1>2, <1>3, <1>4, <1>5

LEMMA NextInv ==
    ASSUME WritersKeepOut
    PROVE  RestoreInv /\ [Next]_vars => RestoreInv'
  <1> SUFFICES ASSUME RestoreInv, [Next]_vars, NEW q \in Restores PROVE Sound(q)'
    BY NextTypeOK, NextLockMeansWork DEF RestoreInv
  <1> USE DEF RestoreInv
  <1>1. ASSUME NEW r \in Restores, Restore(r) PROVE Sound(q)'
    BY <1>1, RestoreSound, RestoreOthersSound
  <1>2. CASE \/ \E b \in Backups : Backup(b)
             \/ \E w \in Writers : Connect(w) \/ Disconnect(w)
             \/ Write
             \/ \E p \in Procs : Crash(p)
             \/ UNCHANGED vars
    BY <1>2, OthersSound
  <1> QED  BY <1>1, <1>2 DEF Next

-----------------------------------------------------------------------------
(* The restore implements its promise *)

Kept == [r \in Restores |-> IF r \in replaced THEN safety[r] ELSE Nothing]

USE DEF Kept

LEMMA InitPromise == Init => Promise!Init
  BY DEF Init, Promise!Init

\* The step that gives the database another set is the promised replacement.
LEMMA ReplacesPromise ==
    ASSUME RestoreInv, NEW r \in Restores, r \notin replaced, Replaces(r),
           r \in NoSafetyDump \/ safety[r] = db, UNCHANGED <<acked, safety>>
    PROVE  Promise!Replace(r)
  <1>1. Kept[r] = Nothing /\ db' = SetOf(r) /\ replaced' = replaced \union {r}
    BY DEF Replaces
  <1>2. r \in NoSafetyDump => safety[r] = Nothing
    BY DEF RestoreInv, Sound, UndoIsCurrent
  <1>3. Kept' = [Kept EXCEPT ![r] = IF r \in NoSafetyDump THEN Nothing ELSE db]
    BY <1>1, <1>2
  <1>4. Promise!SetOf(r) = SetOf(r)
    BY DEF SetOf, Promise!SetOf
  <1> QED  BY <1>1, <1>3, <1>4 DEF Promise!Replace

\* A step that changes neither the database nor the dump of a restore that has
\* replaced it is not seen.
LEMMA StutterPromise ==
    ASSUME TypeOK, UNCHANGED <<db, acked, replaced>>,
           \A q \in replaced : safety'[q] = safety[q]
    PROVE  UNCHANGED Promise!Promised
  BY DEF TypeOK, Promise!Promised

LEMMA RestorePromised ==
    ASSUME RestoreInv, NEW r \in Restores, Restore(r)
    PROVE  [Promise!Next]_(Promise!Promised)
  <1>0. TypeOK /\ Sound(r)
    BY DEF RestoreInv
  <1>1. CASE Acquire(r) \/ RequireReadableArchive(r) \/ RequireNoWriters(r)
               \/ TerminateConnections(r) \/ StageUploads(r) \/ Fails(r)
               \/ PromoteOne(r) \/ Installed(r) \/ InstallFails(r)
    <2>1. UNCHANGED <<db, acked, replaced, safety>>
      BY <1>1 DEF Acquire, RequireReadableArchive, RequireNoWriters, TerminateConnections,
                  StageUploads, Fails, PromoteOne, Installed, InstallFails, dataVars
    <2> QED  BY <1>0, <2>1, StutterPromise
  <1>2. CASE TakeSafetyDump(r)
    <2>1. UNCHANGED <<db, acked, replaced>> /\ stage[r] = "safety"
      BY <1>2 DEF TakeSafetyDump, dataVars
    <2>2. r \notin replaced
      <3>1. NotYet(r)
        BY <2>1 DEF NotYet
      <3> QED  BY <1>0, <3>1 DEF Sound, Fresh
    <2>3. \A q \in Restores \ {r} : safety'[q] = safety[q]
      BY <1>0, <1>2 DEF TakeSafetyDump, TypeOK
    <2> QED  BY <1>0, <2>1, <2>2, <2>3, StutterPromise DEF TypeOK
  <1>3. CASE Clear(r) \/ Load(r) \/ LoadUnreported(r)
    <2>1. UNCHANGED <<acked, safety>>
      BY <1>3 DEF Clear, Load, LoadUnreported
    <2>2. CASE NotYet(r) /\ Replaces(r)
      <3>1. stage[r] \in {"pipeline", "cleared"}
        BY <1>3 DEF Clear, Load, LoadUnreported
      <3>2. r \notin replaced /\ (r \in NoSafetyDump \/ safety[r] = db)
        BY <1>0, <2>2, <3>1 DEF Sound, Fresh, UndoIsCurrent
      <3> QED  BY <2>1, <2>2, <3>2, ReplacesPromise DEF Promise!Next
    <2>3. CASE ~NotYet(r)
      <3>1. stage[r] = "cleared" /\ r \in NoSingleTransaction /\ Replaces(r)
        <4>1. ~Clear(r)
          BY <2>3 DEF NotYet, Clear
        <4>2. stage[r] = "cleared" /\ Replaces(r)
          BY <1>3, <4>1 DEF Load, LoadUnreported
        <4> QED  BY <2>3, <4>2 DEF NotYet
      <3>2. r \in replaced /\ db = SetOf(r)
        BY <1>0, <3>1 DEF Sound, Emptied
      <3>3. UNCHANGED <<db, replaced>>
        BY <3>1, <3>2 DEF Replaces, SetOf
      <3> QED  BY <1>0, <2>1, <3>3, StutterPromise
    <2>4. CASE ~Replaces(r)
      <3>1. UNCHANGED <<db, replaced>>
        BY <1>3, <2>4 DEF Clear, Load, LoadUnreported
      <3> QED  BY <1>0, <2>1, <3>1, StutterPromise
    <2> QED  BY <2>2, <2>3, <2>4
  <1> QED  BY <1>1, <1>2, <1>3 DEF Restore

LEMMA NextPromise == RestoreInv /\ [Next]_vars => [Promise!Next]_(Promise!Promised)
  <1> SUFFICES ASSUME RestoreInv, [Next]_vars PROVE [Promise!Next]_(Promise!Promised)
    OBVIOUS
  <1>1. CASE Write
    <2>1. UNCHANGED <<safety, replaced>>
      BY <1>1 DEF Write
    <2>2. Promise!Write
      BY <1>1, <2>1 DEF Write, Promise!Write
    <2> QED  BY <2>2 DEF Promise!Next
  <1>2. CASE (\E b \in Backups : Backup(b)) \/ (\E p \in Procs : Crash(p))
               \/ (\E w \in Writers : Connect(w) \/ Disconnect(w)) \/ UNCHANGED vars
    <2>1. UNCHANGED <<db, acked, replaced, safety>>
      BY <1>2 DEF Backup, Ask, Dump, Archive, BackupFails, Crash, Connect, Disconnect,
                  vars, dataVars
    <2> QED  BY <2>1, StutterPromise DEF RestoreInv
  <1> QED  BY <1>1, <1>2, RestorePromised DEF Next

\* A live restore, with its lock, checks, staging, transaction and crashes, does
\* what RestorePromise says, as long as nobody connects behind its check.
THEOREM ImplementsPromise ==
    ASSUME WritersKeepOut
    PROVE  Spec => KeepsPromise
  <1>1. Init => RestoreInv /\ Promise!Init
    BY InitInv, InitPromise
  <1>2. RestoreInv /\ [Next]_vars => RestoreInv'
    BY NextInv
  <1>3. RestoreInv /\ [Next]_vars => [Promise!Next]_(Promise!Promised)
    BY NextPromise
  <1> QED  BY <1>1, <1>2, <1>3, PTL DEF Spec, KeepsPromise, Promise!Spec

-----------------------------------------------------------------------------
(* No acknowledged write is lost *)

\* A dump that was taken is a record (it is read for its writes).
LEMMA KeptIsContent ==
    ASSUME RestoreInv, NEW r \in replaced, r \notin NoSafetyDump
    PROVE  safety[r] \in Content
  BY DEF RestoreInv, TypeOK

LEMMA NextKeepsWrites ==
    ASSUME RestoreInv, NoAckedWriteIsLost, [Next]_vars
    PROVE  NoAckedWriteIsLost'
  <1>0. TypeOK
    BY DEF RestoreInv
  <1> SUFFICES ASSUME replaced' \intersect NoSafetyDump = {}, NEW n \in 1..acked'
               PROVE  n \in db'.writes \/ \E r \in replaced' : n \in safety'[r].writes
    BY DEF NoAckedWriteIsLost
  <1> DEFINE Somewhere == n \in db.writes \/ \E r \in replaced : n \in safety[r].writes
  \* The steps the abstract specification does not see keep all there is.
  <1>1. ASSUME UNCHANGED <<db, acked, replaced>>, \A q \in replaced : safety'[q] = safety[q]
        PROVE  n \in db'.writes \/ \E r \in replaced' : n \in safety'[r].writes
    BY <1>1 DEF NoAckedWriteIsLost
  <1>2. CASE Write
    <2>1. /\ acked' = acked + 1 /\ db'.writes = db.writes \union {acked + 1}
          /\ UNCHANGED <<safety, replaced>>
      BY <1>0, <1>2 DEF Write, TypeOK, Content
    <2>2. acked \in Nat
      <3>1. acked \in 0..MaxWrites /\ MaxWrites \in Nat
        BY <1>0, RestoreAssumption DEF TypeOK
      <3> QED  BY <3>1
    <2>3. n \in 1..acked \/ n = acked + 1
      BY <2>1, <2>2
    <2> QED  BY <2>1, <2>3 DEF NoAckedWriteIsLost
  <1>3. ASSUME NEW r \in Restores, Restore(r)
        PROVE  n \in db'.writes \/ \E q \in replaced' : n \in safety'[q].writes
    <2>0. Sound(r)
      BY DEF RestoreInv
    <2>1. CASE Clear(r) \/ Load(r) \/ LoadUnreported(r)
      <3>1. UNCHANGED <<acked, safety>>
        BY <2>1 DEF Clear, Load, LoadUnreported
      <3>2. Replaces(r) \/ UNCHANGED <<db, replaced>>
        BY <2>1 DEF Clear, Load, LoadUnreported
      <3>3. CASE UNCHANGED <<db, replaced>>
        BY <1>1, <3>1, <3>3
      <3>4. CASE Replaces(r) /\ r \notin replaced
        <4>1. replaced' = replaced \union {r}
          BY <3>4 DEF Replaces
        <4>2. r \notin NoSafetyDump
          BY <4>1
        <4>3. stage[r] \in {"pipeline", "cleared"}
          BY <2>1 DEF Clear, Load, LoadUnreported
        <4>4. NotYet(r)
          BY <2>0, <3>4, <4>3 DEF Sound, Emptied, NotYet
        <4>5. safety[r] = db
          BY <2>0, <4>2, <4>3, <4>4 DEF Sound, UndoIsCurrent
        <4>6. n \in db.writes \/ \E q \in replaced : n \in safety[q].writes
          BY <3>1, <4>1 DEF NoAckedWriteIsLost
        <4> QED  BY <3>1, <4>1, <4>5, <4>6
      <3>5. CASE Replaces(r) /\ r \in replaced
        <4>1. stage[r] \in {"pipeline", "cleared"} /\ ~NotYet(r)
          BY <2>0, <2>1, <3>5 DEF Sound, Fresh, Clear, Load, LoadUnreported
        <4>2. db = SetOf(r)
          BY <2>0, <4>1 DEF Sound, Emptied, NotYet
        <4>3. UNCHANGED <<db, replaced>>
          BY <3>5, <4>2 DEF Replaces, SetOf
        <4> QED  BY <1>1, <3>1, <4>3
      <3> QED  BY <3>2, <3>3, <3>4, <3>5
    <2>2. CASE TakeSafetyDump(r)
      <3>1. UNCHANGED <<db, acked, replaced>> /\ stage[r] = "safety"
        BY <2>2 DEF TakeSafetyDump, dataVars
      <3>2. r \notin replaced
        <4>1. NotYet(r)
          BY <3>1 DEF NotYet
        <4> QED  BY <2>0, <4>1 DEF Sound, Fresh
      <3>3. \A q \in Restores \ {r} : safety'[q] = safety[q]
        BY <1>0, <2>2 DEF TakeSafetyDump, TypeOK
      <3> QED  BY <1>0, <1>1, <3>1, <3>2, <3>3 DEF TypeOK
    <2>3. CASE ~(Clear(r) \/ Load(r) \/ LoadUnreported(r) \/ TakeSafetyDump(r))
      <3>1. UNCHANGED <<db, acked, replaced, safety>>
        BY <1>3, <2>3 DEF Restore, Acquire, RequireReadableArchive, RequireNoWriters,
                    TerminateConnections, StageUploads, Fails, PromoteOne, Installed,
                    InstallFails, dataVars
      <3> QED  BY <1>1, <3>1
    <2> QED  BY <2>1, <2>2, <2>3
  <1>4. CASE (\E b \in Backups : Backup(b)) \/ (\E p \in Procs : Crash(p))
               \/ (\E w \in Writers : Connect(w) \/ Disconnect(w)) \/ UNCHANGED vars
    <2>1. UNCHANGED <<db, acked, replaced, safety>>
      BY <1>4 DEF Backup, Ask, Dump, Archive, BackupFails, Crash, Connect, Disconnect,
                  vars, dataVars
    <2> QED  BY <1>1, <2>1
  <1> QED  BY <1>2, <1>3, <1>4 DEF Next

\* Every restore can be undone: whatever restores fail, crash or follow each other,
\* every write is in the database or in a pre-restore dump, as long as nobody
\* connects behind the check and no restore is told to go without its dump.
THEOREM NoWriteIsLost ==
    ASSUME WritersKeepOut
    PROVE  Spec => []NoAckedWriteIsLost
  <1>1. Init => RestoreInv /\ NoAckedWriteIsLost
    <2> SUFFICES ASSUME Init PROVE RestoreInv /\ NoAckedWriteIsLost
      OBVIOUS
    <2>1. 1..acked = {}
      BY DEF Init
    <2> QED  BY <2>1, InitInv DEF NoAckedWriteIsLost
  <1>2. RestoreInv /\ NoAckedWriteIsLost /\ [Next]_vars
          => (RestoreInv /\ NoAckedWriteIsLost)'
    BY NextInv, NextKeepsWrites
  <1> QED  BY <1>1, <1>2, PTL DEF Spec

-----------------------------------------------------------------------------
(* The inductive invariant *)

\* What a backup has taken is a dump and an archive.
TakenOK ==
    taken \in [Backups -> [dump : [content : Content, half : BOOLEAN] \union {Nothing},
                           uploads : [Paths -> Restores \union {Live}] \union {Nothing}]]

\* Nothing is said of a process before it ends.
NoneTold == \A p \in Procs : stage[p] # "done" => outcome[p] = "none"

\* The files of a restore are touched while the database is its own, and all of
\* them are there when it is done with them.
FilesOf(r) ==
    /\ \A f \in Paths : uploads[f] = r =>
         /\ r \in replaced
         /\ stage[r] \in {"install", "done"} /\ outcome[r] \notin {"refused", "failed"}
    /\ stage[r] = "install" => r \in replaced /\ db.base = r
    /\ r \in WithUploads /\ stage[r] \in {"safety", "pipeline", "cleared"} => staged[r] = Paths
    /\ r \in WithUploads /\ stage[r] = "install"
         => \A f \in Paths : f \in staged[r] \/ uploads[f] = r

\* What a broken-off installation has not put in place is still staged.
StageOf(r) ==
    r \in WithUploads /\ db.base = r /\ outcome[r] = "kept-stage" =>
        \A f \in Paths : f \in staged[r] \/ uploads[f] = r

\* The database is a restore's: the restore is at it, has told that it failed, or
\* has put its files in place.
BaseOf(r) ==
    r \in WithUploads /\ db.base = r =>
        \/ stage[r] \in {"cleared", "install"}
        \/ outcome[r] \in {"failed", "crashed", "kept-stage"}
        \/ \A f \in Paths : uploads[f] = r

Belongs(r) == FilesOf(r) /\ StageOf(r) /\ BaseOf(r)

\* The database misses objects: somebody is clearing it, or gave up in the middle.
HalfIsTold ==
    half => \E r \in NoSingleTransaction :
                stage[r] = "cleared" \/ outcome[r] \in {"failed", "crashed"}

\* While a backup archives the files, the database is the one it has dumped.
InStep == \A b \in Backups : stage[b] = "tar" => taken[b].dump.content.base = db.base

HalvesInv ==
    /\ TypeOK /\ LockMeansWork /\ TakenOK /\ NoneTold
    /\ \A r \in Restores : Belongs(r)
    /\ HalfIsTold /\ DumpsAreWhole /\ InStep /\ HalvesInStep

-----------------------------------------------------------------------------
LEMMA InitHalves == Init => HalvesInv
  <1> SUFFICES ASSUME Init PROVE HalvesInv
    OBVIOUS
  <1>1. TypeOK /\ LockMeansWork
    BY InitInv DEF RestoreInv
  <1> USE RestoreAssumption DEF Init
  <1>2. TakenOK /\ NoneTold /\ HalfIsTold
    BY DEF TakenOK, NoneTold, HalfIsTold
  <1>3. DumpsAreWhole
    BY DEF DumpsAreWhole
  <1>4. InStep /\ HalvesInStep
    BY DEF InStep, HalvesInStep, Procs
  <1>5. ASSUME NEW r \in Restores PROVE Belongs(r)
    <2>1. stage[r] = "idle" /\ r # Live
      BY DEF Procs
    <2> QED  BY <2>1 DEF Belongs, FilesOf, StageOf, BaseOf
  <1> QED  BY <1>1, <1>2, <1>3, <1>4, <1>5 DEF HalvesInv

-----------------------------------------------------------------------------
(* Nothing is said too early, and what was said stands *)

LEMMA NextNoneTold ==
    ASSUME TypeOK, NoneTold, [Next]_vars
    PROVE  /\ NoneTold'
           /\ \A p \in Procs : outcome[p] # "none" => outcome'[p] = outcome[p]
           /\ \A p \in Procs : stage[p] = "done" => stage'[p] = "done"
  <1> DEFINE Stands == /\ NoneTold'
                       /\ \A p \in Procs : outcome[p] # "none" => outcome'[p] = outcome[p]
                       /\ \A p \in Procs : stage[p] = "done" => stage'[p] = "done"
  <1> SUFFICES Stands
    OBVIOUS
  <1>0. /\ stage \in [Procs -> Stages]
        /\ outcome \in [Procs -> {"none", "ok", "failed", "refused", "kept-stage", "crashed"}]
    BY DEF TypeOK
  <1>1. ASSUME NEW p \in Procs, NEW s, Goto(p, s), outcome' = outcome, stage[p] # "done"
        PROVE  Stands
    BY <1>0, <1>1 DEF NoneTold, Goto
  <1>2. ASSUME NEW p \in Procs, NEW o, Ends(p, o), stage[p] # "done"
        PROVE  Stands
    BY <1>0, <1>2 DEF NoneTold, Goto, Ends
  <1>3. ASSUME UNCHANGED <<stage, outcome>>
        PROVE  Stands
    BY <1>3 DEF NoneTold
  <1>4. ASSUME NEW r \in Restores, Restore(r) PROVE Stands
    <2>0. r \in Procs
      BY DEF Procs
    <2>1. CASE Acquire(r)
      BY <1>1, <1>2, <2>0, <2>1 DEF Acquire
    <2>2. CASE RequireReadableArchive(r) \/ RequireNoWriters(r) \/ StageUploads(r)
                 \/ TakeSafetyDump(r) \/ Clear(r) \/ Load(r)
      <3>1. outcome' = outcome /\ stage[r] # "done" /\ \E s \in Stages : Goto(r, s)
        BY <2>2 DEF RequireReadableArchive, RequireNoWriters, StageUploads, TakeSafetyDump,
                    Clear, Load, Stages, Working, Restoring, Checked
      <3> QED  BY <1>1, <2>0, <3>1
    <2>3. CASE TerminateConnections(r)
      <3>1. PICK gone \in SUBSET Queued :
               /\ stage' = [p \in Procs |-> IF p = r THEN "stage"
                                            ELSE IF p \in gone THEN "done" ELSE stage[p]]
               /\ outcome' = [p \in Procs |-> IF p \in gone THEN "failed" ELSE outcome[p]]
        BY <2>3 DEF TerminateConnections
      <3>2. r \notin gone /\ \A p \in gone : stage[p] = "wait"
        BY <2>3, RestoreAssumption DEF Queued, TerminateConnections
      <3>3. stage[r] = "writers"
        BY <2>3 DEF TerminateConnections
      <3> QED  BY <1>0, <2>0, <3>1, <3>2, <3>3 DEF NoneTold
    <2>4. CASE Fails(r) \/ LoadUnreported(r) \/ Installed(r) \/ InstallFails(r)
      <3>1. stage[r] # "done" /\ \E o : Ends(r, o)
        BY <2>4 DEF Fails, LoadUnreported, Installed, InstallFails, Restoring, Checked
      <3> QED  BY <1>2, <2>0, <3>1
    <2>5. CASE PromoteOne(r)
      BY <1>3, <2>5 DEF PromoteOne
    <2> QED  BY <1>4, <2>1, <2>2, <2>3, <2>4, <2>5 DEF Restore
  <1>5. ASSUME NEW b \in Backups, Backup(b) PROVE Stands
    <2>0. b \in Procs
      BY DEF Procs
    <2>1. CASE Ask(b)
      BY <1>1, <2>0, <2>1 DEF Ask
    <2>2. CASE Dump(b)
      BY <1>1, <2>0, <2>2 DEF Dump
    <2>3. CASE Archive(b) \/ BackupFails(b)
      BY <1>2, <2>0, <2>3 DEF Archive, BackupFails, BackingUp
    <2> QED  BY <1>5, <2>1, <2>2, <2>3 DEF Backup
  <1>6. CASE Write \/ UNCHANGED vars \/ \E w \in Writers : Connect(w) \/ Disconnect(w)
    BY <1>3, <1>6 DEF Write, Connect, Disconnect, vars
  <1>7. ASSUME NEW p \in Procs, Crash(p) PROVE Stands
    BY <1>2, <1>7 DEF Crash
  <1> QED  BY <1>4, <1>5, <1>6, <1>7 DEF Next

-----------------------------------------------------------------------------
(* The files of a restore *)

\* What a step that is none of r's leaves alone of it.
LEMMA OwnThings ==
    ASSUME TypeOK, NoneTold, NEW r \in Restores, [Next]_vars, ~Restore(r), ~Crash(r)
    PROVE  /\ stage'[r] = stage[r] /\ outcome'[r] = outcome[r] /\ staged'[r] = staged[r]
           /\ r \in dirs' <=> r \in dirs
           /\ r \in replaced' <=> r \in replaced
  <1> DEFINE Mine == /\ stage'[r] = stage[r] /\ outcome'[r] = outcome[r]
                     /\ staged'[r] = staged[r]
                     /\ r \in dirs' <=> r \in dirs
                     /\ r \in replaced' <=> r \in replaced
  <1>0. /\ stage \in [Procs -> Stages] /\ staged \in [Restores -> SUBSET Paths]
        /\ outcome \in [Procs -> {"none", "ok", "failed", "refused", "kept-stage", "crashed"}]
        /\ r \in Procs /\ r \notin Backups
    BY RestoreAssumption DEF TypeOK, Procs
  <1> USE <1>0 DEF filesVars, dataVars
  <1>1. ASSUME NEW q \in Restores \ {r}, Restore(q) PROVE Mine
    <2> USE DEF Goto, Ends
    <2>1. CASE Acquire(q)
      BY <2>1 DEF Acquire
    <2>2. CASE RequireReadableArchive(q) \/ RequireNoWriters(q) \/ TakeSafetyDump(q)
      BY <2>2 DEF RequireReadableArchive, RequireNoWriters, TakeSafetyDump
    <2>3. CASE TerminateConnections(q)
      BY <2>3 DEF TerminateConnections, Queued
    <2>4. CASE StageUploads(q)
      BY <2>4 DEF StageUploads
    <2>5. CASE Fails(q)
      <3>1. staged'[r] = staged[r] /\ (r \in dirs' <=> r \in dirs)
        BY <1>1, <2>5, DiscardIsLocal DEF Fails, TypeOK
      <3> QED  BY <2>5, <3>1 DEF Fails
    <2>6. CASE Clear(q)
      BY <2>6 DEF Clear, Replaces
    <2>7. CASE Load(q)
      BY <2>7 DEF Load, Replaces
    <2>8. CASE LoadUnreported(q)
      <3>1. staged'[r] = staged[r] /\ (r \in dirs' <=> r \in dirs)
        BY <1>1, <2>8, DiscardIsLocal DEF LoadUnreported, TypeOK
      <3> QED  BY <2>8, <3>1 DEF LoadUnreported, Replaces
    <2>9. CASE PromoteOne(q)
      BY <2>9 DEF PromoteOne
    <2>10. CASE Installed(q)
      BY <2>10 DEF Installed
    <2>11. CASE InstallFails(q)
      BY <2>11 DEF InstallFails
    <2> QED  BY <1>1, <2>1, <2>2, <2>3, <2>4, <2>5, <2>6, <2>7, <2>8, <2>9, <2>10, <2>11
                DEF Restore
  <1>2. ASSUME NEW b \in Backups, Backup(b) PROVE Mine
    BY <1>2 DEF Backup, Ask, Dump, Archive, BackupFails, Goto, Ends
  <1>3. CASE Write \/ UNCHANGED vars \/ \E w \in Writers : Connect(w) \/ Disconnect(w)
    BY <1>3 DEF Write, Connect, Disconnect, vars
  <1>4. ASSUME NEW p \in Procs \ {r}, Crash(p) PROVE Mine
    <2>1. staged'[r] = staged[r] /\ (r \in dirs' <=> r \in dirs)
      BY <1>4, DiscardIsLocal DEF Crash, TypeOK
    <2> QED  BY <1>4, <2>1 DEF Crash, Goto, Ends
  <1> QED  BY <1>1, <1>2, <1>3, <1>4 DEF Next

\* Only a restore at work changes what the database was restored from, or a file.
LEMMA OnlyTheRestore ==
    ASSUME TypeOK, [Next]_vars, db'.base # db.base \/ uploads' # uploads
    PROVE  \E q \in Restores :
              /\ stage[q] \in Working
              /\ \/ db'.base = q /\ uploads' = uploads
                 \/ stage[q] = "install" /\ db' = db
                    /\ \E f \in staged[q] : uploads' = [uploads EXCEPT ![f] = q]
  <1> DEFINE Mark == \E q \in Restores :
              /\ stage[q] \in Working
              /\ \/ db'.base = q /\ uploads' = uploads
                 \/ stage[q] = "install" /\ db' = db
                    /\ \E f \in staged[q] : uploads' = [uploads EXCEPT ![f] = q]
  <1> SUFFICES ASSUME ~Mark PROVE FALSE
    OBVIOUS
  <1> USE DEF filesVars, dataVars
  <1>1. ASSUME NEW q \in Restores, Clear(q) \/ Load(q) \/ LoadUnreported(q) PROVE FALSE
    <2>1. stage[q] \in Working /\ uploads' = uploads
            /\ (db' = db \/ db' = SetOf(q))
      BY <1>1 DEF Clear, Load, LoadUnreported, Replaces, Working, Restoring, Checked
    <2>2. SetOf(q).base = q
      BY DEF SetOf
    <2> QED  BY <2>1, <2>2
  <1>2. ASSUME NEW q \in Restores, PromoteOne(q) PROVE FALSE
    <2>1. stage[q] = "install" /\ stage[q] \in Working /\ db' = db
      BY <1>2 DEF PromoteOne, Working, Restoring, Checked
    <2> QED  BY <1>2, <2>1 DEF PromoteOne
  <1>3. CASE Write
    <2>1. db' = [db EXCEPT !.writes = @ \union {acked + 1}] /\ uploads' = uploads
      BY <1>3 DEF Write
    <2>2. db'.base = db.base
      BY <2>1 DEF TypeOK, Content
    <2> QED  BY <2>1, <2>2
  <1>4. CASE db' = db /\ uploads' = uploads
    BY <1>4
  <1> QED
    BY <1>1, <1>2, <1>3, <1>4
    DEF Next, Restore, Acquire, RequireReadableArchive, RequireNoWriters, TerminateConnections,
        StageUploads, TakeSafetyDump, Fails, Installed, InstallFails,
        Backup, Ask, Dump, Archive, BackupFails, Connect, Disconnect, Crash, vars

\* What the database was restored from, and the files, change by the restore's own
\* steps.
LEMMA OnlyTheOwner ==
    ASSUME TypeOK, LockMeansWork, NEW r \in Restores, lock = r, [Next]_vars,
           db'.base # db.base \/ uploads' # uploads
    PROVE  Restore(r)
  <1>1. ASSUME NEW q \in Restores, Restore(q), q # r PROVE FALSE
    <2>1. stage[q] \notin Working
      BY <1>1 DEF LockMeansWork, Procs
    <2>2. Acquire(q)
      BY <1>1, <2>1
         DEF Restore, RequireReadableArchive, RequireNoWriters, TerminateConnections,
             StageUploads, TakeSafetyDump, Fails, Clear, Load, LoadUnreported, PromoteOne,
             Installed, InstallFails, Working, Restoring, Checked
    <2> QED  BY <2>2 DEF Acquire, dataVars, filesVars
  <1>2. CASE Write
    <2>1. db' = [db EXCEPT !.writes = @ \union {acked + 1}] /\ uploads' = uploads
      BY <1>2 DEF Write, filesVars
    <2>2. db'.base = db.base
      BY <2>1 DEF TypeOK, Content
    <2> QED  BY <2>1, <2>2
  <1>3. CASE (\E b \in Backups : Backup(b)) \/ (\E p \in Procs : Crash(p))
               \/ (\E w \in Writers : Connect(w) \/ Disconnect(w)) \/ UNCHANGED vars
    BY <1>3 DEF Backup, Ask, Dump, Archive, BackupFails, Crash, Connect, Disconnect,
                vars, dataVars, filesVars
  <1> QED  BY <1>1, <1>2, <1>3 DEF Next

\* A restore that is not at work keeps its files: another's take their place only
\* when the database is the other's.
LEMMA OthersBelong ==
    ASSUME HalvesInv, [Next]_vars, NEW r \in Restores, ~Restore(r), ~Crash(r)
    PROVE  Belongs(r)'
  <1>0. /\ TypeOK /\ NoneTold /\ LockMeansWork /\ Belongs(r)
        /\ uploads \in [Paths -> Restores \union {Live}] /\ staged \in [Restores -> SUBSET Paths]
    BY DEF HalvesInv, TypeOK
  <1>1. /\ stage'[r] = stage[r] /\ outcome'[r] = outcome[r] /\ staged'[r] = staged[r]
        /\ r \in dirs' <=> r \in dirs
        /\ r \in replaced' <=> r \in replaced
    BY <1>0, OwnThings
  <1>2. CASE db'.base = db.base /\ uploads' = uploads
    BY <1>0, <1>1, <1>2 DEF Belongs, FilesOf, StageOf, BaseOf
  <1>3. CASE db'.base # db.base \/ uploads' # uploads
    <2>1. PICK q \in Restores :
              /\ stage[q] \in Working
              /\ \/ db'.base = q /\ uploads' = uploads
                 \/ stage[q] = "install" /\ db' = db
                    /\ \E f \in staged[q] : uploads' = [uploads EXCEPT ![f] = q]
      BY <1>0, <1>3, OnlyTheRestore
    <2>2. CASE q = r
      <3>1. stage[r] \in Working /\ lock = r
        BY <1>0, <2>1, <2>2 DEF LockMeansWork, Procs
      <3> QED  BY <1>0, <1>3, <2>1, <2>2, <3>1, OnlyTheOwner
    <2>3. CASE q # r
      <3>1. stage[r] \notin Working
        BY <1>0, <2>1, <2>3, OthersIdle
      <3>2. stage[r] \notin {"safety", "pipeline", "cleared", "install"}
        BY <3>1 DEF Working, Restoring, Checked
      <3>3. CASE db'.base = q /\ uploads' = uploads
        BY <1>0, <1>1, <2>3, <3>2, <3>3 DEF Belongs, FilesOf, StageOf, BaseOf
      <3>4. ASSUME stage[q] = "install", db' = db, NEW f \in staged[q],
                   uploads' = [uploads EXCEPT ![f] = q]
            PROVE  Belongs(r)'
        <4>1. db.base = q
          BY <3>4 DEF HalvesInv, Belongs, FilesOf
        <4>2. \A g \in Paths : uploads'[g] = r => uploads[g] = r
          BY <1>0, <2>3, <3>4
        <4> QED  BY <1>0, <1>1, <2>3, <3>2, <3>4, <4>1, <4>2
                    DEF Belongs, FilesOf, StageOf, BaseOf
      <3> QED  BY <2>1, <3>3, <3>4
    <2> QED  BY <2>2, <2>3
  <1> QED  BY <1>2, <1>3

\* The steps of the restore itself.
LEMMA OwnBelongs ==
    ASSUME HalvesInv, NEW r \in Restores, Restore(r)
    PROVE  Belongs(r)'
  <1>0. /\ stage \in [Procs -> Stages] /\ staged \in [Restores -> SUBSET Paths]
        /\ outcome \in [Procs -> {"none", "ok", "failed", "refused", "kept-stage", "crashed"}]
        /\ uploads \in [Paths -> Restores \union {Live}] /\ dirs \subseteq Restores
        /\ r \in Procs /\ r \notin Backups /\ Belongs(r)
        /\ stage[r] # "done" => outcome[r] = "none"
    BY RestoreAssumption DEF HalvesInv, TypeOK, NoneTold, Procs
  <1> USE <1>0 DEF Belongs, FilesOf, StageOf, BaseOf, Goto, Ends, filesVars, dataVars
  <1>1. CASE Acquire(r)
    BY <1>1 DEF Acquire
  <1>2. CASE RequireReadableArchive(r) \/ RequireNoWriters(r) \/ TakeSafetyDump(r)
    BY <1>2 DEF RequireReadableArchive, RequireNoWriters, TakeSafetyDump
  <1>3. CASE TerminateConnections(r)
    <2>1. /\ stage[r] = "writers" /\ stage'[r] = "stage" /\ outcome'[r] = outcome[r]
          /\ UNCHANGED <<db, uploads, replaced, staged, dirs>>
      BY <1>3 DEF TerminateConnections, Queued
    <2> QED  BY <2>1
  <1>4. CASE StageUploads(r)
    BY <1>4 DEF StageUploads
  <1>5. CASE Fails(r)
    <2>1. /\ stage'[r] = "done" /\ UNCHANGED <<db, uploads, replaced>>
          /\ stage[r] = "cleared" => outcome'[r] = "failed"
          /\ outcome'[r] # "kept-stage"
          /\ stage[r] # "install" /\ stage[r] # "done"
      BY <1>5 DEF Fails, Restoring, Checked
    <2> QED  BY <2>1
  <1>6. CASE Clear(r)
    <2>1. /\ stage[r] = "pipeline" /\ stage'[r] = "cleared"
          /\ UNCHANGED <<outcome, uploads, staged, dirs>>
          /\ \/ UNCHANGED <<db, replaced>>
             \/ db' = SetOf(r) /\ replaced' = replaced \union {r}
      BY <1>6 DEF Clear, Replaces
    <2> QED  BY <2>1
  <1>7. CASE Load(r)
    <2>1. SetOf(r).base = r
      BY DEF SetOf
    <2>2. r \in WithUploads => staged[r] = Paths
      BY <1>7 DEF Load
    <2> QED  BY <1>7, <2>1, <2>2 DEF Load, Replaces
  <1>8. CASE LoadUnreported(r)
    <2>1. /\ stage'[r] = "done" /\ outcome'[r] = "failed" /\ stage[r] = "cleared"
          /\ uploads' = uploads /\ replaced' = replaced \union {r}
      BY <1>8 DEF LoadUnreported, Replaces
    <2> QED  BY <2>1
  <1>9. CASE PromoteOne(r)
    <2>1. PICK f \in staged[r] : /\ uploads' = [uploads EXCEPT ![f] = r]
                                 /\ staged' = [staged EXCEPT ![r] = @ \ {f}]
      BY <1>9 DEF PromoteOne
    <2>2. stage[r] = "install" /\ UNCHANGED <<stage, db, replaced, dirs, outcome>>
      BY <1>9 DEF PromoteOne
    <2> QED  BY <2>1, <2>2
  <1>10. CASE Installed(r)
    <2>1. /\ stage[r] = "install" /\ staged[r] = {} /\ stage'[r] = "done" /\ outcome'[r] = "ok"
          /\ UNCHANGED <<db, replaced, uploads, staged>>
      BY <1>10 DEF Installed
    <2> QED  BY <2>1
  <1>11. CASE InstallFails(r)
    <2>1. /\ stage[r] = "install" /\ stage'[r] = "done" /\ outcome'[r] = "kept-stage"
          /\ UNCHANGED <<db, replaced, uploads, staged>>
      BY <1>11 DEF InstallFails
    <2> QED  BY <2>1
  <1> QED  BY <1>1, <1>2, <1>3, <1>4, <1>5, <1>6, <1>7, <1>8, <1>9, <1>10, <1>11 DEF Restore

LEMMA NextBelongs == HalvesInv /\ [Next]_vars => \A r \in Restores : Belongs(r)'
  <1> SUFFICES ASSUME HalvesInv, [Next]_vars, NEW r \in Restores PROVE Belongs(r)'
    OBVIOUS
  <1>1. CASE Crash(r)
    <2>0. /\ stage \in [Procs -> Stages] /\ Belongs(r) /\ r \in Procs
          /\ outcome \in [Procs -> {"none", "ok", "failed", "refused", "kept-stage", "crashed"}]
      BY DEF HalvesInv, TypeOK, Procs
    <2>1. /\ stage'[r] = "done" /\ outcome'[r] = "crashed"
          /\ UNCHANGED <<db, uploads, replaced>>
          /\ stage[r] \notin {"idle", "done"}
      BY <1>1, <2>0 DEF Crash, Ends, Goto, dataVars
    <2> QED  BY <2>0, <2>1 DEF Belongs, FilesOf, StageOf, BaseOf
  <1> QED  BY <1>1, OwnBelongs, OthersBelong

-----------------------------------------------------------------------------
(* What a backup dumps and archives *)

LEMMA NextTaken == TypeOK /\ TakenOK /\ [Next]_vars => TakenOK'
  <1> SUFFICES ASSUME TypeOK, TakenOK, [Next]_vars PROVE TakenOK'
    OBVIOUS
  <1>0. db \in Content /\ half \in BOOLEAN /\ uploads \in [Paths -> Restores \union {Live}]
    BY DEF TypeOK
  <1>1. ASSUME NEW b \in Backups, Dump(b) PROVE TakenOK'
    <2>1. taken' = [taken EXCEPT ![b] =
                      [taken[b] EXCEPT !.dump = [content |-> db, half |-> half]]]
      BY <1>1 DEF Dump, TakenOK
    <2> QED  BY <1>0, <2>1 DEF TakenOK
  <1>2. ASSUME NEW b \in Backups, Archive(b) PROVE TakenOK'
    <2>1. taken' = [taken EXCEPT ![b] = [taken[b] EXCEPT !.uploads = uploads]]
      BY <1>2 DEF Archive, TakenOK
    <2> QED  BY <1>0, <2>1 DEF TakenOK
  <1>3. CASE taken' = taken
    BY <1>3 DEF TakenOK
  <1> QED
    BY <1>1, <1>2, <1>3
    DEF Next, Restore, Acquire, RequireReadableArchive, RequireNoWriters, TerminateConnections,
        StageUploads, TakeSafetyDump, Fails, Clear, Load, LoadUnreported, PromoteOne,
        Installed, InstallFails, Backup, Ask, BackupFails, Connect, Disconnect, Write, Crash, vars

\* Who was seen clearing the database is still at it, or has told.
LEMMA NextHalfIsTold == HalvesInv /\ [Next]_vars => HalfIsTold'
  <1> SUFFICES ASSUME HalvesInv, [Next]_vars, half' PROVE HalfIsTold'
    BY DEF HalfIsTold
  <1> USE DEF HalvesInv
  <1>0. /\ stage \in [Procs -> Stages]
        /\ outcome \in [Procs -> {"none", "ok", "failed", "refused", "kept-stage", "crashed"}]
        /\ NoSingleTransaction \subseteq Restores /\ Restores \subseteq Procs
    BY RestoreAssumption DEF TypeOK, Procs
  <1>1. CASE half
    <2>1. PICK r \in NoSingleTransaction :
                stage[r] = "cleared" \/ outcome[r] \in {"failed", "crashed"}
      BY <1>1 DEF HalfIsTold
    <2>2. r \in Restores /\ r \in Procs
      BY <1>0
    <2>3. CASE outcome[r] \in {"failed", "crashed"}
      <3>1. outcome'[r] = outcome[r]
        BY <2>2, <2>3, NextNoneTold
      <3> QED  BY <2>3, <3>1 DEF HalfIsTold
    <2>4. CASE stage[r] = "cleared" /\ Restore(r)
      <3>1. stage[r] = "cleared"
        BY <2>4
      <3>2. CASE Fails(r)
        <4>1. outcome'[r] = "failed"
          BY <1>0, <2>2, <3>1, <3>2 DEF Fails, Ends
        <4> QED  BY <4>1 DEF HalfIsTold
      <3>3. ~Fails(r) => ~half'
        BY <2>4, <3>1 DEF Restore, Acquire, RequireReadableArchive, RequireNoWriters,
              TerminateConnections, StageUploads, TakeSafetyDump, Clear, Load, LoadUnreported,
              PromoteOne, Installed, InstallFails
      <3> QED  BY <3>2, <3>3
    <2>5. CASE stage[r] = "cleared" /\ Crash(r)
      <3>1. outcome'[r] = "crashed"
        BY <1>0, <2>2, <2>5 DEF Crash, Ends
      <3> QED  BY <3>1 DEF HalfIsTold
    <2>6. CASE stage[r] = "cleared" /\ ~Restore(r) /\ ~Crash(r)
      <3>1. stage'[r] = "cleared"
        BY <2>2, <2>6, OwnThings
      <3> QED  BY <3>1 DEF HalfIsTold
    <2> QED  BY <2>1, <2>3, <2>4, <2>5, <2>6
  <1>2. CASE ~half
    <2>1. PICK r \in Restores : Clear(r)
      BY <1>2 DEF Next, Restore, Acquire, RequireReadableArchive, RequireNoWriters,
            TerminateConnections, StageUploads, TakeSafetyDump, Fails, Load, LoadUnreported,
            PromoteOne, Installed, InstallFails, Backup, Ask, Dump, Archive, BackupFails,
            Connect, Disconnect, Write, Crash, vars, dataVars
    <2>2. r \in NoSingleTransaction /\ stage'[r] = "cleared"
      BY <1>0, <1>2, <2>1 DEF Clear, Goto
    <2> QED  BY <2>2 DEF HalfIsTold
  <1> QED  BY <1>1, <1>2

\* A backup at work has the database to itself.
LEMMA BackupAlone ==
    ASSUME LockMeansWork, NEW b \in Backups, stage[b] \in BackingUp, NEW r \in Restores
    PROVE  stage[r] \notin Working
  <1>1. b \in Procs /\ r \in Procs /\ b # r
    BY RestoreAssumption DEF Procs
  <1> QED  BY <1>1 DEF LockMeansWork, Working

\* The dump of a backup changes only when it dumps, its files when it archives.
LEMMA OwnTaken ==
    ASSUME TypeOK, TakenOK, NEW b \in Backups, [Next]_vars
    PROVE  /\ ~Dump(b) => taken'[b].dump = taken[b].dump
           /\ ~Archive(b) => taken'[b].uploads = taken[b].uploads
           /\ Dump(b) => taken'[b].dump = [content |-> db, half |-> half]
           /\ Archive(b) => taken'[b].uploads = uploads
  <1>1. ASSUME NEW c \in Backups, Dump(c)
        PROVE  /\ c # b => taken'[b] = taken[b]
               /\ c = b => /\ taken'[b].dump = [content |-> db, half |-> half]
                           /\ taken'[b].uploads = taken[b].uploads
    <2>1. taken' = [taken EXCEPT ![c] =
                      [taken[c] EXCEPT !.dump = [content |-> db, half |-> half]]]
      BY <1>1 DEF Dump, TakenOK
    <2> QED  BY <2>1 DEF TakenOK
  <1>2. ASSUME NEW c \in Backups, Archive(c)
        PROVE  /\ c # b => taken'[b] = taken[b]
               /\ c = b => /\ taken'[b].uploads = uploads
                           /\ taken'[b].dump = taken[b].dump
    <2>1. taken' = [taken EXCEPT ![c] = [taken[c] EXCEPT !.uploads = uploads]]
      BY <1>2 DEF Archive, TakenOK
    <2> QED  BY <2>1 DEF TakenOK
  <1>3. (\E c \in Backups : Dump(c) \/ Archive(c)) \/ taken' = taken
    BY DEF Next, Restore, Acquire, RequireReadableArchive, RequireNoWriters,
        TerminateConnections, StageUploads, TakeSafetyDump, Fails, Clear, Load,
        LoadUnreported, PromoteOne, Installed, InstallFails, Backup, Ask, BackupFails,
        Connect, Disconnect, Write, Crash, vars
  <1>4. ~(Dump(b) /\ Archive(b))
    BY DEF Dump, Archive
  <1>5. ASSUME NEW c \in Backups, c # b, Dump(c) \/ Archive(c) PROVE ~Dump(b) /\ ~Archive(b)
    <2>0. b \in Procs /\ c \in Procs /\ stage \in [Procs -> Stages]
      BY DEF Procs, TypeOK
    <2>1. stage'[c] # stage[c]
      BY <1>5, <2>0 DEF Dump, Archive, Goto, Ends
    <2>2. Dump(b) \/ Archive(b) => stage'[c] = stage[c]
      BY <1>5, <2>0 DEF Dump, Archive, Goto, Ends
    <2> QED  BY <2>1, <2>2
  <1>6. Dump(b) => taken'[b].uploads = taken[b].uploads
    BY <1>1
  <1> QED  BY <1>1, <1>2, <1>3, <1>4, <1>5, <1>6

\* A backup begins to archive only by dumping, and ends well only by archiving.
LEMMA BackupStays ==
    ASSUME TypeOK, NEW b \in Backups, [Next]_vars, ~Dump(b), stage'[b] = "tar"
    PROVE  stage[b] = "tar"
  <1>0. stage \in [Procs -> Stages] /\ b \in Procs /\ b \notin Restores
    BY RestoreAssumption DEF TypeOK, Procs
  <1> USE <1>0 DEF Goto, Ends
  <1>1. ASSUME NEW r \in Restores, Restore(r) PROVE stage'[b] \in {stage[b], "done"}
    <2>1. CASE TerminateConnections(r)
      BY <2>1 DEF TerminateConnections
    <2> QED  BY <1>1, <2>1 DEF Restore, Acquire, RequireReadableArchive, RequireNoWriters,
                  StageUploads, TakeSafetyDump, Fails, Clear, Load, LoadUnreported, PromoteOne,
                  Installed, InstallFails
  <1>2. ASSUME NEW c \in Backups, Backup(c), c = b => ~Dump(c)
        PROVE  stage'[b] \in {stage[b], "done", "dump", "wait"}
    BY <1>2 DEF Backup, Ask, Dump, Archive, BackupFails
  <1>3. ASSUME NEW p \in Procs, Crash(p) PROVE stage'[b] \in {stage[b], "done"}
    BY <1>3 DEF Crash
  <1>4. CASE Write \/ UNCHANGED vars \/ \E w \in Writers : Connect(w) \/ Disconnect(w)
    BY <1>4 DEF Write, Connect, Disconnect, vars
  <1> QED  BY <1>1, <1>2, <1>3, <1>4 DEF Next

LEMMA BackupEnds ==
    ASSUME TypeOK, NEW b \in Backups, [Next]_vars, ~Archive(b), outcome'[b] = "ok"
    PROVE  outcome[b] = "ok"
  <1>0. /\ outcome \in [Procs -> {"none", "ok", "failed", "refused", "kept-stage", "crashed"}]
        /\ b \in Procs /\ b \notin Restores
    BY RestoreAssumption DEF TypeOK, Procs
  <1> USE <1>0 DEF Goto, Ends
  <1>1. ASSUME NEW r \in Restores, Restore(r) PROVE outcome'[b] \in {outcome[b], "failed"}
    <2>1. CASE TerminateConnections(r)
      BY <2>1 DEF TerminateConnections
    <2> QED  BY <1>1, <2>1 DEF Restore, Acquire, RequireReadableArchive, RequireNoWriters,
                  StageUploads, TakeSafetyDump, Fails, Clear, Load, LoadUnreported, PromoteOne,
                  Installed, InstallFails
  <1>2. ASSUME NEW c \in Backups, Backup(c), c = b => ~Archive(c)
        PROVE  outcome'[b] \in {outcome[b], "failed"}
    BY <1>2 DEF Backup, Ask, Dump, Archive, BackupFails
  <1>3. ASSUME NEW p \in Procs, Crash(p) PROVE outcome'[b] \in {outcome[b], "crashed"}
    BY <1>3 DEF Crash
  <1>4. CASE Write \/ UNCHANGED vars \/ \E w \in Writers : Connect(w) \/ Disconnect(w)
    BY <1>4 DEF Write, Connect, Disconnect, vars
  <1> QED  BY <1>1, <1>2, <1>3, <1>4 DEF Next

LEMMA NextDumpsAreWhole == HalvesInv /\ [Next]_vars => DumpsAreWhole'
  <1> SUFFICES ASSUME HalvesInv, [Next]_vars, NEW b \in Backups,
                      taken'[b].dump # Nothing /\ taken'[b].dump.half
               PROVE  \E r \in NoSingleTransaction : outcome'[r] \in {"failed", "crashed"}
    BY DEF DumpsAreWhole
  <1>0. NoSingleTransaction \subseteq Restores /\ Restores \subseteq Procs
    BY RestoreAssumption DEF Procs
  <1>1. PICK r \in NoSingleTransaction : outcome[r] \in {"failed", "crashed"}
    <2>1. CASE Dump(b)
      <3>1. half
        <4>1. taken'[b].dump = [content |-> db, half |-> half]
          BY <2>1, OwnTaken DEF HalvesInv
        <4> QED  BY <4>1
      <3>2. PICK r \in NoSingleTransaction :
                stage[r] = "cleared" \/ outcome[r] \in {"failed", "crashed"}
        BY <3>1 DEF HalvesInv, HalfIsTold
      <3>3. stage[b] \in BackingUp /\ "cleared" \in Working
        BY <2>1 DEF Dump, BackingUp, Working, Restoring, Checked
      <3>4. stage[r] # "cleared"
        BY <1>0, <3>3, BackupAlone DEF HalvesInv
      <3> QED  BY <3>2, <3>4
    <2>2. CASE ~Dump(b)
      BY <2>2, OwnTaken DEF HalvesInv, DumpsAreWhole
    <2> QED  BY <2>1, <2>2
  <1>2. outcome'[r] = outcome[r]
    BY <1>0, <1>1, NextNoneTold DEF HalvesInv
  <1> QED  BY <1>1, <1>2

\* Nobody replaces the database between a backup's dump and its archive.
LEMMA NextInStep == HalvesInv /\ [Next]_vars => InStep'
  <1> SUFFICES ASSUME HalvesInv, [Next]_vars, NEW b \in Backups, stage'[b] = "tar"
               PROVE  taken'[b].dump.content.base = db'.base
    BY DEF InStep
  <1>0. TypeOK /\ TakenOK /\ LockMeansWork /\ b \in Procs /\ b \notin Restores
    BY RestoreAssumption DEF HalvesInv, Procs
  <1>1. CASE Dump(b)
    <2>1. taken'[b].dump = [content |-> db, half |-> half] /\ db' = db
      BY <1>0, <1>1, OwnTaken DEF Dump, dataVars
    <2> QED  BY <2>1
  <1>2. CASE ~Dump(b)
    <2>1. stage[b] = "tar"
      BY <1>0, <1>2, BackupStays
    <2>2. stage[b] \in BackingUp
      BY <2>1 DEF BackingUp
    <2>3. db'.base = db.base
      BY <1>0, <2>2, BackupAlone, OnlyTheRestore
    <2> QED  BY <1>0, <1>2, <2>1, <2>3, OwnTaken DEF HalvesInv, InStep
  <1> QED  BY <1>1, <1>2

LEMMA NextHalvesInStep == HalvesInv /\ [Next]_vars => HalvesInStep'
  <1> SUFFICES ASSUME HalvesInv, [Next]_vars, NEW b \in Backups,
                      outcome'[b] = "ok", NEW r \in WithUploads,
                      taken'[b].dump.content.base = r,
                      outcome'[r] \in {"none", "ok"}, NEW f \in Paths
               PROVE  taken'[b].uploads[f] = r
    BY DEF HalvesInStep
  <1>0. /\ TypeOK /\ TakenOK /\ LockMeansWork /\ NoneTold
        /\ r \in Restores /\ r \in Procs /\ b \in Procs
        /\ stage \in [Procs -> Stages]
        /\ outcome \in [Procs -> {"none", "ok", "failed", "refused", "kept-stage", "crashed"}]
    BY RestoreAssumption DEF HalvesInv, Procs, TypeOK
  <1>1. outcome[r] \in {"none", "ok"}
    BY <1>0, NextNoneTold
  <1>2. CASE Archive(b)
    <2>1. /\ taken'[b].uploads = uploads /\ taken'[b].dump = taken[b].dump
          /\ stage[b] = "tar"
      <3>1. ~Dump(b) /\ stage[b] = "tar"
        BY <1>2 DEF Archive, Dump
      <3> QED  BY <1>0, <1>2, <3>1, OwnTaken
    <2>2. db.base = r
      BY <2>1 DEF HalvesInv, InStep
    <2>3. stage[r] \notin {"cleared", "install"}
      <3>1. stage[b] \in BackingUp
        BY <2>1 DEF BackingUp
      <3>2. stage[r] \notin Working
        BY <1>0, <3>1, BackupAlone
      <3> QED  BY <3>2 DEF Working, Restoring, Checked
    <2>4. BaseOf(r)
      BY <1>0 DEF HalvesInv, Belongs
    <2> QED  BY <1>1, <2>1, <2>2, <2>3, <2>4 DEF BaseOf
  <1>3. CASE ~Archive(b)
    <2>1. outcome[b] = "ok"
      BY <1>0, <1>3, BackupEnds
    <2>2. ~Dump(b)
      BY <1>0, <2>1 DEF Dump, NoneTold
    <2> QED  BY <1>0, <1>1, <1>3, <2>1, <2>2, OwnTaken DEF HalvesInv, HalvesInStep
  <1> QED  BY <1>2, <1>3

-----------------------------------------------------------------------------
(* The theorems *)

LEMMA NextHalves == HalvesInv /\ [Next]_vars => HalvesInv'
  <1>1. HalvesInv /\ [Next]_vars => TypeOK' /\ LockMeansWork' /\ TakenOK' /\ NoneTold'
    BY NextTypeOK, NextLockMeansWork, NextTaken, NextNoneTold DEF HalvesInv
  <1> QED  BY <1>1, NextBelongs, NextHalfIsTold, NextDumpsAreWhole, NextInStep,
              NextHalvesInStep DEF HalvesInv

LEMMA HalvesHold == Spec => []HalvesInv
  BY InitHalves, NextHalves, PTL DEF Spec

\* A scheduled backup dumps no half-restored database, unless a restore without
\* the single transaction gave up in the middle and told so.
THEOREM DumpsCorrect == Spec => []DumpsAreWhole
  <1>1. HalvesInv => DumpsAreWhole
    BY DEF HalvesInv
  <1> QED  BY <1>1, HalvesHold, PTL

\* A backup of a database that was restored with its files has those files.
THEOREM BackupsMatch == Spec => []HalvesInStep
  <1>1. HalvesInv => HalvesInStep
    BY DEF HalvesInv
  <1> QED  BY <1>1, HalvesHold, PTL

\* No file of a set is put in place before its database is, nor by a restore that was
\* turned down or failed.  While the database is of a set with files, a restore that
\* ended well has all of them in place, and one whose installation broke off has each of
\* them in place or still staged.
THEOREM FilesFollow == Spec => []UploadsFollowDatabase
  <1>1. HalvesInv => UploadsFollowDatabase
    <2> SUFFICES ASSUME HalvesInv, NEW r \in Restores
                 PROVE  /\ (\E f \in Paths : uploads[f] = r) =>
                              r \in replaced /\ outcome[r] \notin {"refused", "failed"}
                        /\ r \in WithUploads /\ db.base = r =>
                              /\ outcome[r] = "ok" => \A f \in Paths : uploads[f] = r
                              /\ outcome[r] = "kept-stage" =>
                                   \A f \in Paths : uploads[f] = r \/ f \in staged[r]
      BY DEF UploadsFollowDatabase
    <2>1. FilesOf(r) /\ StageOf(r) /\ BaseOf(r)
      BY DEF HalvesInv, Belongs
    <2>2. r \in Procs /\ (outcome[r] # "none" => stage[r] = "done")
      BY DEF HalvesInv, NoneTold, Procs
    <2> QED  BY <2>1, <2>2 DEF FilesOf, StageOf, BaseOf
  <1> QED  BY <1>1, HalvesHold, PTL
=============================================================================
