--------------------------- MODULE Scheduler_proofs ----------------------------
(***************************************************************************)
(* What holds of the scheduler for every interval, every ceiling on a run, *)
(* every history of the directory, every environment and every command     *)
(* line run beside it: one run at a time, a newest set that is never two   *)
(* intervals old, and heartbeats that mean a backup.                       *)
(***************************************************************************)
EXTENDS Scheduler, TLAPS

-----------------------------------------------------------------------------
(* The inductive invariant *)

Shape ==
    /\ main \in {"down", "housekeeping", "running", "listing", "stale", "serving"}
    /\ running \in Triggers \union {None}
    /\ run \in [Jobs -> RunStages] /\ took \in [Jobs -> 0..RunMax]
    /\ files \subseteq Artifact
    /\ phase \in 0..(Interval - 1)
    /\ due \in BOOLEAN /\ armed \in BOOLEAN /\ clean \in BOOLEAN

\* The cron job of a process that has not been told to stop is registered.
CronRuns ==
    /\ main = "down" => running = None /\ ~armed
    /\ main # "down" /\ caught = {} => armed

\* A scheduled run that is telling the monitor has failed; a run by hand tells nobody.
FailuresAreTold ==
    /\ run["hand"] # "report"
    /\ \A j \in Triggers : run[j] = "report" => ~clean

\* The newest usable set is younger than one interval and the time since the last
\* firing: at the next firing it is less than two intervals old, and a run begins.
Recent ==
    (/\ main = "serving" /\ clean /\ (Config.catchUp \/ Config.runOnStart)
     /\ caught = {} /\ ~due /\ running = None)
        => \E a \in Usable(files) : a <= Interval + phase

SchedulerInv ==
    Shape /\ CronRuns /\ OneRunAtATime /\ FailuresAreTold /\ Recent /\ HeartbeatIsBacked

-----------------------------------------------------------------------------
(* Ages and sets *)

LEMMA Numbers ==
    /\ Interval \in Nat \ {0} /\ RunMax \in Nat /\ Cap \in Nat /\ Ahead \in Nat
    /\ RunMax < Interval /\ 2 * Interval < Cap
    /\ None \notin Jobs /\ None # "none" /\ Forever \notin Nat
  BY SchedulerAssumption

\* A set that has just been stored is usable, at the age it was stored with.
LEMMA StoredUsable ==
    ASSUME NEW fs, NEW t \in 0..RunMax, NEW place \in Places
    PROVE  t \in Usable(Stored(fs, t, place))
  <1>1. t \in Ages /\ t >= 0
    BY Numbers DEF Ages
  <1>2. Has(Stored(fs, t, place), t, place, "dump")
          /\ Has(Stored(fs, t, place), t, place, "manifest")
    BY DEF Has, Stored, SetOf
  <1> QED  BY <1>1, <1>2 DEF Usable, CompleteAges

LEMMA StoredArtifacts ==
    ASSUME NEW fs \in SUBSET Artifact, NEW t \in 0..RunMax, NEW place \in Places
    PROVE  Stored(fs, t, place) \in SUBSET Artifact
  <1>1. t \in Ages
    BY Numbers DEF Ages
  <1> QED  BY <1>1 DEF Stored, SetOf, Artifact

\* Time makes a set older by one, as long as ages are told apart.
LEMMA OlderUsable ==
    ASSUME NEW fs \in SUBSET Artifact, NEW a \in Usable(fs), a < Cap
    PROVE  a + 1 \in Usable({[f EXCEPT !.age = Older(f.age)] : f \in fs})
  <1> DEFINE aged == {[f EXCEPT !.age = Older(f.age)] : f \in fs}
  <1>1. a \in Ages /\ a >= 0 /\ a \in Int
    BY Numbers DEF Usable, CompleteAges, Ages
  <1>2. Older(a) = a + 1 /\ a + 1 \in Ages /\ a + 1 >= 0
    BY <1>1, Numbers DEF Older, Ages
  <1>3. PICK place \in Places : Has(fs, a, place, "dump") /\ Has(fs, a, place, "manifest")
    BY DEF Usable, CompleteAges
  <1>4. ASSUME NEW kind, Has(fs, a, place, kind) PROVE Has(aged, a + 1, place, kind)
    <2> DEFINE f == [age |-> a, place |-> place, kind |-> kind]
    <2>1. f \in fs
      BY <1>4 DEF Has
    <2>2. [f EXCEPT !.age = Older(f.age)] = [age |-> a + 1, place |-> place, kind |-> kind]
      BY <1>2
    <2>3. [f EXCEPT !.age = Older(f.age)] \in aged
      BY <2>1
    <2> QED  BY <2>2, <2>3 DEF Has
  <1>5. Has(aged, a + 1, place, "dump") /\ Has(aged, a + 1, place, "manifest")
    BY <1>3, <1>4
  <1> QED  BY <1>2, <1>5 DEF Usable, CompleteAges

LEMMA OlderArtifacts ==
    ASSUME NEW fs \in SUBSET Artifact
    PROVE  {[f EXCEPT !.age = Older(f.age)] : f \in fs} \in SUBSET Artifact
  <1> SUFFICES ASSUME NEW f \in fs PROVE [f EXCEPT !.age = Older(f.age)] \in Artifact
    OBVIOUS
  <1>1. f \in Artifact /\ f.age \in Ages
    BY DEF Artifact
  <1>2. Older(f.age) \in Ages
    BY <1>1, Numbers DEF Older, Ages
  <1> QED  BY <1>1, <1>2 DEF Artifact

LEMMA PhaseWraps ==
    ASSUME NEW p \in 0..(Interval - 1)
    PROVE  (p + 1) % Interval = IF p + 1 = Interval THEN 0 ELSE p + 1
  BY Numbers

-----------------------------------------------------------------------------
(* Configurations *)

\* The scheduler's own runs are nightly ones.
LEMMA NightlyConfig == Config.dir = "nightly"
  BY DEF Config, CommandConfig, ConfigFromEnv

\* No configuration without a nightly directory has a heartbeat.
LEMMA ReleaseIsQuiet == \A j \in Jobs : ConfigOf(j).heartbeat => ConfigOf(j).dir # "release"
  <1>1. ASSUME NEW config, NEW argv, config = ConfigFromEnv(env)
        PROVE  CommandConfig(argv, config).heartbeat
                 => CommandConfig(argv, config).dir # "release"
    <2>1. config.dir = "nightly"
      BY <1>1 DEF ConfigFromEnv
    <2>2. CASE argv.command = "schedule"
      BY <1>1, <2>2 DEF CommandConfig, ConfigFromEnv
    <2>3. CASE argv.command # "schedule" /\ "--release" \notin argv.flags
      BY <2>1, <2>3 DEF CommandConfig
    <2>4. CASE argv.command # "schedule" /\ "--release" \in argv.flags
      <3>1. ReleaseConfig(config).heartbeat = FALSE
        BY <1>1 DEF ReleaseConfig, ConfigFromEnv
      <3>2. [ReleaseConfig(config) EXCEPT !.ceiling = config.ceiling].heartbeat = FALSE
        BY <1>1 DEF ReleaseConfig, ConfigFromEnv
      <3> QED  BY <2>4, <3>1, <3>2 DEF CommandConfig
    <2> QED  BY <2>2, <2>3, <2>4
  <1> QED  BY <1>1 DEF ConfigOf, Config

-----------------------------------------------------------------------------
(* The shape of the state *)

LEMMA InitScheduler == Init => SchedulerInv
  <1> SUFFICES ASSUME Init PROVE SchedulerInv
    OBVIOUS
  <1> USE SchedulerAssumption, Numbers DEF Init
  <1>1. Shape
    <2>1. run \in [Jobs -> RunStages] /\ took \in [Jobs -> 0..RunMax]
      BY DEF RunStages
    <2>2. files \subseteq Artifact
      OBVIOUS
    <2>3. phase \in 0..(Interval - 1) /\ running \in Triggers \union {None}
      OBVIOUS
    <2>4. /\ main \in {"down", "housekeeping", "running", "listing", "stale", "serving"}
          /\ due \in BOOLEAN /\ armed \in BOOLEAN /\ clean \in BOOLEAN
      BY Zenon
    <2> QED  BY <2>1, <2>2, <2>3, <2>4, Zenon DEF Shape
  <1>2. CronRuns /\ FailuresAreTold /\ Recent /\ HeartbeatIsBacked
    BY DEF CronRuns, FailuresAreTold, Recent, HeartbeatIsBacked, Jobs, Triggers
  <1>3. OneRunAtATime
    BY DEF OneRunAtATime, Jobs, Triggers
  <1> QED  BY <1>1, <1>2, <1>3 DEF SchedulerInv

\* What a run that ends, or fails, leaves in the directory: what was there, or a set
\* as old as the run.
LEMMA RunStores ==
    ASSUME Shape, NEW j \in Jobs, BackupSucceeds(j) \/ RunFails(j)
    PROVE  /\ files' \subseteq Artifact
           /\ files' = files \/ \E a \in Usable(files') : a <= RunMax
  <1>0. took[j] \in 0..RunMax /\ took[j] <= RunMax /\ files \in SUBSET Artifact
    BY Numbers DEF Shape
  <1> DEFINE here == Stored(files, took[j], "local")
  <1>1. here \in SUBSET Artifact /\ took[j] \in Usable(here)
    BY <1>0, StoredArtifacts, StoredUsable DEF Places
  <1> DEFINE there == Stored(here, took[j], "bucket")
  <1>2. there \in SUBSET Artifact /\ took[j] \in Usable(there)
    <2> HIDE DEF here
    <2> QED  BY <1>0, <1>1, StoredArtifacts, StoredUsable DEF Places
  <1>3. files' \in {files, here, there}
    BY DEF BackupSucceeds, RunFails
  <1> QED  BY <1>0, <1>1, <1>2, <1>3

\* A backup of the nightly directory that ends well has stored a set.
LEMMA NightlyRunStores ==
    ASSUME Shape, NEW j \in Jobs, BackupSucceeds(j), ConfigOf(j).dir # "release"
    PROVE  \E a \in Usable(files') : a <= RunMax
  <1>0. took[j] \in 0..RunMax /\ took[j] <= RunMax /\ files \in SUBSET Artifact
    BY Numbers DEF Shape
  <1> DEFINE here == Stored(files, took[j], "local")
  <1>1. took[j] \in Usable(here)
    BY <1>0, StoredUsable DEF Places
  <1> DEFINE there == Stored(here, took[j], "bucket")
  <1>2. took[j] \in Usable(there)
    <2> HIDE DEF here
    <2> QED  BY <1>0, <1>1, StoredUsable DEF Places
  <1>3. files' \in {here, there}
    BY DEF BackupSucceeds
  <1> QED  BY <1>0, <1>1, <1>2, <1>3

LEMMA ScheduledRunStores ==
    ASSUME Shape, NEW j \in Triggers, BackupSucceeds(j)
    PROVE  \E a \in Usable(files') : a <= RunMax
  <1>1. j \in Jobs /\ ConfigOf(j).dir # "release"
    BY NightlyConfig DEF ConfigOf, Triggers, Jobs
  <1> QED  BY <1>1, NightlyRunStores

LEMMA RunShape ==
    ASSUME Shape, NEW j \in Jobs, Run(j)
    PROVE  Shape'
  <1> USE DEF Shape, RunStages, stopVars, storeVars, cronVars
  <1>1. CASE TakeLock(j)
    BY <1>1 DEF TakeLock
  <1>2. CASE BackupSucceeds(j)
    <2>1. files' \subseteq Artifact
      BY <1>2, RunStores
    <2>2. /\ run' = [run EXCEPT ![j] = "none"] /\ took' = [took EXCEPT ![j] = 0]
          /\ running' \in {running, None} /\ main' \in {main, "serving"}
      BY <1>2 DEF BackupSucceeds, Gone, HandEnds, Ends
    <2>3. UNCHANGED <<phase, due, armed, clean>>
      BY <1>2 DEF BackupSucceeds
    <2> QED  BY <2>1, <2>2, <2>3, Numbers
  <1>3. CASE RunFails(j)
    <2>1. files' \subseteq Artifact
      BY <1>3, RunStores
    <2>2. /\ \/ run' = [run EXCEPT ![j] = "none"] /\ took' = [took EXCEPT ![j] = 0]
             \/ run' = [run EXCEPT ![j] = "report"] /\ took' = took
          /\ UNCHANGED <<running, main>> /\ (clean' = clean \/ clean' = FALSE)
      BY <1>3 DEF RunFails, HandEnds
    <2>3. UNCHANGED <<phase, due, armed>>
      BY <1>3 DEF RunFails
    <2>4. run' \in [Jobs -> RunStages] /\ took' \in [Jobs -> 0..RunMax]
      BY <2>2, Numbers
    <2>5. clean' \in BOOLEAN
      BY <2>2
    <2> QED  BY <2>1, <2>2, <2>3, <2>4, <2>5
  <1>4. CASE FailureReported(j)
    BY <1>4, Numbers DEF FailureReported, Ends
  <1> QED  BY <1>1, <1>2, <1>3, <1>4 DEF Run

LEMMA NextShape ==
    ASSUME Shape, [Next]_vars
    PROVE  Shape'
  <1>0. "hand" \in Jobs /\ Triggers \subseteq Jobs /\ 0 \in 0..RunMax
    BY Numbers DEF Jobs
  <1>1. ASSUME NEW j \in Jobs, Run(j) PROVE Shape'
    BY <1>1, RunShape
  <1> USE <1>0 DEF Shape, RunStages, stopVars, storeVars, cronVars, runVars
  <1>2. CASE RunByHand
    BY <1>2 DEF RunByHand, Enters
  <1>3. CASE RestoreEnds
    BY <1>3 DEF RestoreEnds, HandEnds
  <1>4. CASE Boot \/ ListSets
    BY <1>4 DEF Boot, ListSets
  <1>5. CASE HousekeepingDone
    BY <1>5 DEF HousekeepingDone, RunOnce, Enters, Triggers
  <1>6. CASE CatchUp
    BY <1>6 DEF CatchUp, RunOnce, Enters, Triggers
  <1>7. CASE CronFires
    BY <1>7 DEF CronFires, RunOnce, Enters, Triggers
  <1>8. ASSUME NEW s \in Signals, Stop(s) PROVE Shape'
    BY <1>8 DEF Stop
  <1>9. CASE Dies
    BY <1>9 DEF Dies
  <1>10. CASE Pass
    <2>1. files' \subseteq Artifact
      BY <1>10, OlderArtifacts DEF Pass
    <2>2. took' \in [Jobs -> 0..RunMax]
      <3>1. \A j \in Jobs : took[j] < RunMax => took[j] + 1 \in 0..RunMax
        BY Numbers
      <3> QED  BY <1>10, <3>1 DEF Pass
    <2>3. phase' \in 0..(Interval - 1)
      BY <1>10, PhaseWraps, Numbers DEF Pass
    <2>4. due' \in BOOLEAN
      BY <1>10 DEF Pass
    <2>5. UNCHANGED <<main, running, run, armed, clean>>
      BY <1>10 DEF Pass
    <2> QED  BY <2>1, <2>2, <2>3, <2>4, <2>5
  <1>11. CASE UNCHANGED vars
    BY <1>11 DEF vars
  <1> QED  BY <1>1, <1>2, <1>3, <1>4, <1>5, <1>6, <1>7, <1>8, <1>9, <1>10, <1>11
              DEF Next, Starting, Exit, Killed

-----------------------------------------------------------------------------
(* One run at a time *)

LEMMA NextGuard ==
    ASSUME Shape, CronRuns, OneRunAtATime, FailuresAreTold, [Next]_vars
    PROVE  CronRuns' /\ OneRunAtATime' /\ FailuresAreTold'
  <1>0. /\ "hand" \in Jobs /\ Triggers \subseteq Jobs /\ "hand" \notin Triggers
        /\ None \notin Jobs /\ None # "none"
        /\ run \in [Jobs -> RunStages]
        /\ Jobs = Triggers \union {"hand"}
        /\ "tick" \in Triggers /\ "start" \in Triggers /\ "catch-up" \in Triggers
    BY Numbers DEF Jobs, Shape, Triggers
  <1> USE <1>0 DEF CronRuns, OneRunAtATime, FailuresAreTold, stopVars, storeVars, cronVars, runVars
  <1>1. ASSUME NEW j \in Jobs, TakeLock(j)
        PROVE CronRuns' /\ OneRunAtATime' /\ FailuresAreTold'
    BY <1>1 DEF TakeLock
  <1>2. ASSUME NEW j \in Jobs, BackupSucceeds(j)
        PROVE CronRuns' /\ OneRunAtATime' /\ FailuresAreTold'
    <2>1. CASE j = "hand"
      BY <1>2, <2>1 DEF BackupSucceeds, Gone, HandEnds
    <2>2. CASE j \in Triggers
      <3>1. run[j] = "work" /\ running = j
        BY <1>2, <2>2 DEF BackupSucceeds
      <3>2. /\ run' = [run EXCEPT ![j] = "none"] /\ running' = None
            /\ main' \in {main, "serving"} /\ UNCHANGED <<armed, caught, clean>>
        BY <1>2, <2>2 DEF BackupSucceeds, Gone, Ends
      <3> QED  BY <2>2, <3>1, <3>2
    <2> QED  BY <2>1, <2>2
  <1>3. ASSUME NEW j \in Jobs, RunFails(j)
        PROVE CronRuns' /\ OneRunAtATime' /\ FailuresAreTold'
    <2>1. CASE j = "hand"
      BY <1>3, <2>1 DEF RunFails, HandEnds
    <2>2. CASE j \in Triggers
      <3>1. run[j] \in {"lock", "work"} /\ run[j] # "none"
        BY <1>3 DEF RunFails, LockRefused
      <3>2. /\ run' = [run EXCEPT ![j] = "report"] /\ running' = running
            /\ clean' = FALSE /\ UNCHANGED <<main, armed, caught>>
        BY <1>3, <2>2 DEF RunFails
      <3> QED  BY <2>2, <3>1, <3>2
    <2> QED  BY <2>1, <2>2
  <1>4. ASSUME NEW j \in Jobs, FailureReported(j)
        PROVE CronRuns' /\ OneRunAtATime' /\ FailuresAreTold'
    <2>1. j \in Triggers /\ run[j] # "none" /\ running = j
      BY <1>4 DEF FailureReported
    <2>2. /\ run' = [run EXCEPT ![j] = "none"] /\ running' = None
          /\ main' \in {main, "serving"} /\ UNCHANGED <<armed, caught, clean>>
      BY <1>4 DEF FailureReported, Ends
    <2> QED  BY <2>1, <2>2
  <1>5. CASE RunByHand
    BY <1>5 DEF RunByHand, Enters
  <1>6. CASE RestoreEnds
    BY <1>6 DEF RestoreEnds, HandEnds
  <1>7. CASE Boot \/ ListSets
    BY <1>7 DEF Boot, ListSets
  <1>8. ASSUME NEW j \in Triggers, RunOnce(j), UNCHANGED <<armed, caught, clean>>,
               main # "down", main' # "down"
        PROVE  CronRuns' /\ OneRunAtATime' /\ FailuresAreTold'
    BY <1>8 DEF RunOnce, Enters
  <1>9. CASE HousekeepingDone
    <2>1. CASE Config.runOnStart
      BY <1>8, <1>9, <2>1 DEF HousekeepingDone
    <2>2. CASE ~Config.runOnStart
      BY <1>9, <2>2 DEF HousekeepingDone
    <2> QED  BY <2>1, <2>2
  <1>10. CASE CatchUp
    BY <1>8, <1>10 DEF CatchUp
  <1>11. CASE CronFires
    <2>1. RunOnce("tick") /\ UNCHANGED <<main, armed, caught, clean>>
      BY <1>11 DEF CronFires
    <2>2. CASE main # "down"
      BY <1>8, <2>1, <2>2
    <2>3. CASE main = "down"
      BY <1>11, <2>1, <2>3 DEF CronFires, RunOnce, Enters
    <2> QED  BY <2>2, <2>3
  <1>12. ASSUME NEW s \in Signals, Stop(s)
         PROVE CronRuns' /\ OneRunAtATime' /\ FailuresAreTold'
    BY <1>12 DEF Stop
  <1>13. CASE Dies
    BY <1>13 DEF Dies
  <1>14. CASE Pass \/ UNCHANGED vars
    BY <1>14 DEF Pass, vars
  <1> QED  BY <1>1, <1>2, <1>3, <1>4, <1>5, <1>6, <1>7, <1>9, <1>10, <1>11, <1>12, <1>13,
              <1>14 DEF Next, Run, Starting, Exit, Killed

-----------------------------------------------------------------------------
(* The newest set, and the heartbeat *)

\* A set as old as a run is young enough at any phase.
LEMMA YoungEnough ==
    ASSUME Shape, NEW fs, \E a \in Usable(fs) : a <= RunMax
    PROVE  \E a \in Usable(fs) : a <= Interval + phase
  <1>1. PICK a \in Usable(fs) : a <= RunMax
    OBVIOUS
  <1>2. a \in Int /\ phase \in Nat
    BY Numbers DEF Usable, CompleteAges, Ages, Shape
  <1>3. a <= Interval + phase
    BY <1>1, <1>2, Numbers
  <1> QED  BY <1>1, <1>3

\* A step that changes nothing the claim is about.
LEMMA SameRecent ==
    ASSUME Shape, Recent, UNCHANGED <<env, main, running, phase, due, caught>>,
           clean' = clean \/ clean' = FALSE,
           files' = files \/ \E a \in Usable(files') : a <= RunMax
    PROVE  Recent'
  <1>1. Config' = Config
    BY DEF Config
  <1>2. CASE files' = files
    BY <1>1, <1>2 DEF Recent
  <1>3. CASE \E a \in Usable(files') : a <= RunMax
    BY <1>3, YoungEnough DEF Recent
  <1> QED  BY <1>2, <1>3

LEMMA NextRecent ==
    ASSUME SchedulerInv, [Next]_vars
    PROVE  Recent'
  <1>0. /\ Shape /\ CronRuns /\ OneRunAtATime /\ FailuresAreTold /\ Recent
        /\ "hand" \notin Triggers /\ Jobs = Triggers \union {"hand"} /\ None \notin Triggers
    BY Numbers DEF SchedulerInv, Triggers, Jobs
  <1> USE <1>0 DEF stopVars, storeVars, cronVars, runVars
  <1>1. ASSUME NEW j \in Jobs, TakeLock(j) PROVE Recent'
    BY <1>1, SameRecent DEF TakeLock
  <1>2. ASSUME NEW j \in Jobs, BackupSucceeds(j) PROVE Recent'
    <2>1. CASE j = "hand"
      <3>1. files' = files \/ \E a \in Usable(files') : a <= RunMax
        BY <1>2, RunStores
      <3>2. UNCHANGED <<env, main, running, phase, due, caught, clean>>
        BY <1>2, <2>1 DEF BackupSucceeds, Gone, HandEnds
      <3> QED  BY <3>1, <3>2, SameRecent
    <2>2. CASE j \in Triggers
      <3>1. \E a \in Usable(files') : a <= RunMax
        BY <1>2, <2>2, ScheduledRunStores
      <3>2. phase' = phase
        BY <1>2 DEF BackupSucceeds
      <3> QED  BY <3>1, <3>2, YoungEnough DEF Recent
    <2> QED  BY <2>1, <2>2
  <1>3. ASSUME NEW j \in Jobs, RunFails(j) PROVE Recent'
    <2>1. files' = files \/ \E a \in Usable(files') : a <= RunMax
      BY <1>3, RunStores
    <2>2. UNCHANGED <<env, main, running, phase, due, caught>> /\ (clean' = clean \/ clean' = FALSE)
      BY <1>3 DEF RunFails, HandEnds
    <2> QED  BY <2>1, <2>2, SameRecent
  <1>4. ASSUME NEW j \in Jobs, FailureReported(j) PROVE Recent'
    <2>1. j \in Triggers /\ ~clean /\ clean' = clean
      BY <1>4 DEF FailureReported, FailuresAreTold
    <2> QED  BY <2>1 DEF Recent
  <1>5. CASE RunByHand
    BY <1>5, SameRecent DEF RunByHand, Enters
  <1>6. CASE RestoreEnds
    BY <1>6, SameRecent DEF RestoreEnds, HandEnds
  <1>7. CASE Boot
    BY <1>7 DEF Boot, Recent
  <1>8. CASE ListSets
    <2>1. Config' = Config /\ UNCHANGED <<files, phase>>
      BY <1>8 DEF ListSets, Config
    <2>2. CASE FreshWithin(files, CatchUpLimit)
      <3>1. PICK a \in Usable(files) : a <= Interval
        BY <2>2, Numbers DEF FreshWithin, CatchUpLimit
      <3>2. a \in Int /\ phase \in Nat
        BY Numbers DEF Usable, CompleteAges, Ages, Shape
      <3>3. a <= Interval + phase
        BY <3>1, <3>2, Numbers
      <3> QED  BY <2>1, <3>1, <3>3 DEF Recent
    <2>3. CASE ~FreshWithin(files, CatchUpLimit)
      BY <1>8, <2>3 DEF ListSets, Recent
    <2> QED  BY <2>2, <2>3
  \* A start that is over with a run under way claims nothing yet.
  <1>9. CASE HousekeepingDone
    <2>1. Config' = Config
      BY <1>9 DEF HousekeepingDone, Config
    <2>2. CASE Config.runOnStart
      BY <1>9, <2>2 DEF HousekeepingDone, RunOnce, Enters, Recent
    <2>3. CASE ~Config.runOnStart
      BY <1>9, <2>1, <2>3 DEF HousekeepingDone, Recent
    <2> QED  BY <2>2, <2>3
  <1>10. CASE CatchUp
    BY <1>10 DEF CatchUp, RunOnce, Enters, Recent
  <1>11. CASE CronFires
    <2>1. running' # None
      BY <1>11 DEF CronFires, RunOnce, Enters, Triggers
    <2> QED  BY <2>1 DEF Recent
  <1>12. ASSUME NEW s \in Signals, Stop(s) PROVE Recent'
    BY <1>12 DEF Stop, Recent
  <1>13. CASE Dies
    BY <1>13 DEF Dies, Recent
  <1>14. CASE Pass
    <2>1. /\ Config' = Config /\ UNCHANGED <<main, running, caught, clean, armed>> /\ ~due
          /\ files' = {[f EXCEPT !.age = Older(f.age)] : f \in files}
          /\ phase' = (phase + 1) % Interval /\ due' = (armed /\ phase' = 0)
      BY <1>14 DEF Pass, Config
    <2> SUFFICES ASSUME /\ main = "serving" /\ clean /\ (Config.catchUp \/ Config.runOnStart)
                        /\ caught = {} /\ ~due' /\ running = None
                 PROVE  \E a \in Usable(files') : a <= Interval + phase'
      BY <2>1 DEF Recent
    <2>2. armed /\ phase' # 0
      BY <2>1 DEF CronRuns
    <2>3. phase' = phase + 1 /\ phase + 1 < Interval /\ phase \in Nat
      BY <2>1, <2>2, PhaseWraps, Numbers DEF Shape
    <2>4. PICK a \in Usable(files) : a <= Interval + phase
      BY <2>1 DEF Recent
    <2>5. a \in Int /\ a < Cap
      <3>1. a \in Int
        BY Numbers DEF Usable, CompleteAges, Ages
      <3> QED  BY <2>3, <2>4, <3>1, Numbers
    <2>6. a + 1 \in Usable(files')
      BY <2>1, <2>5, OlderUsable DEF Shape
    <2>7. a + 1 <= Interval + phase'
      BY <2>3, <2>4, <2>5, Numbers
    <2> QED  BY <2>6, <2>7
  <1>15. CASE UNCHANGED vars
    BY <1>15, SameRecent DEF vars
  <1> QED  BY <1>1, <1>2, <1>3, <1>4, <1>5, <1>6, <1>7, <1>8, <1>9, <1>10, <1>11, <1>12,
              <1>13, <1>14, <1>15 DEF Next, Run, Starting, Exit, Killed

LEMMA NextHeartbeat ==
    ASSUME SchedulerInv, [Next]_vars
    PROVE  HeartbeatIsBacked'
  <1>0. Shape /\ HeartbeatIsBacked
    BY DEF SchedulerInv
  <1> USE <1>0 DEF stopVars, storeVars, cronVars, runVars
  <1>1. ASSUME NEW j \in Jobs, BackupSucceeds(j) PROVE HeartbeatIsBacked'
    <2>1. files' = files \/ \E a \in Usable(files') : a <= RunMax
      BY <1>1, RunStores
    <2>2. CASE pinged' = pinged
      BY <2>1, <2>2 DEF HeartbeatIsBacked
    <2>3. CASE ConfigOf(j).heartbeat
      <3>1. ConfigOf(j).dir # "release"
        BY <2>3, ReleaseIsQuiet
      <3>2. \E a \in Usable(files') : a <= RunMax
        BY <1>1, <3>1, NightlyRunStores
      <3> QED  BY <3>2 DEF HeartbeatIsBacked
    <2> QED  BY <1>1, <2>2, <2>3 DEF BackupSucceeds
  <1>2. ASSUME NEW j \in Jobs, RunFails(j) PROVE HeartbeatIsBacked'
    <2>1. files' = files \/ \E a \in Usable(files') : a <= RunMax
      BY <1>2, RunStores
    <2>2. pinged' = pinged
      BY <1>2 DEF RunFails
    <2> QED  BY <2>1, <2>2 DEF HeartbeatIsBacked
  <1>3. CASE Pass
    BY <1>3 DEF Pass, HeartbeatIsBacked
  <1>4. CASE UNCHANGED <<files, pinged>>
    BY <1>4 DEF HeartbeatIsBacked
  <1>5. \/ \E j \in Jobs : BackupSucceeds(j) \/ RunFails(j)
        \/ Pass \/ UNCHANGED <<files, pinged>>
    BY DEF Next, Run, TakeLock, FailureReported, RunByHand, RestoreEnds, Starting, Boot,
           HousekeepingDone, ListSets, CatchUp, CronFires, Stop, Exit, Killed, Dies, vars
  <1> QED  BY <1>1, <1>2, <1>3, <1>4, <1>5

LEMMA NextScheduler == SchedulerInv /\ [Next]_vars => SchedulerInv'
  BY NextShape, NextGuard, NextRecent, NextHeartbeat DEF SchedulerInv

LEMMA SchedulerHolds == Spec => []SchedulerInv
  BY InitScheduler, NextScheduler, PTL DEF Spec

-----------------------------------------------------------------------------
(* Types *)

LEMMA ConfigIsTyped ==
    ASSUME env \in Environments
    PROVE  Config \in ConfigType
  <1>1. \A item \in Items : Pick(env, item) \in Prefixes \union {NoBucket}
    BY DEF Pick, Prefixes
  <1>2. S3Target(env) \in [bucket : Prefixes \union {NoBucket}, key : Prefixes \union {NoBucket},
                           secret : Prefixes \union {NoBucket}]
    BY <1>1 DEF S3Target, Items
  <1>3. Uploads(env) \in {"s3", "directory", "none"}
    BY DEF Uploads
  <1> DEFINE beats == "BACKUP_HEARTBEAT_URL" \in env.given
             onStart == "BACKUP_ON_START" \in env.on
             catchesUp == "BACKUP_CATCHUP" \notin env.given \/ "BACKUP_CATCHUP" \in env.on
  <1>4. beats \in BOOLEAN /\ onStart \in BOOLEAN /\ catchesUp \in BOOLEAN
    <2>1. beats \in BOOLEAN
      OBVIOUS
    <2>2. onStart \in BOOLEAN
      OBVIOUS
    <2>3. catchesUp \in BOOLEAN
      OBVIOUS
    <2> QED  BY <2>1, <2>2, <2>3
  <1>5. Config = [dir |-> "nightly", retention |-> "days", s3 |-> S3Target(env),
                  heartbeat |-> beats, uploads |-> Uploads(env), runOnStart |-> onStart,
                  catchUp |-> catchesUp, maxAge |-> MaxAge, ceiling |-> "command",
                  waits |-> TRUE]
    BY DEF Config, CommandConfig, ConfigFromEnv
  <1> HIDE DEF beats, onStart, catchesUp
  <1> QED  BY <1>2, <1>3, <1>4, <1>5 DEF ConfigType

\* What Shape leaves open: who holds the lock, what runs by hand, and what a stop has done.
Rest ==
    /\ env \in Environments /\ byHand \in Argv \union {None} /\ lock \in Jobs \union {None}
    /\ pinged \in BOOLEAN /\ finished \in BOOLEAN
    /\ caught \subseteq Signals /\ waits \subseteq Triggers
    /\ main = "down" => caught = {}
    /\ run["hand"] = "none" <=> byHand = None

LEMMA InitRest == Init => Rest
  BY SchedulerAssumption, Numbers DEF Init, Rest, Jobs

LEMMA RunRest ==
    ASSUME SchedulerInv, Rest, NEW j \in Jobs, Run(j)
    PROVE  Rest'
  <1>0. /\ "hand" \in Jobs /\ run \in [Jobs -> RunStages]
        /\ j = "hand" \/ (j \in Triggers /\ j # "hand")
        /\ main = "down" => \A t \in Triggers : run[t] = "none"
    BY Numbers DEF SchedulerInv, Shape, CronRuns, OneRunAtATime, Jobs, Triggers
  <1> USE <1>0 DEF Rest, stopVars, storeVars, cronVars
  <1>1. CASE TakeLock(j)
    BY <1>1 DEF TakeLock
  <1>2. ASSUME run'[j] = "none", run' = [run EXCEPT ![j] = "none"], run[j] # "none",
               (Ends(j) /\ UNCHANGED byHand /\ j # "hand") \/ (HandEnds /\ j = "hand"),
               lock' \in {lock, None}, pinged' \in {pinged, TRUE}, env' = env
        PROVE  Rest'
    <2>1. CASE Ends(j) /\ UNCHANGED byHand /\ j # "hand"
      BY <1>2, <2>1 DEF Ends
    <2>2. CASE HandEnds /\ j = "hand"
      BY <1>2, <2>2 DEF HandEnds
    <2> QED  BY <1>2, <2>1, <2>2
  <1>3. CASE BackupSucceeds(j)
    BY <1>2, <1>3 DEF BackupSucceeds, Gone, Ends, HandEnds
  <1>4. CASE RunFails(j)
    <2>1. CASE j = "hand"
      BY <1>2, <1>4, <2>1 DEF RunFails, HandEnds, LockRefused
    <2>2. CASE j # "hand"
      BY <1>4, <2>2 DEF RunFails
    <2> QED  BY <2>1, <2>2
  <1>5. CASE FailureReported(j)
    <2>1. j # "hand"
      BY <1>5 DEF FailureReported, SchedulerInv, FailuresAreTold
    <2> QED  BY <1>2, <1>5, <2>1 DEF FailureReported, Ends
  <1> QED  BY <1>1, <1>3, <1>4, <1>5 DEF Run

LEMMA NextRest ==
    ASSUME SchedulerInv, Rest, [Next]_vars
    PROVE  Rest'
  <1>0. /\ "hand" \in Jobs /\ run \in [Jobs -> RunStages] /\ "hand" \notin Triggers
        /\ running \in Triggers \union {None} /\ None \notin Hand /\ Hand \subseteq Argv
        /\ Triggers = {"tick", "start", "catch-up"} /\ None \notin Jobs
    BY SchedulerAssumption, Numbers DEF SchedulerInv, Shape, Jobs, Triggers
  <1>1. ASSUME NEW j \in Jobs, Run(j) PROVE Rest'
    BY <1>1, RunRest
  <1> USE <1>0 DEF Rest, stopVars, storeVars, cronVars, runVars
  <1>2. CASE RunByHand
    BY <1>2 DEF RunByHand, Enters
  <1>3. CASE RestoreEnds
    BY <1>3 DEF RestoreEnds, HandEnds
  <1>4. CASE Boot \/ ListSets
    BY <1>4 DEF Boot, ListSets
  <1>5. CASE HousekeepingDone
    BY <1>5 DEF HousekeepingDone, RunOnce, Enters
  <1>6. CASE CatchUp
    BY <1>6 DEF CatchUp, RunOnce, Enters
  <1>7. CASE CronFires
    BY <1>7 DEF CronFires, RunOnce, Enters
  <1>8. ASSUME NEW s \in Signals, Stop(s) PROVE Rest'
    BY <1>8 DEF Stop
  <1>9. CASE Dies
    BY <1>9 DEF Dies
  <1>10. CASE Pass
    BY <1>10 DEF Pass
  <1>11. CASE UNCHANGED vars
    BY <1>11 DEF vars
  <1> QED  BY <1>1, <1>2, <1>3, <1>4, <1>5, <1>6, <1>7, <1>8, <1>9, <1>10, <1>11
              DEF Next, Starting, Exit, Killed

-----------------------------------------------------------------------------
(* The theorems *)

\* Every variable keeps its type, whichever of its processes are up, and the scheduler
\* runs with a configuration that is whole.
THEOREM TypeCorrect == Spec => []TypeOK
  <1>1. SchedulerInv /\ Rest => TypeOK
    BY ConfigIsTyped DEF SchedulerInv, Shape, CronRuns, Rest, TypeOK
  <1>2. Init => Rest
    BY InitRest
  <1>3. SchedulerInv /\ Rest /\ [Next]_vars => Rest'
    BY NextRest
  <1> QED  BY <1>1, <1>2, <1>3, SchedulerHolds, PTL DEF Spec

\* The scheduler's process never has two runs under way, and its guard names the
\* one there is: whatever its start, its ticks, its failures and its signals do.
THEOREM GuardCorrect == Spec => []OneRunAtATime
  <1>1. SchedulerInv => OneRunAtATime
    BY DEF SchedulerInv
  <1> QED  BY <1>1, SchedulerHolds, PTL

\* While nothing fails and nobody stops it, a scheduler between its runs has a usable
\* set less than two intervals old, whatever it missed and whatever else is run.
THEOREM SetsStayRecent == Spec => []NewestSetIsRecent
  <1>1. SchedulerInv => NewestSetIsRecent
    <2> SUFFICES ASSUME Shape, NEW a \in Usable(files), a <= Interval + phase
                 PROVE  a < 2 * Interval
      BY DEF SchedulerInv, Recent, NewestSetIsRecent
    <2>1. a \in Int /\ phase \in Nat /\ phase < Interval
      BY Numbers DEF Usable, CompleteAges, Ages, Shape
    <2> QED  BY <2>1, Numbers
  <1> QED  BY <1>1, SchedulerHolds, PTL

\* A heartbeat that says ok never stands for less than a nightly set taken just now:
\* no release backup, no restore and no failed run sends one.
THEOREM HeartbeatsAreBacked == Spec => []HeartbeatIsBacked
  <1>1. SchedulerInv => HeartbeatIsBacked
    BY DEF SchedulerInv
  <1> QED  BY <1>1, SchedulerHolds, PTL
=============================================================================
