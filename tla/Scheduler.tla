------------------------------ MODULE Scheduler ------------------------------
(***************************************************************************)
(* The scheduler container of the backup tool (infra/backup/src/cli.ts,    *)
(* `schedule`) beside the commands somebody starts by hand or in a deploy. *)
(* It is one process with several activities: the cron job, the start      *)
(* sequence (housekeeping, then a run at start or a catch-up) and the      *)
(* signal handlers, which meet at every await.  What a run does inside is  *)
(* BackupStore's; here it waits for the lock, works and ends.              *)
(*                                                                         *)
(* Time is relative, so behaviours go on for ever: artifacts have ages, a  *)
(* negative one when the stamp lies in the future, and the cron expression *)
(* fires once every Interval units.                                        *)
(***************************************************************************)
EXTENDS BackupConfig, FiniteSets

CONSTANTS
    Interval,     \* scheduleIntervalMs
    RunMax,       \* the longest a run takes, waiting included; less than Interval
    Cap,          \* ages from here on are not told apart
    Ahead,        \* how far in the future a wrong clock has dated a set
    Histories,    \* what may be stored when the behaviour begins
    Envs,         \* the environments a process may start with
    Hand,         \* the command lines somebody may run beside the scheduler
    Signals,      \* the signals that are sent, of SIGTERM and SIGINT
    None

Triggers == {"tick", "start", "catch-up"}
Jobs     == Triggers \union {"hand"}
Ages     == -Ahead..Cap
Places   == {"local", "bucket"}
Artifact == [age : Ages, place : Places, kind : {"dump", "manifest"}]
Argv     == [command : {"backup", "restore", "list", "schedule", "help"},
             flags : SUBSET (RestoreFlags \union {"--max-age", "--no-max-age"}),
             odd : SUBSET RestoreFlags, names : Nat]

ASSUME SchedulerAssumption ==
    /\ {Interval, RunMax, Cap, Ahead, MaxAge} \subseteq Nat
    /\ RunMax < Interval /\ 2 * Interval < Cap /\ 1 <= Ahead
    /\ Histories \subseteq SUBSET Artifact
    /\ Envs \subseteq Environments
    /\ \E env \in Envs : ~ConfigError(env) /\ ~ScheduleRefused(env)
    /\ Hand \subseteq Argv
    /\ Signals \subseteq {"SIGTERM", "SIGINT"}
    /\ None \notin Jobs \union {"none"} /\ None \notin Hand /\ Forever \notin Nat

VARIABLES
    env,       \* the variables of .env
    main,      \* where `schedule` is
    running,   \* the guard of runOnce: the trigger it is taken for, or None
    run,       \* where each run is
    took,      \* how long a run has been under way
    byHand,    \* the command line run by hand, or None
    lock,      \* who holds the advisory lock, or None
    files,     \* the artifacts of the nightly sets
    pinged,    \* a heartbeat that says ok was sent at this time
    phase,     \* time since the last firing of the cron expression
    due,       \* the cron job has fired and its callback has not run yet
    armed,     \* the cron job is registered
    caught,    \* signals handled so far: `once`, the next one of a kind kills
    waits,     \* runs a stop waits for
    finished,  \* the promise `finished` is resolved
    clean      \* no run has failed since the process started

runVars  == <<running, run, took, lock>>
stopVars == <<caught, waits, finished>>
cronVars == <<phase, due, armed>>
storeVars == <<files, pinged>>
vars == <<env, main, runVars, byHand, storeVars, cronVars, stopVars, clean>>

-----------------------------------------------------------------------------
(* Sets and their ages: listBackups *)

Has(fs, age, place, kind) == [age |-> age, place |-> place, kind |-> kind] \in fs

\* Artifacts of different sources never combine to a complete set.
CompleteAges(fs) ==
    {a \in Ages : \E place \in Places :
                     Has(fs, a, place, "dump") /\ Has(fs, a, place, "manifest")}

\* A stamp in the future is no evidence that a backup happened.
Usable(fs) == {a \in CompleteAges(fs) : a >= 0}

FreshWithin(fs, limit) == \/ limit = Forever
                          \/ \E a \in Usable(fs) : a <= limit

Older(a) == IF a >= Cap THEN Cap ELSE a + 1

\* What a run leaves of the sets before it is retention's business; a later set in the
\* same place hides them from the listing, so they are forgotten.
SetOf(age, place) == {[age |-> age, place |-> place, kind |-> k] : k \in {"dump", "manifest"}}
Stored(fs, age, place) ==
    {f \in fs : f.place # place \/ f.age < 0} \union SetOf(age, place)

Init ==
    /\ env \in Envs /\ main = "down"
    /\ running = None /\ run = [j \in Jobs |-> "none"] /\ took = [j \in Jobs |-> 0]
    /\ byHand = None /\ lock = None
    /\ files \in Histories /\ pinged = FALSE
    /\ phase = 0 /\ due = FALSE /\ armed = FALSE
    /\ caught = {} /\ waits = {} /\ finished = FALSE /\ clean = TRUE

-----------------------------------------------------------------------------
(* Runs: runOnce and the part of runBackup other processes can see *)

Config == CommandConfig([command |-> "schedule", flags |-> {}], ConfigFromEnv(env))
ConfigOf(j) == IF j = "hand" THEN CommandConfig(byHand, ConfigFromEnv(env)) ELSE Config
Restoring(j) == j = "hand" /\ byHand.command = "restore"

Enters(j, guard) == /\ running' = guard
                    /\ run' = [run EXCEPT ![j] = "lock"]
                    /\ took' = [took EXCEPT ![j] = 0]

RunOnceUnguarded(j) == Enters(j, j)   \* wrong
\* runOnce: skipped while another run is under way.
RunOnce(j) == IF running = None THEN Enters(j, j)
                                ELSE UNCHANGED <<running, run, took>>

TakeLock(j) ==
    /\ run[j] = "lock" /\ lock = None
    /\ lock' = j /\ run' = [run EXCEPT ![j] = "work"]
    /\ UNCHANGED <<env, main, running, took, byHand, storeVars, cronVars, stopVars,
                   clean>>

\* The run is over: the guard is cleared, what waits for it goes on, and a stop that
\* waits for it resolves.
EndsLatched(j) ==   \* wrong: a run that ends with an error leaves the guard
    /\ run' = [run EXCEPT ![j] = "none"] /\ took' = [took EXCEPT ![j] = 0]
    /\ running' = IF run[j] = "report" THEN running ELSE None
    /\ main' = IF j # "tick" THEN "serving" ELSE main
    /\ finished' = (finished \/ j \in waits) /\ UNCHANGED <<caught, waits>>
Ends(j) ==
    /\ run' = [run EXCEPT ![j] = "none"] /\ took' = [took EXCEPT ![j] = 0]
    /\ running' = None
    /\ main' = IF j # "tick" THEN "serving" ELSE main
    /\ finished' = (finished \/ j \in waits) /\ UNCHANGED <<caught, waits>>

HandEnds == /\ run' = [run EXCEPT !["hand"] = "none"] /\ took' = [took EXCEPT !["hand"] = 0]
            /\ byHand' = None /\ UNCHANGED <<running, main, stopVars>>

Gone(j) == IF j = "hand" THEN HandEnds ELSE Ends(j) /\ UNCHANGED byHand

\* A set is in every place it belongs to; then the heartbeat, which may not arrive,
\* and the lock is given back.
BackupSucceeds(j) ==
    LET c == ConfigOf(j) IN
    /\ run[j] = "work" /\ ~Restoring(j)
    /\ files' = IF c.dir = "release" THEN files
                ELSE IF c.s3.bucket = NoBucket THEN Stored(files, took[j], "local")
                ELSE Stored(Stored(files, took[j], "local"), took[j], "bucket")
    /\ \/ c.heartbeat /\ pinged' = TRUE
       \/ UNCHANGED pinged
    /\ lock' = None
    /\ Gone(j)
    /\ UNCHANGED <<env, cronVars, clean>>

\* The lock is refused: at once without a wait, otherwise when the wait is over.
LockRefused(j) == run[j] = "lock" /\ lock # None

\* A run fails.  One that fails while it uploads leaves a complete set on this machine;
\* a scheduled one goes on to tell the monitor.
RunFails(j) ==
    LET c == ConfigOf(j) IN
    /\ \/ LockRefused(j) /\ UNCHANGED files
       \/ run[j] = "work" /\ ~Restoring(j)
            /\ files' \in {files} \union (IF c.dir = "nightly" /\ c.s3.bucket # NoBucket
                                          THEN {Stored(files, took[j], "local")} ELSE {})
    /\ lock' = IF lock = j THEN None ELSE lock
    /\ IF j = "hand" THEN HandEnds /\ UNCHANGED clean
       ELSE /\ run' = [run EXCEPT ![j] = "report"]
            /\ clean' = FALSE
            /\ UNCHANGED <<main, running, took, byHand, stopVars>>
    /\ UNCHANGED <<env, pinged, cronVars>>

\* sendFailureHeartbeat has answered, or its ten seconds are over.
FailureReported(j) ==
    /\ run[j] = "report"
    /\ Ends(j)
    /\ UNCHANGED <<env, lock, byHand, storeVars, cronVars, clean>>

-----------------------------------------------------------------------------
(* Commands run by hand or by a deploy: main *)

\* `backup`, `backup --release` and `restore`.  A release backup of an empty
\* database, a listing, help and a command line that is refused change nothing.
RunByHand ==
    \E argv \in Hand :
        /\ run["hand"] = "none" /\ ~UsageError(argv) /\ ~ConfigError(env)
        /\ argv.command \in {"backup", "restore"}
        /\ byHand' = argv
        \* Without a wait, and no restore has one, a held lock refuses the command.
        /\ \/ argv.command = "backup" /\ CommandConfig(argv, ConfigFromEnv(env)).waits
           \/ lock = None
        /\ Enters("hand", running)
        /\ UNCHANGED <<env, main, lock, storeVars, cronVars, stopVars, clean>>

\* A restore gives the lock back, or is refused it.
RestoreEnds ==
    /\ byHand # None /\ Restoring("hand")
    /\ run["hand"] = "work" \/ LockRefused("hand")
    /\ lock' = IF lock = "hand" THEN None ELSE lock
    /\ HandEnds
    /\ UNCHANGED <<env, storeVars, cronVars, clean>>

-----------------------------------------------------------------------------
(* The start of the scheduler *)

\* The configuration is read, the cron job registered and the signal handlers put in
\* place before anything is awaited.  A configuration that is refused ends the process.
Boot ==
    /\ main = "down" /\ ~ConfigError(env) /\ ~ScheduleRefused(env)
    /\ main' = "housekeeping" /\ armed' = TRUE /\ clean' = TRUE
    /\ UNCHANGED <<env, runVars, byHand, storeVars, phase, due, stopVars>>

HousekeepingDone ==
    /\ main = "housekeeping"
    /\ IF Config.runOnStart
       THEN RunOnce("start") /\ main' = IF running = None THEN "running" ELSE "serving"
       ELSE /\ main' = IF Config.catchUp THEN "listing" ELSE "serving"
            /\ UNCHANGED <<running, run, took>>
    /\ UNCHANGED <<env, lock, byHand, storeVars, cronVars, stopVars, clean>>

\* listBackups against one interval instead of BACKUP_MAX_AGE.
CatchUpLimitMaxAge == Config.maxAge   \* wrong
CatchUpLimit == Interval

ListSets ==
    /\ main = "listing"
    /\ \/ main' = (IF FreshWithin(files, CatchUpLimit) THEN "serving" ELSE "stale")
            /\ UNCHANGED clean
       \/ main' = "serving" /\ clean' = FALSE   \* the listing failed: no catch-up
    /\ UNCHANGED <<env, runVars, byHand, storeVars, cronVars, stopVars>>

\* What the listing saw decides; a tick may have started a run since.
CatchUp ==
    /\ main = "stale"
    /\ RunOnce("catch-up") /\ main' = IF running = None THEN "running" ELSE "serving"
    /\ UNCHANGED <<env, lock, byHand, storeVars, cronVars, stopVars, clean>>

CronFires ==
    /\ due /\ armed
    /\ due' = FALSE
    /\ RunOnce("tick")
    /\ UNCHANGED <<env, main, lock, byHand, storeVars, phase, armed, stopVars, clean>>

-----------------------------------------------------------------------------
(* Signals and the end of the process *)

StopKeepingJob(s) ==   \* wrong
    /\ main # "down" /\ s \notin caught
    /\ caught' = caught \union {s}
    /\ IF running = None THEN finished' = TRUE /\ UNCHANGED waits
                         ELSE waits' = waits \union {running} /\ UNCHANGED finished
    /\ UNCHANGED <<env, main, runVars, byHand, storeVars, cronVars, clean>>

\* The handler of a first SIGTERM or SIGINT: no further ticks, and wait for the run that
\* is under way now.  A run at start that comes later is awaited by `schedule` itself.
Stop(s) ==
    /\ main # "down" /\ s \notin caught
    /\ caught' = caught \union {s}
    /\ armed' = FALSE /\ due' = FALSE
    /\ IF running = None THEN finished' = TRUE /\ UNCHANGED waits
                         ELSE waits' = waits \union {running} /\ UNCHANGED finished
    /\ UNCHANGED <<env, main, runVars, byHand, storeVars, phase, clean>>

\* The process is gone, and its run and its lock's session with it.
Dies ==
    /\ main' = "down"
    /\ running' = None
    /\ run' = [j \in Jobs |-> IF j = "hand" THEN run[j] ELSE "none"]
    /\ took' = [j \in Jobs |-> IF j = "hand" THEN took[j] ELSE 0]
    /\ lock' = IF lock \in Triggers THEN None ELSE lock
    /\ due' = FALSE /\ armed' = FALSE
    /\ caught' = {} /\ waits' = {} /\ finished' = FALSE
    /\ UNCHANGED <<env, byHand, storeVars, phase, clean>>

\* `finished` is resolved, `schedule` returns it and nothing keeps the event loop.
Exit == /\ main = "serving" /\ finished
        /\ ~armed /\ \A j \in Triggers : run[j] = "none"
        /\ Dies

\* The end of the grace period, a second signal of a kind, an error in the housekeeping,
\* a reboot.
Killed == main # "down" /\ Dies

-----------------------------------------------------------------------------
PassUnbounded ==   \* wrong: no ceiling on what a run spawns
    /\ ~due
    /\ took' = [j \in Jobs |-> IF run[j] # "none" THEN took[j] + 1 ELSE took[j]]
    /\ phase' = (phase + 1) % Interval
    /\ due' = (armed /\ phase' = 0)
    /\ files' = {[f EXCEPT !.age = Older(f.age)] : f \in files}
    /\ pinged' = FALSE
    /\ UNCHANGED <<env, main, running, run, lock, byHand, armed, stopVars, clean>>

\* Time passes when the callback that is due has run and every run has time left.
Pass ==
    /\ ~due
    /\ \A j \in Jobs : run[j] # "none" => took[j] < RunMax
    /\ took' = [j \in Jobs |-> IF run[j] # "none" THEN took[j] + 1 ELSE took[j]]
    /\ phase' = (phase + 1) % Interval
    /\ due' = (armed /\ phase' = 0)
    /\ files' = {[f EXCEPT !.age = Older(f.age)] : f \in files}
    /\ pinged' = FALSE
    /\ UNCHANGED <<env, main, running, run, lock, byHand, armed, stopVars, clean>>

Run(j) == TakeLock(j) \/ BackupSucceeds(j) \/ RunFails(j) \/ FailureReported(j)

Starting == Boot \/ HousekeepingDone \/ ListSets \/ CatchUp

Next == \/ \E j \in Jobs : Run(j)
        \/ RunByHand \/ RestoreEnds
        \/ Starting
        \/ CronFires
        \/ \E s \in Signals : Stop(s)
        \/ Exit \/ Killed
        \/ Pass

Spec == Init /\ [][Next]_vars

\* Docker restarts the container, every await of the start is bounded, the spawned
\* commands have ceilings, and time goes on.  Nothing is assumed of signals, kills and
\* commands run by hand, except that they end.
Fairness ==
    /\ \A j \in Jobs : WF_vars(Run(j))
    /\ WF_vars(RestoreEnds) /\ WF_vars(Starting) /\ WF_vars(CronFires)
    /\ WF_vars(Exit) /\ WF_vars(Pass)

FairSpec == Spec /\ Fairness

-----------------------------------------------------------------------------
(* Properties *)

RunStages == {"none", "lock", "work", "report"}
ConfigType == [dir : {"nightly", "release"}, retention : {"days", "floor"},
               s3 : [bucket : Prefixes \union {NoBucket}, key : Prefixes \union {NoBucket},
                     secret : Prefixes \union {NoBucket}],
               heartbeat : BOOLEAN, uploads : {"s3", "directory", "none"},
               runOnStart : BOOLEAN, catchUp : BOOLEAN, maxAge : {MaxAge, Forever},
               ceiling : {"command", "release"}, waits : BOOLEAN]

\* The shape of the state, and which of it belongs to a process that is down.
TypeOK ==
    /\ env \in Environments /\ byHand \in Argv \union {None}
    /\ main \in {"down", "housekeeping", "running", "listing", "stale", "serving"}
    /\ running \in Triggers \union {None} /\ lock \in Jobs \union {None}
    /\ run \in [Jobs -> RunStages] /\ took \in [Jobs -> 0..RunMax]
    /\ files \subseteq Artifact
    /\ phase \in 0..(Interval - 1) /\ {pinged, due, armed, finished, clean} \subseteq BOOLEAN
    /\ caught \subseteq Signals /\ waits \subseteq Triggers
    /\ Config \in ConfigType
    /\ main = "down" => running = None /\ ~armed /\ caught = {}
    /\ run["hand"] = "none" <=> byHand = None

\* One run of this process at a time, and the guard names it: a tick during the start,
\* a catch-up decided on a listing that is out of date and a run that ends with an error
\* leave neither a second run nor a guard that is taken for nobody (runOnce).
OneRunAtATime == \A j \in Triggers : run[j] # "none" <=> running = j

\* "if the newest set is older than one whole interval, take one now": once a
\* scheduler has started and while nothing it ran has failed, between its runs the newest
\* usable set is always less than two intervals old, whatever the process missed
\* while it was down and whatever lies in the directory.
NewestSetIsRecent ==
    (/\ main = "serving" /\ clean /\ (Config.catchUp \/ Config.runOnStart)
     /\ caught = {} /\ ~due /\ running = None)
        => \E a \in Usable(files) : a < 2 * Interval

\* A heartbeat that says ok means that a nightly set was taken just now, whoever ran the
\* backup: a deploy's release backups must not keep the nightly monitor quiet (releaseConfig).
HeartbeatIsBacked == pinged => \E a \in Usable(files) : a <= RunMax

\* A process that has been told to stop ends, at whichever await the signal finds it.
StopEnds == caught # {} ~> main = "down"

\* While nobody stops the process a run is started again and again: the guard is not
\* left latched by a run that failed (the comment in runOnce).
RunsKeepComing ==
    <>[](main # "down" /\ caught = {}) => []<>(run["tick"] # "none")
=============================================================================
