------------------------------- MODULE Rollout -------------------------------
(***************************************************************************)
(* Rollouts on one host and their recovery: infra/scripts/deploy.sh,       *)
(* infra/demo/update.sh and reset.sh, the Deploy step of deploy.yml that   *)
(* runs the first two under one lock, and the journal of                   *)
(* deployment-recovery.py with recover and abandon.                        *)
(*                                                                         *)
(* A release is its commit and its images.  An operation that finds the    *)
(* host lock held, or that finds a journal it must refuse, ends with       *)
(* nothing changed: those are stuttering steps and no action stands for    *)
(* them.  flock gives the lock to one operation, and to the commands it    *)
(* leaves running when it is killed, so a killed operation is one that     *)
(* stops between two commands.  Only containers outlive it.                *)
(***************************************************************************)
EXTENDS Naturals, FiniteSets

CONSTANTS
    Kinds,       \* "stack", and "demo" on a host that runs the demo too
    Deploys,     \* deploy.sh by hand
    Updates,     \* infra/demo/update.sh by hand
    Workflows,        \* the Deploy workflow: the demo first, then production
    Recoveries,  \* recover-deployment.sh, in the checkout the journal records
    Resets,      \* infra/demo/reset.sh
    Releases,    \* releases that can be deployed
    First,       \* the release the host starts with
    Level,       \* release -> the schema its migrations lead to
    Ready,       \* releases whose API answers /readyz with 200, sooner or later
    Free,        \* nobody holds the host lock
    NoJournal    \* no deployment is pending

Ops   == Deploys \union Updates \union Workflows \union Recoveries \union Resets
Rolls == Deploys \union Updates \union Workflows

NoRelease == 0

ASSUME RolloutAssumption ==
    /\ "stack" \in Kinds /\ Kinds \subseteq {"stack", "demo"}
    /\ "demo" \in Kinds \/ Workflows \union Updates \union Resets = {}
    /\ Releases \subseteq Nat \ {NoRelease} /\ First \in Releases /\ Ready \subseteq Releases
    /\ Level \in [Releases \union {NoRelease} -> Nat] /\ Level[NoRelease] = 0
    /\ Free \notin Ops
    /\ Recoveries \intersect (Rolls \union Resets) = {} /\ Resets \intersect Rolls = {}
    /\ Workflows \intersect (Deploys \union Updates) = {} /\ Updates \intersect Deploys = {}

VARIABLES
    hostLock,  \* the operation that holds operations.lock
    command,   \* the command each operation runs next
    turn,      \* the checkout each operation works in
    target,    \* the release it is moving that checkout to
    checkout,  \* kind -> the commit checked out
    pin,       \* kind -> the release IMAGE_TAG names in .env
    api,       \* kind -> the API container: its release, state and the schema it met
    migrate,   \* kind -> the last migrate container
    schema,    \* kind -> migrations applied to the database
    saved,     \* the schema the newest release backup holds
    journal    \* the pending deployment

hostVars == <<api, migrate, schema, saved>>
rolloutVars == <<hostLock, command, turn, target, checkout, pin, hostVars, journal>>

-----------------------------------------------------------------------------
OpStages == {"idle", "checkout", "pin", "backup", "begin", "stop", "forward", "up", "wait",
             "ready", "complete", "revive", "probe", "drop"}

Container == [release : Releases \union {NoRelease},
              state : {"stopped", "running", "restarting"}, met : Nat]
Migration == [release : Releases \union {NoRelease}, state : {"running", "done", "failed"}]
Journal   == [kind : Kinds, phase : {"pre-replacement", "forward-only"},
              revision : Releases \union {NoRelease}, config : Releases \union {NoRelease},
              old : Releases \union {NoRelease}]

ASSUME NoJournalAssumption == NoJournal \notin Journal

\* A host that has been deployed to, or one before its first boot.
Installed == [release |-> First, state |-> "running", met |-> Level[First]]
Absent    == [release |-> NoRelease, state |-> "stopped", met |-> 0]

RolloutInit ==
    /\ hostLock = Free
    /\ command = [p \in Ops |-> "idle"]
    /\ turn = [p \in Ops |-> "stack"] /\ target = [p \in Ops |-> NoRelease]
    /\ api \in [Kinds -> {Installed, Absent}]
    /\ checkout = [k \in Kinds |-> api[k].release]
    /\ pin = [k \in Kinds |-> api[k].release]
    /\ migrate = [k \in Kinds |-> [release |-> api[k].release, state |-> "done"]]
    /\ schema = [k \in Kinds |-> api[k].met]
    /\ saved = 0
    /\ journal = NoJournal

Pending == journal # NoJournal
GoesTo(p, s) == command' = [command EXCEPT ![p] = s]

\* The operation is over, whichever way: the descriptor is closed, the lock free.
OpEnds(p) ==
    /\ GoesTo(p, "idle")
    /\ hostLock' = Free
    /\ turn' = [turn EXCEPT ![p] = "stack"]
    /\ target' = [target EXCEPT ![p] = NoRelease]

EntersUnlocked(p, k, r, s) ==   \* wrong: the host lock is not waited for
    /\ command[p] = "idle"
    /\ hostLock' = p
    /\ turn' = [turn EXCEPT ![p] = k]
    /\ target' = [target EXCEPT ![p] = r]
    /\ GoesTo(p, s)

BeginsWork(p, k, r, s) ==
    /\ hostLock = Free
    /\ command[p] = "idle"
    /\ hostLock' = p
    /\ turn' = [turn EXCEPT ![p] = k]
    /\ target' = [target EXCEPT ![p] = r]
    /\ GoesTo(p, s)

-----------------------------------------------------------------------------
(* deploy.sh and update.sh, up to the journal *)

AcquireAnyway(p) ==   \* wrong: the pending journal is not looked at
    /\ \E r \in Releases :
         BeginsWork(p, IF p \in Deploys THEN "stack" ELSE "demo", r, "checkout")
    /\ UNCHANGED <<checkout, pin, hostVars, journal>>

Acquire(p) ==
    /\ ~Pending
    /\ \E r \in Releases :
         BeginsWork(p, IF p \in Deploys THEN "stack" ELSE "demo", r, "checkout")
    /\ UNCHANGED <<checkout, pin, hostVars, journal>>

Checkout(p) ==
    /\ command[p] = "checkout"
    /\ checkout' = [checkout EXCEPT ![turn[p]] = target[p]]
    /\ GoesTo(p, "pin")
    /\ UNCHANGED <<hostLock, turn, target, pin, hostVars, journal>>

\* The pull and the pre-deploy hooks follow and change nothing here.
Pin(p) ==
    /\ command[p] = "pin"
    /\ pin' = [pin EXCEPT ![turn[p]] = target[p]]
    /\ GoesTo(p, IF turn[p] = "stack" THEN "backup" ELSE "begin")
    /\ UNCHANGED <<hostLock, turn, target, checkout, hostVars, journal>>

\* `backup --release`, or nothing with RELEASE_BACKUP=off.
ReleaseBackup(p) ==
    /\ command[p] = "backup"
    /\ saved' \in {saved, schema["stack"]}
    /\ GoesTo(p, "begin")
    /\ UNCHANGED <<hostLock, turn, target, checkout, pin, api, migrate, schema, journal>>

BeginRevivable(p) ==   \* wrong: pre-replacement even when no API runs
    /\ command[p] = "begin"
    /\ ~Pending
    /\ journal' = [kind |-> turn[p], phase |-> "pre-replacement",
                   revision |-> checkout[turn[p]], config |-> pin[turn[p]],
                   old |-> api[turn[p]].release]
    /\ GoesTo(p, "stop")
    /\ UNCHANGED <<hostLock, turn, target, checkout, pin, hostVars>>

\* Only a container whose status is running is recorded; one that restarts over
\* and over counts as no API to revive.
Begin(p) ==
    /\ command[p] = "begin"
    /\ ~Pending
    /\ LET k == turn[p]
           running == api[k].state = "running"
       IN journal' = [kind |-> k,
                      phase |-> IF running THEN "pre-replacement" ELSE "forward-only",
                      revision |-> checkout[k], config |-> pin[k],
                      old |-> IF running THEN api[k].release ELSE NoRelease]
    /\ GoesTo(p, "stop")
    /\ UNCHANGED <<hostLock, turn, target, checkout, pin, hostVars>>

-----------------------------------------------------------------------------
(* deployment-recovery.py *)

WithoutApi == journal.phase = "forward-only" /\ journal.old = NoRelease

\* validate_old_writers: the container is the one that was recorded.
OldWriterThere == api[journal.kind].release = journal.old

\* validate_target: checkout, revision and resolved configuration as recorded.
TargetMatches == /\ checkout[journal.kind] = journal.revision
                 /\ pin[journal.kind] = journal.config

StopContainer(k) == api' = [api EXCEPT ![k].state = "stopped"]

StopWriters(p) ==
    /\ command[p] = "stop" /\ Pending
    /\ \/ WithoutApi /\ UNCHANGED api
       \/ /\ journal.phase = "pre-replacement" /\ OldWriterThere
          /\ StopContainer(journal.kind)
    /\ GoesTo(p, "forward")
    /\ UNCHANGED <<hostLock, turn, target, checkout, pin, migrate, schema, saved, journal>>

ForwardUnsaved(p) ==   \* wrong: the phase is not persisted before Compose starts
    /\ command[p] = "forward" /\ Pending
    /\ GoesTo(p, "up")
    /\ UNCHANGED <<hostLock, turn, target, checkout, pin, hostVars, journal>>

Forward(p) ==
    /\ command[p] = "forward" /\ Pending
    /\ \/ WithoutApi /\ UNCHANGED journal
       \/ /\ journal.phase = "pre-replacement" /\ TargetMatches /\ OldWriterThere
          /\ api[journal.kind].state = "stopped"
          /\ journal' = [journal EXCEPT !.phase = "forward-only"]
    /\ GoesTo(p, "up")
    /\ UNCHANGED <<hostLock, turn, target, checkout, pin, hostVars>>

\* validate_candidate_writers and the second readiness check.
CandidateServes(k) ==
    api[k].state = "running" /\ api[k].release = pin[k] /\ api[k].release \in Ready

\* The job goes on with production once the demo is done.
Continues(p) ==
    IF p \in Workflows /\ turn[p] = "demo"
      THEN /\ turn' = [turn EXCEPT ![p] = "stack"] /\ GoesTo(p, "checkout")
           /\ UNCHANGED <<hostLock, target>>
      ELSE OpEnds(p)

CompleteEarly(p) ==   \* wrong: the journal is cleared without a look at the containers
    /\ command[p] \in {"wait", "complete"} /\ Pending
    /\ journal' = NoJournal
    /\ Continues(p)
    /\ UNCHANGED <<checkout, pin, hostVars>>

Complete(p) ==
    /\ command[p] = "complete" /\ Pending
    /\ journal.phase = "forward-only"
    /\ p \in Rolls => TargetMatches
    /\ CandidateServes(journal.kind)
    /\ journal' = NoJournal
    /\ Continues(p)
    /\ UNCHANGED <<checkout, pin, hostVars>>

-----------------------------------------------------------------------------
(* docker compose up -d --wait *)

\* Containers of another release are replaced, then migrate runs; the API waits
\* for it to complete.
Up(p) ==
    /\ command[p] = "up"
    /\ LET k == turn[p] IN
       /\ api' = [api EXCEPT ![k] = IF @.release = pin[k] THEN @
                    ELSE [release |-> pin[k], state |-> "stopped", met |-> 0]]
       /\ migrate' = [migrate EXCEPT ![k] = [release |-> pin[k], state |-> "running"]]
    /\ GoesTo(p, "wait")
    /\ UNCHANGED <<hostLock, turn, target, checkout, pin, schema, saved, journal>>

\* Every migration commits on its own; the container outlives the command that
\* started it.
MigrateOne(k) ==
    /\ migrate[k].state = "running"
    /\ schema[k] < Level[migrate[k].release]
    /\ schema' = [schema EXCEPT ![k] = @ + 1]
    /\ UNCHANGED <<hostLock, command, turn, target, checkout, pin, api, migrate, saved, journal>>

MigrateExits(k, s) ==
    /\ migrate[k].state = "running"
    /\ migrate' = [migrate EXCEPT ![k].state = s]
    /\ UNCHANGED <<hostLock, command, turn, target, checkout, pin, api, schema, saved, journal>>

Migrated(k)      == schema[k] >= Level[migrate[k].release] /\ MigrateExits(k, "done")
MigrateFails(k)  == MigrateExits(k, "failed")

StartApiAtOnce(p) ==   \* wrong: the API does not depend on migrate
    /\ command[p] = "wait"
    /\ api' = [api EXCEPT ![turn[p]].state = "running", ![turn[p]].met = schema[turn[p]]]
    /\ GoesTo(p, "ready")
    /\ UNCHANGED <<hostLock, turn, target, checkout, pin, migrate, schema, saved, journal>>

StartApi(p) ==
    /\ command[p] = "wait"
    /\ migrate[turn[p]].state = "done"
    /\ api' = [api EXCEPT ![turn[p]].state = "running", ![turn[p]].met = schema[turn[p]]]
    /\ GoesTo(p, "ready")
    /\ UNCHANGED <<hostLock, turn, target, checkout, pin, migrate, schema, saved, journal>>

\* Healthy, and /readyz answered; a reset has no journal to complete.
AnswersReady(p) ==
    /\ command[p] = "ready"
    /\ api[turn[p]].state = "running" /\ api[turn[p]].release \in Ready
    /\ IF p \in Resets THEN OpEnds(p)
       ELSE GoesTo(p, "complete") /\ UNCHANGED <<hostLock, turn, target>>
    /\ UNCHANGED <<checkout, pin, hostVars, journal>>

\* Any command fails, a wait runs out, the SSH session of the job is dropped.
Fails(p) ==
    /\ command[p] # "idle"
    /\ OpEnds(p)
    /\ UNCHANGED <<checkout, pin, hostVars, journal>>

-----------------------------------------------------------------------------
(* recover-deployment.sh *)

Recover(p) ==
    /\ Pending /\ TargetMatches
    /\ BeginsWork(p, journal.kind, journal.revision,
              IF journal.phase = "pre-replacement" THEN "revive" ELSE "up")
    /\ UNCHANGED <<checkout, pin, hostVars, journal>>

\* restore_pre: `docker start` of the recorded container unless it runs.
Revive(p) ==
    /\ command[p] = "revive" /\ Pending
    /\ journal.phase = "pre-replacement" /\ OldWriterThere
    /\ api' = [api EXCEPT ![journal.kind].state = IF @ = "stopped" THEN "running" ELSE @]
    /\ GoesTo(p, "probe")
    /\ UNCHANGED <<hostLock, turn, target, checkout, pin, migrate, schema, saved, journal>>

\* ready_container and ready; the old API runs again.
Probe(p) ==
    /\ command[p] = "probe" /\ Pending
    /\ api[journal.kind].state = "running" /\ api[journal.kind].release \in Ready
    /\ journal' = NoJournal
    /\ OpEnds(p)
    /\ UNCHANGED <<checkout, pin, hostVars>>

\* The operator confirms the revision; nothing is started or stopped.
Abandon(p) ==
    /\ hostLock = Free /\ command[p] = "idle"
    /\ Pending /\ journal.phase = "forward-only"
    /\ journal' = NoJournal
    /\ UNCHANGED <<hostLock, command, turn, target, checkout, pin, hostVars>>

-----------------------------------------------------------------------------
(* reset.sh *)

\* The running image and its revision must be those of the checkout.
Reset(p) ==
    /\ ~Pending
    /\ api["demo"].release # NoRelease
    /\ api["demo"].release = pin["demo"] /\ pin["demo"] = checkout["demo"]
    /\ BeginsWork(p, "demo", pin["demo"], "stop")
    /\ UNCHANGED <<checkout, pin, hostVars, journal>>

StopDemo(p) ==
    /\ command[p] = "stop"
    /\ StopContainer("demo")
    /\ GoesTo(p, "drop")
    /\ UNCHANGED <<hostLock, turn, target, checkout, pin, migrate, schema, saved, journal>>

\* DROP DATABASE ... WITH (FORCE) ends the session of a migrate container too.
DropDatabase(p) ==
    /\ command[p] = "drop"
    /\ schema' = [schema EXCEPT !["demo"] = 0]
    /\ migrate' = [migrate EXCEPT !["demo"].state = IF @ = "running" THEN "failed" ELSE @]
    /\ GoesTo(p, "up")
    /\ UNCHANGED <<hostLock, turn, target, checkout, pin, api, saved, journal>>

-----------------------------------------------------------------------------
(* What happens to the host *)

\* restart: unless-stopped, for an API that exits on its own.
ApiExits(k) ==
    /\ api[k].state = "running"
    /\ api' = [api EXCEPT ![k].state = "restarting"]
    /\ UNCHANGED <<hostLock, command, turn, target, checkout, pin, migrate, schema, saved, journal>>

ApiReturns(k) ==
    /\ api[k].state = "restarting"
    /\ api' = [api EXCEPT ![k].state = "running"]
    /\ UNCHANGED <<hostLock, command, turn, target, checkout, pin, migrate, schema, saved, journal>>

\* Stopped containers stay stopped, migrate is not restarted.
Reboot ==
    /\ hostLock' = Free
    /\ command' = [p \in Ops |-> "idle"]
    /\ turn' = [p \in Ops |-> "stack"] /\ target' = [p \in Ops |-> NoRelease]
    /\ api' = [k \in Kinds |-> IF api[k].state = "running"
                                 THEN [api[k] EXCEPT !.state = "restarting"] ELSE api[k]]
    /\ migrate' = [k \in Kinds |-> IF migrate[k].state = "running"
                                     THEN [migrate[k] EXCEPT !.state = "failed"] ELSE migrate[k]]
    /\ UNCHANGED <<checkout, pin, schema, saved, journal>>

\* A migration has damaged data: the operator stops the writers and restores the
\* release set, outside the host lock (infra/README.md), before anything else runs.
RestoreReleaseSet ==
    /\ hostLock = Free
    /\ Pending /\ journal.kind = "stack" /\ journal.phase = "forward-only"
    /\ migrate["stack"].state # "running"
    /\ StopContainer("stack")
    /\ schema' = [schema EXCEPT !["stack"] = saved]
    /\ UNCHANGED <<hostLock, command, turn, target, checkout, pin, migrate, saved, journal>>

-----------------------------------------------------------------------------
Compose(p) == Up(p) \/ StartApi(p) \/ AnswersReady(p)

RollOut(p) ==
    \/ Acquire(p) \/ Checkout(p) \/ Pin(p) \/ ReleaseBackup(p)
    \/ Begin(p) \/ StopWriters(p) \/ Forward(p)
    \/ Compose(p) \/ Complete(p)

RecoverIt(p) == Recover(p) \/ Revive(p) \/ Probe(p) \/ Compose(p) \/ Complete(p)

ResetDemo(p) == Reset(p) \/ StopDemo(p) \/ DropDatabase(p) \/ Compose(p)

Host(k) == MigrateOne(k) \/ Migrated(k) \/ MigrateFails(k) \/ ApiExits(k) \/ ApiReturns(k)

RolloutNext ==
    \/ \E p \in Rolls : RollOut(p)
    \/ \E p \in Recoveries : RecoverIt(p) \/ Abandon(p)
    \/ \E p \in Resets : ResetDemo(p)
    \/ \E p \in Ops : Fails(p)
    \/ \E k \in Kinds : Host(k)
    \/ Reboot
    \/ RestoreReleaseSet

RolloutSpec == RolloutInit /\ [][RolloutNext]_rolloutVars

\* What the code itself gives up on: migrate failed, or the API is never ready.
GivesUp(p) ==
    /\ \/ command[p] = "wait" /\ migrate[turn[p]].state = "failed"
       \/ command[p] \in {"ready", "complete", "probe"} /\ api[turn[p]].release \notin Ready
    /\ Fails(p)

Interrupted ==
    \/ Reboot
    \/ \E p \in Recoveries : Fails(p) /\ ~GivesUp(p)
    \/ \E k \in Kinds : MigrateFails(k) \/ ApiExits(k)

\* Someone runs recover until it passes, and from some moment on it is left alone;
\* every other operation ends, as its commands have ceilings.
RolloutFairness ==
    /\ <>[][~Interrupted]_rolloutVars
    /\ \A p \in Recoveries : WF_rolloutVars(RecoverIt(p)) /\ WF_rolloutVars(GivesUp(p))
    /\ \A k \in Kinds : /\ WF_rolloutVars(MigrateOne(k) \/ Migrated(k))
                       /\ WF_rolloutVars(ApiReturns(k))
    /\ \A p \in Rolls \union Resets : WF_rolloutVars(Fails(p))

FairRolloutSpec == RolloutSpec /\ RolloutFairness

\* And someone abandons what recover does not end.
AbandonSpec == FairRolloutSpec /\ \A p \in Recoveries : SF_rolloutVars(Abandon(p))

-----------------------------------------------------------------------------
(* Properties *)

\* The shape of the state, and that one operation at a time is past the lock.
RolloutTypeOK ==
    /\ hostLock \in Ops \union {Free}
    /\ command \in [Ops -> OpStages] /\ turn \in [Ops -> Kinds]
    /\ target \in [Ops -> Releases \union {NoRelease}]
    /\ checkout \in [Kinds -> Releases \union {NoRelease}]
    /\ pin \in [Kinds -> Releases \union {NoRelease}]
    /\ api \in [Kinds -> Container] /\ migrate \in [Kinds -> Migration]
    /\ schema \in [Kinds -> Nat] /\ saved \in Nat
    /\ journal \in Journal \union {NoJournal}
    /\ \A p \in Ops : command[p] # "idle" <=> hostLock = p

\* The API of kind k and the database agree: its own migrations are applied, and
\* none that it has not met when it was started.
Fits(k) ==
    /\ Level[api[k].release] <= schema[k]
    /\ schema[k] <= api[k].met \/ schema[k] <= Level[api[k].release]

\* "Recovery never revives code that may no longer match the database schema"
\* (deploy.sh), and nothing else does either: whichever operations were cut short,
\* recovered, abandoned and followed by others, an API that runs, or that the
\* container runtime restarts, fits its schema.
CodeFitsSchema == \A k \in Kinds : api[k].state # "stopped" => Fits(k)

\* "Before that phase recover restarts the old writers, which is always safe"
\* (abandon): as long as the journal is pre-replacement the recorded container is
\* there and still fits.
RevivalIsSafe ==
    Pending /\ journal.phase = "pre-replacement" => OldWriterThere /\ Fits(journal.kind)

\* While a deployment is pending nothing moves its checkout, its .env or its
\* images, so recovery never refuses for a target that changed.
TargetIsKept == Pending => TargetMatches

\* A journal that an operation clears closes a rollout that is whole, with its
\* release started on its own migrations, or one that is undone, with the release
\* that was recorded; only abandon leaves something in between.
JournalClosesWhole ==
    [][Pending /\ journal' = NoJournal /\ hostLock # Free =>
         LET k == journal.kind IN
         /\ api[k].release = IF journal.phase = "forward-only" THEN journal.revision
                                                               ELSE journal.old
         /\ Fits(k)]_rolloutVars

\* A rollout that was interrupted does not block the host for ever: recovery ends
\* the journal, however often it is interrupted itself.
EveryJournalEnds == Pending ~> ~Pending

=============================================================================
