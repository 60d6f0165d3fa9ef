# TLA+ models of starterdough

starterdough is a product kit: a web application, an API and a database, run with docker compose on
one host. Its request handlers are mostly stateless statements over Postgres. What is hard is around
them: backups that run beside deploys, a restore that replaces a database under running services, a
rollout that is interrupted half-way and recovered, migrations of two histories, a process that has
to stop in time, workflows that talk to a server over a connection that drops, and pages of a client
that get their answers late. Those are modelled here.

Paths below are relative to the repository root.

## 1. The system

| Component | State | Operations | Talks to |
| --- | --- | --- | --- |
| Backup runs, `infra/backup/src/{backup,lock,names,s3,proc}.ts` | files of the backup and the release directory, `.part` files, objects of the bucket, an advisory lock | take the lock, dump, archive, write the manifest, upload and verify, prune, heartbeat | Postgres, S3, the monitor |
| Scheduler and command line, `cli.ts`, `config.ts` | the cron job, the run under way, the signals caught | parse, load the configuration, tick, catch up, tidy up, stop | backup runs |
| Selecting a set, `restore.ts`, `list.ts` | the downloaded copy | list, select, download, load the manifest, verify, open | directory, bucket |
| Drill, `restore.ts` | a scratch database, extracted uploads | create, restore, compare tables and rows, look at the uploads, drop | Postgres, a set |
| Live restore, `restore.ts` | the database, the uploads and their staging directories, the safety dump | lock, look at the sessions, stage, dump, clear and load, install | Postgres, the services |
| Rollout, `infra/scripts/deploy.sh`, `deploy.yml` | host lock, checkout, `.env`, containers, schema | checkout, pin, back up, record, stop, mark forward-only, compose up, probe, complete | docker compose, backup runs |
| Recovery, `deployment-recovery.py`, `recover-deployment.sh` | the journal `deployment-interrupted` | begin, stop, forward, complete, recover, abandon | docker compose |
| Demo, `infra/demo/{update,reset}.sh` | its checkout, containers and database; host lock and journal are shared | update, reset | docker compose |
| Server operations, `ops.sh`, `run-ops.sh`, `ssh-target.sh`, `create-admin.ts` | the host lock, programs in containers, accounts | backup, list, drill, status, create-admin | SSH, docker, Postgres |
| Provisioning, `provision.sh`, `compose.yml`, `packages/env` | the production `.env`, the checkout, containers | install, clone, write `.env`, start | the host |
| Migrations, `packages/db/src` | two journals, two histories and the schema, an advisory lock | rehome, migrate, verify; move the product's migrations | Postgres, git |
| API process, `apps/api/src` | the shared readiness ping, requests, the shutdown sequence | start, answer, probe, drain, flush, close, exit | Postgres, docker |
| Limiters, `rate-limit.ts` | buckets per caller | count, refund, sweep | |
| Web application, `apps/web/src` | lists, dialogs and loads of a page; the session store, cookies and the token; what the account pages say | load, change, enrol, sign in, impersonate, sign out, sign up, change address or password, follow a mailed link | the API, mail |
| Scripts, `scripts/{setup,doctor,rename}.ts` | the local `.env` files, the tracked text of the clone | create and complete, check, rename | |
| The rest: procedures, logging, site, docs, e-mail, UI kit, native window, CI | none worth a protocol | | |

Where it is hard:

* **Interleaving.** Every backup, restore, scheduler, deploy and operations job is a process of its
  own, often in its own container. Only some of them take a lock; the housekeeping at the
  scheduler's start, the selection of a set and the drill do not. In a browser every call of a page
  overlaps the refreshes of the session store.
* **Failure.** Transfers are cut, credentials may not delete, disks fill up, the lock's session
  drops, the clock is wrong, SSH sessions and hosts go away in the middle of anything, migrations
  and readiness fail, and containers outlive the command that started them.
* **Ordering.** The manifest after what it vouches for; the safety dump after the last writer; the
  uploads after the database; the forward-only boundary before the first migration; the answer to an
  old question after the answer to a new one.
* **Ending.** The lock is freed, the journal is closed, the process stops in its grace period.

What makes each part correct is stated as a property of its module, next to the sentence of the
source that promises it. `PROJECT.json` lists the hazards, at their lines, with the properties that
cover them, and the ones nothing covers with the reason.

## 2. The modules

One module per component; its header says where it stops. A guard is a condition or an early return
of the code, an action is the code between two awaits (or two commands of a script) that somebody
else's step can fall between. `PROJECT.json` maps every definition to the lines it translates.

### Retention, BackupStore, MCBackupStore

`Retention` has the pure functions of `names.ts` and the selection of `restore.ts` over sets of
names: `CompleteStamps`, `NewestCompleteStamps`, `SelectExpired`, `InFuture`, `SelectLatest`.
`BackupStore` is every run of `runBackup`, the scheduler's start (`runHousekeeping`) and the
restores and drills that pick a set. A file is a record `[stamp, kind, by]`, where `by` is the run
whose bytes it holds or `Torn`. `stage[p]` is the await a process is at.

| Code | Model |
| --- | --- |
| `acquireLock` with its retry loop | `TakeLock`, `WaitForLock`, `LockRefused` |
| `produceSet`, `archiveUploads`, `writeViaPartFile` | `Preflight`, `BeginPart`, `FinishDump`, `FinishArchive`, `BeginManifest`, `WriteManifest` |
| `uploadVerified` | `PutObject`, `HeadMatches`, `HeadMismatch` |
| `pruneLocal`, `pruneRemote`, the `.part` sweep | `Scan` (the listing), `PruneOne` (one removal), `LocalPruned`, `BucketPruned`, `PruneStops` |
| heartbeat, `finally { lock.release() }` | `Report` |
| `locateDump`, `loadManifest`, `verifyArtifact`, `requireReadableArchive` | `Locate`, `Download`, `LoadManifest`, `Verify`, `Open`, `ReadRefused` |
| a crash, a lost session, the clock | `Crash`, `LoseLock`, `Tick`, `ClockGoesWrong`, `ClockCorrected` |

Abstractions: listing the directory and then the bucket in `locateDump` is one look;
`--no-manifest-check` is left out; the heartbeat and the release of the lock are one step; contents
that differ are taken to differ in size when a HEAD compares sizes. The runs assume that no two runs
start in one second, see `SharedStamps` in section 3.

### Drill

A set and what `restore <stamp> --drill` concludes from it. A table is a number of rows or `Absent`;
`pg_dump`, `tar` and `pg_restore` act when they end and may leave something out. `TakeDump`,
`ArchiveUploads`, `CountRows` are the backup's side; `Begin`, `CreateScratch`, `PgRestore`,
`VerifyTables`, `CompareLive`, `VerifyUploads`, `DropScratch` are `runDrill` and `verify`, `Harm`
damages the set in between, `WriteRows`, `CreateTable` and `DropTable` are the application and its
migrations, `Kill` a killed drill.

### RestorePromise, LiveRestore

`RestorePromise` is the abstract specification: the database changes hands in one step that keeps
what it held. `LiveRestore` is `restore` from the lock to its release among the services' connection
pools (which write whenever they are connected), backups of the same database and other restores:
the look at `pg_stat_activity`, staging, the safety dump, psql's transaction (its locks and its
commit are two steps, and the commit may succeed unreported), the installation of the uploads path
by path, a crash anywhere. An `rm` of a staging directory that fails is only logged
(`discardStagedUploads`, `stageUploads`), so `DiscardStage` may leave the directory with any part of
what was in it, and staging may break off half-way (`HalfStaged`). The refinement maps the database
to `data` and the safety dump of a restore that has replaced it to `undo`.

Abstractions: the session that holds the lock does not drop here (BackupStore has that fault);
writing into a database of which half the objects are missing fails, so it does not happen.

### BackupConfig, Scheduler, MCScheduler

`BackupConfig` has `parseArgs` and `loadConfig` as functions: what a command line parses to, when an
environment is refused, and which variable of a pair a value comes from. `Scheduler` is `schedule`:
the start sequence (`Boot`, `HousekeepingDone`, `ListSets`, `CatchUp`), the cron job (`CronFires`
with the guard of `runOnce`), the signal handlers (`Stop`, `Exit`), `Killed`, and a run as the
scheduler sees it: wait for the lock (`TakeLock`), work (`BackupSucceeds`, `RunFails`), report
(`FailureReported`), beside `RunByHand` and its `RestoreEnds`; `Pass` is time. A cron expression
that does not parse is refused by `schedule` alone (`ScheduleRefused`), other values by every
command (`ConfigError`). Time is relative: artifacts have ages, and a stamp in the future a negative
one, so behaviours go on for ever.

### Rollout, MCRollout

One host with the kinds `"stack"` and, where it runs, `"demo"`. `command[p]` is the command of
`deploy.sh`, `update.sh`, `reset.sh` or `recover-deployment.sh` that operation `p` runs next.

| Code | Model |
| --- | --- |
| `acquire_operation_lock`, `deployment_refuse_pending` | `BeginsWork`, guard `~Pending` of `Acquire` and `Reset` |
| checkout, `.env`, pull, hooks, `backup --release` | `Checkout`, `Pin`, `ReleaseBackup` |
| `begin`, `stop`, `forward`, `complete` | `Begin`, `StopWriters`, `Forward`, `Complete` |
| `docker compose up --wait`, `/readyz` | `Up`, `StartApi`, `AnswersReady` |
| `recover`, `restore_pre`, `abandon` | `Recover`, `Revive`, `Probe`, `Abandon` |
| the Deploy step: the demo, then production, under one lock | `Workflows`, `Continues` |
| `reset.sh` | `Reset`, `StopDemo`, `DropDatabase` and the `Compose` steps |
| docker and the host | `MigrateOne`, `Migrated`, `MigrateFails`, `ApiExits`, `ApiReturns`, `Reboot` |

A release is its commit and its images; `Level` says which schema its migrations lead to, so a
rollback is a release with a lower level. `api[k].met` is the schema the API met when it was
started: code written against a schema runs on a later one only when it was started on it. What
`Migrated` takes for granted here is Migrations' `ExitZeroMeansApplied`.

Abstractions: an operation that is refused changes nothing and is a stuttering step. `flock` is
inherited by the commands of a killed script, so a kill is a stop between two commands; only
containers outlive it. Compose replaces the API container before it starts `migrate`, and the API
waits for `service_completed_successfully` (`infra/compose.yml`). The restore of a release set by
hand is the one of `infra/README.md`, with the writers stopped and no operation under way. Shipping
of `.env`, a `compose up` by hand, image pruning, post-deploy hooks and the smoke test are left out.
`KIND_SERVICES` names one writer per kind, the API, and so does the model.

### ServerOps

A run of an operations workflow against the host: `Dispatch`, `ReachServer`, `LoseConnection`
(`ssh-target.sh`, `check-clock.sh`, the transport), `CheckProject`, `HoldLock`, `Start` (`ops.sh`),
`Work` for what the backup tool does, `Select`, `Promote`, `SignUp`, `GiveRole` for the statements
of `create-admin.ts`, `Dies`, and `Collect`, `Report` for the last line `run-ops.sh` waits for. A
program started in a container goes on when the connection drops. A deploy (`BeginDeploy`,
`EndDeploy`) keeps its lock and its journal; `Verify` is a person confirming an e-mail address. The
demo as a target differs in paths only.

### Provision

Runs of `provision.sh`: `BeginRun`, `Packages`, `Firewall`, `Clone`, `Copy` (`cp .env.example`),
`Fill` (the `sed`), `Images`; `Stops` is a failure or a kill anywhere. Between them the owner fills
in rows (`WriteRow`), and `ComposeUp` starts what `compose.yml` makes of them, with the API's own
refusal (`configurationIssues` of `packages/env`). A row is one of the few values the rules tell
apart.

### Migrations, MCMigrations

A migration is its journal timestamp. `Repository` is the product's side: migrations are generated,
releases of the kit are merged well or badly, and `move-product-migrations.ts` is run. `Migrator(m)`
is `migrate.ts` of any build shipped so far: the advisory lock, rehoming in one transaction, the
kit's history, the product's, the verification; it may be killed between any two steps, and a
transaction under way may commit afterwards (`Land`). Drizzle's `migrate` is external and modelled
by how it is used: what is newer than the newest row is applied. What a migration's SQL does is one
table.

### ApiProcess

`index.ts`, `app.ts`, `migrations.ts`, `lifecycle.ts`: the start, the ping that readiness probes
share, with its two budgets, requests that may never end, the signal sequence (drain, flush, close,
exit), fatal errors, and docker, which restarts what dies and kills what does not stop in `Grace`.
Timers fire at their deadline (`Tick` is refused until they have). Promise callbacks run before
anything else (`Reacting`). `server.stop(true)` is taken as prompt.

### RateLimit

`rateLimit` and the order in which `app.ts` chains two of them: buckets with fixed windows, the
sweep, and the refund of a limiter that has the option, which hands a call's unit back once the rest
of the chain has run. The call keeps hold of its bucket meanwhile (`handling`), which may have been
swept or replaced by then. `app.ts` sets no refund today; the option is part of the limiter, and the
instance gives it to the limiter in front, the case its doc comment describes. `admitted` is the
history the property counts over: calls let through and not refunded. Process-local: what it bounds
holds between two restarts and on a clock that does not jump.

### ListPages, TwoFactorPage, SignIn, AccountPages

The web application where answers meet each other. `ListPages` is one tab on one of four pages:
loads (`Reload`, `ServerLists`, `LoadAnswered`, ...) and changes (`Change`, `ServerChanges`,
`Succeeded`, ...) answered in any order, lost or rejected; the users page has a ticket per load, the
others have not. After a lost answer the page is in `doubt` about an item until it loads again. A
ban is a change like any other; its form is left out. `TwoFactorPage` is the enrolment of
`settings/security` against an account that Better Auth keeps: prompts, the wizard, issuing codes,
lost answers, and a session store that follows late. `SignIn` is who a copy of the app is signed in
as, in three builds (web, static on a host of the site, native): a call is pressed, served and
answered in three steps (`Press`, `Serve`, the handlers), refreshes (`Looks`) overlap all of it,
`Impersonates`, `Stops` and `SignsOut` are the pages' own. The cookie of a half-finished sign-in
goes with a code that was right or expires (`HalfwayExpires`), and the sign-in pages, the one that
takes the code too, can be opened at any time (`Visit`). A token in the store goes out with every
call of the bearer builds, and the API goes by it even where a cookie comes with it (Better Auth's
bearer plugin).

`AccountPages` is one account, the browser it is looked after in ("here") and everything else its
owner has ("away"). One page at a time is open here: sign-up and its inbox screen, the sign-in page
with its reminder, the page of a verification link, the forgotten and the new password, the
signed-in shell with its banner and checklist, the settings. A page's call is sent (`Sends`), served
with what the account is at that moment (`Served`) and answered by the handler of its page, between
which the person edits the form, leaves the page or follows any mailed link (`Follows`) on either
device. `told` is what a page says, `HoldsTrue` what has to be so for it to be right. The profile
form, the inbox branch of `/verify-email` that no link leads to, and the page shown when the API is
down are left out. Better Auth is external in all of these, taken as the clients use it.

### LocalSetup, Rename

`LocalSetup` is `bun run setup` (`PlanSetup`, `Apply` one file, `Finish`, `KillSetup`) and what `bun
run doctor` says of the files, beside the person who edits them. `Rename` is `rename.ts`: values
read from the tree once (`StartRename` with `CurrentValues`), ordered substitutions over text cut
into the pieces a rule can tell apart (`RewriteFile` per file), `KillRename`, and git (`Commit`,
`TakeBack`). A mention is a sequence of pieces; four products and eight files are the kinds there
are.

### MCHost, MCProduction, MCApplication, MCOperator

Compositions for TLC. `MCHost` puts Rollout and BackupStore side by side, `MCProduction` Rollout and
Scheduler, `MCApplication` Migrations, ApiProcess, RateLimit, ListPages, TwoFactorPage, SignIn and
AccountPages, `MCOperator` LiveRestore, Drill, LocalSetup, ServerOps, Provision and Rename. These
parts share no state: `part` picks the one that acts and the others rest in one of their initial
states, so the run's states are the sum of the parts', not their product. An invariant over a part
that rests is one over its initial state. Fairness is asked of a part only where it acts: no fair
step of Rollout is enabled in a state it rests in, and Scheduler's fairness, which lets time pass,
is a condition on its own behaviours.

## 3. What is checked

| Run | Properties | What it shows | Result |
| --- | --- | --- | --- |
| `host_crowded` | `LockMeansWork`, `FloorKept`, `SweepSparesWork`; `TargetIsKept` | a nightly, a manual and a release run exclude one another; pruning beside the unlocked start of a scheduler keeps the newest sets and spares the file being written; production and demo: the workflow, an update, the reset timer, recovery | holds, 2,456,236 states |
| `store_bucket` | `ManifestVouches`, `HeartbeatMeansBackup`, `LockIsFreed` | cut transfers and a credential that may not delete: what a manifest and a heartbeat mean, and that the lock is given back | holds, 265,034 states |
| `store_readers` | `OpensWhatWasVerified` | a reader without the lock, cut transfers, torn manifests, a lost lock, a wrong clock | holds, 4,203,562 states |
| `store_torn` | `LastGoodSetSurvives` | the last good set survives a torn manifest | **counterexample**, finding 1 |
| `operator_tools` | `NoAckedWriteIsLost`, `DumpsAreWhole`, `HalvesInStep`, `UploadsFollowDatabase`, `KeepsPromise`; `DrillProves`; `GapsClose`; `GreenMeansDone`; `ProvisionedStackIsSound`; `RenameIsWhole` | two live restores beside a backup and a service, refining `RestorePromise`; a set and its drill; setup and doctor; two operations runs beside a deploy; a server set up in two runs; three renames | holds, 2,899,630 states |
| `restore_return` | `NoAckedWriteIsLost` | the same with a service that reconnects after the check | **counterexample**, finding 2 |
| `production` | `CodeFitsSchema`, `RevivalIsSafe`, `JournalClosesWhole`, `EveryJournalEnds`; `OneRunAtATime`, `NewestSetIsRecent`, `StopEnds`, `RunsKeepComing` | three releases, two migrations in one of them: deploy, roll back, recover, abandon; cron job, start, catch-up and signals of one scheduler, restarted at any moment, beside commands run by hand | holds, 308,034 states |
| `rollout_unready` | `EveryJournalEnds` | the same when a release never becomes ready | **counterexample**, finding 3 |
| `migrate_recovers` | `DatabaseRecovers` | the promise of UPGRADING.md after a badly merged kit release | **counterexample**, finding 4 |
| `application` | `ExitZeroMeansApplied`, `RunsOnce`, `KitReleaseApplies`, `NoMigrationIsLost`; `StopsInGrace`, `PingsHoldOneConnection`, `ReadyIsFresh`, `RequestsGetTheirTime`; `WithinAllowance`; `ReadsYourWrites`; `CodesShownWork`; `NoDeadEnd`; `SaysWhatHappened` | two migrators over any history of the repository; the API process; the limiters; list pages; the two-factor page; sign-in in three builds; the account pages and their mails | holds, 1,347,007 states |
| `sign_in_out` | `NothingSurvivesSignOut` | what a sign-out leaves on the machine | **counterexample**, finding 5 |
| `sign_in_social` | `AcceptedSignInsGetIn` | every accepted sign-in gets past the guard, in every build | **counterexample**, finding 6 |

Each property of a passing run has a mutant in `PROJECT.json`: a wrong version of one operator (a
missing guard, a swapped order) under which TLC finds it violated. Every detailed module has a
type invariant (`TypeOK`, `ApiTypeOK`, ...); these are proved, and no run spends a check on them.

**Bounds.** Every process runs once per behaviour in BackupStore and LiveRestore, so two contenders
of each kind that matters give every pairwise interleaving; the floor is one set and the history one
or two sets, because what can break is "one set too few", not the number. `MaxTime` and `Jump` let
sets expire, a `.part` file grow stale and a stamp lie in the future. `MaxWrites = 2` gives a write
before and one after the safety dump. In Rollout operations repeat without bound; three releases
with levels 1, 3 and 4 give an upgrade with two migrations, so that one can fail after the other has
committed, an upgrade from there and rollbacks past both. `host_crowded` keeps two releases since
the question there is who moves what. Scheduler needs no bound on time: ages stop at `Cap`, which
lies beyond everything compared with them, and `Interval = 2` over `RunMax = 1` lets a run reach
into the next tick's interval and a tick be missed. In Migrations five timestamps hold two releases
of the kit, each able to come before or after a migration of the product's; two builds shipped and
one commit that lands after its migrator is gone (`MaxLimbo`, `OneOutlives`) let an old build, a new
one and a dead migrator meet. The API process has three probes, one more than can share a ping and
be late, and budgets of one or two units under a grace of five: the smallest with the slack of the
real ones. The limiters' windows are 2 and 3 units over 4 moments, so that each can end, be renewed
and be swept, with one call of one caller at a time waiting for its refund (`OneAwaits`); `admitted`
remembers calls for one window, the longest stretch the property counts over. Two items, two changes
and two loads let a list be answered in either order; four sets of backup codes let an enrolment be
begun over another; two sessions and four presses reach an impersonation, its end and a sign-out
with one call late; a button is pressed while at most one other call is on its way (`TwoAtOnce`),
which is two answers in either order and a refresh beside them. Two addresses, two passwords and two
calls let an address be changed while a mail to the old one is on its way, a link be followed that
an answer has overtaken, and a call be repeated. Two tables of 0, 1 or 20 rows let a drill lose a
row, a table or all; two setups, two jobs and two provisioning runs with four edits each let one be
killed and the next find what it left; three renames go there, back and elsewhere.

**Equal stamps.** A run's stamp is taken to the second, before it waits for the lock
(`backup.ts:134`). All runs set `SharedStamps = FALSE`: no two runs start in one second. With
`TRUE`, TLC finds `ManifestVouches` violated: the nightly run writes its manifest and ends, and a
manual run of the same second, which waited, writes its dump beside that manifest. The assumption is
about when people and timers start runs, not about the code, which does not enforce it.

**A refused build.** `deploy.sh:76` pins the tag in `.env` before steps that may fail with
production untouched, and nothing puts the old one back. Rollout models that, and the recovery never
depends on it; but a later `docker compose up -d` by hand, which is not modelled, starts the refused
build.

**Reductions.** No run uses `SYMMETRY`. A `VIEW` drops from the fingerprint what no later step and
no property reads: the parts that rest (`SeenOfApp`, `SeenOfOperator`), sessions nobody can be
signed in with any more (`Held`), the fields of a call that its handler does not look at
(`SeenOfTrip`, `SeenOfErrand`, `SeenOfClaim`). Two tables, two runs of setup, two jobs and two
migrators are alike and seen as a set (`SeenOfTables`, `SeenOfSetup`, `SeenOfOps`, `Seen`). Action
constraints pick one of several alike steps: of probes that rest the first comes (`FirstSpare`), and
it is the first of two addresses that gets the account (`OneSignsUp`), and the first of two callers
that calls first (`FirstCaller`). In Migrations, developers
read nothing of the database and migrators nothing of the repository but the builds shipped, which
only grow; so `RepositoryFirst` orders what the developers did before the first deploy, and `Seen`
forgets the repository from then on, with the invariants over it checked before. `OneOutlives`,
`TwoAtOnce` and `OneAwaits` are bounds and named above.

**Fairness.** `LockIsFreed` assumes that a run takes its next step: its commands have ceilings
(`commandTimeoutMs`) and its transfers end one way or the other. `EveryJournalEnds` assumes that
somebody runs `recover` until it passes, that from some moment on nothing interrupts it (no reboot,
kill, failing migration or exiting API), that `migrate` and a restarting container get on, and that
every other operation ends, as all its waits are bounded. It does not assume that a release is ready
or that anybody abandons: `rollout_unready` adds strong fairness of `abandon` and still fails.
`StopEnds` and `RunsKeepComing` assume that runs, the start sequence, a restore and the timer go on
and that a handler that may exit does; nothing makes signals, crashes or commands by hand happen or
stop.

**Deadlock** checking is off where every process runs once or a part is cut off at its bounds
(BackupStore and so `host_crowded`, LiveRestore, SignIn, `application`, `operator_tools`); in
`production`, `rollout_unready` and `migrate_recovers` it is on.

### Findings

1. `backup.ts:236` writes the manifest under its final name. Cut short, it still counts as a
   complete set of the retention floor (`names.ts:182`), and the last restorable set is pruned.
2. `restore.ts:389` looks at the sessions once. A service whose session was terminated reconnects
   and writes after the safety dump's snapshot; the restore then removes those writes and no dump
   has them. With the services stopped (`WritersKeepOut`) nothing is lost, and that is proved.
3. `deployment-recovery.py:525`: release 2 migrates but never becomes ready and is abandoned. The
   deploy of the fix records the running API of release 2 as the one to revive and is interrupted
   before the boundary. `recover` revives it and fails at its readiness, `abandon` refuses a
   pre-replacement journal, and every deploy is refused while the journal exists.
4. `migrate.ts:97`: a kit release merged among the product's migrations is refused, but only after
   its newer kit migration was applied past one that was skipped. Moving the product's rows does not
   make the skipped one apply, and every later deploy is refused; UPGRADING.md:235-236 says the
   database recovers by itself. `KitReleaseApplies` is the promise with that exception, and holds.
5. `(app)/app/+layout.svelte:133` does not look at the answer to a sign-out. If the call fails, the
   page goes to the sign-in form all the same, but the session is live at the API and the HttpOnly
   cookie that names it is still in the browser: opening `/app` is being signed in again. Line 136
   says "Nothing of this session may survive on the machine". A refresh of the session store that
   was sent before the sign-out and answered after it can put a token back likewise.
6. `api.ts:26-34`: in the static build on a static host social sign-in is offered, as "an account
   that only has a provider or a passkey must still be able to sign in". The round trip sets a
   cookie and no token. A token whose session has expired or was revoked stays in the store, is sent
   instead, and the guard of `/app` leads back to the sign-in page each time. `NoDeadEnd` is the
   promise with that exception, and holds.

### Smaller observations

What the models leave room for, and no property counts as wrong:

* A row inserted between the dump and the count of an empty table makes the drill of a good set fail
  (wanted 1, got 0). The comment at `restore.ts:853-858` says more than `verifyDrillUploads` does:
  it does not look at the scratch database.
* `create-admin` killed between sign-up and role leaves an ordinary account, which the next run
  meets as existing and promotes unverified; `GreenMeansDone` asks for the role. A program in a
  container outlives the dropped connection and the host lock.
* `provision.sh` killed between `cp` and `sed` leaves a half-made `.env` that later runs keep; a
  killed `git clone` leaves a directory that is not cloned again. `ProvisionedStackIsSound` says
  what holds all the same.
* `rename` to a value that contains the old one doubles it (`Apart` excludes such values, contrary
  to `rename.ts:15`): one run is enough where the identifier or the scope holds the old slug, whose
  rule comes after theirs; a name or a slug is doubled by a second run. Cut off, it leaves a mixed
  tree, and the next run may find nothing to do.
* A restore that cannot remove its staging directory logs it and goes on (`restore.ts:1201-1208`): a
  refused or failed restore may leave one, with any part of the files. `UploadsFollowDatabase`
  speaks of the files in place, which it never touches.
* A reader that takes no lock can replace a dump another has just checked when both download one set
  from a bucket that cuts transfers, and a download cut short is renamed into place: it then
  completes a set of the directory, vouches for nothing and counts for the floor. The theorems over
  the store name what they exclude.
* A clock that was wrong when a run began breaks what the sweep and the floor go by; a lost lock
  lets a second run prune the release directory below its floor.
* A stop that was sent before a sign-out and is answered after it signs the administrator in again,
  and a refresh sent as another, never-ended session can bring that one back.
* "Sent" stays on the sign-in page when another address is entered below it. Reloading
  `/reset-password` or `/verify-email` after the token or the address has left the URL does not show
  what the comment in `redirect.ts` expects. The identity given to analytics survives a sign-out
  while its client is not loaded yet.
* A call that throws leaves `stoppingImpersonation`, `passkeyBusy` or `busy` set until the page is
  reloaded.

## 4. What is proved

TLAPS checks these for every value of the constants, under the assumptions named in the modules,
which TLC evaluates in the runs. `RetentionAssumption`, `StoreAssumption`, `SchedulerAssumption`,
`RolloutAssumption`, `LimitsAssumption`, `KitAssumption` and `GraceAssumption` say of numbers and
sets what the code's defaults and comparisons take for granted (a floor of at least one set, a run
shorter than the interval, release trees that only add migrations, budgets that fit the grace); the
others (`RestoreAssumption`, `DrillAssumption`, `OpsAssumption`, `ProvisionAssumption`,
`SetupAssumption`, `MigratorsAssumption`, `BoundsAssumption`, `NoJournalAssumption`,
`NobodyAssumption`, `PagesAssumption`, `IssuedAssumption`, `SignInAssumption`,
`NoSessionAssumption`, `AccountAssumption`, `RenameAssumption`, `CutShortAssumption`) that bounds
are numbers and "none" is no value. `TextAssumption` is of another kind and explained with Rename.

Each safety property follows from an inductive invariant: the property rarely is one, because it
speaks of the end of what several steps prepared. What the invariant adds is named below.

### The store: BackupStore_proofs, BackupSets_proofs

| Theorem | Hypotheses | What carries it |
| --- | --- | --- |
| `TypeCorrect` | | |
| `LockCorrect`, `RunsExclude`: the run at work holds the lock, and is the only one | the lock's session does not drop | inductive over `TypeOK` |
| `OpensVerified`: what a reader opens is the dump it verified | no equal stamps; one reader, if transfers can be cut | `NamesInv`: one file per name (`OneFile`), written by its run (`Owned`), complete under its final name (`DumpsAreFull`), stamps apart (`Distinct`, `AfterHistory`), and what reader `d` has established so far (`Checked(d)`) |
| `SweepSpareWork`: no sweep removes the `.part` of a run at work | no equal stamps; a right clock | `ClockInv`, `PartsAreFresh`: a file that is being written has been touched just now |
| `ManifestsVouch`: beside a manifest lie the files it was written for, or ones that have expired | no equal stamps; a right clock; no downloads into the directory | `SetsInv`: what run `r` has made by now (`Made(r)`), and that a manifest is vouched for (`Vouched`) |
| `HeartbeatsMeanBackups`: a heartbeat that says ok stands for a complete set wherever it belongs | the same, and runs end in time (`[]RunsEndInTime`) | `Achieved(r)`: what the steps before the heartbeat have left |
| `FloorIsKept`: no removal takes a store below its floor | the same without the ceiling; a lock that is kept, if there are release runs; no bucket, if transfers can be cut | `FloorHolds`, `AboveFloor`: what a process has selected and not yet removed stays above the floor while others prune what they selected |

`NoDownloads` says that there is no bucket or nobody reads. The hypotheses name the faults the
properties are exposed to (section 3, equal stamps and smaller observations). `FloorKept` and
`SweepSparesWork` run with a right clock in `host_crowded`, `ManifestVouches` and
`HeartbeatMeansBackup` with cut transfers in `store_bucket`, and `OpensWhatWasVerified` with cut
transfers, torn manifests, a lost lock and a wrong clock in `store_readers`.

### LiveRestore_proofs

`TypeCorrect`, `LockCorrect`, and with `WritersKeepOut`: `ImplementsPromise`, the refinement, and
`NoWriteIsLost`. `RestoreInv` adds `Sound(r)` for each restore: from its safety dump to its commit
the dump equals the database, because nobody is connected and nobody else holds the lock. Without it
the step that replaces the database cannot be mapped to `Replace`. `DumpsCorrect`, `BackupsMatch`
and `FilesFollow` say that what a backup or a restore has of the database and of the files belongs
together: no file of a set is in place before its database, and a restore that told of a failed
installation has its files in place or still staged, whatever a failing clean-up leaves behind. They
rest on the lock alone, whoever writes. `HalvesInv` says of each restore whose files
and staging directory are whose and since when (`Belongs`), that a half-restored database has a
restore that told so (`HalfIsTold`), and that a backup at its archive has dumped what the files are
for (`InStep`): `HalvesInStep` speaks of backups that have ended, so what they did at the dump must
be carried to the end.

### Scheduler_proofs

`TypeCorrect`; `GuardCorrect`: the guard `running` and the one run agree; `SetsStayRecent`: between
runs and while nothing failed the newest usable set is less than two intervals old;
`HeartbeatsAreBacked`: a heartbeat that says ok stands for a nightly set no older than a run.
`SchedulerInv` bounds the newest usable age at every moment of an interval by the interval and the
time since the last tick (`Recent`), which needs that a process not told to stop has its cron job
armed (`CronRuns`) and that a failing run is still on its way to be told (`FailuresAreTold`).

### Rollout_proofs

`TypeCorrect`, `CodeIsSafe`, `RevivalCorrect`, `TargetStays`, `ClosesWhole`. The invariant `IInv`
adds: a container belongs to the release whose migrations were started with it (`Settled`), the
revision recorded is the one the recorded configuration runs (`OneRelease`), and for each operation
what follows from where it is (`Place`): no journal before `begin`, a forward-only one from `up` on,
none during a reset, the demo's API stopped when its database is dropped, and a migration that
reported done has reached its level. `Place` is needed because the journal is read several commands
after it was written; `Settled` because a migration still running under an API that fits its schema
could otherwise move past it: it has nothing left to apply.

### Operator_proofs

* **ServerOps**: `OpsTypeCorrect`, `GreenIsDone`. `OpsInv` carries through the transport what a
  program has achieved (`SuccessIsReal`), that it is its run's command (`ProgramFitsJob`), and that
  past the check of the project everything happens in this product (`AtHome`).
* **Provision**: `ProvisionTypesHold`, `ProvisionIsSound`. `FileOfTheMaker` ties rows nobody has
  written to the run that made the file, which may be an earlier one with another `EXPOSE`;
  `StartsSound` says it of what was started.
* **Drill**: `DrillTypesHold`, `AnOkProves`, for tables of any size. `SetIsOfTheNight` ties what is
  stored to what the database held, while nobody wrote between the dump and the counts; `LooksWell`
  says what the drill has found out by each of its steps, as long as it has objected to nothing.
* **LocalSetup**: `SetupTypesHold`, `GapsAreClosed`, for any number of runs side by side, killed
  anywhere. What setup means to write needs no second run (`PlansSettle`), and a run that nobody
  has disturbed leaves every file settled behind it (`RunsSettle`, `RunsEnd`), and until the first
  edit the files hold what setup alone can have written (`Unedited`).
* **Rename**: `RenameTypesHold`, `RenamesAreWhole`, for any number of runs, killed, committed and
  taken back anywhere. `Turning(p, q)` says how far a run has come: its rules are those of the
  product the tree was, the files before the one at hand are the new product's and listed if they
  differ, and the others are untouched, but for the one a kill has cut. That one file turns,
  and that a product is read back out of its files, is `TextAssumption`: the four products and eight
  files are fixed, so it is a closed formula, which TLC evaluates in `operator_tools` by running the
  substitutions. The theorem says what becomes of a tree if each file is right. The mutant reads the
  values again for every file, which leaves each file right and the tree mixed.

### Api_proofs

* **Migrations**: `MigrationTypesHold`, and `MigrationsAreKept` from what each tree lists
  (`TreesHold`). `ExitZeroIsTrue` from `RowsMatch`: a migration has a row exactly when it ran.
  `NothingRunsTwice` from `MigratorInv`, with `TablesThere` (a row implies its table) and
  `MigratorsApart` (the advisory lock, through kills and commits that land late).
  `CleanBuildsApply`, that a build whose kit releases were merged cleanly is applied, under
  `KitAppends` (a release's migrations are newer than those of the releases before): `ReleasesInv`
  relates the builds shipped to the releases (`TreesSorted`, `KitInOrder`) and the kit's rows to
  both (`KitApplied`). `KitAppends` is what `migration-files.test.ts` holds the kit to; finding 4 is
  about a merge by the product.
* **ApiProcess**: `ApiTypesHold`, `ShutdownFits`, `ProbesShareOnePing`, `ReadyMeansAnswered`,
  `RequestsAreDrained`, for all budgets that fit the grace. `ApiInv` adds that no step outlasts its
  budget (`StepsInTime`), that docker has waited no longer than the shutdown has used
  (`AskedInTime`), that the ping in flight is the one probes join (`OnePing`), and that an answer on
  its way was heard by every probe still waiting (`OkIsHeard`).
* **RateLimit**: `AllowanceIsKept`, for every window and allowance, and whichever limiters refund:
  while a bucket lasts, no more of its caller's calls are let through than the allowance, and within
  any stretch of a window's length at most twice as many. Calls whose unit was handed back are not
  reckoned. `AllowanceHolds` says that the calls still to be refunded are among those let through
  (`Covered`), that each was counted in its caller's bucket or in one whose window was over before
  that one's began (`HeldIn`), and splits a stretch at the start of the bucket (`Within`): what was
  let through since is no more than it counted, and what came before no more than one allowance.

### Web_proofs

* **SignIn**: `SignInTypesHold`, `StepsCanBeFinished`. `SignInInv` says that a session seen anywhere
  was granted (`SessionsAreGranted`), what an answer to a Stop stands for (`AnswersAreTrue`), and
  what the last button came to (`EndIsKept`).
* **ListPages**: `ListTypesHold`, `WritesAreRead`. A load is the list as it was at some moment
  (`LoadsAreSnapshots`); a change the page has not heard of is still to be told (`WritesAreTold`);
  the newest ticket is the newest load (`NewestIsNewest`); so what is shown is the list up to what
  the page will still hear of, or is in doubt about (`ListIsCurrent`, `QueryIsAnswered`). That is
  every order of answers for the users page; on the other pages an answer to a change that overtook
  another's is excepted, and on all of them an item whose change was never answered.
* **TwoFactorPage**: `FactorTypesHold`, `CodesToKeepWork`. `FactorInv` adds that a call belongs to a
  form on screen (`CallsHaveTheirForm`), that an enrolment puts older codes away (`OneSetOnScreen`),
  and that, until an answer is lost, what is shown or on its way is the account's
  (`ScreenIsAccount`).
* **AccountPages**: `AccountTypesHold`, `SaidIsTrue`, for any number of addresses, passwords and
  calls. `AccountInv` says that every answer taken for a yes, and every claim on a page, stands for
  something that holds (`AnswersStand` with `HoldsTrue`) whatever the account has gone through since
  it was served; that a call is one of the page it will be answered on (`CallsAreOfTheirPage`),
  since leaving a page discards its answers; that a screen which names an inbox names the one
  written to (`InboxesStay`), and that the page of a link says no more than the link has done
  (`VerifyPageIsRight`).

### Only model-checked

`LockIsFreed`, `EveryJournalEnds`, `StopEnds` and `RunsKeepComing` are liveness under fairness,
which with ENABLED is out of the provers' reach. `TextAssumption`, what Rename's substitutions make
of a file, is an induction over data, and computed by TLC. The six properties of the findings do
not hold. No module uses RECURSIVE.

## 5. Not modelled

* RPC procedures and the contract, feature flag lookups: one statement per call, no cache. Their two
  writes are in ListPages.
* Better Auth, Drizzle, Postgres, docker, git and SSH are external and appear as what the code makes
  of their answers.
* CSRF, the request log, logging, tracing and error reporting: no state of the application.
* In the web application: the profile form, themes, languages, analytics, the service worker, the
  page a guard shows when the API is down. The window and plugins of the native shell.
* Of doctor the checks of Bun, Node, Docker and ports, which look at the machine; `licenses.ts`, a
  report.
* Packages, firewall and users of a new host; image pruning and post-deploy hooks of a deploy.
* Site, documentation, e-mail templates, UI kit; continuous integration, registry cleanup, desktop
  builds, load test.

## 6. Plan

Done: everything above. What is left, in order:

1. **BackupStore**: a run with equal stamps; the recovery of a restore from a download that was cut
   short and then renamed into place (`restore.ts:686`), two readers on one download. The store's
   theorems then lose the hypotheses that exclude these, where the code lets them.
2. **Rollout**: a `docker compose up -d` by hand against the pinned tag, the shipping of `.env` by
   the workflow.
3. **A browser's own machine**: service worker, updates of the installed app, analytics consent.

## 7. Running

    tlc -config MCProduction_recovers.cfg MCProduction.tla
    tlapm Rollout_proofs.tla

`PROJECT.json` maps every definition to the lines it translates.
