---------------------------- MODULE BackupConfig ----------------------------
(***************************************************************************)
(* The command line and the configuration of the backup tool               *)
(* (infra/backup/src/cli.ts and config.ts) as pure functions: what a       *)
(* command line parses to, what the environment is refused for, and the    *)
(* configuration a command runs with.                                      *)
(*                                                                         *)
(* An environment says which variables are set, which of them do not       *)
(* parse, and which switches are on.  A value picked from a pair of        *)
(* variables is the prefix of the one it came from.                        *)
(***************************************************************************)
EXTENDS Integers

CONSTANTS
    MaxAge,   \* BACKUP_MAX_AGE, in clock units
    Forever   \* no limit on the age (Infinity)

Prefixes == {"BACKUP_S3", "S3"}
Items    == {"BUCKET", "ENDPOINT", "REGION", "ACCESS_KEY_ID", "SECRET_ACCESS_KEY"}
Switches == {"BACKUP_ON_START", "BACKUP_CATCHUP"}
Settings == {"DATABASE_URL", "BACKUP_RETENTION_DAYS", "BACKUP_SCHEDULE", "STORAGE_DIR",
             "BACKUP_HEARTBEAT_URL", "BACKUP_COMMAND_TIMEOUT_MINUTES", "BACKUP_MAX_AGE",
             "BACKUP_LOCK_TIMEOUT"} \union Switches

Environments == [s3 : SUBSET (Prefixes \X Items),   \* BACKUP_S3_<item> and S3_<item>
                 given : SUBSET Settings, malformed : SUBSET Settings, on : SUBSET Switches]

-----------------------------------------------------------------------------
(* parseArgs *)

RestoreFlags == {"--release", "--drill", "--database", "--yes", "--uploads",
                 "--no-safety-dump", "--force-database-mismatch", "--no-manifest-check",
                 "--no-single-transaction", "--terminate-connections"}

AcceptedFlags(command) ==
    CASE command = "backup"  -> {"--release"}
      [] command = "list"    -> {"--release", "--no-max-age", "--max-age"}
      [] command = "restore" -> RestoreFlags
      [] OTHER               -> {}

\* A command line: the command, its flags, the ones among them with a value they do
\* not take or without the one they need, and the number of other arguments.
UsageError(argv) ==
    /\ argv.command # "help"
    /\ \/ argv.command \notin {"backup", "list", "restore", "schedule"}
       \/ ~(argv.flags \subseteq AcceptedFlags(argv.command))
       \/ argv.odd # {}
       \/ argv.names # (IF argv.command = "restore" THEN 1 ELSE 0)
       \/ argv.command = "restore" /\ {"--release", "--uploads"} \subseteq argv.flags

-----------------------------------------------------------------------------
(* configFromEnv *)

NoBucket == "none"

\* The dedicated variable, otherwise the one shared with the uploads bucket.
Pick(env, item) ==
    IF <<"BACKUP_S3", item>> \in env.s3 THEN "BACKUP_S3"
    ELSE IF <<"S3", item>> \in env.s3 THEN "S3" ELSE NoBucket

\* requireCredentialPair: half a pair would be completed from the other identity.
HalfAPair(env, prefix) ==
    (<<prefix, "ACCESS_KEY_ID">> \in env.s3) # (<<prefix, "SECRET_ACCESS_KEY">> \in env.s3)

BucketRefused(env) ==
    /\ Pick(env, "BUCKET") # NoBucket
    /\ \/ \E prefix \in Prefixes : HalfAPair(env, prefix)
       \/ Pick(env, "REGION") = NoBucket /\ Pick(env, "ENDPOINT") = NoBucket

S3Target(env) ==
    IF Pick(env, "BUCKET") = NoBucket THEN [bucket |-> NoBucket, key |-> NoBucket,
                                            secret |-> NoBucket]
    ELSE [bucket |-> Pick(env, "BUCKET"), key |-> Pick(env, "ACCESS_KEY_ID"),
          secret |-> Pick(env, "SECRET_ACCESS_KEY")]

ConfigError(env) ==
    \/ "DATABASE_URL" \notin env.given
    \/ env.malformed \ {"BACKUP_SCHEDULE"} # {}
    \/ BucketRefused(env)

\* The cron expression is taken as it is; `schedule` alone parses it.
ScheduleRefused(env) == "BACKUP_SCHEDULE" \in env.malformed

Uploads(env) == IF <<"S3", "BUCKET">> \in env.s3 THEN "s3"
                ELSE IF "STORAGE_DIR" \in env.given THEN "directory" ELSE "none"

ConfigFromEnv(env) ==
    [dir |-> "nightly", retention |-> "days", s3 |-> S3Target(env),
     heartbeat |-> "BACKUP_HEARTBEAT_URL" \in env.given,
     uploads |-> Uploads(env),
     runOnStart |-> "BACKUP_ON_START" \in env.on,
     catchUp |-> "BACKUP_CATCHUP" \notin env.given \/ "BACKUP_CATCHUP" \in env.on,
     maxAge |-> MaxAge, ceiling |-> "command", waits |-> FALSE]

-----------------------------------------------------------------------------
(* commandConfig *)

\* releaseConfig keeps nothing that would tell the nightly monitor of a backup.
ReleaseConfigBeating(config) == [config EXCEPT !.dir = "release", !.waits = TRUE]  \* wrong
ReleaseConfig(config) ==
    [config EXCEPT !.dir = "release", !.retention = "floor",
                   !.s3 = [bucket |-> NoBucket, key |-> NoBucket, secret |-> NoBucket],
                   !.heartbeat = FALSE, !.uploads = "none", !.runOnStart = FALSE,
                   !.catchUp = FALSE, !.maxAge = Forever, !.ceiling = "release",
                   !.waits = TRUE]

\* The scheduler queues for the lock, and so does a release backup; a manual backup
\* and every restore refuse at once.
CommandConfig(argv, config) ==
    IF argv.command = "schedule" THEN [config EXCEPT !.waits = TRUE]
    ELSE IF "--release" \notin argv.flags THEN config
    ELSE IF argv.command = "backup" THEN ReleaseConfig(config)
    ELSE [ReleaseConfig(config) EXCEPT !.ceiling = config.ceiling]

\* The limit `list` judges the newest set by.
ListLimit(argv, config) == IF "--no-max-age" \in argv.flags THEN Forever ELSE config.maxAge
=============================================================================
