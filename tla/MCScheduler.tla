----------------------------- MODULE MCScheduler -----------------------------
(***************************************************************************)
(* Model checking of Scheduler: environments, command lines and what is    *)
(* stored before the scheduler starts for the first time.                  *)
(***************************************************************************)
EXTENDS Scheduler

Basic == [s3 |-> {}, given |-> {"DATABASE_URL", "BACKUP_HEARTBEAT_URL"},
          malformed |-> {}, on |-> {}]
Pair(prefix) == {<<prefix, "ACCESS_KEY_ID">>, <<prefix, "SECRET_ACCESS_KEY">>}
Bucket == [Basic EXCEPT !.s3 = {<<"S3", "BUCKET">>, <<"S3", "REGION">>} \union Pair("BACKUP_S3"),
                        !.given = @ \union {"BACKUP_ON_START"}, !.on = {"BACKUP_ON_START"}]
Mixed  == [Bucket EXCEPT !.s3 = @ \ {<<"BACKUP_S3", "SECRET_ACCESS_KEY">>}]
Mistyped == [Basic EXCEPT !.malformed = {"BACKUP_SCHEDULE"}]

SomeEnvs == {Basic, Bucket, Mixed, Mistyped}

SomeHistories ==
    {{}, SetOf(-Ahead, "local"), SetOf(1, "local"),
     {[age |-> 0, place |-> "local", kind |-> "dump"],
      [age |-> 0, place |-> "bucket", kind |-> "manifest"]}}

Line(command, flags) ==
    [command |-> command, flags |-> flags, odd |-> {},
     names |-> IF command = "restore" THEN 1 ELSE 0]
SomeLines == {Line("backup", {}), Line("backup", {"--release"}), Line("restore", {"--yes"}),
              Line("restore", {"--release", "--uploads"})}
=============================================================================
