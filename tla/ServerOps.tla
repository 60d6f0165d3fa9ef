------------------------------ MODULE ServerOps -------------------------------
(***************************************************************************)
(* The operations workflows (Server status, Server logs, Server backup,    *)
(* Admin bootstrap): a run connects (.github/scripts/ssh-target.sh,        *)
(* check-clock.sh), ships infra/scripts/ops.sh (run-ops.sh) and is green   *)
(* only when ops.sh has printed its last line.  On the server ops.sh       *)
(* checks the checkout's product and takes the host operation lock, and    *)
(* what it starts in a container outlives a connection that drops.         *)
(*                                                                         *)
(* The backup's own program is BackupStore's and Drill's part; of a deploy *)
(* (Rollout) the model keeps the lock, the journal it may leave pending    *)
(* and that it recreates the API.  create-admin is modelled statement by   *)
(* statement.                                                              *)
(***************************************************************************)
EXTENDS Naturals, FiniteSets

CONSTANTS
    Jobs,        \* runs of the workflows
    MaxDeploys,  \* bound on the deploys beside them
    Deploy,      \* the deploy, as a holder of the lock
    Unheld,      \* the lock is free
    NoAccount    \* the address is nobody's

Account == [admin : BOOLEAN, verified : BOOLEAN]

ASSUME OpsAssumption ==
    /\ MaxDeploys \in Nat /\ NoAccount \notin Account
    /\ Deploy \notin Jobs /\ Unheld \notin Jobs \union {Deploy}

BackupCommands  == {"backup", "list", "drill"}
AdminCommands   == {"create", "promote"}
ReadCommands    == {"status", "logs"}
Commands == ReadCommands \union BackupCommands \union AdminCommands
Projects == {"this", "another"}

VARIABLES
    variables,  \* of the repository: deploys on, the secret usable, what DEPLOY_PATH names
    clockOff,   \* the server's clock is more than 30 s out
    job,        \* each run: its command, where it is, how it ended
    program,    \* what it has started in a container
    hostLock,   \* of the host operation lock
    pending,    \* the deployment journal is pending
    deploys,
    accounts,   \* of the address, in each product
    done        \* runs whose backup, listing or drill has ended well

placeVars == <<variables, clockOff>>
hostVars  == <<hostLock, pending, deploys>>
opsVars == <<placeVars, job, program, hostVars, accounts, done>>

-----------------------------------------------------------------------------
OpsInit ==
    /\ variables \in [enabled : BOOLEAN, secret : BOOLEAN, path : Projects]
    /\ clockOff \in BOOLEAN
    /\ job = [j \in Jobs |-> [command |-> "none", at |-> "idle", result |-> "none"]]
    /\ program = [j \in Jobs |-> "none"]
    /\ hostLock = Unheld /\ pending \in BOOLEAN /\ deploys = 0
    /\ \E a \in Account \union {NoAccount} : accounts = [p \in Projects |-> a]
    /\ done = {}

At(j, place) == job' = [job EXCEPT ![j].at = place]

\* `flock` goes with the last process that has the descriptor.
Unlocked(j) == IF hostLock = j THEN Unheld ELSE hostLock

\* Any exit but the last line: run-ops.sh's grep fails the step.
EndJob(j, result) ==
    /\ job' = [job EXCEPT ![j].at = "over", ![j].result = result]
    /\ hostLock' = Unlocked(j)

-----------------------------------------------------------------------------
(* The runner *)

Group(command) == IF command \in BackupCommands THEN "backup"
                  ELSE IF command \in AdminCommands THEN "admin" ELSE command

\* `concurrency`: one run of a workflow at a time.
Dispatch(j, command) ==
    /\ job[j].at = "idle"
    /\ \A k \in Jobs : job[k].at \in {"idle", "over"} \/ Group(job[k].command) # Group(command)
    /\ job' = [job EXCEPT ![j].command = command, ![j].at = "connect"]
    /\ UNCHANGED <<placeVars, program, hostVars, accounts, done>>

\* ssh-target.sh without --recovery; check-clock.sh, whose verdict only counts
\* for a backup; the admin workflow's check of the password.
MayConnect(command) ==
    /\ variables.enabled
    /\ command = "backup" => ~clockOff
    /\ command = "create" => variables.secret

ReachServer(j) ==
    /\ job[j].at = "connect"
    /\ \/ MayConnect(job[j].command) /\ At(j, "check") /\ UNCHANGED hostLock
       \/ EndJob(j, "red")                      \* refused, or the server is out of reach
    /\ UNCHANGED <<placeVars, program, pending, deploys, accounts, done>>

\* The connection drops or the job times out: the script on the server goes, and
\* the lock; what runs in a container may stay.
LoseConnection(j) ==
    /\ job[j].at \in {"check", "lock", "start", "running", "report"}
    /\ EndJob(j, "red")
    /\ \/ UNCHANGED program
       \/ program' = [program EXCEPT ![j] = "none"]
    /\ UNCHANGED <<placeVars, pending, deploys, accounts, done>>

-----------------------------------------------------------------------------
(* ops.sh *)

\* The checkout has to run the Compose project the workflow expects, and the
\* service whose logs, or in which, there is something to do.
CheckProject(j) ==
    /\ job[j].at = "check"
    /\ \/ /\ variables.path = "this"
          /\ At(j, IF job[j].command \in ReadCommands THEN "report" ELSE "lock")
          /\ UNCHANGED hostLock
       \/ /\ variables.path # "this" \/ job[j].command \in {"logs"} \union AdminCommands
          /\ EndJob(j, "red")
    /\ UNCHANGED <<placeVars, program, pending, deploys, accounts, done>>

\* hold_lock: up to 10 minutes.
HoldLock(j) ==
    /\ job[j].at = "lock"
    /\ \/ hostLock = Unheld /\ hostLock' = j /\ At(j, "start")
       \/ hostLock # Unheld /\ EndJob(j, "red")
    /\ UNCHANGED <<placeVars, program, pending, deploys, accounts, done>>

\* `docker compose run` or `exec`, which may fail to start.
Start(j) ==
    /\ job[j].at = "start"
    /\ \/ /\ job[j].command \in AdminCommands => ~pending
          /\ program' = [program EXCEPT ![j] =
                           IF job[j].command \in AdminCommands THEN "select" ELSE "work"]
          /\ At(j, "running") /\ UNCHANGED hostLock
       \/ EndJob(j, "red") /\ UNCHANGED program
    /\ UNCHANGED <<placeVars, pending, deploys, accounts, done>>

CollectAnyExit(j) ==   \* wrong: the program's exit code is not looked at
    /\ job[j].at = "running"
    /\ program[j] \in {"succeeded", "failed", "none"}
    /\ At(j, "report")
    /\ UNCHANGED <<placeVars, program, hostVars, accounts, done>>

\* The program has ended: `set -e`, or STARTERDOUGH_OPS_COMPLETE.
Collect(j) ==
    /\ job[j].at = "running"
    /\ \/ program[j] = "succeeded" /\ At(j, "report") /\ UNCHANGED hostLock
       \/ program[j] \in {"failed", "none"} /\ EndJob(j, "red")
    /\ UNCHANGED <<placeVars, program, pending, deploys, accounts, done>>

Report(j) ==
    /\ job[j].at = "report"
    /\ EndJob(j, "green")
    /\ UNCHANGED <<placeVars, program, pending, deploys, accounts, done>>

-----------------------------------------------------------------------------
(* In the containers *)

Becomes(j, state) == program' = [program EXCEPT ![j] = state]
Here == variables.path

\* The backup command line: the set is stored, listed or drilled before it exits 0.
Work(j) ==
    /\ program[j] = "work"
    /\ \/ Becomes(j, "succeeded") /\ done' = done \union {j}
       \/ Becomes(j, "failed") /\ UNCHANGED done
    /\ UNCHANGED <<placeVars, job, hostVars, accounts>>

\* create-admin: an account that is an administrator is left alone; another is
\* promoted with --yes only; without an account --yes has no password to go on.
Select(j) ==
    /\ program[j] = "select"
    /\ LET a == accounts[Here]
           yes == job[j].command = "promote"
       IN Becomes(j, IF a = NoAccount THEN IF yes THEN "failed" ELSE "sign-up"
                     ELSE IF a.admin THEN "succeeded"
                     ELSE IF yes THEN "promote" ELSE "failed")
    /\ UNCHANGED <<placeVars, job, hostVars, accounts, done>>

Promote(j) ==
    /\ program[j] = "promote"
    /\ accounts' = [accounts EXCEPT ![Here].admin = TRUE]
    /\ Becomes(j, "succeeded")
    /\ UNCHANGED <<placeVars, job, hostVars, done>>

\* Better Auth refuses an address it has (USER_ALREADY_EXISTS to the sign-up page).
SignUp(j) ==
    /\ program[j] = "sign-up"
    /\ IF accounts[Here] = NoAccount
         THEN /\ accounts' = [accounts EXCEPT ![Here] = [admin |-> FALSE, verified |-> FALSE]]
              /\ Becomes(j, "role")
         ELSE UNCHANGED accounts /\ Becomes(j, "failed")
    /\ UNCHANGED <<placeVars, job, hostVars, done>>

GiveRole(j) ==
    /\ program[j] = "role"
    /\ accounts' = [accounts EXCEPT ![Here] = [admin |-> TRUE, verified |-> TRUE]]
    /\ Becomes(j, "succeeded")
    /\ UNCHANGED <<placeVars, job, hostVars, done>>

Dies(j) ==
    /\ program[j] \in {"work", "select", "promote", "sign-up", "role"}
    /\ Becomes(j, "failed")
    /\ UNCHANGED <<placeVars, job, hostVars, accounts, done>>

-----------------------------------------------------------------------------
(* Deploys and the owner of the address *)

BeginDeploy ==
    /\ hostLock = Unheld /\ deploys < MaxDeploys
    /\ hostLock' = Deploy /\ deploys' = deploys + 1 /\ pending' = TRUE
    /\ UNCHANGED <<placeVars, job, program, accounts, done>>

\* It clears its journal or dies; either way the API has been recreated, and
\* whatever ran inside it is gone.
EndDeploy ==
    /\ hostLock = Deploy
    /\ hostLock' = Unheld
    /\ pending' \in BOOLEAN
    /\ program' = [j \in Jobs |-> IF program[j] \in {"select", "promote", "sign-up", "role"}
                                  THEN "failed" ELSE program[j]]
    /\ UNCHANGED <<placeVars, job, deploys, accounts, done>>

\* The link in the mail.
Verify ==
    /\ accounts["this"] # NoAccount /\ ~accounts["this"].verified
    /\ accounts' = [accounts EXCEPT !["this"].verified = TRUE]
    /\ UNCHANGED <<placeVars, job, program, hostVars, done>>

OpsNext ==
    \/ \E j \in Jobs :
          \/ \E command \in Commands : Dispatch(j, command)
          \/ ReachServer(j) \/ LoseConnection(j) \/ CheckProject(j) \/ HoldLock(j) \/ Start(j)
          \/ Collect(j) \/ Report(j)
          \/ Work(j) \/ Select(j) \/ Promote(j) \/ SignUp(j) \/ GiveRole(j) \/ Dies(j)
    \/ BeginDeploy \/ EndDeploy \/ Verify

OpsSpec == OpsInit /\ [][OpsNext]_opsVars

-----------------------------------------------------------------------------
Places == {"idle", "connect", "check", "lock", "start", "running", "report", "over"}
Programs == {"none", "work", "select", "promote", "sign-up", "role", "succeeded", "failed"}

OpsTypeOK ==
    /\ variables \in [enabled : BOOLEAN, secret : BOOLEAN, path : Projects]
    /\ clockOff \in BOOLEAN /\ pending \in BOOLEAN
    /\ job \in [Jobs -> [command : Commands \union {"none"}, at : Places,
                         result : {"none", "red", "green"}]]
    /\ program \in [Jobs -> Programs]
    /\ hostLock \in Jobs \union {Deploy, Unheld}
    /\ deploys \in 0..MaxDeploys
    /\ accounts \in [Projects -> Account \union {NoAccount}]
    /\ done \subseteq Jobs

\* A green run has done what it was asked, whatever connections dropped, programs
\* of earlier runs lived on and deploys came between: the backup is stored, the
\* drill has passed, the address belongs to an administrator; and it did so in
\* this product, never in the one a wrong DEPLOY_PATH names (ops.sh, run-ops.sh,
\* create-admin.ts).
GreenMeansDone ==
    /\ \A j \in Jobs : job[j].result = "green" =>
          /\ job[j].command \in BackupCommands => j \in done
          /\ job[j].command \in AdminCommands =>
               accounts["this"] # NoAccount /\ accounts["this"].admin
    /\ \A j \in Jobs : program[j] # "none" => variables.path = "this"
===============================================================================
