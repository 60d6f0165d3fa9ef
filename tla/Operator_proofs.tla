--------------------------- MODULE Operator_proofs ----------------------------
(* Proofs about the tools an operator runs beside the deploys: a green run    *)
(* over SSH has done what it was asked (ServerOps), a provisioned stack is    *)
(* sound (Provision), a drill that ends well proves the set (Drill), setup    *)
(* and doctor agree (LocalSetup), and a clone is renamed as a whole (Rename), *)
(* however often each is run.                                                 *)
EXTENDS ServerOps, Provision, Drill, LocalSetup, Rename, Integers, TLAPS

(* ServerOps *)

AdminPrograms == {"select", "promote", "sign-up", "role"}
IsAdmin(a) == a # NoAccount /\ a.admin

\* A run that has not started anything has no program; a program is the kind its
\* run's command starts.
ProgramFitsJob ==
    \A j \in Jobs :
        /\ job[j].at \in {"idle", "connect", "check", "lock", "start"} =>
             job[j].result = "none" /\ program[j] = "none"
        /\ job[j].at # "idle" => job[j].command \in Commands
        /\ job[j].at \in {"lock", "start", "running"} =>
             job[j].command \in BackupCommands \union AdminCommands
        /\ program[j] # "none" => job[j].command \in BackupCommands \union AdminCommands
        /\ program[j] = "work" => job[j].command \in BackupCommands
        /\ program[j] \in AdminPrograms => job[j].command \in AdminCommands

\* Past the check of the project, and in every container, it is this product.
AtHome ==
    \A j \in Jobs :
        (job[j].at \in {"lock", "start", "running", "report"} \/ program[j] # "none")
            => variables.path = "this"

\* What a program that has succeeded, a run that reports and a green one stand for;
\* whom a program promotes has an account, and none is ever removed.
Achieved(j) ==
    /\ job[j].command \in BackupCommands => j \in done
    /\ job[j].command \in AdminCommands => IsAdmin(accounts["this"])

SuccessIsReal ==
    \A j \in Jobs :
        /\ (program[j] = "succeeded" \/ job[j].at = "report" \/ job[j].result = "green")
             => Achieved(j)
        /\ program[j] = "promote" => accounts["this"] # NoAccount

JobType == [command : Commands \union {"none"}, at : Places, result : {"none", "red", "green"}]

OpsInv == OpsTypeOK /\ ProgramFitsJob /\ AtHome /\ SuccessIsReal

LEMMA InitOpsInv == OpsInit => OpsInv
  <1> SUFFICES ASSUME OpsInit PROVE OpsInv
    OBVIOUS
  <1> USE OpsAssumption DEF OpsInit
  <1>1. job \in [Jobs -> [command : Commands \union {"none"}, at : Places,
                          result : {"none", "red", "green"}]]
    BY DEF Places
  <1>2. program \in [Jobs -> Programs]
    BY DEF Programs
  <1>3. accounts \in [Projects -> Account \union {NoAccount}]
    OBVIOUS
  <1>4. OpsTypeOK
    BY <1>1, <1>2, <1>3 DEF OpsTypeOK
  <1>5. ProgramFitsJob /\ AtHome /\ SuccessIsReal
    BY DEF ProgramFitsJob, AtHome, SuccessIsReal, AdminPrograms
  <1> QED  BY <1>4, <1>5 DEF OpsInv

-----------------------------------------------------------------------------
(* What the helpers of the actions do to the state *)

LEMMA AtMoves ==
    ASSUME job \in [Jobs -> JobType], NEW j \in Jobs, NEW place \in Places, At(j, place)
    PROVE  /\ job' \in [Jobs -> JobType]
           /\ \A k \in Jobs : /\ job'[k].command = job[k].command
                              /\ job'[k].result = job[k].result
                              /\ job'[k].at = IF k = j THEN place ELSE job[k].at
  BY DEF At, JobType

LEMMA EndJobEnds ==
    ASSUME OpsInv, NEW j \in Jobs, NEW result \in {"red", "green"}, EndJob(j, result)
    PROVE  /\ job' \in [Jobs -> JobType]
           /\ hostLock' \in Jobs \union {Deploy, Unheld}
           /\ \A k \in Jobs : /\ job'[k].command = job[k].command
                              /\ job'[k].result = IF k = j THEN result ELSE job[k].result
                              /\ job'[k].at = IF k = j THEN "over" ELSE job[k].at
  <1> USE DEF EndJob, OpsInv, OpsTypeOK
  <1>1. "over" \in Places
    BY DEF Places
  <1>2. job' = [job EXCEPT ![j] = [job[j] EXCEPT !.at = "over", !.result = result]]
    OBVIOUS
  <1>3. job[j] \in JobType /\ job \in [Jobs -> JobType]
    BY DEF JobType
  <1>4. [job[j] EXCEPT !.at = "over", !.result = result] \in JobType
    BY <1>1, <1>3 DEF JobType
  <1>5. job' \in [Jobs -> JobType]
    BY <1>2, <1>3, <1>4
  <1>6. hostLock' \in Jobs \union {Deploy, Unheld}
    BY DEF Unlocked
  <1>7. \A k \in Jobs : /\ job'[k].command = job[k].command
                        /\ job'[k].result = IF k = j THEN result ELSE job[k].result
                        /\ job'[k].at = IF k = j THEN "over" ELSE job[k].at
    BY <1>2, <1>3 DEF JobType
  <1> QED  BY <1>5, <1>6, <1>7

LEMMA BecomesSets ==
    ASSUME program \in [Jobs -> Programs], NEW j \in Jobs, NEW state \in Programs,
           Becomes(j, state)
    PROVE  /\ program' \in [Jobs -> Programs]
           /\ \A k \in Jobs : program'[k] = IF k = j THEN state ELSE program[k]
  BY DEF Becomes

LEMMA RoleGiven ==
    ASSUME accounts \in [Projects -> Account \union {NoAccount}], accounts["this"] \in Account,
           accounts' = [accounts EXCEPT !["this"].admin = TRUE]
    PROVE  accounts' \in [Projects -> Account \union {NoAccount}] /\ IsAdmin(accounts'["this"])
  <1>1. accounts' = [accounts EXCEPT !["this"] = [accounts["this"] EXCEPT !.admin = TRUE]]
    OBVIOUS
  <1>2. /\ [accounts["this"] EXCEPT !.admin = TRUE] \in Account
        /\ [accounts["this"] EXCEPT !.admin = TRUE].admin = TRUE
    BY DEF Account
  <1>3. accounts' \in [Projects -> Account \union {NoAccount}]
    BY <1>1, <1>2
  <1>4. accounts'["this"] = [accounts["this"] EXCEPT !.admin = TRUE]
    BY <1>1 DEF Projects
  <1>5. accounts'["this"] # NoAccount
    BY <1>2, <1>4, OpsAssumption
  <1> QED  BY <1>2, <1>3, <1>4, <1>5 DEF IsAdmin

LEMMA AccountCreated ==
    ASSUME accounts \in [Projects -> Account \union {NoAccount}], NEW a \in Account,
           accounts' = [accounts EXCEPT !["this"] = a]
    PROVE  /\ accounts' \in [Projects -> Account \union {NoAccount}]
           /\ accounts'["this"] = a /\ a # NoAccount
  BY OpsAssumption DEF Projects

LEMMA AddressVerified ==
    ASSUME accounts \in [Projects -> Account \union {NoAccount}], accounts["this"] \in Account,
           accounts' = [accounts EXCEPT !["this"].verified = TRUE]
    PROVE  /\ accounts' \in [Projects -> Account \union {NoAccount}]
           /\ IsAdmin(accounts["this"]) => IsAdmin(accounts'["this"])
           /\ accounts'["this"] # NoAccount
  <1>1. accounts' = [accounts EXCEPT !["this"] = [accounts["this"] EXCEPT !.verified = TRUE]]
    OBVIOUS
  <1>2. /\ [accounts["this"] EXCEPT !.verified = TRUE] \in Account
        /\ [accounts["this"] EXCEPT !.verified = TRUE].admin = accounts["this"].admin
    BY DEF Account
  <1>3. accounts' \in [Projects -> Account \union {NoAccount}]
    BY <1>1, <1>2
  <1>4. accounts'["this"] = [accounts["this"] EXCEPT !.verified = TRUE]
    BY <1>1 DEF Projects
  <1>5. accounts'["this"] # NoAccount
    BY <1>2, <1>4, OpsAssumption
  <1> QED  BY <1>2, <1>3, <1>4, <1>5 DEF IsAdmin

-----------------------------------------------------------------------------
(* One lemma per action *)

LEMMA DispatchKeeps ==
    ASSUME OpsInv, NEW j \in Jobs, NEW command \in Commands, Dispatch(j, command)
    PROVE  OpsInv'
  <1> USE DEF Dispatch, placeVars, hostVars
  <1>1. OpsTypeOK'
    BY DEF OpsInv, OpsTypeOK, Places
  <1>2. ProgramFitsJob' /\ AtHome'
    BY DEF OpsInv, OpsTypeOK, ProgramFitsJob, AtHome, AdminPrograms
  <1>3. SuccessIsReal'
    BY DEF OpsInv, OpsTypeOK, ProgramFitsJob, SuccessIsReal, Achieved, IsAdmin
  <1> QED  BY <1>1, <1>2, <1>3 DEF OpsInv

\* A run that ends red, whatever becomes of its program.
LEMMA RedKeeps ==
    ASSUME OpsInv, NEW j \in Jobs, EndJob(j, "red"),
           job[j].at \in {"connect", "check", "lock", "start", "running", "report"},
           program' = program \/ program' = [program EXCEPT ![j] = "none"],
           UNCHANGED <<placeVars, pending, deploys, accounts, done>>
    PROVE  OpsInv'
  <1>1. /\ job' \in [Jobs -> JobType]
        /\ hostLock' \in Jobs \union {Deploy, Unheld}
        /\ \A k \in Jobs : /\ job'[k].command = job[k].command
                           /\ job'[k].result = IF k = j THEN "red" ELSE job[k].result
                           /\ job'[k].at = IF k = j THEN "over" ELSE job[k].at
    BY EndJobEnds
  <1>2. program' \in [Jobs -> Programs]
    BY DEF OpsInv, OpsTypeOK, Programs
  <1>3. \A k \in Jobs : program'[k] = program[k] \/ program'[k] = "none"
    BY DEF OpsInv, OpsTypeOK
  <1>4. OpsTypeOK'
    BY <1>1, <1>2 DEF OpsInv, OpsTypeOK, JobType, placeVars
  <1>5. ProgramFitsJob'
    BY <1>1, <1>3 DEF OpsInv, ProgramFitsJob, AdminPrograms
  <1>6. AtHome'
    BY <1>1, <1>3 DEF OpsInv, AtHome, placeVars
  <1>7. SuccessIsReal'
    BY <1>1, <1>3 DEF OpsInv, SuccessIsReal, Achieved
  <1> QED  BY <1>4, <1>5, <1>6, <1>7 DEF OpsInv

\* A run that goes on to its next place.
LEMMA MoveKeeps ==
    ASSUME OpsInv, NEW j \in Jobs, NEW place \in Places, At(j, place),
           job[j].at # "idle", place \notin {"idle", "over"},
           hostLock' \in Jobs \union {Deploy, Unheld},
           UNCHANGED <<placeVars, program, pending, deploys, accounts, done>>,
           place \in {"connect", "check", "lock", "start"}
             => job[j].result = "none" /\ program[j] = "none",
           place \in {"lock", "start", "running"}
             => job[j].command \in BackupCommands \union AdminCommands,
           place \in {"lock", "start", "running", "report"} => variables.path = "this",
           place = "report" => Achieved(j)
    PROVE  OpsInv'
  <1>1. /\ job' \in [Jobs -> JobType]
        /\ \A k \in Jobs : /\ job'[k].command = job[k].command
                           /\ job'[k].result = job[k].result
                           /\ job'[k].at = IF k = j THEN place ELSE job[k].at
    BY AtMoves DEF OpsInv, OpsTypeOK, JobType
  <1>2. OpsTypeOK'
    BY <1>1 DEF OpsInv, OpsTypeOK, JobType, placeVars
  <1>3. ProgramFitsJob'
    BY <1>1 DEF OpsInv, ProgramFitsJob, AdminPrograms
  <1>4. AtHome'
    BY <1>1 DEF OpsInv, AtHome, placeVars
  <1>5. SuccessIsReal'
    BY <1>1 DEF OpsInv, SuccessIsReal, Achieved
  <1> QED  BY <1>2, <1>3, <1>4, <1>5 DEF OpsInv

LEMMA ReachServerKeeps ==
    ASSUME OpsInv, NEW j \in Jobs, ReachServer(j)
    PROVE  OpsInv'
  <1> USE DEF ReachServer
  <1>1. CASE EndJob(j, "red")
    BY <1>1, RedKeeps
  <1>2. CASE At(j, "check") /\ UNCHANGED hostLock
    BY <1>2, MoveKeeps DEF Places, OpsInv, OpsTypeOK, ProgramFitsJob
  <1> QED  BY <1>1, <1>2

LEMMA LoseConnectionKeeps ==
    ASSUME OpsInv, NEW j \in Jobs, LoseConnection(j)
    PROVE  OpsInv'
  BY RedKeeps DEF LoseConnection

LEMMA CheckProjectKeeps ==
    ASSUME OpsInv, NEW j \in Jobs, CheckProject(j)
    PROVE  OpsInv'
  <1> USE DEF CheckProject
  <1>1. CASE EndJob(j, "red")
    BY <1>1, RedKeeps
  <1>2. CASE /\ variables.path = "this" /\ UNCHANGED hostLock
             /\ At(j, IF job[j].command \in ReadCommands THEN "report" ELSE "lock")
    <2>1. job[j].at = "check" /\ job[j].result = "none" /\ program[j] = "none"
      BY DEF OpsInv, ProgramFitsJob
    <2>2. hostLock' \in Jobs \union {Deploy, Unheld}
      BY <1>2 DEF OpsInv, OpsTypeOK
    <2>3. CASE job[j].command \in ReadCommands
      <3>1. Achieved(j)
        BY <2>3 DEF Achieved, ReadCommands, BackupCommands, AdminCommands
      <3> QED  BY <1>2, <2>1, <2>2, <2>3, <3>1, MoveKeeps DEF Places
    <2>4. CASE job[j].command \notin ReadCommands
      <3>1. job[j].command \in BackupCommands \union AdminCommands
        BY <2>1, <2>4 DEF OpsInv, ProgramFitsJob, Commands
      <3> QED  BY <1>2, <2>1, <2>2, <2>4, <3>1, MoveKeeps DEF Places
    <2> QED  BY <2>3, <2>4
  <1> QED  BY <1>1, <1>2

LEMMA HoldLockKeeps ==
    ASSUME OpsInv, NEW j \in Jobs, HoldLock(j)
    PROVE  OpsInv'
  <1> USE DEF HoldLock
  <1>1. CASE EndJob(j, "red")
    BY <1>1, RedKeeps
  <1>2. CASE hostLock' = j /\ At(j, "start")
    BY <1>2, MoveKeeps DEF Places, OpsInv, OpsTypeOK, ProgramFitsJob, AtHome
  <1> QED  BY <1>1, <1>2

LEMMA StartKeeps ==
    ASSUME OpsInv, NEW j \in Jobs, Start(j)
    PROVE  OpsInv'
  <1> USE DEF Start
  <1>1. CASE EndJob(j, "red") /\ UNCHANGED program
    BY <1>1, RedKeeps
  <1>2. CASE /\ program' = [program EXCEPT ![j] =
                           IF job[j].command \in AdminCommands THEN "select" ELSE "work"]
             /\ At(j, "running") /\ UNCHANGED hostLock
    <2>1. /\ job' \in [Jobs -> JobType]
          /\ \A k \in Jobs : /\ job'[k].command = job[k].command
                             /\ job'[k].result = job[k].result
                             /\ job'[k].at = IF k = j THEN "running" ELSE job[k].at
      BY <1>2, AtMoves DEF OpsInv, OpsTypeOK, JobType, Places
    <2>2. \A k \in Jobs : program'[k] = IF k # j THEN program[k]
             ELSE IF job[j].command \in AdminCommands THEN "select" ELSE "work"
      BY <1>2 DEF OpsInv, OpsTypeOK
    <2>3. program' \in [Jobs -> Programs]
      BY <1>2 DEF OpsInv, OpsTypeOK, Programs
    <2>4. OpsTypeOK'
      BY <1>2, <2>1, <2>3 DEF OpsInv, OpsTypeOK, JobType, placeVars
    <2>5. ProgramFitsJob'
      <3>1. /\ ProgramFitsJob /\ job[j].at = "start"
            /\ AdminCommands \intersect BackupCommands = {}
        BY DEF OpsInv, AdminCommands, BackupCommands
      <3>2. ASSUME NEW k \in Jobs, k # j
            PROVE  job'[k].at = job[k].at /\ program'[k] = program[k]
        BY <2>1, <2>2, <3>2
      <3>3. /\ job'[j].at = "running" /\ job[j].command \in BackupCommands \union AdminCommands
            /\ job[j].command \in Commands
            /\ \/ job[j].command \in AdminCommands /\ program'[j] = "select"
               \/ job[j].command \in BackupCommands /\ program'[j] = "work"
        BY <2>1, <2>2, <3>1 DEF ProgramFitsJob
      <3> QED  BY <2>1, <3>1, <3>2, <3>3 DEF ProgramFitsJob, AdminPrograms
    <2>6. AtHome'
      BY <2>1, <2>2 DEF OpsInv, AtHome, placeVars
    <2>7. SuccessIsReal'
      BY <2>1, <2>2 DEF OpsInv, SuccessIsReal, Achieved
    <2> QED  BY <2>4, <2>5, <2>6, <2>7 DEF OpsInv
  <1> QED  BY <1>1, <1>2

LEMMA CollectKeeps ==
    ASSUME OpsInv, NEW j \in Jobs, Collect(j)
    PROVE  OpsInv'
  <1> USE DEF Collect
  <1>1. CASE EndJob(j, "red")
    BY <1>1, RedKeeps
  <1>2. CASE program[j] = "succeeded" /\ At(j, "report") /\ UNCHANGED hostLock
    BY <1>2, MoveKeeps DEF Places, OpsInv, OpsTypeOK, SuccessIsReal, AtHome
  <1> QED  BY <1>1, <1>2

LEMMA ReportKeeps ==
    ASSUME OpsInv, NEW j \in Jobs, Report(j)
    PROVE  OpsInv'
  <1> USE DEF Report
  <1>1. /\ job' \in [Jobs -> JobType]
        /\ hostLock' \in Jobs \union {Deploy, Unheld}
        /\ \A k \in Jobs : /\ job'[k].command = job[k].command
                           /\ job'[k].result = IF k = j THEN "green" ELSE job[k].result
                           /\ job'[k].at = IF k = j THEN "over" ELSE job[k].at
    BY EndJobEnds
  <1>2. OpsTypeOK'
    BY <1>1 DEF OpsInv, OpsTypeOK, JobType, placeVars
  <1>3. ProgramFitsJob'
    BY <1>1 DEF OpsInv, ProgramFitsJob
  <1>4. AtHome'
    BY <1>1 DEF OpsInv, AtHome, placeVars
  <1>5. SuccessIsReal'
    BY <1>1 DEF OpsInv, SuccessIsReal, Achieved
  <1> QED  BY <1>2, <1>3, <1>4, <1>5 DEF OpsInv

\* A program goes on, and leaves the account and what is done as good as they were.
LEMMA ProgramKeeps ==
    ASSUME OpsInv, NEW j \in Jobs, NEW state \in Programs \ {"none"}, Becomes(j, state),
           program[j] # "none",
           UNCHANGED <<placeVars, job, hostVars>>,
           accounts' \in [Projects -> Account \union {NoAccount}],
           done' \subseteq Jobs, done \subseteq done',
           IsAdmin(accounts["this"]) => IsAdmin(accounts'["this"]),
           accounts["this"] # NoAccount => accounts'["this"] # NoAccount,
           state = "promote" => accounts["this"] # NoAccount,
           state = "work" => job[j].command \in BackupCommands,
           state \in AdminPrograms => job[j].command \in AdminCommands,
           state = "succeeded" => Achieved(j)'
    PROVE  OpsInv'
  <1>1. /\ program' \in [Jobs -> Programs]
        /\ \A k \in Jobs : program'[k] = IF k = j THEN state ELSE program[k]
    BY BecomesSets DEF OpsInv, OpsTypeOK
  <1>2. OpsTypeOK'
    BY <1>1 DEF OpsInv, OpsTypeOK, placeVars, hostVars
  <1>3. ProgramFitsJob'
    BY <1>1 DEF OpsInv, ProgramFitsJob
  <1>4. AtHome'
    BY <1>1 DEF OpsInv, AtHome, placeVars
  <1>5. \A k \in Jobs : Achieved(k) => Achieved(k)'
    BY DEF Achieved
  <1>6. SuccessIsReal'
    BY <1>1, <1>5 DEF OpsInv, SuccessIsReal
  <1> QED  BY <1>2, <1>3, <1>4, <1>6 DEF OpsInv

LEMMA WorkKeeps ==
    ASSUME OpsInv, NEW j \in Jobs, Work(j)
    PROVE  OpsInv'
  <1> USE DEF Work
  <1>1. job[j].command \in BackupCommands
    BY DEF OpsInv, ProgramFitsJob
  <1>2. CASE Becomes(j, "succeeded") /\ done' = done \union {j}
    <2>1. Achieved(j)'
      BY <1>1, <1>2 DEF Achieved, BackupCommands, AdminCommands
    <2> QED  BY <1>2, <2>1, ProgramKeeps DEF Programs, AdminPrograms, OpsInv, OpsTypeOK
  <1>3. CASE Becomes(j, "failed") /\ UNCHANGED done
    BY <1>3, ProgramKeeps DEF Programs, AdminPrograms, OpsInv, OpsTypeOK
  <1> QED  BY <1>2, <1>3

LEMMA SelectKeeps ==
    ASSUME OpsInv, NEW j \in Jobs, Select(j)
    PROVE  OpsInv'
  <1> USE DEF Select
  <1>1. job[j].command \in AdminCommands /\ Here = "this" /\ program[j] = "select"
    BY DEF OpsInv, ProgramFitsJob, AtHome, AdminPrograms, Here
  <1>2. PICK state \in {"failed", "sign-up", "succeeded", "promote"} :
             /\ Becomes(j, state)
             /\ state = "succeeded" => IsAdmin(accounts["this"])
             /\ state = "promote" => accounts["this"] # NoAccount
    BY <1>1 DEF IsAdmin
  <1>3. state = "succeeded" => Achieved(j)'
    BY <1>1, <1>2 DEF Achieved, AdminCommands, BackupCommands
  <1> QED  BY <1>1, <1>2, <1>3, ProgramKeeps DEF Programs, OpsInv, OpsTypeOK

\* create-admin writes the account of this product: in the end an administrator's.
LEMMA WritesKeep ==
    ASSUME OpsInv, NEW j \in Jobs, Promote(j) \/ SignUp(j) \/ GiveRole(j)
    PROVE  OpsInv'
  <1>1. job[j].command \in AdminCommands /\ Here = "this" /\ program[j] # "none"
    BY DEF Promote, SignUp, GiveRole, OpsInv, ProgramFitsJob, AtHome, AdminPrograms, Here
  <1>2. accounts \in [Projects -> Account \union {NoAccount}] /\ "this" \in Projects
    BY DEF OpsInv, OpsTypeOK, Projects
  <1>3. done' \subseteq Jobs /\ done \subseteq done'
    BY DEF Promote, SignUp, GiveRole, OpsInv, OpsTypeOK
  <1>4. CASE Promote(j)
    <2>2. accounts["this"] \in Account
      BY <1>1, <1>2, <1>4 DEF OpsInv, SuccessIsReal, Promote
    <2>3. accounts' \in [Projects -> Account \union {NoAccount}] /\ IsAdmin(accounts'["this"])
      BY <1>4, <1>1, <1>2, <2>2, RoleGiven DEF Promote
    <2>4. Achieved(j)'
      BY <1>1, <1>4, <2>3 DEF Promote, Achieved, AdminCommands, BackupCommands
    <2> QED  BY <1>4, <1>1, <1>3, <2>3, <2>4, ProgramKeeps DEF Promote, Programs, AdminPrograms,
         IsAdmin
  <1>5. CASE SignUp(j)
    <2>1. CASE accounts["this"] = NoAccount
      <3>1. [admin |-> FALSE, verified |-> FALSE] \in Account
        BY DEF Account
      <3>2. accounts' \in [Projects -> Account \union {NoAccount}]
        BY <1>5, <1>1, <1>2, <2>1, <3>1, AccountCreated DEF SignUp
      <3> QED  BY <1>5, <1>1, <1>3, <2>1, <3>2, ProgramKeeps
               DEF SignUp, Programs, IsAdmin, AdminPrograms
    <2>2. CASE accounts["this"] # NoAccount
      BY <1>5, <1>1, <1>2, <1>3, <2>2, ProgramKeeps DEF SignUp, Programs, AdminPrograms
    <2> QED  BY <2>1, <2>2
  <1>6. CASE GiveRole(j)
    <2>1. [admin |-> TRUE, verified |-> TRUE] \in Account
      BY DEF Account
    <2>2. accounts' \in [Projects -> Account \union {NoAccount}] /\ IsAdmin(accounts'["this"])
      BY <1>6, <1>1, <1>2, <2>1, AccountCreated DEF GiveRole, IsAdmin
    <2>3. Achieved(j)'
      BY <1>1, <1>6, <2>2 DEF GiveRole, Achieved, AdminCommands, BackupCommands
    <2> QED  BY <1>6, <1>1, <1>3, <2>2, <2>3, ProgramKeeps DEF GiveRole, Programs, AdminPrograms,
         IsAdmin
  <1> QED  BY <1>4, <1>5, <1>6

LEMMA DiesKeeps ==
    ASSUME OpsInv, NEW j \in Jobs, Dies(j)
    PROVE  OpsInv'
  BY ProgramKeeps DEF Dies, Programs, AdminPrograms, OpsInv, OpsTypeOK

LEMMA OthersKeep ==
    ASSUME OpsInv, BeginDeploy \/ EndDeploy \/ Verify
    PROVE  OpsInv'
  <1>1. CASE BeginDeploy
    <2> USE <1>1, OpsAssumption DEF BeginDeploy, placeVars
    <2>1. OpsTypeOK'
      BY DEF OpsInv, OpsTypeOK
    <2>2. ProgramFitsJob' /\ AtHome' /\ SuccessIsReal'
      BY DEF OpsInv, ProgramFitsJob, AtHome, SuccessIsReal, Achieved
    <2> QED  BY <2>1, <2>2 DEF OpsInv
  <1>2. CASE EndDeploy
    <2> USE <1>2 DEF EndDeploy, placeVars
    <2>1. /\ program' \in [Jobs -> Programs]
          /\ \A k \in Jobs : \/ program'[k] = program[k]
                             \/ program[k] \in AdminPrograms /\ program'[k] = "failed"
      BY DEF OpsInv, OpsTypeOK, Programs, AdminPrograms
    <2>2. OpsTypeOK'
      BY <2>1 DEF OpsInv, OpsTypeOK
    <2>3. ProgramFitsJob' /\ AtHome' /\ SuccessIsReal'
      BY <2>1 DEF OpsInv, ProgramFitsJob, AtHome, SuccessIsReal, Achieved, AdminPrograms
    <2> QED  BY <2>2, <2>3 DEF OpsInv
  <1>3. CASE Verify
    <2> USE <1>3 DEF Verify, placeVars, hostVars
    <2>1. accounts["this"] \in Account
      BY DEF OpsInv, OpsTypeOK, Projects
    <2>2. /\ accounts' \in [Projects -> Account \union {NoAccount}]
          /\ IsAdmin(accounts["this"]) => IsAdmin(accounts'["this"])
          /\ accounts'["this"] # NoAccount
      BY <2>1, AddressVerified DEF OpsInv, OpsTypeOK
    <2>3. OpsTypeOK'
      BY <2>2 DEF OpsInv, OpsTypeOK
    <2>4. ProgramFitsJob' /\ AtHome' /\ SuccessIsReal'
      BY <2>2 DEF OpsInv, ProgramFitsJob, AtHome, SuccessIsReal, Achieved
    <2> QED  BY <2>3, <2>4 DEF OpsInv
  <1> QED  BY <1>1, <1>2, <1>3

LEMMA NextOpsInv == OpsInv /\ [OpsNext]_opsVars => OpsInv'
  <1> SUFFICES ASSUME OpsInv, [OpsNext]_opsVars PROVE OpsInv'
    OBVIOUS
  <1>1. CASE UNCHANGED opsVars
    BY <1>1 DEF opsVars, placeVars, hostVars, OpsInv, OpsTypeOK, ProgramFitsJob, AtHome,
                SuccessIsReal, Achieved
  <1>2. CASE \E j \in Jobs : \E command \in Commands : Dispatch(j, command)
    BY <1>2, DispatchKeeps
  <1>3. CASE \E j \in Jobs : \/ ReachServer(j) \/ LoseConnection(j) \/ CheckProject(j)
                             \/ HoldLock(j) \/ Start(j) \/ Collect(j) \/ Report(j)
    BY <1>3, ReachServerKeeps, LoseConnectionKeeps, CheckProjectKeeps, HoldLockKeeps,
       StartKeeps, CollectKeeps, ReportKeeps
  <1>4. CASE \E j \in Jobs : \/ Work(j) \/ Select(j) \/ Promote(j) \/ SignUp(j)
                             \/ GiveRole(j) \/ Dies(j)
    BY <1>4, WorkKeeps, SelectKeeps, WritesKeep, DiesKeeps
  <1>5. CASE BeginDeploy \/ EndDeploy \/ Verify
    BY <1>5, OthersKeep
  <1> QED  BY <1>1, <1>2, <1>3, <1>4, <1>5 DEF OpsNext

\* The invariant holds for any number of runs and deploys: what a program has to
\* show when it has succeeded is what ops.sh's last line, and so a green run, say.
THEOREM OpsInvariant == OpsSpec => []OpsInv
  BY InitOpsInv, NextOpsInv, PTL DEF OpsSpec

\* Every variable keeps its type.
THEOREM OpsTypeCorrect == OpsSpec => []OpsTypeOK
  <1>1. OpsInv => OpsTypeOK
    BY DEF OpsInv
  <1> QED  BY <1>1, OpsInvariant, PTL

\* A green run of an operations workflow has done what it was asked, in this product,
\* however connections drop, programs live on and deploys come between (ops.sh,
\* run-ops.sh, create-admin.ts).
THEOREM GreenIsDone == OpsSpec => []GreenMeansDone
  <1>1. OpsInv => GreenMeansDone
    BY DEF OpsInv, SuccessIsReal, AtHome, Achieved, IsAdmin, GreenMeansDone
  <1> QED  BY <1>1, OpsInvariant, PTL

-----------------------------------------------------------------------------
(* Provision *)

\* The file while its maker fills it in, and after.
FileOfTheMaker ==
    /\ env = Gone => byHand = {}
    /\ script.at \in {"fill", "images"} => env # Gone
    /\ script.at = "fill" => byHand = {} /\ maker = script.expose
    /\ env # Gone /\ ~cut =>
         /\ \A row \in {"auth", "password", "urlPassword"} \ byHand : env[row] = "generated"
         /\ "bind" \notin byHand => env.bind = BindOf(maker)
         /\ \A row \in byHand : env[row] # "generated"

\* The rules of packages/env hold for what the API has started with.
StartsSound ==
    running # Gone =>
      /\ running.auth \in {"generated", "own"} /\ running.password \in {"generated", "own"}
      /\ running.resend = "own" \/ running.verification = "false"
      /\ running.cookie # "empty" => \A row \in {"web", "api"} :
                                        OriginHost(row, running) = running.cookie

ProvisionInv == ProvisionTypeOK /\ FileOfTheMaker /\ StartsSound

RowNames == {"auth", "password", "urlPassword", "bind", "mode", "domain", "web", "api", "cookie",
             "resend", "from", "demo", "verification", "images"}

LEMMA RowsAre == DOMAIN Rows = RowNames
  BY DEF Rows, RowNames

LEMMA TemplateIsEnv == Template \in Envs
  <1>1. Template = [row \in RowNames |-> Template[row]]
    BY DEF Template, RowNames
  <1>2. \A row \in RowNames : Template[row] \in Rows[row]
    BY DEF Template, RowNames, Rows
  <1> QED  BY <1>1, <1>2, RowsAre DEF Envs

LEMMA RowWritten ==
  ASSUME NEW e \in Envs, NEW row \in DOMAIN Rows, NEW v \in Rows[row]
  PROVE  /\ [e EXCEPT ![row] = v] \in Envs
         /\ [e EXCEPT ![row] = v][row] = v
         /\ \A other \in DOMAIN Rows : other # row => [e EXCEPT ![row] = v][other] = e[other]
  BY DEF Envs

LEMMA InitProvisionInv == ProvisionInit => ProvisionInv
  <1> SUFFICES ASSUME ProvisionInit PROVE ProvisionInv
    OBVIOUS
  <1> USE ProvisionAssumption DEF ProvisionInit
  <1>1. "tailscale" \in Exposures /\ script = [at |-> "over", expose |-> "tailscale"]
    BY DEF Exposures
  <1>2. ProvisionTypeOK
    <2>1. /\ script \in [at : {"over", "packages", "firewall", "clone", "copy", "fill", "images"},
                         expose : Exposures]
      BY <1>1
    <2>2. runs \in 0..MaxRuns /\ checkout \in {"none", "partial", "whole"}
      OBVIOUS
    <2>3. /\ ports \subseteq {"22", "tailscale0", "80", "443"} /\ byHand \subseteq DOMAIN Rows
          /\ env \in Envs \union {Gone} /\ running \in Envs \union {Gone}
      OBVIOUS
    <2>4. maker \in Exposures /\ cut \in BOOLEAN
      BY <1>1
    <2> QED  BY <2>1, <2>2, <2>3, <2>4 DEF ProvisionTypeOK
  <1>3. FileOfTheMaker /\ StartsSound
    BY DEF FileOfTheMaker, StartsSound
  <1> QED  BY <1>2, <1>3 DEF ProvisionInv

\* The steps of the script that leave the file alone.
LEMMA FileIsLeftAlone ==
  ASSUME ProvisionInv, UNCHANGED <<env, maker, cut, byHand, running>>,
         script' \in [at : {"over", "packages", "firewall", "clone", "copy", "fill", "images"},
                      expose : Exposures],
         script'.at \notin {"fill", "images"},
         runs' \in 0..MaxRuns, checkout' \in {"none", "partial", "whole"},
         ports' \subseteq {"22", "tailscale0", "80", "443"}
  PROVE  ProvisionInv'
  <1>1. ProvisionTypeOK'
    BY DEF ProvisionInv, ProvisionTypeOK
  <1>2. FileOfTheMaker'
    BY DEF ProvisionInv, FileOfTheMaker
  <1>3. StartsSound'
    BY DEF ProvisionInv, StartsSound, OriginHost
  <1> QED  BY <1>1, <1>2, <1>3 DEF ProvisionInv

LEMMA ScriptStepsKeep ==
  ProvisionInv /\ (Packages \/ Firewall \/ Clone \/ Stops \/ \E x \in Exposures : BeginRun(x))
    => ProvisionInv'
  <1> SUFFICES ASSUME ProvisionInv,
                      Packages \/ Firewall \/ Clone \/ Stops \/ \E x \in Exposures : BeginRun(x)
               PROVE  ProvisionInv'
    OBVIOUS
  <1> DEFINE Scripts == [at : {"over", "packages", "firewall", "clone", "copy", "fill", "images"},
                         expose : Exposures]
  <1>1. /\ script \in Scripts /\ runs \in 0..MaxRuns /\ checkout \in {"none", "partial", "whole"}
        /\ ports \subseteq {"22", "tailscale0", "80", "443"} /\ MaxRuns \in Nat
    BY ProvisionAssumption DEF ProvisionInv, ProvisionTypeOK
  <1>2. CASE Packages
    <2>1. script' \in Scripts /\ script'.at = "firewall"
      BY <1>1, <1>2 DEF Packages, Step
    <2> QED  BY <1>1, <1>2, <2>1, FileIsLeftAlone DEF Packages
  <1>3. CASE Firewall
    <2>1. script' \in Scripts /\ script'.at = "clone"
      BY <1>1, <1>3 DEF Firewall, Step
    <2> QED  BY <1>1, <1>3, <2>1, FileIsLeftAlone DEF Firewall
  <1>4. CASE Clone
    <2>1. script' \in Scripts /\ script'.at = "copy"
      BY <1>1, <1>4 DEF Clone, Step
    <2> QED  BY <1>1, <1>4, <2>1, FileIsLeftAlone DEF Clone
  <1>5. CASE Stops
    <2>1. script' \in Scripts /\ script'.at = "over"
      BY <1>1, <1>5 DEF Stops
    <2>2. checkout' \in {"none", "partial", "whole"}
      BY <1>1, <1>5 DEF Stops
    <2> QED  BY <1>1, <1>5, <2>1, <2>2, FileIsLeftAlone DEF Stops
  <1>6. ASSUME NEW x \in Exposures, BeginRun(x) PROVE ProvisionInv'
    <2>1. script' \in Scripts /\ script'.at = "packages" /\ runs' \in 0..MaxRuns
      BY <1>1, <1>6 DEF BeginRun
    <2> QED  BY <1>1, <1>6, <2>1, FileIsLeftAlone DEF BeginRun
  <1> QED  BY <1>2, <1>3, <1>4, <1>5, <1>6

LEMMA CopyKeeps == ProvisionInv /\ Copy => ProvisionInv'
  <1> SUFFICES ASSUME ProvisionInv, Copy PROVE ProvisionInv'
    OBVIOUS
  <1> DEFINE Scripts == [at : {"over", "packages", "firewall", "clone", "copy", "fill", "images"},
                         expose : Exposures]
  <1>1. /\ script \in Scripts /\ UNCHANGED <<runs, checkout, ports, byHand, running>>
        /\ runs \in 0..MaxRuns /\ checkout \in {"none", "partial", "whole"}
        /\ ports \subseteq {"22", "tailscale0", "80", "443"}
    BY DEF ProvisionInv, ProvisionTypeOK, Copy
  <1>2. CASE env # Gone
    <2>1. script' \in Scripts /\ script'.at = "over" /\ UNCHANGED <<env, maker, cut>>
      BY <1>1, <1>2 DEF Copy, Step
    <2> QED  BY <1>1, <2>1, FileIsLeftAlone
  <1>3. CASE env = Gone
    <2>1. /\ script' \in Scripts /\ script'.at = "fill" /\ script'.expose = script.expose
          /\ env' = Template /\ maker' = script.expose /\ cut' = TRUE
      BY <1>1, <1>3 DEF Copy, Step
    <2>2. ProvisionTypeOK'
      BY <1>1, <2>1, TemplateIsEnv DEF ProvisionInv, ProvisionTypeOK
    <2>3. FileOfTheMaker'
      BY <1>1, <1>3, <2>1, TemplateIsEnv, ProvisionAssumption DEF ProvisionInv, FileOfTheMaker
    <2>4. StartsSound'
      BY <1>1 DEF ProvisionInv, StartsSound, OriginHost
    <2> QED  BY <2>2, <2>3, <2>4 DEF ProvisionInv
  <1> QED  BY <1>2, <1>3

LEMMA FillKeeps == ProvisionInv /\ Fill => ProvisionInv'
  <1> SUFFICES ASSUME ProvisionInv, Fill PROVE ProvisionInv'
    OBVIOUS
  <1>1. /\ script.at = "fill" /\ script' = [script EXCEPT !.at = "images"]
        /\ env' = Generated(script.expose) /\ cut' = FALSE
        /\ UNCHANGED <<runs, checkout, ports, maker, byHand, running>>
    BY DEF Fill, Step
  <1>2. env \in Envs /\ byHand = {} /\ maker = script.expose
    BY <1>1 DEF ProvisionInv, ProvisionTypeOK, FileOfTheMaker
  <1>3. /\ env' \in Envs /\ env'.bind = BindOf(maker)
        /\ env'.auth = "generated" /\ env'.password = "generated" /\ env'.urlPassword = "generated"
    <2>1. /\ env = [row \in RowNames |-> env[row]] /\ \A row \in RowNames : env[row] \in Rows[row]
          /\ BindOf(script.expose) \in Rows.bind
      BY <1>2, RowsAre DEF Envs, BindOf, Rows
    <2>2. env' = [row \in RowNames |->
                    CASE row \in {"auth", "password", "urlPassword"} -> "generated"
                      [] row = "bind" -> BindOf(script.expose)
                      [] row = "domain" -> "empty"
                      [] row = "mode" -> (IF script.expose = "public" THEN "subdomains"
                                                                      ELSE "single-origin")
                      [] OTHER -> env[row]]
      BY <1>1, <2>1 DEF Generated, RowNames
    <2>3. \A row \in RowNames : env'[row] \in Rows[row]
      BY <2>1, <2>2 DEF RowNames, Rows
    <2>4. env' = [row \in RowNames |-> env'[row]]
      BY <2>2
    <2>5. env' \in Envs
      BY <2>3, <2>4, RowsAre DEF Envs
    <2>6. {"bind", "auth", "password", "urlPassword"} \subseteq RowNames
      BY DEF RowNames
    <2>7. env'["auth"] = "generated" /\ env'["password"] = "generated"
          /\ env'["urlPassword"] = "generated"
      BY <2>2, <2>6
    <2>8. env'["bind"] = BindOf(maker)
      BY <1>2, <2>2, <2>6
    <2> QED  BY <2>5, <2>7, <2>8
  <1>4. script' \in [at : {"over", "packages", "firewall", "clone", "copy", "fill", "images"},
                     expose : Exposures] /\ script'.at = "images"
    BY <1>1 DEF ProvisionInv, ProvisionTypeOK
  <1>5. ProvisionTypeOK'
    BY <1>1, <1>3, <1>4 DEF ProvisionInv, ProvisionTypeOK
  <1>6. FileOfTheMaker'
    BY <1>1, <1>2, <1>3, <1>4, ProvisionAssumption DEF FileOfTheMaker
  <1>7. StartsSound'
    BY <1>1 DEF ProvisionInv, StartsSound, OriginHost
  <1> QED  BY <1>5, <1>6, <1>7 DEF ProvisionInv

LEMMA ImagesKeeps == ProvisionInv /\ Images => ProvisionInv'
  <1> SUFFICES ASSUME ProvisionInv, Images PROVE ProvisionInv'
    OBVIOUS
  <1>1. /\ script' = [script EXCEPT !.at = "over"]
        /\ env' \in {env, [env EXCEPT !.images = "own"]}
        /\ UNCHANGED <<runs, checkout, ports, maker, cut, byHand, running>>
    BY DEF Images, Step
  <1>2. script' \in [at : {"over", "packages", "firewall", "clone", "copy", "fill", "images"},
                     expose : Exposures] /\ script'.at = "over"
    BY <1>1 DEF ProvisionInv, ProvisionTypeOK
  <1>3. CASE env' = env
    BY <1>1, <1>2, <1>3
    DEF ProvisionInv, ProvisionTypeOK, FileOfTheMaker, StartsSound, OriginHost
  <1>4. CASE env' = [env EXCEPT !.images = "own"]
    <2>0. env # Gone
      BY DEF ProvisionInv, FileOfTheMaker, Images, Step
    <2>1. /\ env \in Envs /\ "images" \in DOMAIN Rows /\ "own" \in Rows["images"]
      BY <2>0 DEF ProvisionInv, ProvisionTypeOK, Rows
    <2>. DEFINE e == env  written == [e EXCEPT !["images"] = "own"]
    <2>5a. written \in Envs /\ written["images"] = "own"
          /\ \A row \in DOMAIN Rows : row # "images" => written[row] = e[row]
      <3> HIDE DEF e
      <3>1. e \in Envs BY <2>1 DEF e
      <3> QED BY <3>1, <2>1, RowWritten
    <2>2. env' \in Envs /\ env'["images"] = "own"
          /\ \A row \in DOMAIN Rows : row # "images" => env'[row] = env[row]
      BY <1>4, <2>5a
    <2>3. ProvisionTypeOK'
      BY <1>1, <1>2, <2>2 DEF ProvisionInv, ProvisionTypeOK
    <2>4. FileOfTheMaker'
      <3>1. byHand \subseteq RowNames
        BY RowsAre DEF ProvisionInv, ProvisionTypeOK
      <3>2. \A row \in byHand \union {"auth", "password", "urlPassword", "bind"} :
                env[row] # "generated" => env'[row] # "generated"
        BY <2>2, <3>1, RowsAre DEF RowNames
      <3>3. \A row \in {"auth", "password", "urlPassword", "bind"} : env'[row] = env[row]
        BY <2>2, RowsAre DEF RowNames
      <3> QED  BY <1>1, <1>2, <2>0, <2>1, <2>2, <3>2, <3>3, ProvisionAssumption
               DEF ProvisionInv, FileOfTheMaker
    <2>5. StartsSound'
      BY <1>1 DEF ProvisionInv, StartsSound, OriginHost
    <2> QED  BY <2>3, <2>4, <2>5 DEF ProvisionInv
  <1> QED  BY <1>1, <1>3, <1>4

LEMMA WriteRowKeeps ==
  ASSUME ProvisionInv, NEW row \in DOMAIN Rows, NEW v \in Rows[row], WriteRow(row, v)
  PROVE  ProvisionInv'
  <1>1. /\ script.at = "over" /\ env # Gone /\ v # "generated"
        /\ env' = [env EXCEPT ![row] = v] /\ byHand' = byHand \union {row}
        /\ UNCHANGED <<script, runs, checkout, ports, maker, cut, running>>
    BY DEF WriteRow
  <1>2. env \in Envs /\ byHand \subseteq DOMAIN Rows
    BY <1>1 DEF ProvisionInv, ProvisionTypeOK
  <1>3. /\ env' \in Envs /\ env'[row] = v
        /\ \A other \in DOMAIN Rows : other # row => env'[other] = env[other]
    <2> DEFINE e == env  written == [e EXCEPT ![row] = v]
    <2>1. /\ written \in Envs /\ written[row] = v
          /\ \A other \in DOMAIN Rows : other # row => written[other] = e[other]
      <3>1. e \in Envs
        BY <1>2
      <3> HIDE DEF e
      <3> QED  BY <3>1, RowWritten
    <2> QED  BY <1>1, <2>1
  <1>4. ProvisionTypeOK'
    BY <1>1, <1>2, <1>3 DEF ProvisionInv, ProvisionTypeOK
  <1>5. FileOfTheMaker'
    <2>1. ASSUME ~cut
          PROVE  /\ \A r \in {"auth", "password", "urlPassword"} \ byHand' : env'[r] = "generated"
                 /\ "bind" \notin byHand' => env'["bind"] = BindOf(maker)
                 /\ \A r \in byHand' : env'[r] # "generated"
      <3>1. /\ \A r \in {"auth", "password", "urlPassword"} \ byHand : env[r] = "generated"
            /\ "bind" \notin byHand => env["bind"] = BindOf(maker)
            /\ \A r \in byHand : env[r] # "generated"
        BY <1>1, <2>1 DEF ProvisionInv, FileOfTheMaker
      <3>2. {"auth", "password", "urlPassword", "bind"} \subseteq DOMAIN Rows
        BY RowsAre DEF RowNames
      <3> QED  BY <1>1, <1>2, <1>3, <3>1, <3>2
    <2> QED  BY <1>1, <1>2, <1>3, <2>1, ProvisionAssumption DEF FileOfTheMaker
  <1>6. StartsSound'
    BY <1>1 DEF ProvisionInv, StartsSound, OriginHost
  <1> QED  BY <1>4, <1>5, <1>6 DEF ProvisionInv

LEMMA NoIssueMeansSound ==
  ASSUME NEW e \in Envs, Interpolates(e), ConfigurationIssues(e) = {}
  PROVE  /\ e.auth \in {"generated", "own"} /\ e.password \in {"generated", "own"}
         /\ e.resend = "own" \/ e.verification = "false"
         /\ e.cookie # "empty" => \A row \in {"web", "api"} : OriginHost(row, e) = e.cookie
  <1>1. /\ e.auth \in {"empty", "generated", "own", "change-me", "short"}
        /\ e.password \in {"empty", "generated", "own", "starterdough"}
        /\ e.resend \in {"empty", "own"} /\ e.verification \in {"empty", "false"}
        /\ e.demo \in {"empty", "true"}
    <2>1. \A row \in RowNames : e[row] \in Rows[row]
      BY RowsAre DEF Envs
    <2> QED  BY <2>1 DEF RowNames, Rows
  <1>2. /\ SchemaIssues(e) = {} /\ PlaceholderSecrets(e) = {} /\ ProductionRequirements(e) = {}
        /\ CookieDomainIssues(e) = {}
    BY DEF ConfigurationIssues
  <1>3. e.auth # "short"
    BY <1>2 DEF SchemaIssues
  <1>4. e["auth"] # "change-me" /\ e["password"] # "starterdough"
    BY <1>2 DEF PlaceholderSecrets
  <1>5. /\ e.demo = "true" /\ e.resend = "empty" => e.verification = "false"
        /\ e.resend = "empty" => e.demo = "true"
    BY <1>2 DEF ProductionRequirements
  <1>6. e.cookie # "empty" => \A row \in {"web", "api"} : OriginHost(row, e) = e.cookie
    BY <1>2 DEF CookieDomainIssues
  <1>7. e.auth # "empty" /\ e.password # "empty"
    BY DEF Interpolates
  <1> QED  BY <1>1, <1>3, <1>4, <1>5, <1>6, <1>7

LEMMA ComposeUpKeeps == ProvisionInv /\ ComposeUp => ProvisionInv'
  <1> SUFFICES ASSUME ProvisionInv, ComposeUp PROVE ProvisionInv'
    OBVIOUS
  <1>1. /\ env # Gone /\ Interpolates(env)
        /\ running' = IF ConfigurationIssues(env) = {} THEN env ELSE Gone
        /\ UNCHANGED <<script, runs, checkout, ports, env, maker, cut, byHand>>
    BY DEF ComposeUp
  <1>2. env \in Envs
    BY <1>1 DEF ProvisionInv, ProvisionTypeOK
  <1>3. ProvisionTypeOK'
    BY <1>1, <1>2 DEF ProvisionInv, ProvisionTypeOK
  <1>4. FileOfTheMaker'
    BY <1>1 DEF ProvisionInv, FileOfTheMaker
  <1>5. StartsSound'
    <2>1. CASE ConfigurationIssues(env) = {}
      <3>1. PICK e \in Envs : e = env
        BY <1>2
      <3>2. /\ e.auth \in {"generated", "own"} /\ e.password \in {"generated", "own"}
            /\ e.resend = "own" \/ e.verification = "false"
            /\ e.cookie # "empty" => \A row \in {"web", "api"} : OriginHost(row, e) = e.cookie
        BY <1>1, <2>1, <3>1, NoIssueMeansSound
      <3>3. running' = e
        BY <1>1, <2>1, <3>1
      <3> QED  BY <3>2, <3>3 DEF StartsSound, OriginHost
    <2>2. CASE ConfigurationIssues(env) # {}
      BY <1>1, <2>2 DEF StartsSound
    <2> QED  BY <2>1, <2>2
  <1> QED  BY <1>3, <1>4, <1>5 DEF ProvisionInv

LEMMA NextProvisionInv == ProvisionInv /\ [ProvisionNext]_provisionVars => ProvisionInv'
  <1> SUFFICES ASSUME ProvisionInv, [ProvisionNext]_provisionVars PROVE ProvisionInv'
    OBVIOUS
  <1>1. CASE Packages \/ Firewall \/ Clone \/ Stops \/ \E x \in Exposures : BeginRun(x)
    BY <1>1, ScriptStepsKeep
  <1>2. CASE Copy \/ Fill \/ Images \/ ComposeUp
    BY <1>2, CopyKeeps, FillKeeps, ImagesKeeps, ComposeUpKeeps
  <1>3. ASSUME NEW row \in DOMAIN Rows, NEW v \in Rows[row], WriteRow(row, v) PROVE ProvisionInv'
    BY <1>3, WriteRowKeeps
  <1>4. CASE UNCHANGED provisionVars
    BY <1>4 DEF provisionVars, ProvisionInv, ProvisionTypeOK, FileOfTheMaker, StartsSound,
       OriginHost
  <1> QED  BY <1>1, <1>2, <1>3, <1>4 DEF ProvisionNext

\* The state of a provisioning, .env row by row, keeps its type.
THEOREM ProvisionTypesHold == ProvisionSpec => []ProvisionTypeOK
  <1>1. ProvisionInv => ProvisionTypeOK
    BY DEF ProvisionInv
  <1> QED  BY InitProvisionInv, NextProvisionInv, <1>1, PTL DEF ProvisionSpec

\* However often, with whatever EXPOSE and after whatever failure the script is run
\* again, and whatever the owner writes between: rows nobody has written are what
\* the maker of the file generated, and an API that starts has real secrets, mail
\* and a cookie that both origins receive (provision.sh, configurationIssues).
THEOREM ProvisionIsSound == ProvisionSpec => []ProvisionedStackIsSound
  <1>1. ProvisionInv => ProvisionedStackIsSound
    BY DEF ProvisionInv, FileOfTheMaker, StartsSound, ProvisionedStackIsSound
  <1> QED  BY InitProvisionInv, NextProvisionInv, <1>1, PTL DEF ProvisionSpec

-----------------------------------------------------------------------------
(* Drill *)

\* What the drill has found out by now, while it has objected to nothing.
LooksWell ==
    /\ at = "live" => scratch = restored
    /\ (at \in {"live", "uploads", "drop"} /\ ~errors) \/ verdict = "ok" =>
         \A t \in Tables : trusted /\ stored.counted /\ stored.counts[t] # Absent =>
            /\ restored[t] # Absent
            /\ restored[t] >= FloorOf(stored.counts[t])
            /\ stored.counts[t] > 0 => restored[t] > 0
    /\ (at \in {"uploads", "drop"} /\ ~errors) \/ verdict = "ok" =>
         (~options.newer /\ compared # NoDatabase =>
            \A t \in Tables : compared[t] # Absent => restored[t] # Absent)
    /\ (at = "drop" /\ ~errors) \/ verdict = "ok" =>
         (trusted /\ stored.included => stored.uploads = "whole")
    /\ verdict = "ok" => at = "over" /\ scratch = NoDatabase
    /\ at \in {"idle", "dumped", "archived", "kept", "create", "restore", "tables", "live"}
         => compared = NoDatabase
    /\ at \in {"restore", "tables", "live"} => scratch \in Contents
    /\ at # "over" => verdict = "none"

\* What is stored, beside what the database held.
SetIsOfTheNight ==
    /\ at = "idle" => ~drifted
    /\ at \in {"dumped", "archived"} /\ ~drifted => live = was
    /\ at \in {"idle", "dumped", "archived"} => ~stored.counted
    /\ stored.counted /\ ~drifted => stored.counts = was
    /\ at \in {"idle", "dumped"} => ~stored.included
    /\ stored.included => stored.uploads # "none" /\ (stored.uploads = "partial" => stored.degraded)
    /\ at \in {"create", "restore", "tables", "live", "uploads", "drop"} \/ verdict = "ok" =>
         (trusted => stored.intact)

DrillInv == DrillTypeOK /\ SetIsOfTheNight /\ LooksWell

LEMMA FloorIsInt == \A n \in Nat : FloorOf(n) \in Int
  BY DEF FloorOf

LEMMA EmptyIsContents == Empty \in Contents /\ NoDatabase \notin Contents
  BY DrillAssumption DEF Empty, Contents

LEMMA InitDrillInv == DrillInit => DrillInv
  <1> SUFFICES ASSUME DrillInit PROVE DrillInv
    OBVIOUS
  <1>1. stored \in StoredSets
    BY EmptyIsContents DEF DrillInit, StoredSets, Archives
  <1>2. options \in Options
    BY DEF DrillInit, Options
  <1>3. DrillTypeOK
    <2>1. /\ live \in Contents /\ was \in Contents /\ restored \in Contents
          /\ scratch = NoDatabase /\ compared = NoDatabase
      BY EmptyIsContents DEF DrillInit
    <2>2. changes \in 0..MaxChanges /\ drifted \in BOOLEAN
      <3>1. MaxChanges \in Nat /\ changes = 0
        BY DrillAssumption DEF DrillInit
      <3>2. changes \in 0..MaxChanges
        BY <3>1
      <3>3. drifted \in BOOLEAN
        BY DEF DrillInit
      <3> QED  BY <3>2, <3>3
    <2>3. at = "idle" /\ trusted = FALSE /\ errors = FALSE /\ verdict = "none"
      BY DEF DrillInit
    <2> QED  BY <1>1, <1>2, <2>1, <2>2, <2>3 DEF DrillTypeOK
  <1>4. SetIsOfTheNight
    BY DEF DrillInit, SetIsOfTheNight
  <1>5. LooksWell
    BY DEF DrillInit, LooksWell
  <1> QED  BY <1>3, <1>4, <1>5 DEF DrillInv

\* The application at work.
LEMMA ChangesKeep ==
  ASSUME DrillInv, NEW t \in Tables, NEW n \in Sizes \union {Absent}, Changes(t, n)
  PROVE  DrillInv'
  <1>1. /\ live' = [live EXCEPT ![t] = n] /\ live' \in Contents
    BY DEF Changes, DrillInv, DrillTypeOK, Contents
  <1>2. /\ at # "idle" /\ changes' \in 0..MaxChanges /\ drifted' \in BOOLEAN
        /\ drifted' = (drifted \/ at \in {"dumped", "archived"})
    BY DrillAssumption DEF Changes, DrillInv, DrillTypeOK
  <1>3. UNCHANGED <<was, stored, at, options, trusted, scratch, restored, compared, errors,
                    verdict>>
    BY DEF Changes, drillVars
  <1>4. DrillTypeOK'
    BY <1>1, <1>2, <1>3 DEF DrillInv, DrillTypeOK
  <1>5. SetIsOfTheNight'
    BY <1>2, <1>3 DEF DrillInv, SetIsOfTheNight
  <1>6. LooksWell'
    BY <1>3 DEF DrillInv, LooksWell
  <1> QED  BY <1>4, <1>5, <1>6 DEF DrillInv

LEMMA ApplicationKeeps ==
  DrillInv /\ (\/ \E t \in Tables, n \in Sizes : WriteRows(t, n)
               \/ \E t \in Tables : CreateTable(t) \/ DropTable(t)) => DrillInv'
  BY ChangesKeep, DrillAssumption DEF WriteRows, CreateTable, DropTable

\* The backup.
LEMMA BackupKeeps ==
  DrillInv /\ (\/ \E release \in BOOLEAN, d \in Contents : TakeDump(release, d)
               \/ \E a \in Archives : ArchiveUploads(a)
               \/ \E counted \in BOOLEAN : CountRows(counted)
               \/ Harm) => DrillInv'
  <1> SUFFICES ASSUME DrillInv,
                      \/ \E release \in BOOLEAN, d \in Contents : TakeDump(release, d)
                      \/ \E a \in Archives : ArchiveUploads(a)
                      \/ \E counted \in BOOLEAN : CountRows(counted)
                      \/ Harm
               PROVE  DrillInv'
    OBVIOUS
  <1>1. /\ live \in Contents /\ was \in Contents /\ stored \in StoredSets
        /\ options \in Options
    BY DEF DrillInv, DrillTypeOK
  <1>2. ASSUME NEW release \in BOOLEAN, NEW d \in Contents, TakeDump(release, d)
        PROVE  DrillInv'
    <2>1. /\ at = "idle" /\ stored' = [stored EXCEPT !.dump = d] /\ was' = live /\ at' = "dumped"
          /\ UNCHANGED <<live, changes, drifted, options, trusted, scratch, restored, compared,
                         errors, verdict>>
      BY <1>2 DEF TakeDump, drillVars
    <2>2. /\ stored' \in StoredSets /\ stored'.counted = stored.counted
          /\ stored'.included = stored.included /\ stored'.counts = stored.counts
          /\ stored'.uploads = stored.uploads /\ stored'.degraded = stored.degraded
          /\ stored'.intact = stored.intact
      BY <1>1, <2>1 DEF StoredSets
    <2>3. DrillTypeOK'
      BY <1>1, <2>1, <2>2 DEF DrillInv, DrillTypeOK
    <2>4. SetIsOfTheNight'
      BY <2>1, <2>2 DEF DrillInv, SetIsOfTheNight, LooksWell
    <2>5. LooksWell'
      BY <2>1, <2>2 DEF DrillInv, LooksWell
    <2> QED  BY <2>3, <2>4, <2>5 DEF DrillInv
  <1>3. ASSUME NEW a \in Archives, ArchiveUploads(a) PROVE DrillInv'
    <2>1. /\ at = "dumped" /\ a \in {"none", "whole", "partial"} /\ at' = "archived"
          /\ stored' = [stored EXCEPT !.uploads = a, !.included = (a # "none"),
                                      !.degraded = (a = "partial")]
          /\ UNCHANGED <<live, was, changes, drifted, options, trusted, scratch, restored, compared,
                         errors, verdict>>
      BY <1>3 DEF ArchiveUploads, drillVars
    <2>2. /\ stored' \in StoredSets /\ stored'.counted = stored.counted
          /\ stored'.included = (a # "none") /\ stored'.counts = stored.counts
          /\ stored'.uploads = a /\ stored'.degraded = (a = "partial")
          /\ stored'.intact = stored.intact
      BY <1>1, <1>3, <2>1 DEF StoredSets
    <2>3. DrillTypeOK'
      BY <1>1, <2>1, <2>2 DEF DrillInv, DrillTypeOK
    <2>4. SetIsOfTheNight'
      BY <2>1, <2>2 DEF DrillInv, SetIsOfTheNight, LooksWell
    <2>5. LooksWell'
      BY <2>1, <2>2 DEF DrillInv, LooksWell
    <2> QED  BY <2>3, <2>4, <2>5 DEF DrillInv
  <1>4. ASSUME NEW counted \in BOOLEAN, CountRows(counted) PROVE DrillInv'
    <2>1. /\ at = "archived" /\ at' = "kept"
          /\ stored' = CreateManifest(IF counted THEN live ELSE Empty, counted)
          /\ UNCHANGED <<live, was, changes, drifted, options, trusted, scratch, restored, compared,
                         errors, verdict>>
      BY <1>4 DEF CountRows, drillVars
    <2>2. /\ stored' \in StoredSets /\ stored'.counted = counted
          /\ stored'.included = stored.included
          /\ counted => stored'.counts = live
          /\ stored'.uploads = stored.uploads /\ stored'.degraded = stored.degraded
          /\ stored'.intact = stored.intact
      BY <1>1, <2>1, EmptyIsContents DEF StoredSets, CreateManifest
    <2>3. DrillTypeOK'
      BY <1>1, <2>1, <2>2 DEF DrillInv, DrillTypeOK
    <2>4. SetIsOfTheNight'
      BY <2>1, <2>2 DEF DrillInv, SetIsOfTheNight, LooksWell
    <2>5. LooksWell'
      BY <2>1, <2>2 DEF DrillInv, LooksWell
    <2> QED  BY <2>3, <2>4, <2>5 DEF DrillInv
  <1>5. CASE Harm
    <2>1. /\ at = "kept"
          /\ UNCHANGED <<live, was, changes, drifted, at, options, trusted, scratch, restored,
                         compared, errors, verdict>>
      BY <1>5 DEF Harm, drillVars
    <2>2. /\ stored' \in StoredSets /\ stored'.counted = stored.counted
          /\ stored'.included = stored.included /\ stored'.counts = stored.counts
          /\ stored'.degraded = stored.degraded
          /\ \/ stored'.uploads = stored.uploads
             \/ stored.uploads # "none" /\ stored'.uploads \in {"damaged", "gone"}
      BY <1>1, <1>5 DEF StoredSets, Harm, Archives
    <2>3. DrillTypeOK'
      BY <1>1, <2>1, <2>2 DEF DrillInv, DrillTypeOK
    <2>4. SetIsOfTheNight'
      BY <2>1, <2>2 DEF DrillInv, SetIsOfTheNight, LooksWell
    <2>5. LooksWell'
      BY <2>1, <2>2 DEF DrillInv, LooksWell
    <2> QED  BY <2>3, <2>4, <2>5 DEF DrillInv
  <1> QED  BY <1>2, <1>3, <1>4, <1>5

\* The drill: the set and the database stand still for it.
LEMMA DrillStepsKeep ==
  DrillInv /\ (\/ \E o \in Options : Begin(o)
               \/ CreateScratch \/ PgRestore \/ DropScratch \/ Kill) => DrillInv'
  <1> SUFFICES ASSUME DrillInv,
                      \/ \E o \in Options : Begin(o)
                      \/ CreateScratch \/ PgRestore \/ DropScratch \/ Kill
               PROVE  DrillInv'
    OBVIOUS
  <1>1. /\ live \in Contents /\ was \in Contents /\ stored \in StoredSets
        /\ options \in Options /\ stored.dump \in Contents /\ stored.manifest \in BOOLEAN
    BY DEF DrillInv, DrillTypeOK, StoredSets
  <1>2. ASSUME NEW o \in Options, Begin(o) PROVE DrillInv'
    <2>1. /\ at = "kept" /\ options' = o /\ trusted' = stored.manifest
          /\ UNCHANGED <<live, was, changes, drifted, stored, scratch, restored, compared, errors>>
          /\ \/ at' = "over" /\ verdict' = "refused"
             \/ at' = "create" /\ verdict' = verdict /\ (stored.manifest => stored.intact)
      BY <1>2 DEF Begin, Refuse, madeVars
    <2>3. DrillTypeOK'
      BY <1>1, <2>1 DEF DrillInv, DrillTypeOK
    <2>4. SetIsOfTheNight'
      BY <2>1 DEF DrillInv, SetIsOfTheNight, LooksWell
    <2>5. LooksWell'
      BY <2>1 DEF DrillInv, LooksWell
    <2> QED  BY <2>3, <2>4, <2>5 DEF DrillInv
  <1>3. CASE CreateScratch
    <2>1. /\ at = "create" /\ UNCHANGED <<live, was, changes, drifted, stored, options, trusted,
                                          restored, compared, errors>>
          /\ \/ scratch' = Empty /\ at' = "restore" /\ verdict' = verdict
             \/ at' = "over" /\ verdict' = "refused" /\ scratch' = scratch
      BY <1>3 DEF CreateScratch, madeVars
    <2>3. DrillTypeOK'
      BY <1>1, <2>1, EmptyIsContents DEF DrillInv, DrillTypeOK
    <2>4. SetIsOfTheNight'
      BY <2>1 DEF DrillInv, SetIsOfTheNight, LooksWell
    <2>5. LooksWell'
      BY <2>1, EmptyIsContents DEF DrillInv, LooksWell
    <2> QED  BY <2>3, <2>4, <2>5 DEF DrillInv
  <1>4. CASE PgRestore
    <2>1. /\ at = "restore" /\ UNCHANGED <<live, was, changes, drifted, stored, options, trusted,
                                           restored, compared, verdict>>
          /\ scratch' \in Contents
          /\ \/ at' = "tables" /\ errors' = errors
             \/ at' = "uploads" /\ errors' = TRUE
      BY <1>1, <1>4, EmptyIsContents DEF PgRestore, madeVars, LeavesOne, Leaves
    <2>3. DrillTypeOK'
      BY <1>1, <2>1 DEF DrillInv, DrillTypeOK
    <2>4. SetIsOfTheNight'
      BY <2>1 DEF DrillInv, SetIsOfTheNight, LooksWell
    <2>5. LooksWell'
      BY <2>1 DEF DrillInv, LooksWell
    <2> QED  BY <2>3, <2>4, <2>5 DEF DrillInv
  <1>5. CASE DropScratch
    <2>1. /\ at = "drop" /\ at' = "over"
          /\ UNCHANGED <<live, was, changes, drifted, stored, options, trusted, restored, compared>>
          /\ \/ /\ scratch' = NoDatabase /\ errors' = errors
                /\ (verdict' = "ok" /\ ~errors) \/ verdict' = "failed"
             \/ errors' = TRUE /\ verdict' = "failed" /\ scratch' = scratch
      BY <1>5 DEF DropScratch, madeVars
    <2>3. DrillTypeOK'
      BY <1>1, <2>1 DEF DrillInv, DrillTypeOK
    <2>4. SetIsOfTheNight'
      BY <2>1 DEF DrillInv, SetIsOfTheNight, LooksWell
    <2>5. LooksWell'
      BY <2>1 DEF DrillInv, LooksWell
    <2> QED  BY <2>3, <2>4, <2>5 DEF DrillInv
  <1>6. CASE Kill
    <2>1. /\ at' = "over" /\ verdict' = "killed" /\ at # "over"
          /\ at \notin {"idle", "dumped", "archived"}
          /\ UNCHANGED <<live, was, changes, drifted, stored, options, trusted, scratch, restored,
                         compared, errors>>
      BY <1>6 DEF Kill, madeVars
    <2>3. DrillTypeOK'
      BY <1>1, <2>1 DEF DrillInv, DrillTypeOK
    <2>4. SetIsOfTheNight'
      BY <2>1 DEF DrillInv, SetIsOfTheNight, LooksWell
    <2>5. LooksWell'
      BY <2>1 DEF DrillInv, LooksWell
    <2> QED  BY <2>3, <2>4, <2>5 DEF DrillInv
  <1> QED  BY <1>2, <1>3, <1>4, <1>5, <1>6

LEMMA VerifyTablesKeeps == DrillInv /\ VerifyTables => DrillInv'
  <1> SUFFICES ASSUME DrillInv, VerifyTables PROVE DrillInv'
    OBVIOUS
  <1>1. /\ at = "tables" /\ restored' = scratch
        /\ UNCHANGED <<live, was, changes, drifted, stored, options, trusted, scratch, compared,
                       verdict>>
        /\ \/ /\ errors' = (errors \/ Has(scratch) = {} \/ Missing # {} \/ ShortTables # {})
              /\ at' = "live"
           \/ ~Compares /\ errors' = TRUE /\ at' = "live"
           \/ errors' = TRUE /\ at' = "drop"
    BY DEF VerifyTables, madeVars
  <1>2. /\ scratch \in Contents /\ stored.counts \in Contents /\ verdict = "none"
    BY <1>1 DEF DrillInv, LooksWell, DrillTypeOK, StoredSets
  <1>3. DrillTypeOK'
    <2>1. errors' \in BOOLEAN
      BY <1>1 DEF DrillInv, DrillTypeOK
    <2> QED  BY <1>1, <1>2, <2>1 DEF DrillInv, DrillTypeOK
  <1>4. SetIsOfTheNight'
    BY <1>1 DEF DrillInv, SetIsOfTheNight, LooksWell
  <1>5. ASSUME ~errors', trusted, stored.counted
        PROVE  \A t \in Tables : stored.counts[t] # Absent =>
                 /\ scratch[t] # Absent
                 /\ scratch[t] >= FloorOf(stored.counts[t])
                 /\ stored.counts[t] > 0 => scratch[t] > 0
    <2>1. Missing = {} /\ ShortTables = {}
      BY <1>1, <1>5
    <2>2. Has(stored.counts) \subseteq Has(scratch)
      BY <1>5, <2>1 DEF Missing, Compares
    <2>3. \A t \in Has(stored.counts) \intersect Has(scratch) :
             /\ ~(scratch[t] < FloorOf(stored.counts[t]))
             /\ ~(stored.counts[t] > 0 /\ scratch[t] = 0)
      BY <1>5, <2>1 DEF ShortTables, Compares
    <2>4. ASSUME NEW t \in Tables, stored.counts[t] # Absent
          PROVE  /\ scratch[t] # Absent
                 /\ scratch[t] >= FloorOf(stored.counts[t])
                 /\ stored.counts[t] > 0 => scratch[t] > 0
      <3>1. t \in Has(stored.counts) /\ t \in Has(scratch)
        BY <2>2, <2>4 DEF Has
      <3>2. scratch[t] \in Nat /\ stored.counts[t] \in Nat
        BY <1>2, <3>1, DrillAssumption DEF Has, Contents
      <3>3. FloorOf(stored.counts[t]) \in Int
        BY <3>2, FloorIsInt
      <3>4. scratch[t] # Absent
        BY <3>1 DEF Has
      <3> QED  BY <2>3, <3>1, <3>2, <3>3, <3>4
    <2> QED  BY <2>4
  <1>6. LooksWell'
    <2>1. at' \in {"live", "drop"} /\ (at' = "drop" => errors')
      BY <1>1
    <2>2. verdict' = "none" /\ compared' = NoDatabase
      BY <1>1, <1>2 DEF DrillInv, LooksWell
    <2> QED  BY <1>1, <1>2, <1>5, <2>1, <2>2 DEF LooksWell
  <1> QED  BY <1>3, <1>4, <1>6 DEF DrillInv

LEMMA CompareLiveKeeps == DrillInv /\ CompareLive => DrillInv'
  <1> SUFFICES ASSUME DrillInv, CompareLive PROVE DrillInv'
    OBVIOUS
  <1>1. /\ at = "live" /\ at' = "uploads"
        /\ UNCHANGED <<live, was, changes, drifted, stored, options, trusted, scratch, restored,
                       verdict>>
        /\ \/ /\ compared' = live
              /\ errors' = (errors \/ (~options.newer /\ ~(Has(live) \subseteq Has(scratch))))
           \/ compared' = compared /\ errors' = errors
    BY DEF CompareLive, madeVars
  <1>2. /\ scratch = restored /\ verdict = "none" /\ compared = NoDatabase
    BY <1>1 DEF DrillInv, LooksWell
  <1>3. DrillTypeOK'
    <2>1. errors' \in BOOLEAN
      BY <1>1 DEF DrillInv, DrillTypeOK
    <2> QED  BY <1>1, <2>1 DEF DrillInv, DrillTypeOK
  <1>4. SetIsOfTheNight'
    BY <1>1 DEF DrillInv, SetIsOfTheNight, LooksWell
  <1>5. ASSUME ~errors'
        PROVE  /\ ~errors
               /\ ~options.newer /\ compared' # NoDatabase =>
                    \A t \in Tables : compared'[t] # Absent => restored[t] # Absent
    <2>1. CASE /\ compared' = live
               /\ errors' = (errors \/ (~options.newer /\ ~(Has(live) \subseteq Has(scratch))))
      <3>1. ~errors /\ (~options.newer => Has(live) \subseteq Has(scratch))
        BY <1>5, <2>1
      <3> QED  BY <1>2, <2>1, <3>1 DEF Has
    <2>2. CASE compared' = compared /\ errors' = errors
      BY <1>2, <1>5, <2>2
    <2> QED  BY <1>1, <2>1, <2>2
  <1>6. LooksWell'
    BY <1>1, <1>2, <1>5 DEF DrillInv, LooksWell
  <1> QED  BY <1>3, <1>4, <1>6 DEF DrillInv

LEMMA VerifyUploadsKeeps == DrillInv /\ VerifyUploads => DrillInv'
  <1> SUFFICES ASSUME DrillInv, VerifyUploads PROVE DrillInv'
    OBVIOUS
  <1>1. /\ at = "uploads" /\ at' = "drop"
        /\ UNCHANGED <<live, was, changes, drifted, stored, options, trusted, scratch, restored,
                       compared, verdict>>
    BY DEF VerifyUploads, madeVars
  <1>2. errors \in BOOLEAN /\ trusted \in BOOLEAN /\ stored \in StoredSets
    BY DEF DrillInv, DrillTypeOK
  <1>3. /\ errors' \in BOOLEAN /\ (~errors' => ~errors)
        /\ ~errors' => IF Located THEN ~Objects ELSE ~(trusted /\ stored.included)
    BY <1>2 DEF VerifyUploads, VerifyDrillUploads
  <1>4. ASSUME ~errors', trusted, stored.included PROVE stored.uploads = "whole"
    <2>1. stored.uploads \in Archives
      BY <1>2 DEF StoredSets
    <2>2. Located /\ ~Objects
      BY <1>3, <1>4
    <2>3. stored.uploads \notin {"none", "gone", "damaged"} /\ ~stored.degraded
      BY <1>4, <2>2 DEF Located, Objects
    <2> QED  BY <1>4, <2>1, <2>3 DEF Archives, DrillInv, SetIsOfTheNight
  <1>5. DrillTypeOK'
    BY <1>1, <1>3 DEF DrillInv, DrillTypeOK
  <1>6. SetIsOfTheNight'
    BY <1>1 DEF DrillInv, SetIsOfTheNight, LooksWell
  <1>7. LooksWell'
    BY <1>1, <1>3, <1>4 DEF DrillInv, LooksWell
  <1> QED  BY <1>5, <1>6, <1>7 DEF DrillInv

LEMMA NextDrillInv == DrillInv /\ [DrillNext]_trialVars => DrillInv'
  <1> SUFFICES ASSUME DrillInv, [DrillNext]_trialVars PROVE DrillInv'
    OBVIOUS
  <1>1. CASE \/ \E t \in Tables, n \in Sizes : WriteRows(t, n)
             \/ \E t \in Tables : CreateTable(t) \/ DropTable(t)
    BY <1>1, ApplicationKeeps
  <1>2. CASE \/ \E release \in BOOLEAN, d \in Contents : TakeDump(release, d)
             \/ \E a \in Archives : ArchiveUploads(a)
             \/ \E counted \in BOOLEAN : CountRows(counted)
             \/ Harm
    BY <1>2, BackupKeeps
  <1>3. CASE \/ \E o \in Options : Begin(o)
             \/ CreateScratch \/ PgRestore \/ DropScratch \/ Kill
    BY <1>3, DrillStepsKeep
  <1>4. CASE VerifyTables \/ CompareLive \/ VerifyUploads
    BY <1>4, VerifyTablesKeeps, CompareLiveKeeps, VerifyUploadsKeeps
  <1>5. CASE UNCHANGED trialVars
    BY <1>5 DEF trialVars, madeVars, drillVars, DrillInv, DrillTypeOK, SetIsOfTheNight, LooksWell
  <1> QED  BY <1>1, <1>2, <1>3, <1>4, <1>5 DEF DrillNext

LEMMA OkProves == DrillInv => DrillProves
  <1> SUFFICES ASSUME DrillInv, verdict = "ok" PROVE DrillProves
    BY DEF DrillProves
  <1>1. scratch = NoDatabase /\ (trusted => stored.intact)
    BY DEF DrillInv, LooksWell, SetIsOfTheNight
  <1>2. trusted /\ stored.counted /\ ~drifted => Holds(was, restored)
    BY DEF DrillInv, LooksWell, SetIsOfTheNight, Holds, Has
  <1>3. trusted /\ stored.included => stored.uploads = "whole"
    BY DEF DrillInv, LooksWell
  <1>4. ~options.newer /\ compared # NoDatabase => Has(compared) \subseteq Has(restored)
    BY DEF DrillInv, LooksWell, Has
  <1> QED  BY <1>1, <1>2, <1>3, <1>4 DEF DrillProves

\* The set, the drill's database and its report keep their types.
THEOREM DrillTypesHold == DrillSpec => []DrillTypeOK
  <1>1. DrillInv => DrillTypeOK
    BY DEF DrillInv
  <1> QED  BY InitDrillInv, NextDrillInv, <1>1, PTL DEF DrillSpec

\* `drill ok` proves the set, for any tables and sizes and any writes and migrations
\* beside the backup and the drill (runDrill, verify).
THEOREM AnOkProves == DrillSpec => []DrillProves
  BY InitDrillInv, NextDrillInv, OkProves, PTL DEF DrillSpec

-----------------------------------------------------------------------------
(* LocalSetup *)

\* Setup has nothing left to do for f.
Settled(f, file) ==
    IF file = NoFile THEN f \notin templates ELSE f \in Filled => IsSet(file.row)

\* What setup means to write needs no second run.
PlansSettle ==
    \A s \in Setups, f \in Files :
       \/ setup[s].plan[f] = NoText
       \/ setup[s].plan[f].text \in File
          /\ (f \in Filled => IsSet(setup[s].plan[f].text.row))

\* A run that nobody has disturbed has settled what lies behind it, and what it
\* saw no need to write.
RunsSettle ==
    \A s \in Setups \ overtaken : setup[s].at \in {"apply", "done"} =>
       \A i \in 1..4 : i < setup[s].next \/ setup[s].plan[Managed[i]] = NoText =>
          Settled(Managed[i], disk[Managed[i]])

RunsEnd == \A s \in Setups : setup[s].at = "done" => setup[s].next = 5

\* What only setup, whole or cut short, has written.
AsSetUp(f, file) ==
    /\ file.row # "odd" /\ file.rest \in {"template", "lost"} /\ file.names = "old"
    /\ f = "web" => file.row = "own" \/ file.rest = "lost"

Unedited ==
    edits = 0 =>
      /\ product = "old"
      /\ \A f \in Files : disk[f] # NoFile => AsSetUp(f, disk[f])
      /\ \A s \in Setups, f \in Files :
           setup[s].plan[f] # NoText => AsSetUp(f, setup[s].plan[f].text)

SetupInv == SetupTypeOK /\ PlansSettle /\ RunsSettle /\ RunsEnd /\ Unedited

LEMMA ManagedAre ==
  /\ Len(Managed) = 4 /\ \A i \in 1..4 : Managed[i] \in Files
  /\ \A f \in Files : \E i \in 1..4 : Managed[i] = f
  BY DEF Managed, Files

LEMMA NoTextIs == NoText \in Texts /\ NoText.text = NoFile
  BY DEF NoText, Texts

LEMMA FilledAreFiles == Filled \subseteq Files
  BY DEF Filled, Files

\* SetupInv holds at first and through every step.
LEMMA InitSetupInv == SetupInit => SetupInv
  <1> SUFFICES ASSUME SetupInit PROVE SetupInv
    OBVIOUS
  <1>1. /\ disk \in [Files -> File \union {NoFile}]
        /\ \A f \in Files : disk[f] # NoFile => AsSetUp(f, disk[f])
    <2>1. /\ disk = [f \in Files |-> disk[f]]
          /\ disk["root"] \in {NoFile} \union [row : {"masked", "own"}, rest : {"template"},
                                               names : {"old"}]
          /\ disk["web"] \in {NoFile, [row |-> "own", rest |-> "template", names |-> "old"]}
          /\ disk["site"] \in {NoFile, [row |-> "absent", rest |-> "template", names |-> "old"]}
          /\ disk["docs"] = NoFile
      BY DEF SetupInit, Files
    <2>2. ASSUME NEW f \in Files
          PROVE  disk[f] \in File \union {NoFile} /\ (disk[f] # NoFile => AsSetUp(f, disk[f]))
      BY <2>1 DEF Files, File, RowStates, Rests, Products, AsSetUp
    <2> QED  BY <2>1, <2>2
  <1>2. \A s \in Setups : setup[s].at = "idle" /\ \A f \in Files : setup[s].plan[f] = NoText
    BY DEF SetupInit, AtRest
  <1>3. SetupTypeOK
    <2>1. setup \in [Setups -> [at : {"idle", "apply", "done", "failed", "killed"},
                                plan : [Files -> Texts], next : 1..5]]
      <3>1. AtRest \in [at : {"idle", "apply", "done", "failed", "killed"},
                        plan : [Files -> Texts], next : 1..5]
        BY NoTextIs DEF AtRest
      <3> QED  BY <3>1 DEF SetupInit
    <2>2. edits \in 0..MaxTouches
      BY SetupAssumption DEF SetupInit
    <2>3. templates \subseteq Files /\ overtaken \subseteq Setups
      BY DEF SetupInit
    <2>4. product \in Products /\ shell \in {"none", "blank", "own"}
      BY DEF SetupInit, Products
    <2> QED  BY <1>1, <2>1, <2>2, <2>3, <2>4 DEF SetupTypeOK
  <1>4. PlansSettle /\ RunsSettle /\ RunsEnd
    BY <1>2 DEF PlansSettle, RunsSettle, RunsEnd
  <1>5. Unedited
    BY <1>1, <1>2 DEF Unedited, SetupInit
  <1> QED  BY <1>3, <1>4, <1>5 DEF SetupInv

\* What one reading of the files makes of each of them.
LEMMA PlanOf ==
  ASSUME SetupInv, NEW f \in Files
  PROVE  /\ Writes(f) => /\ TextFor(f) \in Texts /\ TextFor(f).text \in File
                         /\ TextFor(f) # NoText
                         /\ f \in Filled => IsSet(TextFor(f).text.row)
                         /\ edits = 0 => AsSetUp(f, TextFor(f).text)
         /\ ~Writes(f) => Settled(f, disk[f])
  <1>1. disk[f] \in File \union {NoFile} /\ product \in Products
    BY DEF SetupInv, SetupTypeOK
  <1>2. Draft(f) \in File
    BY <1>1 DEF Draft, ExampleOf, File, RowStates, Rests
  <1>3. CASE Writes(f)
    <2>1. /\ TextFor(f).created \in BOOLEAN /\ TextFor(f).text \in File
          /\ TextFor(f) \in Texts
      BY <1>2 DEF TextFor, FillRow, File, RowStates, Texts
    <2>2. f \in Filled => IsSet(TextFor(f).text.row)
      BY <1>2 DEF TextFor, FillRow, Fills, File, RowStates, IsSet
    <2>3. edits = 0 => AsSetUp(f, TextFor(f).text)
      <3>1. edits = 0 => AsSetUp(f, Draft(f))
        BY <1>1, SetupAssumption DEF SetupInv, Unedited, Draft, ExampleOf, AsSetUp
      <3>2. f = "web" => ~Fills(f)
        BY DEF Fills, Filled
      <3> QED  BY <1>2, <3>1, <3>2 DEF TextFor, FillRow, AsSetUp, File
    <2>4. TextFor(f) # NoText
      BY <2>1, NoTextIs, SetupAssumption
    <2> QED  BY <1>3, <2>1, <2>2, <2>3, <2>4
  <1>4. CASE ~Writes(f)
    BY <1>4 DEF Writes, Skipped, Fills, Draft, Settled
  <1> QED  BY <1>3, <1>4

LEMMA PlanKeeps ==
  ASSUME SetupInv, NEW s \in Setups, PlanSetup(s)
  PROVE  SetupInv'
  <1> DEFINE planned == [f \in Files |-> IF Writes(f) THEN TextFor(f) ELSE NoText]
  <1>1. /\ setup[s].at = "idle"
        /\ setup' = [setup EXCEPT ![s] = [at |-> "apply", next |-> 1, plan |-> planned]]
        /\ UNCHANGED <<disk, templates, product, shell, overtaken, edits>>
    BY DEF PlanSetup
  <1>2. \A f \in Files : IF Writes(f) THEN planned[f] = TextFor(f) ELSE planned[f] = NoText
    OBVIOUS
  <1>3. planned \in [Files -> Texts]
    BY PlanOf, NoTextIs
  <1> HIDE DEF planned
  <1>4. setup \in [Setups -> [at : {"idle", "apply", "done", "failed", "killed"},
                              plan : [Files -> Texts], next : 1..5]]
    BY DEF SetupInv, SetupTypeOK
  <1>5. /\ setup'[s] = [at |-> "apply", next |-> 1, plan |-> planned]
        /\ \A o \in Setups : o # s => setup'[o] = setup[o]
        /\ setup' \in [Setups -> [at : {"idle", "apply", "done", "failed", "killed"},
                                  plan : [Files -> Texts], next : 1..5]]
    BY <1>1, <1>3, <1>4
  <1>6. SetupTypeOK'
    BY <1>1, <1>5 DEF SetupInv, SetupTypeOK
  <1>7. PlansSettle'
    <2> SUFFICES ASSUME NEW o \in Setups, NEW f \in Files
                 PROVE  \/ setup'[o].plan[f] = NoText
                        \/ setup'[o].plan[f].text \in File
                           /\ (f \in Filled => IsSet(setup'[o].plan[f].text.row))
      BY DEF PlansSettle
    <2>1. CASE o = s
      BY <1>2, <1>5, <2>1, PlanOf
    <2>2. CASE o # s
      BY <1>5, <2>2 DEF SetupInv, PlansSettle
    <2> QED  BY <2>1, <2>2
  <1>8. RunsSettle'
    <2> SUFFICES ASSUME NEW o \in Setups \ overtaken, setup'[o].at \in {"apply", "done"},
                        NEW i \in 1..4,
                        i < setup'[o].next \/ setup'[o].plan[Managed[i]] = NoText
                 PROVE  Settled(Managed[i], disk[Managed[i]])
      BY <1>1 DEF RunsSettle, Settled
    <2>1. Managed[i] \in Files
      BY ManagedAre
    <2>2. CASE o = s
      <3>1. planned[Managed[i]] = NoText
        BY <1>5, <2>2
      <3>2. ~Writes(Managed[i])
        BY <1>2, <2>1, <3>1, PlanOf
      <3> QED  BY <2>1, <3>2, PlanOf
    <2>3. CASE o # s
      BY <1>5, <2>3 DEF SetupInv, RunsSettle
    <2> QED  BY <2>2, <2>3
  <1>9. RunsEnd'
    BY <1>5 DEF SetupInv, RunsEnd
  <1>10. Unedited'
    <2> SUFFICES ASSUME edits = 0, NEW o \in Setups, NEW f \in Files, setup'[o].plan[f] # NoText
                 PROVE  AsSetUp(f, setup'[o].plan[f].text)
      BY <1>1 DEF SetupInv, Unedited
    <2>1. CASE o = s
      BY <1>2, <1>5, <2>1, PlanOf
    <2>2. CASE o # s
      BY <1>5, <2>2 DEF SetupInv, Unedited
    <2> QED  BY <2>1, <2>2
  <1> QED  BY <1>6, <1>7, <1>8, <1>9, <1>10 DEF SetupInv

\* A run that moves on, and one that ends, stay what they are.
LEMMA SetupMoves ==
  ASSUME NEW S, NEW P, NEW A, NEW runs0 \in [S -> [at : A, plan : P, next : 1..5]], NEW s \in S
  PROVE  /\ runs0[s].next + 1 \in 1..5 => [runs0 EXCEPT ![s].next = @ + 1]
                                            \in [S -> [at : A, plan : P, next : 1..5]]
         /\ \A a \in A : [runs0 EXCEPT ![s].at = a] \in [S -> [at : A, plan : P, next : 1..5]]
  <1> DEFINE R == [at : A, plan : P, next : 1..5]
  <1>1. runs0[s] \in R
    OBVIOUS
  <1>2. runs0[s].next + 1 \in 1..5 => [runs0[s] EXCEPT !.next = @ + 1] \in R
    BY <1>1
  <1>3. \A a \in A : [runs0[s] EXCEPT !.at = a] \in R
    BY <1>1
  <1> HIDE DEF R
  <1>4. runs0[s].next + 1 \in 1..5 => [runs0 EXCEPT ![s].next = @ + 1] \in [S -> R]
    <2>1. runs0 \in [S -> R]
      BY DEF R
    <2> QED  BY <1>2, <2>1
  <1>5. \A a \in A : [runs0 EXCEPT ![s].at = a] \in [S -> R]
    <2>1. runs0 \in [S -> R]
      BY DEF R
    <2> QED  BY <1>3, <2>1
  <1> QED  BY <1>4, <1>5 DEF R

LEMMA ApplyKeeps ==
  ASSUME SetupInv, NEW s \in Setups, Apply(s)
  PROVE  SetupInv'
  <1>1. /\ setup[s].at = "apply" /\ setup[s].next \in 1..4
        /\ UNCHANGED <<templates, product, shell, overtaken, edits>>
    BY ManagedAre DEF Apply, SetupInv, SetupTypeOK
  <1>2. PICK g \in Files : g = Managed[setup[s].next]
    BY <1>1, ManagedAre
  <1>3. PICK c \in Texts : c = setup[s].plan[g]
    BY <1>2 DEF SetupInv, SetupTypeOK
  <1>4. setup \in [Setups -> [at : {"idle", "apply", "done", "failed", "killed"},
                              plan : [Files -> Texts], next : 1..5]]
        /\ disk \in [Files -> File \union {NoFile}]
    BY DEF SetupInv, SetupTypeOK
  <1>5. \/ disk' = disk /\ c = NoText /\ setup' = [setup EXCEPT ![s].next = @ + 1]
        \/ disk' = disk /\ setup' = [setup EXCEPT ![s].at = "failed"]
        \/ /\ c # NoText /\ disk' = [disk EXCEPT ![g] = c.text]
           /\ setup' = [setup EXCEPT ![s].next = @ + 1]
    BY <1>2, <1>3 DEF Apply
  <1>6. /\ \A o \in Setups : setup'[o].plan = setup[o].plan
        /\ \A o \in Setups : o # s => setup'[o] = setup[o]
        /\ \/ setup'[s].at = "failed"
           \/ setup'[s].at = "apply" /\ setup'[s].next = setup[s].next + 1
        /\ setup' \in [Setups -> [at : {"idle", "apply", "done", "failed", "killed"},
                                  plan : [Files -> Texts], next : 1..5]]
    <2>1. \/ setup' = [setup EXCEPT ![s].next = @ + 1]
          \/ setup' = [setup EXCEPT ![s].at = "failed"]
      BY <1>5
    <2>2. setup[s].at = "apply" /\ setup[s].next + 1 \in 1..5
      BY <1>1
    <2>3. \A o \in Setups : setup'[o].plan = setup[o].plan
      BY <1>4, <2>1
    <2>4. \A o \in Setups : o # s => setup'[o] = setup[o]
      BY <1>4, <2>1
    <2>5. \/ setup'[s].at = "failed"
          \/ setup'[s].at = "apply" /\ setup'[s].next = setup[s].next + 1
      BY <1>4, <2>1, <2>2
    <2>6. setup' \in [Setups -> [at : {"idle", "apply", "done", "failed", "killed"},
                                plan : [Files -> Texts], next : 1..5]]
      <3> DEFINE A == {"idle", "apply", "done", "failed", "killed"}
                 P == [Files -> Texts]
      <3>1. "failed" \in A
        OBVIOUS
      <3>2. setup \in [Setups -> [at : A, plan : P, next : 1..5]]
        BY <1>4
      <3> HIDE DEF A, P
      <3>3. setup' \in [Setups -> [at : A, plan : P, next : 1..5]]
        <4>1. /\ [setup EXCEPT ![s].next = @ + 1] \in [Setups -> [at : A, plan : P, next : 1..5]]
              /\ [setup EXCEPT ![s].at = "failed"] \in [Setups -> [at : A, plan : P, next : 1..5]]
          BY <2>2, <3>1, <3>2, SetupMoves
        <4> QED  BY <2>1, <4>1
      <3> QED  BY <3>3 DEF A, P
    <2> QED  BY <2>3, <2>4, <2>5, <2>6
  <1>7. c # NoText => c.text \in File /\ (g \in Filled => IsSet(c.text.row))
    BY <1>3 DEF SetupInv, PlansSettle
  <1>8. /\ disk' \in [Files -> File \union {NoFile}]
        /\ \A f \in Files : disk'[f] = disk[f] \/ (f = g /\ c # NoText /\ disk'[f] = c.text)
        /\ c # NoText => disk'[g] = c.text \/ setup'[s].at = "failed"
    BY <1>1, <1>4, <1>5, <1>7
  <1>9. \A f \in Files : Settled(f, disk[f]) => Settled(f, disk'[f])
    BY <1>7, <1>8, SetupAssumption DEF Settled
  <1>10. SetupTypeOK'
    BY <1>1, <1>6, <1>8 DEF SetupInv, SetupTypeOK
  <1>11. PlansSettle'
    BY <1>6 DEF SetupInv, PlansSettle
  <1>12. RunsSettle'
    <2> SUFFICES ASSUME NEW o \in Setups \ overtaken, setup'[o].at \in {"apply", "done"},
                        NEW i \in 1..4,
                        i < setup'[o].next \/ setup'[o].plan[Managed[i]] = NoText
                 PROVE  Settled(Managed[i], disk'[Managed[i]])
      BY <1>1 DEF RunsSettle, Settled
    <2>1. Managed[i] \in Files
      BY ManagedAre
    <2>2. CASE o # s
      BY <1>6, <1>9, <2>1, <2>2 DEF SetupInv, RunsSettle
    <2>3. CASE o = s
      <3>1. setup'[s].next = setup[s].next + 1 /\ setup'[s].at = "apply"
        BY <1>6, <2>3
      <3>2. CASE i < setup[s].next \/ setup[s].plan[Managed[i]] = NoText
        BY <1>1, <1>9, <2>1, <2>3, <3>2 DEF SetupInv, RunsSettle
      <3>3. CASE i = setup[s].next /\ c # NoText
        <4>1. Managed[i] = g /\ disk'[g] = c.text
          BY <1>2, <1>8, <3>1, <3>3
        <4> QED  BY <1>7, <3>3, <4>1, SetupAssumption DEF Settled
      <3> QED  BY <1>1, <1>2, <1>3, <1>6, <2>3, <3>1, <3>2, <3>3
    <2> QED  BY <2>2, <2>3
  <1>13. RunsEnd'
    BY <1>6 DEF SetupInv, RunsEnd
  <1>14. Unedited'
    BY <1>1, <1>3, <1>6, <1>8 DEF SetupInv, Unedited
  <1> QED  BY <1>10, <1>11, <1>12, <1>13, <1>14 DEF SetupInv

LEMMA EndsKeep ==
  ASSUME SetupInv, NEW s \in Setups, Finish(s) \/ KillSetup(s)
  PROVE  SetupInv'
  <1>1. /\ setup[s].at = "apply"
        /\ UNCHANGED <<templates, product, shell, edits>>
    BY DEF Finish, KillSetup
  <1>2. setup \in [Setups -> [at : {"idle", "apply", "done", "failed", "killed"},
                              plan : [Files -> Texts], next : 1..5]]
        /\ disk \in [Files -> File \union {NoFile}] /\ product \in Products
    BY DEF SetupInv, SetupTypeOK
  <1>3. CASE Finish(s)
    <2>1. /\ setup[s].next = 5 /\ setup' = [setup EXCEPT ![s].at = "done"]
          /\ UNCHANGED <<disk, overtaken>>
      BY <1>2, <1>3, ManagedAre DEF Finish
    <2>2. /\ \A o \in Setups : setup'[o].plan = setup[o].plan /\ setup'[o].next = setup[o].next
          /\ \A o \in Setups : o # s => setup'[o] = setup[o]
          /\ setup' \in [Setups -> [at : {"idle", "apply", "done", "failed", "killed"},
                                    plan : [Files -> Texts], next : 1..5]]
      BY <1>2, <2>1
    <2>3. SetupTypeOK'
      BY <1>1, <2>1, <2>2 DEF SetupInv, SetupTypeOK
    <2>4. PlansSettle' /\ RunsEnd'
      BY <2>1, <2>2 DEF SetupInv, PlansSettle, RunsEnd
    <2>5. RunsSettle'
      BY <1>1, <2>1, <2>2 DEF SetupInv, RunsSettle, Settled
    <2>6. Unedited'
      BY <1>1, <2>1, <2>2 DEF SetupInv, Unedited
    <2> QED  BY <2>3, <2>4, <2>5, <2>6 DEF SetupInv
  <1>4. CASE KillSetup(s)
    <2>1. setup' = [setup EXCEPT ![s].at = "killed"]
      BY <1>4 DEF KillSetup
    <2>2. /\ \A o \in Setups : setup'[o].plan = setup[o].plan
          /\ \A o \in Setups : o # s => setup'[o] = setup[o]
          /\ setup'[s].at = "killed"
          /\ setup' \in [Setups -> [at : {"idle", "apply", "done", "failed", "killed"},
                                    plan : [Files -> Texts], next : 1..5]]
      <3>1. setup \in [Setups -> [at : {"idle", "apply", "done", "failed", "killed"},
                                  plan : [Files -> Texts], next : 1..5]]
        BY <1>2
      <3>2. "killed" \in {"idle", "apply", "done", "failed", "killed"}
        OBVIOUS
      <3>3. setup' \in [Setups -> [at : {"idle", "apply", "done", "failed", "killed"},
                                  plan : [Files -> Texts], next : 1..5]]
        BY <2>1, <3>1, <3>2, SetupMoves
      <3>4. \A o \in Setups : setup'[o].plan = setup[o].plan
        BY <2>1, <3>1
      <3>5. setup'[s].at = "killed" /\ \A o \in Setups : o # s => setup'[o] = setup[o]
        BY <2>1, <3>1
      <3> QED  BY <3>3, <3>4, <3>5
    <2>3. \/ UNCHANGED <<disk, overtaken>>
          \/ /\ overtaken' = Setups
             /\ \E g \in Files : disk' = [disk EXCEPT ![g] = [row |-> "absent", rest |-> "lost",
                                                              names |-> product]]
      <3>1. \/ UNCHANGED <<disk, overtaken>>
            \/ /\ overtaken' = Setups /\ setup[s].next <= 4
               /\ disk' = [disk EXCEPT ![Managed[setup[s].next]] =
                             [row |-> "absent", rest |-> "lost", names |-> product]]
        BY <1>4, ManagedAre DEF KillSetup
      <3>2. setup[s].next \in 1..5
        BY <1>2
      <3>3. setup[s].next <= 4 => Managed[setup[s].next] \in Files
        BY <3>2, ManagedAre
      <3> QED  BY <3>1, <3>3
    <2>4. /\ disk' \in [Files -> File \union {NoFile}] /\ overtaken' \subseteq Setups
          /\ \A f \in Files : \/ disk'[f] = disk[f]
                              \/ disk'[f] = [row |-> "absent", rest |-> "lost", names |-> product]
      BY <1>2, <2>3 DEF File, RowStates, Rests, SetupInv, SetupTypeOK
    <2>5. SetupTypeOK'
      BY <1>1, <2>2, <2>4 DEF SetupInv, SetupTypeOK
    <2>6. PlansSettle' /\ RunsEnd'
      BY <2>2 DEF SetupInv, PlansSettle, RunsEnd
    <2>7. RunsSettle'
      BY <1>1, <2>2, <2>3 DEF SetupInv, RunsSettle, Settled
    <2>8. Unedited'
      <3>1. ASSUME edits = 0, NEW f \in Files, disk'[f] # NoFile PROVE AsSetUp(f, disk'[f])
        <4>1. product = "old" /\ (disk[f] # NoFile => AsSetUp(f, disk[f]))
          BY <3>1 DEF SetupInv, Unedited
        <4> QED  BY <2>4, <3>1, <4>1 DEF AsSetUp
      <3> QED  BY <1>1, <2>2, <3>1 DEF SetupInv, Unedited
    <2> QED  BY <2>5, <2>6, <2>7, <2>8 DEF SetupInv
  <1> QED  BY <1>3, <1>4

\* The person's changes mark every run that has looked at the files.
LEMMA TouchesKeep ==
  ASSUME SetupInv, Touches, UNCHANGED <<templates, shell, setup>>, product' \in Products,
         disk' \in [Files -> File \union {NoFile}]
  PROVE  SetupInv'
  <1>1. edits \in Nat /\ edits' = edits + 1 /\ edits' \in 0..MaxTouches
        /\ overtaken' = {s \in Setups : setup[s].at # "idle"}
    BY SetupAssumption DEF Touches, SetupInv, SetupTypeOK
  <1>2. SetupTypeOK'
    BY <1>1 DEF SetupInv, SetupTypeOK
  <1>3. PlansSettle' /\ RunsEnd'
    BY DEF SetupInv, PlansSettle, RunsEnd
  <1>4. RunsSettle'
    BY <1>1 DEF RunsSettle
  <1>5. Unedited'
    BY <1>1 DEF Unedited
  <1> QED  BY <1>2, <1>3, <1>4, <1>5 DEF SetupInv

LEMMA PersonKeeps ==
  SetupInv /\ (\/ \E f \in Files : Remove(f) \/ \E row \in RowStates : EditRow(f, row)
               \/ EditRest \/ RenameProduct) => SetupInv'
  <1> SUFFICES ASSUME SetupInv,
                      \/ \E f \in Files : Remove(f) \/ \E row \in RowStates : EditRow(f, row)
                      \/ EditRest \/ RenameProduct
               PROVE  SetupInv'
    OBVIOUS
  <1>1. disk \in [Files -> File \union {NoFile}] /\ product \in Products
    BY DEF SetupInv, SetupTypeOK
  <1>2. ASSUME NEW f \in Files, Remove(f) PROVE SetupInv'
    BY <1>1, <1>2, TouchesKeep DEF Remove
  <1>3. ASSUME NEW f \in Files, NEW row \in RowStates, EditRow(f, row) PROVE SetupInv'
    <2>1. [disk[f] EXCEPT !.row = row] \in File
      BY <1>1, <1>3 DEF EditRow, File
    <2>2. disk' \in [Files -> File \union {NoFile}]
      BY <1>1, <1>3, <2>1 DEF EditRow
    <2> QED  BY <1>1, <1>3, <2>2, TouchesKeep DEF EditRow
  <1>4. CASE EditRest
    <2>1. [disk["root"] EXCEPT !.rest = "odd"] \in File
      BY <1>1, <1>4 DEF EditRest, File, Files, Rests
    <2>2. disk' \in [Files -> File \union {NoFile}]
      BY <1>1, <1>4, <2>1 DEF EditRest
    <2> QED  BY <1>1, <1>4, <2>2, TouchesKeep DEF EditRest
  <1>5. CASE RenameProduct
    BY <1>1, <1>5, TouchesKeep DEF RenameProduct, Products
  <1> QED  BY <1>2, <1>3, <1>4, <1>5

LEMMA NextSetupInv == SetupInv /\ [SetupNext]_setupVars => SetupInv'
  <1> SUFFICES ASSUME SetupInv, [SetupNext]_setupVars PROVE SetupInv'
    OBVIOUS
  <1>1. ASSUME NEW s \in Setups, PlanSetup(s) \/ Apply(s) \/ Finish(s) \/ KillSetup(s)
        PROVE  SetupInv'
    BY <1>1, PlanKeeps, ApplyKeeps, EndsKeep
  <1>2. CASE \/ \E f \in Files : Remove(f) \/ \E row \in RowStates : EditRow(f, row)
             \/ EditRest \/ RenameProduct
    BY <1>2, PersonKeeps
  <1>3. CASE UNCHANGED setupVars
    BY <1>3 DEF setupVars, SetupInv, SetupTypeOK, PlansSettle, RunsSettle, RunsEnd, Unedited,
       Settled
  <1> QED  BY <1>1, <1>2, <1>3 DEF SetupNext

\* Doctor's messages, file by file.
LEMMA ProblemsAre == /\ Problems("root") = RootProblems /\ Problems("web") = WebProblems
                     /\ Problems("site") = SiteProblems("site")
                     /\ Problems("docs") = SiteProblems("docs")
  BY DEF Problems

LEMMA RootIsNamed ==
  "BETTER_AUTH_SECRET-missing" \in RootProblems <=> ~IsSet(RootRow)
  BY DEF RootProblems

LEMMA OnlyTheSecret == "SITE_URL-missing" \notin RootProblems
  BY DEF RootProblems

LEMMA SettledIsNotNamed ==
  ASSUME SetupTypeOK, NEW f \in Files, Settled(f, disk[f]), NamesSetup(f)
  PROVE  (f \notin templates /\ disk[f] = NoFile) \/ (f = "root" /\ shell = "blank")
  <1>1. CASE disk[f] = NoFile
    BY <1>1 DEF Settled
  <1>2. CASE disk[f] # NoFile
    <2>1. ~FileMissing(f)
      BY <1>2 DEF FileMissing
    <2>2. CASE f = "root"
      <3>1. ~IsSet(RootRow)
        BY <2>1, <2>2, ProblemsAre, RootIsNamed, OnlyTheSecret DEF NamesSetup
      <3>2. IsSet(Row("root"))
        BY <1>2, <2>2 DEF Settled, Row, Filled
      <3>3. shell # "none" /\ ~IsSet(shell)
        BY <3>1, <3>2 DEF RootRow
      <3> QED  BY <2>2, <3>3 DEF IsSet, SetupTypeOK
    <2>3. CASE f = "web"
      BY <1>2, <2>1, <2>3 DEF NamesSetup, Problems, WebProblems
    <2>4. CASE f \in {"site", "docs"}
      BY <1>2, <2>1, <2>4
      DEF Settled, NamesSetup, Problems, SiteProblems, SiteRow, Row, IsSet, Filled
    <2> QED  BY <2>2, <2>3, <2>4 DEF Files
  <1> QED  BY <1>1, <1>2

LEMMA WritesAreNamed ==
  ASSUME SetupTypeOK, NEW f \in Files, Writes(f), ~NamesSetup(f)
  PROVE  f # "web" /\ shell = "own"
  <1>1. disk[f] = NoFile \/ Fills(f)
    BY DEF Writes
  <1>2. CASE f = "web"
    BY <1>1, <1>2 DEF NamesSetup, FileMissing, Fills, Filled
  <1>3. CASE f = "root"
    <2>1. ~IsSet(Row("root")) /\ disk["root"] # NoFile
      BY <1>1, <1>3 DEF Fills, Draft, Row, IsSet, NamesSetup, FileMissing
    <2>2. IsSet(RootRow)
      BY <1>3, ProblemsAre, RootIsNamed DEF NamesSetup
    <2>3. shell # "none" /\ IsSet(shell)
      BY <2>1, <2>2 DEF RootRow
    <2> QED  BY <1>3, <2>3 DEF IsSet, SetupTypeOK
  <1>4. CASE f \in {"site", "docs"}
    <2>1. ~IsSet(Row(f))
      BY <1>1 DEF Fills, Draft, Row, IsSet
    <2> QED  BY <1>4, <2>1 DEF NamesSetup, Problems, SiteProblems, SiteRow
  <1> QED  BY <1>2, <1>3, <1>4 DEF Files

LEMMA SettledPasses ==
  ASSUME SetupInv, edits = 0, shell # "blank", templates = Files, ~Torn,
         \A f \in Files : Settled(f, disk[f])
  PROVE  DoctorReport = [ok |-> TRUE, warns |-> FALSE]
  <1>1. ASSUME NEW f \in Files
        PROVE  /\ disk[f] # NoFile /\ AsSetUp(f, disk[f]) /\ disk[f].rest = "template"
               /\ f \in Filled => IsSet(disk[f].row)
    BY DEF Settled, SetupInv, Unedited, AsSetUp, Torn
  <1>2. shell \in {"none", "own"}
    BY DEF SetupInv, SetupTypeOK
  <1>3. ASSUME NEW f \in Files PROVE Passes(f)
    <2>1. ~FileMissing(f)
      BY <1>1 DEF FileMissing
    <2>2. CASE f = "root"
      BY <1>1, <1>2, <2>1, <2>2
      DEF AsSetUp, Passes, Problems, RootProblems, RootRow, Row, IsSet, Filled
    <2>3. CASE f = "web"
      BY <1>1, <2>1, <2>3 DEF AsSetUp, Passes, Problems, WebProblems, IsSet
    <2>4. CASE f \in {"site", "docs"}
      BY <1>1, <1>2, <2>1, <2>4
      DEF AsSetUp, Passes, Problems, SiteProblems, SiteRow, Row, IsSet, Filled
    <2> QED  BY <2>2, <2>3, <2>4 DEF Files
  <1>4. ~Leftovers
    BY <1>1 DEF Leftovers, AsSetUp, SetupInv, Unedited, Files
  <1>5. (\A f \in Files : Passes(f)) = TRUE /\ Leftovers = FALSE
    BY <1>3, <1>4 DEF Leftovers
  <1> QED  BY <1>5 DEF DoctorReport

LEMMA SettlingCloses == SetupInv => GapsClose
  <1> SUFFICES ASSUME SetupInv PROVE GapsClose
    OBVIOUS
  <1>1. ASSUME NEW s \in Setups \ overtaken, setup[s].at = "done"
        PROVE  \A f \in Files : Settled(f, disk[f])
    <2>1. setup[s].next = 5
      BY <1>1 DEF SetupInv, RunsEnd
    <2>2. \A i \in 1..4 : Settled(Managed[i], disk[Managed[i]])
      BY <1>1, <2>1 DEF SetupInv, RunsSettle
    <2> QED  BY <2>2, ManagedAre
  <1>2. SetupTypeOK
    BY DEF SetupInv
  <1> QED  BY <1>1, <1>2, SettledIsNotNamed, SettledPasses, WritesAreNamed DEF GapsClose

\* The environment files and every run's plan keep their types.
THEOREM SetupTypesHold == SetupSpec => []SetupTypeOK
  <1>1. SetupInv => SetupTypeOK
    BY DEF SetupInv
  <1> QED  BY InitSetupInv, NextSetupInv, <1>1, PTL DEF SetupSpec

\* After a run of setup that nobody has disturbed doctor names setup for nothing it
\* could still do, for any number of runs side by side or killed and any edits
\* between them (planSetup, applySetup; rootEnvironmentProblems, runDoctor).
THEOREM GapsAreClosed == SetupSpec => []GapsClose
  BY InitSetupInv, NextSetupInv, SettlingCloses, PTL DEF SetupSpec
-----------------------------------------------------------------------------
(* Rename *)

\* The record of a run.
RunIs ==
    renaming \in [at : {"idle", "running", "done", "refused", "killed"}, runs : 0..MaxRenames,
                  next : 1..9, began : {renaming.began}, from : {renaming.from},
                  to : Brands \union Wrong, write : BOOLEAN, changes : SUBSET Repository]

\* A run that was refused, and one that does not write, leaves the tree.
Unwritten ==
    /\ renaming.at = "refused" => tree = renaming.began
    /\ ~renaming.write => tree = renaming.began \/ renaming.at = "idle"

\* The files in which two products differ.
Differing(p, q) == {path \in Repository : Written(q)[path] # Written(p)[path]}

\* How far a run from p to q has come: the files before the one at hand are q's, and
\* listed if they changed; the others are p's, but for the one a kill has cut.
Turning(p, q) ==
    /\ renaming.at \in {"running", "killed", "done"} => renaming.from = p
    /\ renaming.at = "done" =>
         /\ tree = IF renaming.write THEN Written(q) ELSE Written(p)
         /\ renaming.changes = Differing(p, q)
    /\ renaming.at = "running" =>
         renaming.changes = {path \in Differing(p, q) :
                               \E i \in 1..8 : i < renaming.next /\ Tracked[i] = path}
    /\ renaming.write /\ renaming.at \in {"running", "killed"} =>
         /\ tree = [path \in Repository |-> tree[path]]
         /\ \A i \in 1..8 :
              /\ i < renaming.next => tree[Tracked[i]] = Written(q)[Tracked[i]]
              /\ i > renaming.next => tree[Tracked[i]] = Written(p)[Tracked[i]]
              /\ i = renaming.next /\ renaming.at = "running" =>
                   tree[Tracked[i]] = Written(p)[Tracked[i]]

RenameInv ==
    /\ RunIs /\ Unwritten
    /\ \A p, q \in Brands :
         renaming.began = Written(p) /\ renaming.to = q /\ Apart(p, q) => Turning(p, q)

LEMMA TrackedAre ==
    /\ Len(Tracked) = 8 /\ DOMAIN Tracked = 1..8
    /\ \A i \in 1..8 : Tracked[i] \in Repository
    /\ \A path \in Repository : \E i \in 1..8 : Tracked[i] = path
    /\ \A i, j \in 1..8 : Tracked[i] = Tracked[j] => i = j
  <1>1. Len(Tracked) = 8 /\ DOMAIN Tracked = 1..8
    BY DEF Tracked
  <1>2. \A i \in 1..8 : Tracked[i] \in Repository
    BY <1>1 DEF Repository
  <1>3. \A path \in Repository : \E i \in 1..8 : Tracked[i] = path
    BY <1>1 DEF Repository
  <1>4. \A i, j \in 1..8 : Tracked[i] = Tracked[j] => i = j
    BY DEF Tracked
  <1> QED  BY <1>1, <1>2, <1>3, <1>4

\* Every product's tree holds the repository's files.
LEMMA WrittenIs == \A p : Written(p) = [path \in Repository |-> Written(p)[path]]
  BY DEF Written

LEMMA LeftAloneIsKept ==
    ASSUME NEW p, NEW q, NEW path \in Repository, LeftAlone(path)
    PROVE  Written(q)[path] = Written(p)[path]
  BY DEF LeftAlone, Written


\* A run with nothing to replace is asked for the product that is there.
LEMMA NoRulesNoChange ==
    ASSUME NEW p \in Brands, NEW q \in Brands, Rules(p, q) = <<>>
    PROVE  p = q
  <1> DEFINE one(field, rule) == IF p[field] # q[field] THEN <<rule>> ELSE <<>>
             identifier == one("identifier", Rule(p.identifier, q.identifier, {}, {}))
             scope == one("scope", Rule(p.scope \o <<"/">>, q.scope \o <<"/">>, {}, {}))
             prefix == one("slug", Rule(EnvPrefix(p.slug) \o <<"_">>,
                                        EnvPrefix(q.slug) \o <<"_">>, Capitals \union {"_"}, {}))
             name == one("name", Rule(p.name, q.name, {}, Letters))
             slug == one("slug", Rule(p.slug, q.slug, {}, Letters))
             AnyRule == {Rule(p.identifier, q.identifier, {}, {}),
                         Rule(p.scope \o <<"/">>, q.scope \o <<"/">>, {}, {}),
                         Rule(EnvPrefix(p.slug) \o <<"_">>, EnvPrefix(q.slug) \o <<"_">>,
                              Capitals \union {"_"}, {}),
                         Rule(p.name, q.name, {}, Letters), Rule(p.slug, q.slug, {}, Letters)}
  <1>1. Rules(p, q) = identifier \o scope \o prefix \o name \o slug
    BY DEF Rules
  <1>2. /\ identifier \in Seq(AnyRule) /\ scope \in Seq(AnyRule) /\ prefix \in Seq(AnyRule)
        /\ name \in Seq(AnyRule) /\ slug \in Seq(AnyRule)
    <2>1. \A field, rule : rule \in AnyRule => one(field, rule) \in Seq(AnyRule)
      <3> HIDE DEF AnyRule
      <3> QED  OBVIOUS
    <2> HIDE DEF one
    <2> QED  BY <2>1
  <1> HIDE DEF AnyRule
  <1>3. \A s, t \in Seq(AnyRule) : s \o t = <<>> => s = <<>> /\ t = <<>>
    OBVIOUS
  <1>4. \A s, t \in Seq(AnyRule) : s \o t \in Seq(AnyRule)
    OBVIOUS
  <1>5. identifier = <<>> /\ scope = <<>> /\ name = <<>> /\ slug = <<>>
    <2> HIDE DEF identifier, scope, prefix, name, slug
    <2> QED  BY <1>1, <1>2, <1>3, <1>4
  <1>6. \A field, rule : one(field, rule) = <<>> => p[field] = q[field]
    OBVIOUS
  <1>7. /\ p["identifier"] = q["identifier"] /\ p["scope"] = q["scope"]
        /\ p["name"] = q["name"] /\ p["slug"] = q["slug"]
    <2> HIDE DEF one
    <2> QED  BY <1>5, <1>6
  <1>8. /\ p = [name |-> p.name, slug |-> p.slug, identifier |-> p.identifier, scope |-> p.scope]
        /\ q = [name |-> q.name, slug |-> q.slug, identifier |-> q.identifier, scope |-> q.scope]
    BY DEF Brands, Kit, Acme, AcmePro, Shout
  <1> QED  BY <1>7, <1>8

LEMMA InitRenameInv == RenameInit => RenameInv
  <1> SUFFICES ASSUME RenameInit PROVE RenameInv
    OBVIOUS
  <1>1. /\ tree = Written(Kit) /\ renaming.at = "idle" /\ renaming.began = tree
        /\ renaming = [at |-> "idle", runs |-> 0, next |-> 1, began |-> tree, from |-> Kit,
                       to |-> Kit, write |-> FALSE, changes |-> {}]
    BY DEF RenameInit
  <1>2. RunIs
    BY <1>1, RenameAssumption DEF RunIs, Brands
  <1> QED  BY <1>1, <1>2 DEF RenameInv, Unwritten, Turning

LEMMA StartRenameKeeps ==
    ASSUME RenameInv, NEW asked \in Brands \union Wrong, NEW write \in BOOLEAN,
           StartRename(asked, write)
    PROVE  RenameInv'
  <1> DEFINE accepted == Acceptable(asked) /\ Readable
             current == IF accepted THEN CurrentValues(tree) ELSE renaming.from
             goes == IF ~accepted THEN "refused"
                     ELSE IF Rules(current, asked) = <<>> THEN "done" ELSE "running"
  <1>1. /\ renaming' = [at |-> goes, runs |-> renaming.runs + 1, next |-> 1, began |-> tree,
                        from |-> current, to |-> asked, write |-> write, changes |-> {}]
        /\ renaming.runs < MaxRenames /\ tree' = tree
    BY DEF StartRename
  <1>2. goes \in {"running", "done", "refused"} /\ (goes # "refused" => accepted)
    OBVIOUS
  <1>3. goes = "done" => Rules(current, asked) = <<>>
    OBVIOUS
  <1>4. accepted => current = CurrentValues(tree)
    OBVIOUS
  <1> HIDE DEF goes, current, accepted
  <1>5. /\ renaming'.at = goes /\ renaming'.next = 1 /\ renaming'.began = tree
        /\ renaming'.from = current /\ renaming'.to = asked /\ renaming'.changes = {}
        /\ renaming'.runs = renaming.runs + 1 /\ renaming'.write = write
    BY <1>1
  <1>6. RunIs'
    <2>1. renaming.runs + 1 \in 0..MaxRenames
      BY <1>1, RenameAssumption DEF RenameInv, RunIs
    <2> QED  BY <1>1, <1>2, <1>5, <2>1 DEF RunIs
  <1>7. Unwritten'
    BY <1>1, <1>5 DEF Unwritten
  <1>8. ASSUME NEW p \in Brands, NEW q \in Brands, tree = Written(p), asked = q, Apart(p, q)
        PROVE  Turning(p, q)'
    <2>1. goes # "refused" => current = p
      BY <1>2, <1>4, <1>8, TextAssumption
    <2>2. goes = "done" => p = q /\ Differing(p, q) = {}
      <3>1. goes = "done" => p = q
        BY <1>3, <1>8, <2>1, NoRulesNoChange
      <3> QED  BY <3>1 DEF Differing
    <2>3. tree = [path \in Repository |-> tree[path]]
      BY <1>8, WrittenIs
    <2>4. \A i \in 1..8 : ~(i < 1)
      OBVIOUS
    <2>5. goes = "done" => tree' = (IF write THEN Written(q) ELSE Written(p))
      BY <1>1, <1>8, <2>2
    <2>6. goes \in {"running", "done"} => renaming'.from = p
      BY <1>5, <2>1
    <2> QED  BY <1>1, <1>2, <1>5, <1>8, <2>2, <2>3, <2>4, <2>5, <2>6 DEF Turning, Differing
  <1> QED  BY <1>1, <1>5, <1>6, <1>7, <1>8 DEF RenameInv

LEMMA RewriteFileKeeps == ASSUME RenameInv, RewriteFile PROVE RenameInv'
  <1> DEFINE path == Tracked[renaming.next]
             text == RewriteText(path, tree[path], Rules(renaming.from, renaming.to))
             stays == LeftAlone(path) \/ tree[path] = CutShort \/ text = tree[path]
             moved == [renaming EXCEPT !.next = @ + 1]
             listed == [renaming EXCEPT !.next = @ + 1, !.changes = @ \union {path}]
  <1>1. /\ renaming.at = "running" /\ renaming.next \in 1..8 /\ path \in Repository
        /\ RunIs /\ Unwritten
    <2>1. /\ renaming.at = "running" /\ renaming.next <= Len(Tracked) /\ RunIs /\ Unwritten
      BY DEF RewriteFile, RewriteBy, RenameInv
    <2>2. renaming.next \in 1..9
      BY <2>1 DEF RunIs
    <2> QED  BY <2>1, <2>2, TrackedAre
  <1>2. \/ stays /\ tree' = tree /\ renaming' = moved
        \/ /\ ~stays /\ renaming' = listed
           /\ tree' = IF renaming.write THEN [tree EXCEPT ![path] = text] ELSE tree
    BY DEF RewriteFile, RewriteBy
  <1> HIDE DEF stays
  <1>3. /\ renaming'.at = "running" /\ renaming'.next = renaming.next + 1
        /\ renaming'.began = renaming.began /\ renaming'.from = renaming.from
        /\ renaming'.to = renaming.to /\ renaming'.write = renaming.write
        /\ renaming'.changes = IF stays THEN renaming.changes
                               ELSE renaming.changes \union {path}
    BY <1>1, <1>2 DEF RunIs
  <1>4. RunIs'
    <2>1. moved \in [at : {"idle", "running", "done", "refused", "killed"}, runs : 0..MaxRenames,
                     next : 1..9, began : {renaming.began}, from : {renaming.from},
                     to : Brands \union Wrong, write : BOOLEAN, changes : SUBSET Repository]
      BY <1>1 DEF RunIs
    <2>2. listed \in [at : {"idle", "running", "done", "refused", "killed"}, runs : 0..MaxRenames,
                      next : 1..9, began : {renaming.began}, from : {renaming.from},
                      to : Brands \union Wrong, write : BOOLEAN, changes : SUBSET Repository]
      <3>1. renaming.changes \union {path} \in SUBSET Repository
        BY <1>1 DEF RunIs
      <3>2. listed = [moved EXCEPT !.changes = renaming.changes \union {path}]
        BY <1>1 DEF RunIs
      <3> HIDE DEF moved, listed, path
      <3> QED  BY <2>1, <3>1, <3>2
    <2> HIDE DEF moved, listed
    <2> QED  BY <1>2, <1>3, <2>1, <2>2 DEF RunIs
  <1>5. Unwritten'
    BY <1>1, <1>2, <1>3 DEF Unwritten
  <1>6. ASSUME NEW p \in Brands, NEW q \in Brands, renaming.began = Written(p),
               renaming.to = q, Apart(p, q)
        PROVE  Turning(p, q)'
    <2>1. Turning(p, q)
      BY <1>6 DEF RenameInv
    <2>2. renaming.from = p /\ tree[path] = Written(p)[path]
      <3>1. renaming.write => tree[path] = Written(p)[path]
        BY <1>1, <2>1 DEF Turning
      <3>2. ~renaming.write => tree = Written(p)
        BY <1>1, <1>6 DEF Unwritten
      <3> QED  BY <1>1, <2>1, <3>1, <3>2 DEF Turning
    <2>3. IF stays THEN Written(q)[path] = Written(p)[path]
                   ELSE text = Written(q)[path] /\ Written(q)[path] # Written(p)[path]
      <3>1. LeftAlone(path) => Written(q)[path] = Written(p)[path]
        BY <1>1, LeftAloneIsKept
      <3>2. ~LeftAlone(path) => text = Written(q)[path]
        BY <1>1, <1>6, <2>2, TextAssumption
      <3>3. tree[path] # CutShort
        BY <1>1, <2>2, CutShortAssumption
      <3> QED  BY <2>2, <3>1, <3>2, <3>3 DEF stays
    <2>4. renaming'.changes = {f \in Differing(p, q) :
                                 \E i \in 1..8 : i < renaming'.next /\ Tracked[i] = f}
      <3>1. renaming.changes = {f \in Differing(p, q) :
                                  \E i \in 1..8 : i < renaming.next /\ Tracked[i] = f}
        BY <1>1, <2>1 DEF Turning
      <3>2. \A i \in 1..8 : i < renaming.next + 1 <=> i < renaming.next \/ i = renaming.next
        BY <1>1
      <3>3. \A f \in Repository : (\E i \in 1..8 : i < renaming'.next /\ Tracked[i] = f)
               <=> f = path \/ \E i \in 1..8 : i < renaming.next /\ Tracked[i] = f
        BY <1>1, <1>3, <3>2
      <3>4. path \in Differing(p, q) <=> ~stays
        BY <1>1, <2>3 DEF Differing
      <3>5. Differing(p, q) \subseteq Repository
        BY DEF Differing
      <3> HIDE DEF path
      <3> QED  BY <1>3, <3>1, <3>3, <3>4, <3>5
    <2>5. ASSUME renaming.write
          PROVE  /\ tree' = [f \in Repository |-> tree'[f]]
                 /\ tree'[path] = Written(q)[path]
                 /\ \A i \in 1..8 : i # renaming.next => tree'[Tracked[i]] = tree[Tracked[i]]
      <3>1. tree = [f \in Repository |-> tree[f]]
        BY <1>1, <2>1, <2>5 DEF Turning
      <3>2. \A i \in 1..8 : i # renaming.next => Tracked[i] # path /\ Tracked[i] \in Repository
        BY <1>1, TrackedAre
      <3> HIDE DEF path, text
      <3>3. CASE stays
        BY <1>2, <2>2, <2>3, <3>1, <3>3
      <3>4. CASE ~stays
        <4>1. tree' = [tree EXCEPT ![path] = text] /\ text = Written(q)[path]
          BY <1>2, <2>3, <2>5, <3>4
        <4> QED  BY <1>1, <3>1, <3>2, <4>1
      <3> QED  BY <3>3, <3>4
    <2>6. renaming.write => \A i \in 1..8 :
            /\ i < renaming'.next => tree'[Tracked[i]] = Written(q)[Tracked[i]]
            /\ i > renaming'.next => tree'[Tracked[i]] = Written(p)[Tracked[i]]
            /\ i = renaming'.next => tree'[Tracked[i]] = Written(p)[Tracked[i]]
      <3> SUFFICES ASSUME renaming.write, NEW i \in 1..8
                   PROVE  /\ i < renaming'.next => tree'[Tracked[i]] = Written(q)[Tracked[i]]
                          /\ i >= renaming'.next => tree'[Tracked[i]] = Written(p)[Tracked[i]]
        BY <1>1, <1>3
      <3>1. /\ i < renaming.next => tree[Tracked[i]] = Written(q)[Tracked[i]]
            /\ i > renaming.next => tree[Tracked[i]] = Written(p)[Tracked[i]]
        BY <1>1, <2>1 DEF Turning
      <3>2. /\ i < renaming'.next => i < renaming.next \/ i = renaming.next
            /\ i >= renaming'.next => i > renaming.next /\ i # renaming.next
        BY <1>1, <1>3
      <3> QED  BY <2>5, <3>1, <3>2
    <2> QED  BY <1>3, <2>2, <2>4, <2>5, <2>6 DEF Turning
  <1> QED  BY <1>3, <1>4, <1>5, <1>6 DEF RenameInv

LEMMA EndsKeepRename == ASSUME RenameInv, FinishRename \/ KillRename PROVE RenameInv'
  <1>1. RunIs /\ Unwritten /\ renaming.at = "running"
    BY DEF RenameInv, FinishRename, KillRename
  <1>2. PICK end \in {"done", "killed"} : renaming' = [renaming EXCEPT !.at = end]
    BY DEF FinishRename, KillRename
  <1>3. /\ renaming'.at = end /\ renaming'.next = renaming.next /\ renaming'.to = renaming.to
        /\ renaming'.began = renaming.began /\ renaming'.from = renaming.from
        /\ renaming'.write = renaming.write /\ renaming'.changes = renaming.changes
    BY <1>1, <1>2 DEF RunIs
  <1>4. RunIs'
    BY <1>1, <1>2, <1>3 DEF RunIs
  <1>5. CASE FinishRename
    <2>1. end = "done" /\ tree' = tree /\ renaming.next = 9
      BY <1>1, <1>3, <1>5, TrackedAre DEF FinishRename, RunIs
    <2>2. ASSUME NEW p \in Brands, NEW q \in Brands, renaming.began = Written(p),
                 renaming.to = q, Apart(p, q)
          PROVE  Turning(p, q)'
      <3>1. Turning(p, q)
        BY <2>2 DEF RenameInv
      <3>2. \A path \in Repository : \E i \in 1..8 : i < renaming.next /\ Tracked[i] = path
        BY <2>1, TrackedAre
      <3>3. renaming.changes = Differing(p, q)
        BY <1>1, <3>1, <3>2 DEF Turning, Differing
      <3>4. renaming.write => tree = Written(q)
        BY <1>1, <3>1, <3>2, WrittenIs DEF Turning
      <3>5. ~renaming.write => tree = Written(p)
        BY <1>1, <2>2 DEF Unwritten
      <3> QED  BY <1>1, <1>3, <2>1, <3>1, <3>3, <3>4, <3>5 DEF Turning
    <2>3. Unwritten'
      BY <1>1, <1>3, <2>1 DEF Unwritten
    <2> QED  BY <1>3, <1>4, <2>2, <2>3 DEF RenameInv
  <1>6. CASE KillRename
    <2>1. /\ end = "killed"
          /\ \/ tree' = tree
             \/ /\ renaming.write /\ renaming.next \in 1..8
                /\ tree' = [tree EXCEPT ![Tracked[renaming.next]] = CutShort]
      <3>1. renaming.next \in 1..9
        BY <1>1 DEF RunIs
      <3>2. renaming'.at = "killed"
        BY <1>1, <1>6 DEF KillRename, RunIs
      <3>3. \/ tree' = tree
            \/ /\ renaming.write /\ renaming.next <= 8
               /\ tree' = [tree EXCEPT ![Tracked[renaming.next]] = CutShort]
        BY <1>6, TrackedAre DEF KillRename
      <3> QED  BY <1>3, <3>1, <3>2, <3>3
    <2>2. Unwritten'
      BY <1>1, <1>3, <2>1 DEF Unwritten
    <2>3. ASSUME NEW p \in Brands, NEW q \in Brands, renaming.began = Written(p),
                 renaming.to = q, Apart(p, q)
          PROVE  Turning(p, q)'
      <3>1. Turning(p, q)
        BY <2>3 DEF RenameInv
      <3>2. ASSUME renaming.write
            PROVE  /\ tree' = [path \in Repository |-> tree'[path]]
                   /\ \A i \in 1..8 : i # renaming.next => tree'[Tracked[i]] = tree[Tracked[i]]
        <4>1. tree = [path \in Repository |-> tree[path]]
          BY <1>1, <3>1, <3>2 DEF Turning
        <4>2. \A i \in 1..8 : Tracked[i] \in Repository
          BY TrackedAre
        <4>3. \A i, j \in 1..8 : Tracked[i] = Tracked[j] => i = j
          BY TrackedAre
        <4> QED  BY <2>1, <4>1, <4>2, <4>3
      <3>3. renaming.write => \A i \in 1..8 :
              /\ i < renaming.next => tree'[Tracked[i]] = Written(q)[Tracked[i]]
              /\ i > renaming.next => tree'[Tracked[i]] = Written(p)[Tracked[i]]
        <4>1. renaming.next \in Nat
          BY <1>1 DEF RunIs
        <4> QED  BY <1>1, <3>1, <3>2, <4>1 DEF Turning
      <3>4. renaming.from = p
        BY <1>1, <3>1 DEF Turning
      <3> QED  BY <1>3, <2>1, <3>2, <3>3, <3>4 DEF Turning
    <2> QED  BY <1>3, <1>4, <2>2, <2>3 DEF RenameInv
  <1> QED  BY <1>5, <1>6

LEMMA NextRenameInv == RenameInv /\ [RenameNext]_renameVars => RenameInv'
  <1> SUFFICES ASSUME RenameInv, [RenameNext]_renameVars PROVE RenameInv'
    OBVIOUS
  <1>1. CASE \E asked \in Brands \union Wrong, write \in BOOLEAN : StartRename(asked, write)
    BY <1>1, StartRenameKeeps
  <1>2. CASE RewriteFile
    BY <1>2, RewriteFileKeeps
  <1>3. CASE FinishRename \/ KillRename
    BY <1>3, EndsKeepRename
  <1>4. CASE Commit \/ UNCHANGED renameVars
    <2>1. tree' = tree /\ renaming' = renaming
      BY <1>4 DEF Commit, renameVars
    <2> QED  BY <2>1 DEF RenameInv, RunIs, Unwritten, Turning
  <1>5. CASE TakeBack
    <2>1. renaming' = [renaming EXCEPT !.at = "idle"]
      BY <1>5 DEF TakeBack
    <2>2. RunIs /\ renaming'.at = "idle"
      BY <2>1 DEF RenameInv, RunIs
    <2>3. RunIs'
      BY <2>1, <2>2 DEF RunIs
    <2> QED  BY <2>2, <2>3 DEF RenameInv, Unwritten, Turning
  <1> QED  BY <1>1, <1>2, <1>3, <1>4, <1>5 DEF RenameNext

\* However often a clone is renamed, and wherever a run is killed, committed or taken
\* back: a refused run and a dry run leave the tree; a run from one product's tree to a
\* product apart from it ends with every file the new product's, having listed the files
\* that differ, and one cut off has turned the files before the cut and none after it.
\* That a single file turns is TextAssumption.
THEOREM RenamesAreWhole == RenameSpec => []RenameIsWhole
  <1>1. RenameInv => RenameIsWhole
    <2> SUFFICES ASSUME RenameInv, renaming.at \in {"running", "killed", "done"},
                        NEW p \in Brands, NEW q \in Brands,
                        renaming.began = Written(p), renaming.to = q, Apart(p, q)
                 PROVE  /\ renaming.at = "done" =>
                             /\ tree = IF renaming.write THEN Written(q) ELSE Written(p)
                             /\ renaming.changes = Differing(p, q)
                        /\ \A i \in DOMAIN Tracked :
                             renaming.write /\ renaming.at # "done" =>
                               /\ i < renaming.next =>
                                    tree[Tracked[i]] = Written(q)[Tracked[i]]
                               /\ i > renaming.next =>
                                    tree[Tracked[i]] = Written(p)[Tracked[i]]
      BY DEF RenameIsWhole, RenameInv, Unwritten, Differing
    <2>1. Turning(p, q)
      BY DEF RenameInv
    <2> QED  BY <2>1, TrackedAre DEF Turning
  <1> QED  BY <1>1, InitRenameInv, NextRenameInv, PTL DEF RenameSpec

LEMMA NextRenameType ==
    RenameInv /\ RenameInv' /\ RenameTypeOK /\ [RenameNext]_renameVars => RenameTypeOK'
  <1> SUFFICES ASSUME RenameInv, RenameInv', RenameTypeOK, [RenameNext]_renameVars
               PROVE  RenameTypeOK'
    OBVIOUS
  <1>1. /\ renaming'.at \in {"idle", "running", "done", "refused", "killed"}
        /\ renaming'.runs \in 0..MaxRenames /\ renaming'.next \in 1..Len(Tracked) + 1
        /\ renaming'.to \in Brands \union Wrong /\ renaming'.write \in BOOLEAN
    <2>1. Len(Tracked) + 1 = 9
      BY TrackedAre
    <2> QED  BY <2>1 DEF RenameInv, RunIs
  <1>2. DOMAIN tree' = Repository /\ DOMAIN head' = Repository
    BY DEF RenameTypeOK, RenameNext, StartRename, RewriteFile, RewriteBy, FinishRename,
           KillRename, Commit, TakeBack, renameVars
  <1>3. \A path \in renaming'.changes : path \in Repository /\ ~LeftAlone(path)
    <2>1. \A path \in renaming.changes : path \in Repository /\ ~LeftAlone(path)
      BY DEF RenameTypeOK
    <2>2. RunIs
      BY DEF RenameInv
    <2>3. CASE \E asked \in Brands \union Wrong, write \in BOOLEAN : StartRename(asked, write)
      <3>1. renaming'.changes = {}
        BY <2>3 DEF StartRename
      <3> QED  BY <3>1
    <2>4. CASE RewriteFile
      <3>1. Tracked[renaming.next] \in Repository
        BY <2>2, <2>4, TrackedAre DEF RewriteFile, RewriteBy, RunIs
      <3>2. \/ renaming'.changes = renaming.changes
            \/ /\ ~LeftAlone(Tracked[renaming.next])
               /\ renaming'.changes = renaming.changes \union {Tracked[renaming.next]}
        BY <2>2, <2>4 DEF RewriteFile, RewriteBy, RunIs
      <3> QED  BY <2>1, <3>1, <3>2
    <2>5. CASE \/ FinishRename \/ KillRename \/ Commit \/ TakeBack \/ UNCHANGED renameVars
      <3>1. renaming'.changes = renaming.changes
        BY <2>2, <2>5 DEF FinishRename, KillRename, Commit, TakeBack, renameVars, RunIs
      <3> QED  BY <2>1, <3>1
    <2> QED  BY <2>3, <2>4, <2>5 DEF RenameNext
  <1> QED  BY <1>1, <1>2, <1>3 DEF RenameTypeOK

\* Type correctness: the tree and what is committed hold the repository's files, and only
\* files the script may touch are listed.
THEOREM RenameTypesHold == RenameSpec => []RenameTypeOK
  <1>1. RenameInit => RenameTypeOK
    <2> SUFFICES ASSUME RenameInit PROVE RenameTypeOK
      OBVIOUS
    <2>1. DOMAIN Written(Kit) = Repository
      BY WrittenIs
    <2>2. Len(Tracked) + 1 = 9
      BY TrackedAre
    <2> QED  BY <2>1, <2>2, RenameAssumption DEF RenameInit, RenameTypeOK, Brands
  <1> QED  BY <1>1, InitRenameInv, NextRenameInv, NextRenameType, PTL DEF RenameSpec

===============================================================================
