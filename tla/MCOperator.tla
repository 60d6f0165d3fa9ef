------------------------------ MODULE MCOperator ------------------------------
(* Small instances of the tools an operator runs, for TLC: a live restore, a  *)
(* set and its drill, a server's first setup, the operations workflows, the   *)
(* environment files and the name of a clone.  They share no state, so one    *)
(* run checks them side by side: `part` picks the one that acts, the others   *)
(* rest where they start.                                                     *)
EXTENDS LiveRestore, Drill, LocalSetup, ServerOps, Provision, Rename

CONSTANTS t1, t2, s1, s2, j1, j2, avatars, invoices

MCTables == {t1, t2}
MCSizes == {0, 1, 20}
MCSetups == {s1, s2}
MCJobs == {j1, j2}
MCPaths == {avatars, invoices}

VARIABLE part

operatorVars == <<part, vars, trialVars, setupVars, opsVars, provisionVars, renameVars>>

\* A part that rests starts in one of its initial states only.
OperatorInit ==
    /\ part \in {"restore", "drill", "setup", "ops", "provision", "rename"}
    /\ Init /\ (part # "restore" => connected = {})
    /\ DrillInit /\ (part # "drill" => live = [t \in Tables |-> 0])
    /\ SetupInit /\ (part # "setup" => /\ \A f \in Files : disk[f] = NoFile
                                       /\ templates = Files /\ shell = "none")
    /\ OpsInit /\ (part # "ops" => /\ variables.enabled /\ variables.secret
                                   /\ variables.path = "this"
                                   /\ ~clockOff /\ ~pending /\ accounts["this"] = NoAccount)
    /\ ProvisionInit /\ RenameInit

OperatorNext ==
    \/ /\ part = "restore"
       /\ UNCHANGED <<part, trialVars, setupVars, opsVars, provisionVars, renameVars>>
       /\ Next
    \/ /\ part = "drill"
       /\ UNCHANGED <<part, vars, setupVars, opsVars, provisionVars, renameVars>>
       /\ DrillNext
    \/ /\ part = "setup"
       /\ UNCHANGED <<part, vars, trialVars, opsVars, provisionVars, renameVars>>
       /\ SetupNext
    \/ /\ part = "ops"
       /\ UNCHANGED <<part, vars, trialVars, setupVars, provisionVars, renameVars>>
       /\ OpsNext
    \/ /\ part = "provision"
       /\ UNCHANGED <<part, vars, trialVars, setupVars, opsVars, renameVars>>
       /\ ProvisionNext
    \/ /\ part = "rename"
       /\ UNCHANGED <<part, vars, trialVars, setupVars, opsVars, provisionVars>>
       /\ RenameNext

\* Two tables, two runs of setup and two jobs are interchangeable: which of them is in
\* which state does not matter.
SeenOfTables ==
    {<<live[t], was[t], stored.dump[t], stored.counts[t], restored[t],
       IF scratch = NoDatabase THEN Absent ELSE scratch[t],
       IF compared = NoDatabase THEN Absent ELSE compared[t]>> : t \in Tables}
SeenOfDrill ==
    <<SeenOfTables, changes, drifted, [stored EXCEPT !.dump = Empty, !.counts = Empty], at,
      options, trusted, scratch = NoDatabase, compared = NoDatabase, errors, verdict>>
SeenOfSetup ==
    <<disk, templates, product, shell, edits,
      {<<setup[s], s \in overtaken>> : s \in Setups}>>
SeenOfOps ==
    <<placeVars, pending, deploys, accounts, IF hostLock \in Jobs THEN "job" ELSE hostLock,
      {<<job[j], program[j], hostLock = j, j \in done>> : j \in Jobs}>>

\* The parts that rest do not change.
SeenOfOperator ==
    CASE part = "restore"   -> <<part, vars>>
      [] part = "drill"     -> <<part, SeenOfDrill>>
      [] part = "setup"     -> <<part, SeenOfSetup>>
      [] part = "ops"       -> <<part, SeenOfOps>>
      [] part = "provision" -> <<part, provisionVars>>
      [] part = "rename"    -> <<part, renameVars>>

OperatorSpec == OperatorInit /\ [][OperatorNext]_operatorVars
=============================================================================
