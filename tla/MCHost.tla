-------------------------------- MODULE MCHost --------------------------------
(***************************************************************************)
(* Model checking of what runs on a host: its rollouts (Rollout) and its   *)
(* backups (BackupStore).  They hold locks of their own and share no       *)
(* state, so one run checks them side by side: `part` picks the one that   *)
(* acts, the other rests where it starts.                                  *)
(***************************************************************************)
EXTENDS MCRollout, MCBackupStore

VARIABLE part

HostInit ==
    /\ part \in {"rollout", "store"}
    /\ RolloutInit /\ (part # "rollout" => \A k \in Kinds : api[k].state # "stopped")
    /\ Init

HostNext ==
    \/ part = "rollout" /\ RolloutNext /\ UNCHANGED <<part, vars>>
    \/ part = "store" /\ Next /\ UNCHANGED <<part, rolloutVars>>

HostSpec == HostInit /\ [][HostNext]_<<part, vars, rolloutVars>>
=============================================================================
