----------------------------- MODULE MCProduction -----------------------------
(***************************************************************************)
(* Model checking of what goes on in production for ever: rollouts and     *)
(* their recovery (Rollout), and the scheduler of the backups (Scheduler). *)
(* They share no state, so one run checks them side by side: `part` picks  *)
(* the one that acts, the other rests where it starts.                     *)
(***************************************************************************)
EXTENDS MCRollout, MCScheduler

VARIABLE part

ProductionInit ==
    /\ part \in {"rollout", "scheduler"}
    /\ RolloutInit /\ (part # "rollout" => \A k \in Kinds : api[k].state # "stopped")
    /\ Init /\ (part # "scheduler" => env = Basic /\ files = {})

ProductionNext ==
    \/ part = "rollout" /\ RolloutNext /\ UNCHANGED <<part, vars>>
    \/ part = "scheduler" /\ Next /\ UNCHANGED <<part, rolloutVars>>

ProductionSpec == ProductionInit /\ [][ProductionNext]_<<part, vars, rolloutVars>>

\* No fair step of a rollout is enabled where Rollout rests; time would pass where Scheduler
\* does.
FairProductionSpec ==
    /\ ProductionSpec
    /\ RolloutFairness
    /\ part = "scheduler" => Fairness
=============================================================================
