----------------------------- MODULE MCMigrations -----------------------------
(* A small instance of Migrations for TLC.                                  *)
EXTENDS Migrations, TLC

CONSTANTS m1, m2

\* The last release before 1.1.0 ships migration 1, 1.1.0 adds 2, 1.2.0 adds 5:
\* 3 can be the product's when 1.1.0 comes out, 4 afterwards.
MCKit == (0 :> {1}) @@ (1 :> {1, 2}) @@ (2 :> {1, 2, 5})
MCLastRelease == 2
MCTimes == 1..5
MCUpgrade == 4
MCMaxBuilds == 2
MCMaxLimbo == 1
MCMigrators == {m1, m2}

\* The repository never reads the database, and a migrator reads nothing of the
\* repository but the builds shipped, which only grow: every behaviour has the
\* same deploys when what the developers did is moved before the first of them.
Deploying == lock # NONE \/ outcome.build # NoBuild
RepositoryFirst == Deploying => UNCHANGED repoVars

\* One commit lands after its migrator is gone.
OneOutlives == "outlived" \in marks => limbo' \subseteq limbo

\* ... and from then on only the builds matter.  Which migrator is at work does not, nor of
\* a refused run what it was refused for: no step reads it, and whether it is wrong to
\* refuse it can only be answered by no later on.
Seen ==
    IF Deploying
      THEN <<shipped, db, ran, limbo, marks, {mig[m] : m \in Migrators},
             IF lock = NONE THEN Idle ELSE mig[lock],
             IF outcome.code = 0 THEN outcome.build ELSE NoBuild, outcome.code, RefusedForKit>>
      ELSE <<vars>>
=============================================================================
