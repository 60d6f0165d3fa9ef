------------------------------ MODULE MCRollout ------------------------------
(***************************************************************************)
(* Model checking of Rollout: the migrations each release brings.          *)
(***************************************************************************)
EXTENDS Rollout

\* Two migrations come with release 2 and one with release 3.
TwoThenOne == [r \in Releases \union {NoRelease} |-> IF r = 0 THEN 0 ELSE IF r = 1 THEN 1
                                                      ELSE IF r = 2 THEN 3 ELSE 4]

\* Every release brings one migration.
OneEach == [r \in Releases \union {NoRelease} |-> r]
=============================================================================
