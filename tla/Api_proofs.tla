------------------------------- MODULE Api_proofs -------------------------------
(***************************************************************************)
(* What holds of the parts of apps/api for every value of their constants: *)
(* the migrator and the two histories it keeps, the process that starts,   *)
(* answers its probes and shuts down, and the limiters in front of the     *)
(* procedures.  The parts share no state; each has its own invariant.      *)
(***************************************************************************)
EXTENDS Migrations, ApiProcess, RateLimit, FiniteSetTheorems, WellFoundedInduction, TLAPS

-----------------------------------------------------------------------------
(***************************************************************************)
(* MIGRATIONS                                                              *)
(***************************************************************************)
-----------------------------------------------------------------------------
(* Finite sets of naturals                                                 *)

\* Of the sets of what lies above an element, a smallest one is empty.
LEMMA FiniteHasMax ==
    ASSUME NEW S, IsFiniteSet(S), S \subseteq Nat, S # {}
    PROVE  \E w \in S : \A v \in S : v <= w
  <1> DEFINE Above(w) == {v \in S : v > w}
             T == {Above(w) : w \in S}
  <1>1. T \subseteq FiniteSubsetsOf(S) /\ T # {}
    <2>1. ASSUME NEW w \in S PROVE Above(w) \in FiniteSubsetsOf(S)
      <3>1. Above(w) \in SUBSET S
        OBVIOUS
      <3> QED  BY <3>1, FS_Subset DEF FiniteSubsetsOf
    <2> QED  BY <2>1
  <1>2. PICK x \in T : \A y \in T : ~ (<<y, x>> \in StrictSubsetOrdering(S))
    <2> HIDE DEF T
    <2> QED  BY <1>1, FS_StrictSubsetOrderingWellFounded, WFMin
  <1>3. PICK w \in S : x = Above(w)
    OBVIOUS
  <1>4. ASSUME NEW v \in S, ~(v <= w) PROVE FALSE
    <2>1. v > w /\ v \in Nat /\ w \in Nat
      BY <1>4
    <2>2. v \in Above(w) /\ v \notin Above(v)
      BY <2>1
    <2>3. ASSUME NEW u \in S, u > v PROVE u > w
      BY <2>1, <2>3
    <2>4. Above(v) \subseteq Above(w)
      BY <2>3
    <2>5. <<Above(v), Above(w)>> \in StrictSubsetOrdering(S)
      BY <2>2, <2>4 DEF StrictSubsetOrdering
    <2> QED  BY <1>2, <1>3, <2>5
  <1> QED  BY <1>4

LEMMA NewestIsMax ==
    ASSUME NEW S \in SUBSET Times
    PROVE  /\ Newest(S) \in Nat
           /\ \A v \in S : v <= Newest(S)
           /\ S # {} => Newest(S) \in S
  <1>1. IsFiniteSet(S) /\ S \subseteq Nat
    BY BoundsAssumption, FS_Subset
  <1>2. CASE S = {}
    BY <1>2 DEF Newest
  <1>3. CASE S # {}
    <2>1. \E w \in S : \A v \in S : v <= w
      BY <1>1, <1>3, FiniteHasMax
    <2>2. /\ (CHOOSE w \in S : \A v \in S : v <= w) \in S
          /\ \A v \in S : v <= (CHOOSE w \in S : \A u \in S : u <= w)
      BY <2>1
    <2> QED  BY <1>1, <1>3, <2>2 DEF Newest
  <1> QED  BY <1>2, <1>3

-----------------------------------------------------------------------------
(* Types                                                                   *)

LEMMA InitTypeOK == Init => TypeOK
  <1> SUFFICES ASSUME Init PROVE TypeOK
    OBVIOUS
  <1>1. PICK mine \in SUBSET {w \in Times \ Released : w < Upgrade} :
          /\ head = [kit |-> Kit[0] \union mine, product |-> {}, loose |-> {}, at |-> 0]
          /\ authored = mine
    BY DEF Init
  <1>2. 0 \in Releases /\ Kit[0] \subseteq Times /\ Upgrade \in Nat
    BY KitAssumption, BoundsAssumption DEF Releases
  <1>3. head \in Tree
    BY <1>1, <1>2 DEF Tree
  <1>4. db \in [kit : SUBSET Times, product : SUBSET Times, tables : SUBSET Homes]
    BY <1>3 DEF Init, Tree, Homes
  <1>5. ran \in [Times -> 0..2]
    BY DEF Init
  <1>6. mig \in [Migrators -> [pc : Steps, build : Build, seen : Nat]]
    BY DEF Init, Idle, Steps, Build, NoBuild
  <1>7. \A m \in Migrators : mig[m].pc \in Locked <=> lock = m
    BY MigratorsAssumption DEF Init, Idle, Locked
  <1>8. outcome \in [build : Build, code : {0, 1}, pending : SUBSET Times]
    BY DEF Init, NoBuild, Build
  <1> QED  BY <1>1, <1>2, <1>3, <1>4, <1>5, <1>6, <1>7, <1>8 DEF Init, TypeOK

\* The repository's steps leave the database alone, and keep every tree a tree.
LEMMA RepositoryTypes ==
    ASSUME TypeOK, Repository
    PROVE  /\ UNCHANGED dbVars
           /\ now' \in Nat /\ head' \in Tree
           /\ work' \in Tree \union {NONE} /\ prior' \in Tree \union {NONE}
           /\ merging' \in Releases
           /\ drafts' \subseteq [when : Times, home : Homes]
           /\ authored' \subseteq Times /\ shipped' \subseteq Build
  <1> USE DEF TypeOK
  <1>0. /\ \A r \in Releases : Kit[r] \subseteq Times
        /\ 0 \in Releases /\ head.at \in Releases
        /\ \A w \in Times : w \in Nat
        /\ now + 1 \in Nat
    BY KitAssumption, BoundsAssumption DEF Releases, Tree
  <1>1. ASSUME NEW where \in {"nowhere", "main", "branch"}, Generate(where)
        PROVE  /\ UNCHANGED dbVars
               /\ now' \in Nat /\ head' \in Tree
               /\ work' \in Tree \union {NONE} /\ prior' \in Tree \union {NONE}
               /\ merging' \in Releases
               /\ drafts' \subseteq [when : Times, home : Homes]
               /\ authored' \subseteq Times /\ shipped' \subseteq Build
    <2>1. now \in Times => Add(head, now, Home) \in Tree
      BY <1>0 DEF Add, Tree
    <2>2. Home \in Homes
      BY DEF Home, Homes
    <2>3. now \in Times => [when |-> now, home |-> Home] \in [when : Times, home : Homes]
      BY <2>2
    <2> QED  BY <1>0, <1>1, <2>1, <2>3 DEF Generate
  <1>2. ASSUME NEW draft \in drafts, MergeBranch(draft)
        PROVE  /\ UNCHANGED dbVars
               /\ now' \in Nat /\ head' \in Tree
               /\ work' \in Tree \union {NONE} /\ prior' \in Tree \union {NONE}
               /\ merging' \in Releases
               /\ drafts' \subseteq [when : Times, home : Homes]
               /\ authored' \subseteq Times /\ shipped' \subseteq Build
    BY <1>0, <1>2 DEF MergeBranch, Add, Tree, Homes
  <1>3. ASSUME NEW r \in Releases, OpenMerge(r) PROVE UNCHANGED <<dbVars, now, head, work, prior,
                  drafts, authored, shipped>> /\ merging' \in Releases
    BY <1>3 DEF OpenMerge
  <1>4. ASSUME NEW how \in {"both", "theirs"}, Resolve(how)
        PROVE  /\ UNCHANGED <<dbVars, now, work, drafts, authored, shipped>>
               /\ head' \in Tree /\ prior' \in Tree /\ merging' \in Releases
    BY <1>0, <1>4 DEF Resolve, Tree
  <1>5. ASSUME Abandon \/ Commit \/ UndoMerge \/ Ship
        PROVE  /\ UNCHANGED <<dbVars, now, drafts, authored>>
               /\ head' \in Tree /\ shipped' \subseteq Build
               /\ work' \in Tree \union {NONE} /\ prior' \in Tree \union {NONE}
               /\ merging' \in Releases
    <2>1. CASE Abandon
      BY <1>0, <2>1 DEF Abandon
    <2>2. CASE Commit
      BY <1>0, <2>2 DEF Commit, Tree
    <2>3. CASE UndoMerge
      BY <1>0, <2>3 DEF UndoMerge
    <2>4. CASE Ship
      BY <1>0, <2>4 DEF Ship, BuildOf, Build, Tree
    <2> QED  BY <1>5, <2>1, <2>2, <2>3, <2>4
  <1>6. ASSUME NEW w \in Times, NEW copied \in BOOLEAN, MoveByHand(w, copied)
        PROVE  /\ UNCHANGED <<dbVars, now, work, merging, drafts, authored, shipped>>
               /\ head' \in Tree /\ prior' = NONE
    BY <1>0, <1>6 DEF MoveByHand, Tree
  <1>7. ASSUME NEW given \in Releases \union {NONE}, moveProductMigrations(given)
        PROVE  /\ UNCHANGED <<dbVars, now, head, merging, prior, drafts, authored, shipped>>
               /\ work' \in Tree
    <2>1. RefOf(given) \in Releases /\ Journaled \in SUBSET Times
      BY <1>7 DEF RefOf, Journaled, Tree
    <2> QED  BY <1>0, <1>7, <2>1 DEF moveProductMigrations, MovedTree, Mine, Tree
  <1> QED  BY <1>0, <1>1, <1>2, <1>3, <1>4, <1>5, <1>6, <1>7 DEF Repository

LEMMA AppliedTypes ==
    ASSUME TypeOK, NEW home \in Homes, NEW todo \in SUBSET Times, Applied(home, todo)
    PROVE  /\ db' \in [kit : SUBSET Times, product : SUBSET Times, tables : SUBSET Homes]
           /\ ran' \in [Times -> 0..2]
           /\ db'.kit = (IF home = "kit" THEN db.kit \union todo ELSE db.kit)
           /\ db'.product = (IF home = "product" THEN db.product \union todo ELSE db.product)
           /\ db'.tables = db.tables
           /\ \A w \in Times : /\ w \notin todo => ran'[w] = ran[w]
                               /\ ran'[w] >= ran[w]
                               /\ w \in todo => ran'[w] > 0
                               /\ w \in todo /\ ran[w] = 0 => ran'[w] = 1
  <1>1. CASE home = "kit"
    BY <1>1 DEF TypeOK, Applied
  <1>2. CASE home = "product"
    BY <1>2 DEF TypeOK, Applied
  <1> QED  BY <1>1, <1>2 DEF Homes

LEMMA NewerTypes ==
    ASSUME TypeOK, NEW m \in Migrators, NEW home \in Homes
    PROVE  Newer(m, home) \in SUBSET Times /\ db[home] \in SUBSET Times
  <1>1. CASE home = "kit"
    BY <1>1 DEF TypeOK, Newer, Build
  <1>2. CASE home = "product"
    BY <1>2 DEF TypeOK, Newer, Build
  <1> QED  BY <1>1, <1>2 DEF Homes

LEMMA MigratorTypes ==
    ASSUME TypeOK, NEW m \in Migrators, Migrator(m)
    PROVE  TypeOK'
  <1>0. /\ UNCHANGED repoVars
        /\ NONE \notin Migrators /\ mig[m] \in [pc : Steps, build : Build, seen : Nat]
        /\ Idle \in [pc : Steps, build : Build, seen : Nat]
    BY MigratorsAssumption DEF Migrator, TypeOK, Idle, NoBuild, Build, Steps
  <1> USE <1>0 DEF TypeOK
  <1>1. CASE TakeLock(m)
    <2>1. PICK build \in shipped :
            mig' = [mig EXCEPT ![m] = [Idle EXCEPT !.pc = "rehoming", !.build = build]]
      BY <1>1 DEF TakeLock
    <2>2. [Idle EXCEPT !.pc = "rehoming", !.build = build]
            \in [pc : Steps, build : Build, seen : Nat]
      BY DEF Steps, Locked
    <2>3. mig' \in [Migrators -> [pc : Steps, build : Build, seen : Nat]]
      BY <2>1, <2>2
    <2>4. \A k \in Migrators : mig'[k].pc \in Locked <=> lock' = k
      <3>1. mig'[m].pc = "rehoming"
        BY <2>1 DEF Idle
      <3>2. lock' = m /\ lock = NONE
        BY <1>1 DEF TakeLock
      <3> QED  BY <2>1, <3>1, <3>2 DEF Locked
    <2>5. marks' \subseteq {"relisted", "outlived", "overtaken"}
      BY <1>1 DEF TakeLock
    <2> QED  BY <1>1, <2>3, <2>4, <2>5 DEF TakeLock, repoVars
  <1>2. CASE rehomeProductMigrations(m)
    <2>1. mig[m].build.kit \subseteq Times /\ mig[m].build.product \subseteq Times
      BY DEF Build
    <2>2. db' \in [kit : SUBSET Times, product : SUBSET Times, tables : SUBSET Homes]
      BY <1>2, <2>1 DEF rehomeProductMigrations, Rehomed, Homes
    <2>3. CASE End(m, 1, {})
      BY <1>2, <2>2, <2>3 DEF rehomeProductMigrations, Steps, Locked, Idle, repoVars, End
    <2>4. CASE Go(m, "kit") /\ UNCHANGED <<lock, outcome>>
      BY <1>2, <2>2, <2>4 DEF rehomeProductMigrations, Steps, Locked, repoVars, Go
    <2> QED  BY <1>2, <2>3, <2>4 DEF rehomeProductMigrations
  <1>3. ASSUME NEW home \in Homes, ReadNewest(m, home) PROVE TypeOK'
    <2>1. Newest(db[home]) \in Nat
      BY NewerTypes, NewestIsMax
    <2>2. db' \in [kit : SUBSET Times, product : SUBSET Times, tables : SUBSET Homes]
      BY <1>3 DEF ReadNewest
    <2>3. Applying(home) \in Locked /\ home \in Locked /\ Locked \subseteq Steps
      BY DEF Applying, Homes, Locked, Steps
    <2>4. mig' = [mig EXCEPT ![m].seen = Newest(db[home]), ![m].pc = Applying(home)]
      BY <1>3 DEF ReadNewest
    <2>5. mig' \in [Migrators -> [pc : Steps, build : Build, seen : Nat]]
      BY <2>1, <2>3, <2>4
    <2>6. \A k \in Migrators : mig'[k].pc \in Locked <=> lock = k
      BY <1>3, <2>3, <2>4 DEF ReadNewest
    <2> QED  BY <1>3, <2>2, <2>5, <2>6 DEF ReadNewest, repoVars
  <1>4. ASSUME NEW home \in Homes, Apply(m, home) PROVE TypeOK'
    <2>1. CASE Applied(home, Newer(m, home))
               /\ marks' = (IF Overtakes(m, home) THEN marks \union {"overtaken"} ELSE marks)
               /\ Go(m, IF home = "kit" THEN "product" ELSE "verifying")
               /\ UNCHANGED <<lock, outcome>>
      <3>1. /\ db' \in [kit : SUBSET Times, product : SUBSET Times, tables : SUBSET Homes]
            /\ ran' \in [Times -> 0..2]
        BY <2>1, NewerTypes, AppliedTypes
      <3> QED  BY <1>4, <2>1, <3>1 DEF Apply, Steps, Locked, Idle, repoVars, Go, Homes, Applying
    <2>2. CASE End(m, 1, {}) /\ UNCHANGED <<db, ran, marks>>
      BY <1>4, <2>2 DEF Apply, Steps, Locked, Idle, repoVars, End, Homes, Applying
    <2> QED  BY <1>4, <2>1, <2>2 DEF Apply
  <1>5. CASE Verify(m)
    <2>1. UNION {Pending(mig[m].build, home) : home \in Homes} \subseteq Times
      <3>1. Pending(mig[m].build, "kit") \subseteq Times
            /\ Pending(mig[m].build, "product") \subseteq Times
        BY DEF Pending, Build
      <3> QED  BY <3>1 DEF Homes
    <2> QED  BY <1>5, <2>1 DEF Verify, Steps, Locked, Idle, repoVars, End
  <1>6. CASE Kill(m)
    <2>1. limbo' \subseteq [home : Homes, todo : SUBSET Times]
      BY <1>6, NewerTypes DEF Kill
    <2> QED  BY <1>6, <2>1 DEF Kill, Steps, Locked, Idle, repoVars, End
  <1> QED  BY <1>1, <1>2, <1>3, <1>4, <1>5, <1>6 DEF Migrator

LEMMA NextTypeOK == TypeOK /\ [Next]_vars => TypeOK'
  <1> SUFFICES ASSUME TypeOK, [Next]_vars PROVE TypeOK'
    OBVIOUS
  <1>1. CASE Repository
    BY <1>1, RepositoryTypes DEF TypeOK, dbVars
  <1>2. ASSUME NEW m \in Migrators, Migrator(m) PROVE TypeOK'
    BY <1>2, MigratorTypes
  <1>3. ASSUME NEW t \in limbo, Land(t), UNCHANGED repoVars PROVE TypeOK'
    <2>1. t.home \in Homes /\ t.todo \in SUBSET Times
      BY DEF TypeOK
    <2>2. /\ db' \in [kit : SUBSET Times, product : SUBSET Times, tables : SUBSET Homes]
          /\ ran' \in [Times -> 0..2]
      BY <1>3, <2>1, AppliedTypes DEF Land, TypeOK
    <2> QED  BY <1>3, <2>2 DEF Land, TypeOK, repoVars
  <1>4. CASE UNCHANGED vars
    BY <1>4 DEF TypeOK, vars
  <1> QED  BY <1>1, <1>2, <1>3, <1>4 DEF Next

\* The repository, the database and the migrators keep their shape.
THEOREM MigrationTypesHold == Spec => []TypeOK
  <1> QED  BY InitTypeOK, NextTypeOK, PTL DEF Spec

-----------------------------------------------------------------------------
(* The product's repository                                                *)

Lists(tree) == tree.kit \union tree.product \union tree.loose

\* A tree lists every migration that reached main, and lists it by release: of the
\* releases' migrations its kit journal has those of the release it is at, and its
\* product journal none.
Holds(tree) == authored \subseteq Lists(tree)
Sorted(tree, r) == tree.kit \intersect Released = Kit[r] /\ tree.product \intersect Released = {}

\* What the move tool staged is at the release whose merge is open.
StagedAt == IF merging > 0 THEN merging ELSE head.at

TreesHold ==
    /\ Holds(head)
    /\ work # NONE => Holds(work) /\ head.product \subseteq work.product
    /\ prior # NONE => Holds(prior)

TreesSorted ==
    /\ Sorted(head, head.at) /\ authored \intersect Released = {}
    /\ merging > 0 => merging >= head.at
    /\ work # NONE => Sorted(work, StagedAt) /\ work.at = head.at
    /\ prior # NONE => Sorted(prior, prior.at)
    /\ \A draft \in drafts : draft.when \notin Released
    /\ \A build \in shipped : \E r \in Releases : Sorted(build, r)

-----------------------------------------------------------------------------
(* The database and its migrators                                          *)

\* What was recorded has run, and only that.
RowsMatch == \A w \in Times : ran[w] > 0 <=> w \in db.kit \union db.product

\* Rows are in tables that are there, or on their way to them.
TablesThere ==
    /\ db.kit # {} => "kit" \in db.tables
    /\ db.product # {} => "product" \in db.tables
    /\ \A m \in Migrators, home \in Homes : mig[m].pc = Applying(home) => home \in db.tables
    /\ \A t \in limbo : t.home \in db.tables

PastRehoming == Locked \ {"rehoming"}
PastKit == {"product", "applyingProduct", "verifying"}

\* What holds of the build of the migrator under the lock, from step to step.
Apart(m) ==
    LET build == mig[m].build
    IN  /\ mig[m].pc \in PastRehoming => Shared(build) = {}
        /\ mig[m].pc \in Locked /\ marks \intersect {"relisted", "outlived"} = {} =>
               build.kit \intersect db.product = {}
        /\ mig[m].pc \in PastRehoming /\ "outlived" \notin marks =>
               build.product \intersect db.kit = {}
        /\ \A home \in Homes : mig[m].pc = Applying(home) /\ "outlived" \notin marks =>
               mig[m].seen = Newest(db[home])
        /\ mig[m].pc \in Locked => build \in shipped

MigratorsApart == \A m \in Migrators : Apart(m)

\* Without an overtaking the releases' migrations were applied in their order ...
KitInOrder ==
    marks \intersect {"overtaken", "outlived"} = {} =>
        \A v \in db.kit \intersect Released, w \in Released : w < v => w \in db.kit

\* ... and past the kit's journal it is there, unless the build is not clean.
KitApplied(m) ==
    marks \intersect {"overtaken", "outlived"} = {} /\ mig[m].pc \in PastKit =>
        LET build == mig[m].build
        IN  \/ build.kit \subseteq db.kit
            \/ ~(build.kit \subseteq Released)
            \/ \E v \in db.kit \ Released : v \notin build.product
-----------------------------------------------------------------------------
(* No migration is lost                                                    *)

LEMMA InitTrees == Init => TreesHold /\ TreesSorted
  <1> SUFFICES ASSUME Init PROVE TreesHold /\ TreesSorted
    OBVIOUS
  <1>1. PICK mine \in SUBSET {w \in Times \ Released : w < Upgrade} :
          /\ head = [kit |-> Kit[0] \union mine, product |-> {}, loose |-> {}, at |-> 0]
          /\ authored = mine
    BY DEF Init
  <1>2. Kit[0] \subseteq Released
    BY KitAssumption DEF Released, Releases
  <1> QED  BY <1>1, <1>2 DEF Init, TreesHold, TreesSorted, Holds, Lists, Sorted

LEMMA NextHolds == TypeOK /\ TreesHold /\ [Next]_vars => TreesHold'
  <1> SUFFICES ASSUME TypeOK, TreesHold, [Next]_vars PROVE TreesHold'
    OBVIOUS
  <1> USE DEF TreesHold, Holds, Lists
  <1>0. head \in Tree
    BY DEF TypeOK
  <1>1. CASE Repository
    <2>1. ASSUME NEW where \in {"nowhere", "main", "branch"}, Generate(where) PROVE TreesHold'
      <3>1. work = NONE /\ work' = NONE
        BY <2>1 DEF Generate, Settled
      <3>2. Lists(head) \subseteq Lists(head') /\ authored' \ authored \subseteq Lists(head')
        <4>1. CASE head' = head /\ authored' = authored
          BY <4>1
        <4>2. CASE head' = Add(head, now, Home) /\ authored' = authored \union {now}
          BY <1>0, <4>2 DEF Add, Tree
        <4> QED  BY <2>1, <4>1, <4>2 DEF Generate
      <3>3. prior' = NONE \/ (prior' = prior /\ authored' = authored)
        BY <2>1 DEF Generate
      <3> QED  BY <3>1, <3>2, <3>3
    <2>2. ASSUME NEW draft \in drafts, MergeBranch(draft) PROVE TreesHold'
      BY <1>0, <2>2 DEF MergeBranch, Settled, Add, Tree
    <2>3. ASSUME NEW r \in Releases, OpenMerge(r) PROVE TreesHold'
      BY <2>3 DEF OpenMerge
    <2>4. ASSUME NEW how \in {"both", "theirs"}, Resolve(how) PROVE TreesHold'
      BY <1>0, <2>4 DEF Resolve, Tree
    <2>5. CASE Abandon
      BY <2>5 DEF Abandon
    <2>6. CASE Commit
      <3>1. work \in Tree
        BY <2>6 DEF Commit, TypeOK
      <3> QED  BY <2>6, <3>1 DEF Commit, Tree
    <2>7. CASE UndoMerge
      BY <2>7 DEF UndoMerge, Settled
    <2>8. ASSUME NEW w \in Times, NEW copied \in BOOLEAN, MoveByHand(w, copied)
          PROVE  TreesHold'
      BY <1>0, <2>8 DEF MoveByHand, Settled, Tree
    <2>9. ASSUME NEW given \in Releases \union {NONE}, moveProductMigrations(given)
          PROVE  TreesHold'
      <3>1. PICK ref : work' = MovedTree(ref) /\ ~MoveRefused(ref)
        BY <2>9 DEF moveProductMigrations
      <3>2. /\ work'.kit = Kit[ref] /\ work'.product = Journaled \union Mine(ref)
            /\ head.loose \subseteq head.kit
        BY <1>0, <3>1 DEF MovedTree, MoveRefused, Orphans, Tree
      <3>3. head.product \subseteq Journaled
        BY DEF Journaled
      <3>4. Lists(head) \subseteq Lists(work')
        BY <3>2, <3>3 DEF Mine
      <3> QED  BY <2>9, <3>2, <3>3, <3>4 DEF moveProductMigrations
    <2>10. CASE Ship
      BY <2>10 DEF Ship
    <2>11. head.at \in Releases
      BY <1>0 DEF Tree
    <2> QED  BY <1>1, <2>1, <2>2, <2>3, <2>4, <2>5, <2>6, <2>7, <2>8, <2>9, <2>10, <2>11
             DEF Repository
  <1>2. CASE UNCHANGED repoVars
    BY <1>2 DEF repoVars
  <1> QED  BY <1>1, <1>2 DEF Next, Migrator, vars, repoVars

\* No merge, however it is resolved, no run of the move tool and nothing a
\* developer does after it refused takes a migration of the product out of the
\* tree: it stays in a journal or in a file.
THEOREM MigrationsAreKept == Spec => []NoMigrationIsLost
  <1>1. TreesHold => NoMigrationIsLost
    BY DEF TreesHold, Holds, Lists, NoMigrationIsLost
  <1> QED  BY <1>1, InitTypeOK, NextTypeOK, InitTrees, NextHolds, PTL DEF Spec

-----------------------------------------------------------------------------
(* Exit 0                                                                  *)

\* What a step does to the rows, whoever takes it: it applies some migrations
\* to a table, moves rows from the kit's to the product's, or touches none.
MovesRows(product) ==
    /\ db'.kit = db.kit \ product
    /\ db'.product = db.product \union (db.kit \intersect product)
    /\ db'.tables = db.tables \union {"product"} /\ ran' = ran

KeepsRows ==
    /\ db'.kit = db.kit /\ db'.product = db.product /\ db.tables \subseteq db'.tables
    /\ ran' = ran

LEMMA RowSteps ==
    ASSUME TypeOK, [Next]_vars
    PROVE  \/ \E home \in Homes : \E todo \in SUBSET Times : Applied(home, todo)
           \/ \E product \in SUBSET Times : MovesRows(product)
           \/ KeepsRows
  <1> USE DEF TypeOK
  <1>1. CASE Repository
    BY <1>1, RepositoryTypes DEF dbVars, KeepsRows
  <1>2. ASSUME NEW m \in Migrators, Migrator(m)
        PROVE  \/ \E home \in Homes : \E todo \in SUBSET Times : Applied(home, todo)
               \/ \E product \in SUBSET Times : MovesRows(product)
               \/ KeepsRows
    <2>1. CASE TakeLock(m) \/ Verify(m) \/ Kill(m)
      BY <2>1 DEF TakeLock, Verify, Kill, KeepsRows
    <2>2. CASE rehomeProductMigrations(m)
      <3>1. mig[m].build.product \in SUBSET Times
        BY DEF Build
      <3>2. db' = db \/ db' = Rehomed(mig[m].build)
        BY <2>2 DEF rehomeProductMigrations
      <3>3. ran' = ran
        BY <2>2 DEF rehomeProductMigrations
      <3>4. CASE db' = db
        BY <3>3, <3>4 DEF KeepsRows
      <3>5. CASE db' = Rehomed(mig[m].build)
        <4>1. MovesRows(mig[m].build.product)
          BY <3>3, <3>5 DEF Rehomed, MovesRows
        <4> QED  BY <3>1, <4>1
      <3> QED  BY <3>2, <3>4, <3>5
    <2>3. ASSUME NEW home \in Homes, ReadNewest(m, home) PROVE KeepsRows
      BY <2>3 DEF ReadNewest, KeepsRows
    <2>4. ASSUME NEW home \in Homes, Apply(m, home)
          PROVE  Applied(home, Newer(m, home)) \/ KeepsRows
      BY <2>4 DEF Apply, KeepsRows
    <2> QED  BY <1>2, <2>1, <2>2, <2>3, <2>4, NewerTypes DEF Migrator
  <1>3. ASSUME NEW t \in limbo, Land(t)
        PROVE  KeepsRows \/ (t.home \in Homes /\ t.todo \in SUBSET Times /\ Applied(t.home, t.todo))
    BY <1>3 DEF Land, KeepsRows
  <1>4. CASE UNCHANGED vars
    BY <1>4 DEF vars, KeepsRows
  <1> QED  BY <1>1, <1>2, <1>3, <1>4 DEF Next

LEMMA InitRows == Init => RowsMatch /\ TablesThere
  <1> SUFFICES ASSUME Init PROVE RowsMatch /\ TablesThere
    OBVIOUS
  <1>1. PICK t : db = [kit |-> {w \in head.kit : w <= t}, product |-> {},
               tables |-> IF {w \in head.kit : w <= t} = {} THEN {} ELSE {"kit"}]
    BY DEF Init
  <1>2. ran = [w \in Times |-> IF w \in db.kit THEN 1 ELSE 0]
    BY DEF Init
  <1>3. \A m \in Migrators : mig[m].pc = "idle"
    BY DEF Init, Idle
  <1>4. limbo = {} /\ \A w \in Times : ran[w] > 0 <=> w \in db.kit
    BY <1>2 DEF Init
  <1> QED  BY <1>1, <1>3, <1>4 DEF RowsMatch, TablesThere, Homes, Applying

LEMMA NextRows ==
    ASSUME TypeOK, RowsMatch, [Next]_vars
    PROVE  /\ RowsMatch'
           /\ db.kit \union db.product \subseteq db'.kit \union db'.product
           /\ \A w \in Times : ran[w] > 0 => ran'[w] > 0
  <1> USE DEF RowsMatch
  <1>1. ASSUME NEW home \in Homes, NEW todo \in SUBSET Times, Applied(home, todo)
        PROVE  /\ RowsMatch'
               /\ db.kit \union db.product \subseteq db'.kit \union db'.product
               /\ \A w \in Times : ran[w] > 0 => ran'[w] > 0
    <2>1. ran \in [Times -> 0..2] /\ ran' \in [Times -> 0..2]
      BY <1>1, AppliedTypes DEF TypeOK
    <2>2. ASSUME NEW w \in Times PROVE ran'[w] > 0 <=> ran[w] > 0 \/ w \in todo
      <3>1. ran[w] \in 0..2 /\ ran'[w] \in 0..2
        BY <2>1
      <3>2. ran'[w] >= ran[w] /\ (w \notin todo => ran'[w] = ran[w])
            /\ (w \in todo => ran'[w] > 0)
        BY <1>1, AppliedTypes
      <3> QED  BY <3>1, <3>2
    <2>3. db'.kit \union db'.product = db.kit \union db.product \union todo
      BY <1>1, AppliedTypes DEF Homes
    <2> QED  BY <2>2, <2>3
  <1>2. ASSUME NEW product \in SUBSET Times, MovesRows(product)
        PROVE  /\ RowsMatch'
               /\ db.kit \union db.product \subseteq db'.kit \union db'.product
               /\ \A w \in Times : ran[w] > 0 => ran'[w] > 0
    BY <1>2 DEF MovesRows
  <1>3. CASE KeepsRows
    BY <1>3 DEF KeepsRows
  <1> QED  BY <1>1, <1>2, <1>3, RowSteps

LEMMA ApplyingTells ==
    ASSUME NEW g \in Homes, NEW h \in Homes, Applying(g) = Applying(h)
    PROVE  g = h
  <1>1. "applyingKit" # "applyingProduct"
    OBVIOUS
  <1> QED  BY <1>1 DEF Applying, Homes

LEMMA NextTables == TypeOK /\ TablesThere /\ [Next]_vars => TablesThere'
  <1> SUFFICES ASSUME TypeOK, TablesThere, [Next]_vars PROVE TablesThere'
    OBVIOUS
  <1> USE DEF TablesThere
  <1>1. CASE Repository
    BY <1>1, RepositoryTypes DEF dbVars
  <1>2. ASSUME NEW m \in Migrators, Migrator(m) PROVE TablesThere'
    <2>0. mig \in [Migrators -> [pc : Steps, build : Build, seen : Nat]]
          /\ \A home \in Homes :
               Applying(home) \notin {"idle", "rehoming", "kit", "product", "verifying"}
      BY DEF TypeOK, Applying, Homes
    <2>1. CASE TakeLock(m)
      <3>1. mig'[m].pc = "rehoming" /\ \A k \in Migrators : k # m => mig'[k] = mig[k]
        BY <2>0, <2>1 DEF TakeLock, Idle
      <3> QED  BY <2>0, <2>1, <3>1 DEF TakeLock
    <2>2. CASE Verify(m)
      BY <2>0, <2>2 DEF Verify, End, Idle
    <2>3. CASE Kill(m)
      <3>1. mig'[m].pc = "idle" /\ \A k \in Migrators : k # m => mig'[k] = mig[k]
        BY <2>0, <2>3 DEF Kill, End, Idle
      <3>2. \A t \in limbo' : t \in limbo \/ (t.home \in Homes /\ mig[m].pc = Applying(t.home))
        BY <2>3 DEF Kill
      <3> QED  BY <2>0, <2>3, <3>1, <3>2 DEF Kill
    <2>4. CASE rehomeProductMigrations(m)
      <3>1. /\ mig'[m].pc \in {"idle", "kit"}
            /\ \A k \in Migrators : k # m => mig'[k] = mig[k]
        BY <2>0, <2>4 DEF rehomeProductMigrations, End, Go, Idle
      <3>2. db' = db \/ db' = Rehomed(mig[m].build)
        BY <2>4 DEF rehomeProductMigrations
      <3>3. db.tables \subseteq db'.tables
        BY <3>2 DEF Rehomed
      <3>4. (db'.kit # {} => "kit" \in db'.tables) /\ (db'.product # {} => "product" \in db'.tables)
        BY <3>2 DEF Rehomed
      <3> QED  BY <2>0, <2>4, <3>1, <3>3, <3>4 DEF rehomeProductMigrations
    <2>5. ASSUME NEW home \in Homes, ReadNewest(m, home) PROVE TablesThere'
      <3>1. db'.tables = db.tables \union {home} /\ db'.kit = db.kit /\ db'.product = db.product
        BY <2>5 DEF ReadNewest, TypeOK
      <3>2. /\ mig'[m].pc = Applying(home)
            /\ \A k \in Migrators : k # m => mig'[k] = mig[k]
        BY <2>0, <2>5 DEF ReadNewest
      <3>3. \A h \in Homes : Applying(h) = Applying(home) => h = home
        BY ApplyingTells
      <3> QED  BY <2>5, <3>1, <3>2, <3>3 DEF ReadNewest
    <2>6. ASSUME NEW home \in Homes, Apply(m, home) PROVE TablesThere'
      <3>1. home \in db.tables
        BY <2>6 DEF Apply
      <3>2. /\ mig'[m].pc \in {"idle", "product", "verifying"}
            /\ \A k \in Migrators : k # m => mig'[k] = mig[k]
        BY <2>0, <2>6 DEF Apply, End, Go, Idle
      <3>3. /\ db'.tables = db.tables
            /\ db'.kit # {} => db.kit # {} \/ home = "kit"
            /\ db'.product # {} => db.product # {} \/ home = "product"
        <4>1. CASE Applied(home, Newer(m, home))
          BY <4>1, NewerTypes, AppliedTypes
        <4> QED  BY <2>6, <4>1 DEF Apply
      <3> QED  BY <2>0, <2>6, <3>1, <3>2, <3>3 DEF Apply
    <2> QED  BY <1>2, <2>1, <2>2, <2>3, <2>4, <2>5, <2>6 DEF Migrator
  <1>3. ASSUME NEW t \in limbo, Land(t) PROVE TablesThere'
    <2>1. t.home \in Homes /\ t.todo \in SUBSET Times /\ t.home \in db.tables
      BY DEF TypeOK
    <2>2. /\ db'.tables = db.tables
          /\ db'.kit # {} => db.kit # {} \/ t.home = "kit"
          /\ db'.product # {} => db.product # {} \/ t.home = "product"
      <3>1. CASE Applied(t.home, t.todo)
        BY <2>1, <3>1, AppliedTypes
      <3> QED  BY <1>3, <3>1 DEF Land
    <2>3. limbo' \subseteq limbo /\ mig' = mig
      BY <1>3 DEF Land
    <2> QED  BY <2>1, <2>2, <2>3
  <1>4. CASE UNCHANGED vars
    BY <1>4 DEF vars
  <1> QED  BY <1>1, <1>2, <1>3, <1>4 DEF Next

\* What the last run that exited 0 shipped has run and is recorded, and stays so.
THEOREM ExitZeroIsTrue == Spec => []ExitZeroMeansApplied
  <1>1. Init => ExitZeroMeansApplied
    BY DEF Init, ExitZeroMeansApplied, NoBuild
  <1>2. TypeOK /\ RowsMatch /\ ExitZeroMeansApplied /\ [Next]_vars => ExitZeroMeansApplied'
    <2> SUFFICES ASSUME TypeOK, RowsMatch, ExitZeroMeansApplied, [Next]_vars, outcome'.code = 0,
                        NEW w \in outcome'.build.kit \union outcome'.build.product
                 PROVE  ran'[w] > 0 /\ w \in db'.kit \union db'.product
      BY DEF ExitZeroMeansApplied
    <2>1. /\ RowsMatch'
          /\ db.kit \union db.product \subseteq db'.kit \union db'.product
      BY NextRows
    <2>2. w \in db'.kit \union db'.product
      <3>1. CASE outcome' = outcome
        BY <2>1, <3>1 DEF ExitZeroMeansApplied
      <3>2. ASSUME NEW m \in Migrators, Verify(m), outcome' # outcome
            PROVE  w \in db'.kit \union db'.product
        <4>1. UNION {Pending(mig[m].build, home) : home \in Homes} = {}
          BY <3>2 DEF Verify, End
        <4>2. Pending(mig[m].build, "kit") = {} /\ Pending(mig[m].build, "product") = {}
          BY <4>1 DEF Homes
        <4>3. outcome'.build = mig[m].build /\ db' = db
          BY <3>2 DEF Verify, End
        <4> QED  BY <4>2, <4>3 DEF Pending
      <3>3. CASE outcome' # outcome
        <4>1. PICK m \in Migrators : Verify(m)
          <5>0. \A m \in Migrators : ~End(m, 1, {})
            BY DEF End
          <5>1. ~Repository /\ ~UNCHANGED vars /\ \A t \in limbo : ~Land(t)
            BY <3>3, RepositoryTypes DEF dbVars, vars, Land
          <5>2. \A m \in Migrators : ~(TakeLock(m) \/ Kill(m) \/ rehomeProductMigrations(m))
            <6>1. \A m \in Migrators : ~TakeLock(m)
              BY <3>3 DEF TakeLock
            <6> QED  BY <3>3, <5>0, <6>1 DEF Kill, rehomeProductMigrations
          <5>3. \A m \in Migrators, home \in Homes : ~(ReadNewest(m, home) \/ Apply(m, home))
            BY <3>3, <5>0 DEF ReadNewest, Apply
          <5> QED  BY <5>1, <5>2, <5>3 DEF Next, Migrator
        <4> QED  BY <3>2, <3>3, <4>1
      <3> QED  BY <3>1, <3>3
    <2>3. w \in Times
      BY <2>2, NextTypeOK DEF TypeOK
    <2> QED  BY <2>1, <2>2, <2>3 DEF RowsMatch
  <1> DEFINE Inv == TypeOK /\ RowsMatch /\ ExitZeroMeansApplied
  <1>3. Init => Inv
    BY <1>1, InitTypeOK, InitRows
  <1>4. Inv /\ [Next]_vars => Inv'
    BY <1>2, NextTypeOK, NextRows
  <1> QED  BY <1>3, <1>4, PTL DEF Spec

-----------------------------------------------------------------------------
(* Builds are sorted by release                                            *)

LEMMA AddSorted ==
    ASSUME NEW tree \in Tree, NEW w, w \notin Released, NEW home, NEW r, Sorted(tree, r)
    PROVE  Add(tree, w, home).at = tree.at /\ Sorted(Add(tree, w, home), r)
  <1>1. CASE home = "kit"
    BY <1>1 DEF Add, Tree, Sorted
  <1>2. CASE home # "kit"
    BY <1>2 DEF Add, Tree, Sorted
  <1> QED  BY <1>1, <1>2

LEMMA NextSorted == TypeOK /\ TreesSorted /\ [Next]_vars => TreesSorted'
  <1> SUFFICES ASSUME TypeOK, TreesSorted, [Next]_vars PROVE TreesSorted'
    OBVIOUS
  <1> USE DEF TreesSorted
  <1>0. /\ head \in Tree /\ head.at \in Releases /\ merging \in Releases /\ 0 \in Releases
        /\ \A r, s \in Releases : r <= s => Kit[r] \subseteq Kit[s]
        /\ \A r \in Releases : r \in Nat /\ Kit[r] \subseteq Released
    BY KitAssumption DEF TypeOK, Tree, Releases, Released
  <1>1. CASE Repository
    <2>1. ASSUME NEW where \in {"nowhere", "main", "branch"}, Generate(where) PROVE TreesSorted'
      <3>1. work = NONE /\ work' = NONE /\ merging = 0 /\ merging' = 0 /\ shipped' = shipped
        BY <2>1 DEF Generate, Settled
      <3>2. head' = head \/ (now \notin Released /\ head' = Add(head, now, Home))
        BY <2>1 DEF Generate
      <3>3. head'.at = head.at /\ Sorted(head', head'.at)
        <4>1. CASE head' = head
          BY <4>1
        <4>2. CASE now \notin Released /\ head' = Add(head, now, Home)
          BY <1>0, <4>2, AddSorted
        <4> QED  BY <3>2, <4>1, <4>2
      <3>4. authored' = authored \/ (now \notin Released /\ authored' = authored \union {now})
        BY <2>1 DEF Generate
      <3>5. prior' = NONE \/ prior' = prior
        BY <2>1 DEF Generate
      <3>6. \A draft \in drafts' : draft.when \notin Released
        <4>1. drafts' = drafts
              \/ (now \notin Released /\ drafts' = drafts \union {[when |-> now, home |-> Home]})
          BY <2>1 DEF Generate
        <4> QED  BY <4>1
      <3>7. merging' > 0 => merging' >= head'.at
        BY <3>1
      <3> QED  BY <3>1, <3>3, <3>4, <3>5, <3>6, <3>7
    <2>2. ASSUME NEW draft \in drafts, MergeBranch(draft) PROVE TreesSorted'
      <3>1. draft.when \notin Released /\ head' = Add(head, draft.when, draft.home)
        BY <2>2 DEF MergeBranch
      <3>2. head'.at = head.at /\ Sorted(head', head'.at)
        BY <1>0, <3>1, AddSorted
      <3>3. authored' \intersect Released = {} /\ drafts' \subseteq drafts
        BY <2>2, <3>1 DEF MergeBranch
      <3> QED  BY <2>2, <3>2, <3>3 DEF MergeBranch, Settled
    <2>3. ASSUME NEW r \in Releases, OpenMerge(r) PROVE TreesSorted'
      <3>1. r \in Nat /\ head.at \in Nat /\ r > head.at /\ merging' = r /\ head' = head
        BY <1>0, <2>3 DEF OpenMerge
      <3>2. UNCHANGED <<work, prior, drafts, authored, shipped>> /\ work = NONE
        BY <2>3 DEF OpenMerge, Settled
      <3> QED  BY <3>1, <3>2
    <2>4. ASSUME NEW how \in {"both", "theirs"}, Resolve(how) PROVE TreesSorted'
      <3>1. /\ head'.at = merging /\ head'.product = head.product
            /\ head'.kit = Kit[merging] \/ head'.kit = Kit[merging] \union (head.kit \ Kit[merging])
        BY <1>0, <2>4 DEF Resolve, Tree
      <3>2. Kit[head.at] \subseteq Kit[merging] /\ Kit[merging] \subseteq Released
        BY <1>0, <2>4 DEF Resolve
      <3>3. Sorted(head', head'.at)
        BY <3>1, <3>2 DEF Sorted
      <3> QED  BY <2>4, <3>3 DEF Resolve
    <2>5. CASE Abandon
      BY <2>5 DEF Abandon
    <2>6. CASE Commit
      <3>1. work \in Tree
        BY <2>6 DEF Commit, TypeOK
      <3>2. /\ head'.at = StagedAt /\ head'.kit = work.kit /\ head'.product = work.product
        BY <2>6, <3>1 DEF Commit, Tree, StagedAt
      <3> QED  BY <2>6, <3>2 DEF Commit, Sorted
    <2>7. CASE UndoMerge
      BY <2>7 DEF UndoMerge, Settled
    <2>8. ASSUME NEW w \in Times, NEW copied \in BOOLEAN, MoveByHand(w, copied)
          PROVE  TreesSorted'
      <3>1. /\ head'.at = head.at /\ head'.product = head.product \union {w} /\ w \notin Released
            /\ head'.kit = head.kit \/ head'.kit = head.kit \ {w}
        BY <1>0, <2>8 DEF MoveByHand, Tree
      <3> QED  BY <2>8, <3>1 DEF MoveByHand, Settled, Sorted
    <2>9. ASSUME NEW given \in {NONE, head.at}, given = NONE \/ merging = 0,
                 moveProductMigrations(given)
          PROVE  TreesSorted'
      <3>1. RefOf(given) = StagedAt
        BY <1>0, <2>9 DEF RefOf, StagedAt, moveProductMigrations, MoveRefused
      <3>2. /\ work'.kit = Kit[StagedAt] /\ work'.product = Journaled \union Mine(StagedAt)
            /\ work'.at = head.at
        BY <1>0, <2>9, <3>1 DEF moveProductMigrations, MovedTree, Tree
      <3>3. Journaled \intersect Released = {}
        BY DEF Journaled, Sorted
      <3>4. StagedAt \in Releases /\ head.at <= StagedAt
        BY <1>0 DEF StagedAt
      <3>5. Mine(StagedAt) \intersect Released = {} /\ Kit[StagedAt] \subseteq Released
        BY <1>0, <3>4 DEF Mine, Sorted
      <3>6. StagedAt' = StagedAt
        BY <2>9 DEF moveProductMigrations, StagedAt
      <3>7. Sorted(work', StagedAt') /\ work'.at = head'.at
        BY <2>9, <3>2, <3>3, <3>5, <3>6 DEF moveProductMigrations, Sorted
      <3> QED  BY <2>9, <3>7 DEF moveProductMigrations
    <2>10. CASE Ship
      <3>1. Sorted(BuildOf(head), head.at)
        BY DEF BuildOf, Sorted
      <3>2. shipped' = shipped \union {BuildOf(head)} /\ head.at \in Releases
        BY <1>0, <2>10 DEF Ship
      <3>3. \A build \in shipped' : \E r \in Releases : Sorted(build, r)
        BY <3>1, <3>2
      <3> QED  BY <2>10, <3>3 DEF Ship, StagedAt
    <2> QED  BY <1>1, <2>1, <2>2, <2>3, <2>4, <2>5, <2>6, <2>7, <2>8, <2>9, <2>10 DEF Repository
  <1>2. CASE UNCHANGED repoVars
    BY <1>2 DEF repoVars, StagedAt
  <1> QED  BY <1>1, <1>2 DEF Next, Migrator, vars, repoVars

-----------------------------------------------------------------------------
(* The migrator under the lock                                             *)

\* Whoever acts is the one under the lock, before the step or after it.
LEMMA OthersAreIdle ==
    ASSUME TypeOK, NEW m \in Migrators, Migrator(m), NEW k \in Migrators, k # m
    PROVE  mig'[k] = mig[k] /\ mig[k].pc \notin Locked
  <1>1. mig \in [Migrators -> [pc : Steps, build : Build, seen : Nat]] /\ NONE \notin Migrators
    BY MigratorsAssumption DEF TypeOK
  <1>2. mig'[k] = mig[k]
    BY <1>1 DEF Migrator, TakeLock, rehomeProductMigrations, ReadNewest, Apply, Verify, Kill,
         End, Go
  <1>3. TakeLock(m) \/ mig[m].pc \in Locked
    BY DEF Migrator, TakeLock, rehomeProductMigrations, ReadNewest, Apply, Verify, Kill,
         TypeOK, Steps, Locked, Homes, Applying
  <1>4. lock # k
    BY <1>1, <1>3 DEF TakeLock, TypeOK
  <1> QED  BY <1>2, <1>4 DEF TypeOK

LEMMA InitApart == Init => MigratorsApart
  BY DEF Init, MigratorsApart, Apart, Idle, Locked, PastRehoming, Homes, Applying

\* What the step of the one under the lock makes of it.
LEMMA ApartSteps ==
    ASSUME TypeOK, TablesThere, NEW m \in Migrators, Apart(m), Migrator(m)
    PROVE  Apart(m)'
  <1> USE DEF PastRehoming, Locked
  <1>0. /\ mig \in [Migrators -> [pc : Steps, build : Build, seen : Nat]]
        /\ db \in [kit : SUBSET Times, product : SUBSET Times, tables : SUBSET Homes]
        /\ shipped' = shipped
    BY DEF TypeOK, Migrator, repoVars
  <1>1. CASE mig'[m].pc = "idle"
    BY <1>1 DEF Apart, Homes, Applying
  <1>2. CASE TakeLock(m)
    <2>1. PICK build \in shipped :
            /\ mig' = [mig EXCEPT ![m] = [Idle EXCEPT !.pc = "rehoming", !.build = build]]
            /\ marks' = IF build.kit \intersect db.product # {}
                        THEN marks \union {"relisted"} ELSE marks
      BY <1>2 DEF TakeLock
    <2>2. mig'[m].pc = "rehoming" /\ mig'[m].build = build
      BY <1>0, <2>1 DEF Idle
    <2>3. db' = db
      BY <1>2 DEF TakeLock
    <2> QED  BY <1>0, <2>1, <2>2, <2>3 DEF Apart, Homes, Applying
  <1>3. CASE rehomeProductMigrations(m) /\ Go(m, "kit")
    <2>1. /\ mig'[m].pc = "kit" /\ mig'[m].build = mig[m].build /\ mig[m].pc = "rehoming"
          /\ marks' = marks
      BY <1>0, <1>3 DEF rehomeProductMigrations, Go
    <2>2. Shared(mig[m].build) = {}
      BY <1>0, <1>3 DEF rehomeProductMigrations, Go, End, Idle
    <2>3. db' = IF Rehoming(mig[m].build) THEN Rehomed(mig[m].build) ELSE db
      BY <1>0, <1>3 DEF rehomeProductMigrations, Go, End, Idle
    <2>4. mig[m].build.product \intersect db'.kit = {}
      BY <2>3 DEF Rehoming, Rehomed, TablesThere
    <2>5. db'.product \subseteq db.product \union mig[m].build.product
      BY <2>3 DEF Rehomed
    <2> QED  BY <1>0, <2>1, <2>2, <2>4, <2>5 DEF Apart, Shared, Homes, Applying
  <1>4. ASSUME NEW home \in Homes, ReadNewest(m, home) PROVE Apart(m)'
    <2>1. /\ mig'[m].pc = Applying(home) /\ mig'[m].build = mig[m].build
          /\ mig'[m].seen = Newest(db[home]) /\ mig[m].pc = home
          /\ db'.kit = db.kit /\ db'.product = db.product /\ marks' = marks
      BY <1>0, <1>4 DEF ReadNewest
    <2>2. db'[home] = db[home]
      BY <2>1 DEF Homes
    <2>3. \A h \in Homes : Applying(h) = Applying(home) => h = home
      BY ApplyingTells
    <2>4. mig[m].pc \in PastRehoming
      BY <2>1 DEF Homes
    <2> QED  BY <1>0, <2>1, <2>2, <2>3, <2>4 DEF Apart
  <1>5. ASSUME NEW home \in Homes, Apply(m, home), ~End(m, 1, {}) PROVE Apart(m)'
    <2>1. /\ mig'[m].pc \in {"product", "verifying"} /\ mig'[m].build = mig[m].build
          /\ mig[m].pc = Applying(home) /\ Applied(home, Newer(m, home))
          /\ marks \subseteq marks'
      BY <1>0, <1>5 DEF Apply, Go
    <2>2. mig[m].pc \in PastRehoming
      BY <2>1 DEF Homes, Applying
    <2>3. Newer(m, home) \subseteq mig[m].build[home]
      BY DEF Newer
    <2>4. /\ db'.kit = (IF home = "kit" THEN db.kit \union Newer(m, home) ELSE db.kit)
          /\ db'.product = (IF home = "product" THEN db.product \union Newer(m, home)
                            ELSE db.product)
      BY <2>1, NewerTypes, AppliedTypes
    <2>5. Shared(mig[m].build) = {}
      BY <2>2 DEF Apart
    <2>6. \A h \in Homes : mig'[m].pc # Applying(h)
      BY <2>1 DEF Homes, Applying
    <2>7. CASE home = "kit"
      BY <1>0, <2>1, <2>2, <2>3, <2>4, <2>5, <2>6, <2>7 DEF Apart, Shared
    <2>8. CASE home = "product"
      BY <1>0, <2>1, <2>2, <2>3, <2>4, <2>5, <2>6, <2>8 DEF Apart, Shared
    <2> QED  BY <2>7, <2>8 DEF Homes
  <1>6. End(m, 1, {}) \/ Verify(m) \/ Kill(m) => mig'[m].pc = "idle"
    BY <1>0 DEF End, Verify, Kill, Idle
  <1> QED  BY <1>1, <1>2, <1>3, <1>4, <1>5, <1>6 DEF Migrator, rehomeProductMigrations

LEMMA NextApart == TypeOK /\ TablesThere /\ MigratorsApart /\ [Next]_vars => MigratorsApart'
  <1> SUFFICES ASSUME TypeOK, TablesThere, MigratorsApart, [Next]_vars, NEW k \in Migrators
               PROVE  Apart(k)'
    BY DEF MigratorsApart
  <1>0. Apart(k)
    BY DEF MigratorsApart
  <1>1. CASE Repository
    <2>1. UNCHANGED dbVars /\ shipped \subseteq shipped'
      BY <1>1, RepositoryTypes DEF Repository, Generate, MergeBranch, OpenMerge, Resolve,
           Abandon, Commit, UndoMerge, Ship, MoveByHand, moveProductMigrations
    <2> QED  BY <1>0, <2>1 DEF Apart, dbVars
  <1>2. ASSUME NEW m \in Migrators, Migrator(m) PROVE Apart(k)'
    <2>1. CASE k = m
      BY <1>0, <1>2, <2>1, ApartSteps
    <2>2. CASE k # m
      <3>1. mig'[k] = mig[k] /\ mig[k].pc \notin Locked
        BY <1>2, <2>2, OthersAreIdle
      <3>2. \A home \in Homes : Applying(home) \in Locked
        BY DEF Homes, Applying, Locked
      <3> QED  BY <3>1, <3>2 DEF Apart, PastRehoming
    <2> QED  BY <2>1, <2>2
  <1>3. ASSUME NEW t \in limbo, Land(t), UNCHANGED repoVars PROVE Apart(k)'
    <2>1. CASE "outlived" \in marks'
      <3>1. mig' = mig /\ shipped' = shipped
        BY <1>3 DEF Land, repoVars
      <3> QED  BY <1>0, <2>1, <3>1 DEF Apart
    <2>2. CASE UNCHANGED <<db, marks, mig, shipped>>
      BY <1>0, <2>2 DEF Apart
    <2> QED  BY <1>3, <2>1, <2>2 DEF Land, repoVars
  <1>4. CASE UNCHANGED vars
    BY <1>0, <1>4 DEF vars, Apart
  <1> QED  BY <1>1, <1>2, <1>3, <1>4 DEF Next

\* What a migrator applies has not run yet.
LEMMA NewerIsNew ==
    ASSUME TypeOK, RowsMatch, NEW m \in Migrators, Apart(m), NEW home \in Homes,
           Apply(m, home), marks \intersect {"relisted", "outlived"} = {},
           NEW w \in Newer(m, home)
    PROVE  ran[w] = 0
  <1>1. w \in Times /\ w \in Nat /\ w \in mig[m].build[home] /\ w > mig[m].seen
    BY NewerTypes, BoundsAssumption DEF Newer
  <1>2. mig[m].pc = Applying(home) /\ mig[m].pc \in PastRehoming /\ mig[m].pc \in Locked
    BY DEF Apply, Applying, Homes, PastRehoming, Locked
  <1>3. mig[m].seen = Newest(db[home]) /\ db[home] \in SUBSET Times
    BY <1>2, NewerTypes DEF Apart
  <1>4. w \notin db[home]
    <2>1. Newest(db[home]) \in Nat /\ \A v \in db[home] : v <= Newest(db[home])
      BY <1>3, NewestIsMax
    <2> QED  BY <1>1, <1>3, <2>1
  <1>5. /\ mig[m].build.kit \intersect db.product = {}
        /\ mig[m].build.product \intersect db.kit = {}
    BY <1>2 DEF Apart
  <1>6. w \notin db.kit \union db.product
    BY <1>1, <1>4, <1>5 DEF Homes
  <1>7. ran[w] \in 0..2
    BY <1>1 DEF TypeOK
  <1> QED  BY <1>1, <1>6, <1>7 DEF RowsMatch

MigratorInv == TypeOK /\ RowsMatch /\ TablesThere /\ MigratorsApart

LEMMA InitMigrator == Init => MigratorInv
  BY InitTypeOK, InitRows, InitApart DEF MigratorInv

LEMMA NextMigrator == MigratorInv /\ [Next]_vars => MigratorInv'
  BY NextTypeOK, NextRows, NextTables, NextApart DEF MigratorInv

\* Who changes what has run: the one under the lock, with what is new to its
\* table's newest row, or a commit that outlived its migrator.
LEMMA WhoRuns ==
    ASSUME TypeOK, [Next]_vars
    PROVE  \/ ran' = ran
           \/ "outlived" \in marks'
           \/ \E m \in Migrators : \E home \in Homes :
                Apply(m, home) /\ Applied(home, Newer(m, home))
  <1>1. CASE Repository
    BY <1>1, RepositoryTypes DEF dbVars
  <1>2. ASSUME NEW m \in Migrators, Migrator(m), ran' # ran
        PROVE  \E home \in Homes : Apply(m, home) /\ Applied(home, Newer(m, home))
    <2>1. ~(TakeLock(m) \/ rehomeProductMigrations(m) \/ Verify(m) \/ Kill(m))
      BY <1>2 DEF TakeLock, rehomeProductMigrations, Verify, Kill
    <2>2. PICK home \in Homes : Apply(m, home)
      BY <1>2, <2>1 DEF Migrator, ReadNewest
    <2> QED  BY <1>2, <2>2 DEF Apply
  <1>3. ASSUME NEW t \in limbo, Land(t) PROVE ran' = ran \/ "outlived" \in marks'
    BY <1>3 DEF Land
  <1>4. CASE UNCHANGED vars
    BY <1>4 DEF vars
  <1> QED  BY <1>1, <1>2, <1>3, <1>4 DEF Next

LEMMA MarksStay == TypeOK /\ [Next]_vars => marks \subseteq marks'
  <1> SUFFICES ASSUME TypeOK, [Next]_vars PROVE marks \subseteq marks'
    OBVIOUS
  <1>1. CASE Repository
    BY <1>1, RepositoryTypes DEF dbVars
  <1>2. ASSUME NEW m \in Migrators, Migrator(m) PROVE marks \subseteq marks'
    <2>1. CASE TakeLock(m)
      BY <2>1 DEF TakeLock
    <2>2. CASE rehomeProductMigrations(m) \/ Verify(m) \/ Kill(m)
      BY <2>2 DEF rehomeProductMigrations, Verify, Kill
    <2>3. ASSUME NEW home \in Homes, ReadNewest(m, home) \/ Apply(m, home)
          PROVE  marks \subseteq marks'
      BY <2>3 DEF ReadNewest, Apply
    <2> QED  BY <1>2, <2>1, <2>2, <2>3 DEF Migrator
  <1>3. ASSUME NEW t \in limbo, Land(t) PROVE marks \subseteq marks'
    BY <1>3 DEF Land
  <1>4. CASE UNCHANGED vars
    BY <1>4 DEF vars
  <1> QED  BY <1>1, <1>2, <1>3, <1>4 DEF Next

\* The lock and the newest row keep every migration's SQL from running twice,
\* with the two exceptions the marks record.
THEOREM NothingRunsTwice == Spec => []RunsOnce
  <1>1. Init => RunsOnce
    BY DEF Init, RunsOnce
  <1>2. MigratorInv /\ RunsOnce /\ [Next]_vars => RunsOnce'
    <2> SUFFICES ASSUME MigratorInv, RunsOnce, [Next]_vars,
                        marks' \intersect {"relisted", "outlived"} = {}, NEW w \in Times
                 PROVE  ran'[w] < 2
      BY DEF RunsOnce
    <2>1. TypeOK /\ RowsMatch /\ marks \intersect {"relisted", "outlived"} = {}
      BY MarksStay DEF MigratorInv
    <2>2. ran[w] < 2
      BY <2>1 DEF RunsOnce
    <2>3. ASSUME NEW m \in Migrators, NEW home \in Homes, Apply(m, home),
                 Applied(home, Newer(m, home))
          PROVE  ran'[w] < 2
      <3>1. w \in Newer(m, home) => ran[w] = 0
        BY <2>1, <2>3, NewerIsNew DEF MigratorInv, MigratorsApart
      <3>2. /\ w \notin Newer(m, home) => ran'[w] = ran[w]
            /\ w \in Newer(m, home) /\ ran[w] = 0 => ran'[w] = 1
        BY <2>1, <2>3, NewerTypes, AppliedTypes
      <3> QED  BY <2>2, <3>1, <3>2
    <2> QED  BY <2>1, <2>2, <2>3, WhoRuns
  <1> QED  BY <1>1, <1>2, InitMigrator, NextMigrator, PTL DEF Spec

-----------------------------------------------------------------------------
(* A clean build is not refused for a kit migration                        *)

\* Releases append to the kit's journal (migration-files.test.ts).
KitAppends ==
    \A r, s \in Releases : \A v \in Kit[r], w \in Kit[s] : w < v => w \in Kit[r]

ReleasesInv ==
    /\ MigratorInv /\ TreesSorted /\ KitInOrder
    /\ \A m \in Migrators : KitApplied(m)

\* A build lists the migrations of one release, and its product none of any.
LEMMA BuildsAreSorted ==
    ASSUME MigratorInv, TreesSorted, NEW m \in Migrators, mig[m].pc \in Locked
    PROVE  \E r \in Releases : Sorted(mig[m].build, r)
  BY DEF MigratorInv, MigratorsApart, Apart, TreesSorted

LEMMA InitOrder ==
    ASSUME KitAppends, Init PROVE KitInOrder /\ \A m \in Migrators : KitApplied(m)
  <1>1. PICK mine \in SUBSET {w \in Times \ Released : w < Upgrade} :
          head = [kit |-> Kit[0] \union mine, product |-> {}, loose |-> {}, at |-> 0]
    BY DEF Init
  <1>2. PICK t \in {0} \union Times : db.kit = {w \in head.kit : w <= t}
    BY DEF Init
  <1>3. 0 \in Releases /\ LastRelease \in Releases /\ Released \subseteq Nat /\ t \in Nat
    <2>1. 0 \in Releases /\ LastRelease \in Releases
      BY KitAssumption DEF Releases
    <2>2. Released \subseteq Times /\ Times \subseteq Nat
      BY <2>1, KitAssumption, BoundsAssumption DEF Released
    <2> QED  BY <1>2, <2>1, <2>2
  <1>4. ASSUME NEW v \in db.kit \intersect Released, NEW w \in Released, w < v
        PROVE  w \in db.kit
    <2>1. v \in Kit[0] /\ v <= t
      BY <1>1, <1>2
    <2>2. w \in Kit[0] /\ w <= t
      BY <1>3, <1>4, <2>1 DEF KitAppends, Released
    <2> QED  BY <1>1, <1>2, <2>2
  <1>5. \A m \in Migrators : mig[m].pc = "idle"
    BY DEF Init, Idle
  <1> QED  BY <1>4, <1>5 DEF KitInOrder, KitApplied, PastKit

\* Which steps change the rows of the kit's table, and how.
LEMMA KitSteps ==
    ASSUME MigratorInv, TreesSorted, [Next]_vars, "outlived" \notin marks'
    PROVE  \/ db'.kit = db.kit
           \/ /\ db'.kit \subseteq db.kit
              /\ db'.kit \intersect Released = db.kit \intersect Released
              /\ \E m \in Migrators : mig[m].pc = "rehoming" /\ Migrator(m)
           \/ \E m \in Migrators : Apply(m, "kit") /\ Applied("kit", Newer(m, "kit"))
                                   /\ Migrator(m)
  <1> USE DEF MigratorInv
  <1>1. CASE Repository
    BY <1>1, RepositoryTypes DEF dbVars
  <1>2. ASSUME NEW m \in Migrators, Migrator(m)
        PROVE  \/ db'.kit = db.kit
               \/ /\ db'.kit \subseteq db.kit /\ mig[m].pc = "rehoming"
                  /\ db'.kit \intersect Released = db.kit \intersect Released
               \/ Apply(m, "kit") /\ Applied("kit", Newer(m, "kit"))
    <2>1. CASE TakeLock(m) \/ Verify(m) \/ Kill(m)
      BY <2>1 DEF TakeLock, Verify, Kill
    <2>2. CASE rehomeProductMigrations(m)
      <3>1. db' = db \/ db' = Rehomed(mig[m].build)
        BY <2>2 DEF rehomeProductMigrations
      <3>2. mig[m].pc = "rehoming" /\ mig[m].pc \in Locked
        BY <2>2 DEF rehomeProductMigrations, Locked
      <3>3. mig[m].build.product \intersect Released = {}
        BY <3>2, BuildsAreSorted DEF Sorted
      <3> QED  BY <3>1, <3>2, <3>3 DEF Rehomed
    <2>3. ASSUME NEW home \in Homes, ReadNewest(m, home) PROVE db'.kit = db.kit
      BY <2>3 DEF ReadNewest, TypeOK
    <2>4. ASSUME NEW home \in Homes, Apply(m, home)
          PROVE  \/ db'.kit = db.kit
                 \/ Apply(m, "kit") /\ Applied("kit", Newer(m, "kit"))
      <3>1. Applied(home, Newer(m, home)) /\ home # "kit" => db'.kit = db.kit
        BY NewerTypes, AppliedTypes
      <3>2. ~Applied(home, Newer(m, home)) => db' = db
        BY <2>4 DEF Apply
      <3>3. CASE home = "kit" /\ Applied(home, Newer(m, home))
        BY ONLY <2>4, <3>3
      <3>4. CASE db'.kit = db.kit
        BY <3>4
      <3>5. CASE db'.kit # db.kit
        <4>1. Applied(home, Newer(m, home)) /\ home = "kit"
          BY <3>1, <3>2, <3>5
        <4> QED  BY <3>3, <4>1
      <3> QED  BY <3>4, <3>5
    <2> QED  BY <1>2, <2>1, <2>2, <2>3, <2>4 DEF Migrator
  <1>3. ASSUME NEW t \in limbo, Land(t) PROVE db'.kit = db.kit
    BY <1>3 DEF Land
  <1>4. CASE UNCHANGED vars
    BY <1>4 DEF vars
  <1> QED  BY <1>1, <1>2, <1>3, <1>4 DEF Next

\* The kit's entries of a build once they are applied without overtaking any.
LEMMA KitGetsApplied ==
    ASSUME MigratorInv, TreesSorted, KitInOrder, [Next]_vars, NEW m \in Migrators,
           Apply(m, "kit"), Applied("kit", Newer(m, "kit")),
           marks' \intersect {"overtaken", "outlived"} = {}, ~Overtakes(m, "kit")
    PROVE  /\ Newer(m, "kit") # {} => mig[m].build.kit \subseteq db'.kit
           /\ \/ mig[m].build.kit \subseteq db'.kit
              \/ ~(mig[m].build.kit \subseteq Released)
              \/ \E v \in db'.kit \ Released : v \notin mig[m].build.product
  <1> USE DEF MigratorInv
  <1>1. marks \intersect {"overtaken", "outlived"} = {}
    BY MarksStay
  <1>2. /\ mig[m].pc = "applyingKit" /\ mig[m].pc \in PastRehoming
        /\ Applying("kit") = "applyingKit"
        /\ mig[m].seen = Newest(db.kit)
        /\ mig[m].build.product \intersect db.kit = {}
    BY <1>1 DEF Apply, Applying, MigratorsApart, Apart, Homes, PastRehoming, Locked
  <1>4. db'.kit = db.kit \union Newer(m, "kit")
    BY NewerTypes, AppliedTypes DEF Homes
  <1>5. /\ db.kit \in SUBSET Times /\ mig[m].build.kit \in SUBSET Times
        /\ Times \subseteq Nat \ {0} /\ mig[m].seen \in Nat
    BY <1>2, BoundsAssumption DEF TypeOK, Build
  <1>6. ASSUME NEW w \in mig[m].build.kit, w \notin db'.kit
        PROVE  w \notin db.kit /\ w <= mig[m].seen
    <2>1. ~(w > mig[m].seen)
      BY <1>4, <1>6 DEF Newer
    <2>2. w \in Nat /\ mig[m].seen \in Nat
      BY <1>5, <1>6
    <2> QED  BY <1>4, <1>6, <2>1, <2>2
  <1>7. Newer(m, "kit") # {} => mig[m].build.kit \subseteq db'.kit
    BY <1>6 DEF Overtakes
  <1>8. ASSUME NEW w \in mig[m].build.kit, w \notin db'.kit, mig[m].build.kit \subseteq Released
        PROVE  \E v \in db'.kit \ Released : v \notin mig[m].build.product
    <2>1. w \notin db.kit /\ w <= mig[m].seen /\ w \in Nat /\ w # 0
      BY <1>5, <1>6, <1>8
    <2>2. db.kit # {}
      BY <1>2, <1>5, <2>1 DEF Newest
    <2>3. Newest(db.kit) \in db.kit
      BY <1>5, <2>2, NewestIsMax
    <2>4. w < Newest(db.kit)
      BY <1>2, <1>5, <2>1, <2>3
    <2>5. Newest(db.kit) \notin Released
      BY <1>1, <1>8, <2>1, <2>3, <2>4 DEF KitInOrder
    <2> QED  BY <1>2, <1>4, <2>3, <2>5
  <1> QED  BY <1>7, <1>8

LEMMA NextOrder ==
    ASSUME KitAppends, MigratorInv, TreesSorted, KitInOrder, [Next]_vars
    PROVE  KitInOrder'
  <1> SUFFICES ASSUME marks' \intersect {"overtaken", "outlived"} = {},
                      NEW v \in db'.kit \intersect Released, NEW w \in Released, w < v
               PROVE  w \in db'.kit
    BY DEF KitInOrder, Released
  <1>1. marks \intersect {"overtaken", "outlived"} = {}
    BY MarksStay DEF MigratorInv
  <1>2. v \in db.kit => w \in db.kit
    BY <1>1 DEF KitInOrder
  <1>3. ASSUME NEW m \in Migrators, Apply(m, "kit"), Applied("kit", Newer(m, "kit")),
               v \notin db.kit
        PROVE  w \in db'.kit
    <2>1. db'.kit = db.kit \union Newer(m, "kit")
      BY <1>3, NewerTypes, AppliedTypes DEF Homes, MigratorInv
    <2>2. v \in Newer(m, "kit") /\ v \in mig[m].build.kit /\ mig[m].pc \in Locked
      BY <1>3, <2>1 DEF Newer, Apply, Applying, Locked
    <2>3. PICK r \in Releases : Sorted(mig[m].build, r)
      BY <2>2, BuildsAreSorted
    <2>4. v \in Kit[r]
      BY <2>2, <2>3 DEF Sorted
    <2>5. w \in Kit[r]
      <3>1. LastRelease \in Releases
        BY KitAssumption DEF Releases
      <3> QED  BY <2>3, <2>4, <3>1 DEF KitAppends, Released
    <2>6. w \in mig[m].build.kit
      BY <2>3, <2>5 DEF Sorted
    <2>7. db' # db
      BY <1>3
    <2>8. ~Overtakes(m, "kit")
      BY <1>3, <2>7 DEF Apply
    <2>9. mig[m].build.kit \subseteq db'.kit
      BY <1>3, <2>2, <2>8, KitGetsApplied
    <2> QED  BY <2>6, <2>9
  <1>4. CASE db'.kit = db.kit
    BY <1>2, <1>4
  <1>5. CASE db'.kit \subseteq db.kit /\ db'.kit \intersect Released = db.kit \intersect Released
    BY <1>2, <1>5
  <1>6. CASE \E m \in Migrators : Apply(m, "kit") /\ Applied("kit", Newer(m, "kit"))
    <2>1. CASE v \in db.kit
      <3>1. db.kit \subseteq db'.kit
        BY <1>6, NewerTypes, AppliedTypes DEF Homes, MigratorInv
      <3> QED  BY <1>2, <2>1, <3>1
    <2> QED  BY <1>3, <1>6, <2>1
  <1> QED  BY <1>4, <1>5, <1>6, KitSteps

\* Past the kit's journal it stays applied: nobody else touches its table.
LEMMA NextKitApplied ==
    ASSUME ReleasesInv, [Next]_vars, NEW m \in Migrators
    PROVE  KitApplied(m)'
  <1> USE DEF ReleasesInv
  <1> SUFFICES ASSUME marks' \intersect {"overtaken", "outlived"} = {}, mig'[m].pc \in PastKit
               PROVE  \/ mig'[m].build.kit \subseteq db'.kit
                      \/ ~(mig'[m].build.kit \subseteq Released)
                      \/ \E v \in db'.kit \ Released : v \notin mig'[m].build.product
    BY DEF KitApplied
  <1>0. /\ mig \in [Migrators -> [pc : Steps, build : Build, seen : Nat]]
        /\ marks \intersect {"overtaken", "outlived"} = {}
    BY MarksStay DEF MigratorInv, TypeOK
  <1>1. CASE mig[m].pc \in PastKit
    <2>1. mig'[m].build = mig[m].build
      <3>1. ASSUME NEW k \in Migrators, Migrator(k) PROVE mig'[m].build = mig[m].build
        <4>1. CASE k # m
          BY <3>1, <4>1, OthersAreIdle DEF MigratorInv
        <4>2. CASE k = m
          <5>1. ASSUME NEW exit, NEW left PROVE ~End(m, exit, left)
            BY <1>0 DEF End, Idle, PastKit
          <5>2. ~TakeLock(m) /\ ~rehomeProductMigrations(m) /\ ~Kill(m) /\ ~Verify(m)
            BY <1>1, <5>1 DEF TakeLock, rehomeProductMigrations, Kill, Verify, PastKit
          <5>3. PICK home \in Homes : ReadNewest(m, home) \/ Apply(m, home)
            BY <3>1, <4>2, <5>2 DEF Migrator
          <5>4. CASE ReadNewest(m, home)
            BY <1>0, <5>4 DEF ReadNewest
          <5>5. CASE Apply(m, home)
            BY <1>0, <5>1, <5>5 DEF Apply, Go
          <5> QED  BY <5>3, <5>4, <5>5
        <4> QED  BY <4>1, <4>2
      <3>2. CASE mig' = mig
        BY <3>2
      <3>3. Repository => mig' = mig
        BY RepositoryTypes DEF dbVars, MigratorInv
      <3> QED  BY <3>1, <3>2, <3>3 DEF Next, Land, vars
    <2>2. db'.kit = db.kit
      <3>1. lock = m
        BY <1>1 DEF MigratorInv, TypeOK, PastKit, Locked
      <3>2. \A k \in Migrators : mig[k].pc \in Locked => k = m
        BY <3>1 DEF MigratorInv, TypeOK
      <3>3. \A k \in Migrators : mig[k].pc # "rehoming" /\ ~Apply(k, "kit")
        BY <1>1, <3>2 DEF Locked, PastKit, Apply, Applying
      <3> QED  BY <3>3, KitSteps
    <2> QED  BY <1>0, <1>1, <2>1, <2>2 DEF KitApplied
  <1>2. CASE mig[m].pc \notin PastKit
    <2>1. Apply(m, "kit") /\ ~End(m, 1, {})
      <3>1. ASSUME NEW k \in Migrators, Migrator(k) PROVE Apply(m, "kit") /\ ~End(m, 1, {})
        <4>1. k = m
          BY <1>2, <3>1, OthersAreIdle DEF MigratorInv
        <4>2. ~End(m, 1, {}) /\ ~Kill(m) /\ ~Verify(m)
          BY <1>0 DEF End, Kill, Verify, Idle, PastKit
        <4>3. ~TakeLock(m) /\ ~rehomeProductMigrations(m)
          BY <1>0, <4>2 DEF TakeLock, rehomeProductMigrations, Go, Idle, PastKit
        <4>4. \A home \in Homes : ~ReadNewest(m, home)
          BY <1>0 DEF ReadNewest, PastKit, Homes, Applying, Applying
        <4>5. ~Apply(m, "product")
          BY <1>2 DEF Apply, Applying, PastKit
        <4> QED  BY <3>1, <4>1, <4>2, <4>3, <4>4, <4>5 DEF Migrator, Homes
      <3>2. mig' # mig
        BY <1>2
      <3>3. ~Repository
        BY <3>2, RepositoryTypes DEF dbVars, MigratorInv
      <3> QED  BY <3>1, <3>2, <3>3 DEF Next, Land, vars
    <2>2. Applied("kit", Newer(m, "kit")) /\ ~Overtakes(m, "kit")
      BY <2>1 DEF Apply
    <2>3. mig'[m].build = mig[m].build
      BY <1>0, <2>1 DEF Apply, Go
    <2> QED  BY <2>1, <2>2, <2>3, KitGetsApplied
  <1> QED  BY <1>1, <1>2

\* A refusal stays excused: more has run, more is marked, later.
LEMMA RefusalStays ==
    ASSUME MigratorInv, [Next]_vars, outcome' = outcome, RefusedForKit', "overtaken" \notin marks'
    PROVE  RefusedForKit
  <1>1. "outlived" \notin marks
    BY MarksStay DEF MigratorInv, RefusedForKit
  <1>2. \A w \in Times : ran[w] > 0 => ran'[w] > 0
    BY NextRows DEF MigratorInv
  <1>3. Clean(outcome.build)
    BY <1>2 DEF RefusedForKit, Clean
  <1> QED  BY <1>1, <1>3 DEF RefusedForKit

\* A build that is as the move tool leaves it is never refused for a migration of
\* the kit, unless one was overtaken before.
THEOREM CleanBuildsApply ==
    ASSUME KitAppends
    PROVE  Spec => []KitReleaseApplies
  <1>1. Init => ReleasesInv /\ KitReleaseApplies
    <2>1. Init => KitReleaseApplies
      BY DEF Init, KitReleaseApplies, RefusedForKit
    <2> QED  BY <2>1, InitMigrator, InitTrees, InitOrder DEF ReleasesInv
  <1>2. ReleasesInv /\ [Next]_vars => ReleasesInv'
    <2> SUFFICES ASSUME ReleasesInv, [Next]_vars PROVE ReleasesInv'
      OBVIOUS
    <2>1. MigratorInv' /\ TreesSorted'
      BY NextMigrator, NextSorted DEF ReleasesInv, MigratorInv
    <2>2. KitInOrder'
      BY NextOrder DEF ReleasesInv
    <2>3. \A m \in Migrators : KitApplied(m)'
      BY NextKitApplied
    <2> QED  BY <2>1, <2>2, <2>3 DEF ReleasesInv
  <1>3. ReleasesInv /\ KitReleaseApplies /\ [Next]_vars => KitReleaseApplies'
    <2> SUFFICES ASSUME ReleasesInv, KitReleaseApplies, [Next]_vars,
                        "overtaken" \notin marks', RefusedForKit'
                 PROVE  FALSE
      BY DEF KitReleaseApplies
    <2>1. CASE outcome' = outcome
      <3>1. RefusedForKit /\ "overtaken" \notin marks
        BY <2>1, RefusalStays, MarksStay DEF ReleasesInv, MigratorInv
      <3> QED  BY <3>1 DEF KitReleaseApplies
    <2>2. CASE outcome' # outcome
      <3>1. outcome'.pending # {}
        BY DEF RefusedForKit
      <3>2. \A m \in Migrators : ~End(m, 1, {})
        BY <3>1 DEF End
      <3>3. ~Repository /\ ~UNCHANGED vars /\ \A t \in limbo : ~Land(t)
        BY <2>2, RepositoryTypes DEF dbVars, vars, Land, ReleasesInv, MigratorInv
      <3>4. \A m \in Migrators : ~(TakeLock(m) \/ Kill(m) \/ rehomeProductMigrations(m))
        BY <2>2, <3>2 DEF TakeLock, Kill, rehomeProductMigrations
      <3>5. \A m \in Migrators, home \in Homes : ~(ReadNewest(m, home) \/ Apply(m, home))
        BY <2>2, <3>2 DEF ReadNewest, Apply
      <3>6. PICK m \in Migrators : Verify(m)
        BY <3>3, <3>4, <3>5 DEF Next, Migrator
      <3>7. /\ outcome'.build = mig[m].build /\ mig[m].pc = "verifying"
            /\ UNCHANGED <<db, ran, marks>>
            /\ outcome'.pending = UNION {Pending(mig[m].build, home) : home \in Homes}
        BY <3>6 DEF Verify, End
      <3>8. outcome'.pending = Pending(mig[m].build, "kit") \union Pending(mig[m].build, "product")
        BY <3>7 DEF Homes
      <3>9. PICK r \in Releases : Sorted(mig[m].build, r)
        BY <3>7, BuildsAreSorted DEF ReleasesInv, Locked
      <3>10. Clean(mig[m].build)
        BY <3>7 DEF RefusedForKit, Clean
      <3>11. "overtaken" \notin marks /\ "outlived" \notin marks
        BY <3>7 DEF RefusedForKit
      <3>12. PICK w \in mig[m].build.kit : w \notin db.kit
        <4>1. PICK w \in outcome'.pending : w \in mig[m].build.kit
          BY <3>7 DEF RefusedForKit
        <4>2. CASE w \in Pending(mig[m].build, "product")
          <5>1. w \in mig[m].build.product /\ w \in Released
            BY <3>10, <4>1, <4>2 DEF Pending, Clean
          <5> QED  BY <3>9, <5>1 DEF Sorted
        <4> QED  BY <3>8, <4>1, <4>2 DEF Pending
      <3>13. mig[m].build.kit \subseteq Released
        BY <3>10 DEF Clean
      <3>14. PICK v \in db.kit \ Released : v \notin mig[m].build.product
        BY <3>7, <3>11, <3>12, <3>13 DEF ReleasesInv, KitApplied, PastKit
      <3>15. v \in Times /\ ran[v] > 0
        BY DEF ReleasesInv, MigratorInv, TypeOK, RowsMatch
      <3> QED  BY <3>10, <3>14, <3>15 DEF Clean
    <2> QED  BY <2>1, <2>2
  <1> DEFINE Inv == ReleasesInv /\ KitReleaseApplies
  <1>4. Init => Inv
    BY <1>1
  <1>5. Inv /\ [Next]_vars => Inv'
    BY <1>2, <1>3
  <1>6. Inv => KitReleaseApplies
    OBVIOUS
  <1> HIDE DEF Inv
  <1> QED  BY <1>4, <1>5, <1>6, PTL DEF Spec

-----------------------------------------------------------------------------
(***************************************************************************)
(* THE PROCESS                                                             *)
(***************************************************************************)
-----------------------------------------------------------------------------
(* The inductive invariant                                                 *)

\* What a shutdown may have used up before the step it is in.
Before == [draining |-> 0, forcing |-> 0, flushing |-> DrainBudget,
           closing |-> DrainBudget + FlushBudget]

\* No step of the shutdown outlasts its budget ...
StepsInTime ==
    /\ life = "draining" => spent <= DrainBudget
    /\ life = "forcing" => spent = DrainBudget
    /\ life = "flushing" => spent <= FlushBudget
    /\ life = "closing" => spent <= CloseBudget

\* ... and docker has waited no longer than the shutdown has been under way.
AskedInTime ==
    stopAsked # Never /\ ~missed =>
        /\ life \in Stopping \union {"gone"}
        /\ life \in Stopping => stopAsked <= Before[life] + spent

\* The ping in flight is the one that new probes join.
OnePing == \A p \in Probes : ping[p].step \in InFlight <=> pending = p

\* Whoever waits for a ping that was answered has heard the answer.
OkIsHeard ==
    \A q, p \in Probes : probe[q].on = p /\ ping[p].step = "ok" => probe[q].heard

\* Once the server is stopped no request is left.
Quiet == {"flushing", "closing", "gone"}
QuietIsEmpty == life \in Quiet => \A r \in Requests : request[r] # "running"

ApiInv ==
    /\ ApiTypeOK
    /\ StepsInTime /\ AskedInTime /\ StopsInGrace
    /\ OnePing /\ OkIsHeard
    /\ QuietIsEmpty

ProcInv ==
    /\ life \in Alive \union {"gone"}
    /\ code \in {0, 1, 137, 143}
    /\ spent \in 0..DrainBudget + FlushBudget + CloseBudget
    /\ stopAsked \in 0..Never
    /\ missed \in BOOLEAN
    /\ dying \in (0..FatalBudget) \union {Never}
    /\ StepsInTime /\ AskedInTime /\ StopsInGrace

PingInv ==
    /\ postgres \in {"up", "hung", "down"}
    /\ pending \in Probes \union {Nobody}
    /\ ping \in [Probes -> [step : InFlight \union PingOver \union {"none"}, age : 0..ConnectBudget]]
    /\ probe \in [Probes -> [on : Probes \union {Nobody}, age : 0..ReadinessBudget,
                             heard : BOOLEAN]]
    /\ OnePing /\ OkIsHeard

Served == request \in [Requests -> {"none", "running", "cut"}]

GoneIsEmpty == (life = "gone" => pending = Nobody) /\ QuietIsEmpty

LEMMA InvParts == ApiInv <=> ProcInv /\ PingInv /\ Served /\ GoneIsEmpty
  BY DEF ApiInv, ApiTypeOK, ProcInv, PingInv, Served, GoneIsEmpty, QuietIsEmpty, Quiet

\* The budgets one by one.
LEMMA Budgets ==
    /\ ReadinessBudget \in Nat /\ ConnectBudget \in Nat /\ DrainBudget \in Nat
    /\ FlushBudget \in Nat /\ CloseBudget \in Nat /\ FatalBudget \in Nat /\ Grace \in Nat
    /\ DrainBudget + FlushBudget + CloseBudget < Grace
  BY GraceAssumption

LEMMA InitApiInv == ApiInit => ApiInv
  <1> SUFFICES ASSUME ApiInit PROVE ApiInv
    OBVIOUS
  <1> USE GraceAssumption, NobodyAssumption DEF ApiInit
  <1>1. ProcInv
    <2>1. spent \in 0..DrainBudget + FlushBudget + CloseBudget /\ stopAsked \in 0..Never
      BY Budgets DEF Never
    <2>2. StepsInTime /\ AskedInTime /\ StopsInGrace
      BY Budgets DEF StepsInTime, AskedInTime, StopsInGrace
    <2> QED  BY <2>1, <2>2 DEF ProcInv, Alive
  <1>2. PingInv
    BY DEF PingInv, OnePing, OkIsHeard, NoPing, NoProbe, InFlight
  <1>3. Served /\ GoneIsEmpty
    BY DEF Served, GoneIsEmpty, QuietIsEmpty, Quiet
  <1> QED  BY <1>1, <1>2, <1>3, InvParts

-----------------------------------------------------------------------------
(* The steps of the process                                                *)

\* The end of the process keeps the invariant, if docker had no reason to kill it.
LEMMA ExitKeeps ==
    ASSUME ApiInv, NEW status \in {0, 1, 137, 143}, status = 137 => missed, Exit(status)
    PROVE  ApiInv'
  <1> USE GraceAssumption, NobodyAssumption DEF Exit
  <1> ProcInv /\ PingInv /\ Served /\ GoneIsEmpty
    BY InvParts
  <1>1. ProcInv'
    BY DEF ProcInv, StepsInTime, AskedInTime, StopsInGrace, Stopping, Alive, Never
  <1>2. PingInv'
    BY DEF PingInv, OnePing, OkIsHeard, NoPing, NoProbe, InFlight
  <1>3. Served' /\ GoneIsEmpty'
    BY DEF Served, GoneIsEmpty, QuietIsEmpty, Quiet, CutRequests
  <1> QED  BY <1>1, <1>2, <1>3, InvParts, PTL

\* A step of the process that leaves requests and pings alone and does not end it.
LEMMA ProcKeeps ==
    ASSUME ApiInv, ProcInv', life' # "gone", life' \in Quiet => life \in Quiet,
           UNCHANGED <<request, pingVars>>
    PROVE  ApiInv'
  <1> ProcInv /\ PingInv /\ Served /\ GoneIsEmpty
    BY InvParts
  <1>1. PingInv' /\ Served' /\ GoneIsEmpty'
    BY DEF PingInv, OnePing, OkIsHeard, Served, GoneIsEmpty, QuietIsEmpty, Quiet, pingVars
  <1> QED  BY <1>1, InvParts, PTL

LEMMA ProcessKeeps == ASSUME ApiInv, Process PROVE ApiInv'
  <1> USE GraceAssumption DEF Alive, Stopping, Never
  <1> ProcInv /\ PingInv /\ Served /\ GoneIsEmpty
    BY InvParts
  <1> USE DEF ProcInv, StepsInTime, AskedInTime, StopsInGrace, Before, StepTo
  <1>1. CASE StartServing
    BY <1>1, ProcKeeps DEF StartServing, Quiet
  <1>2. CASE Restart
    <2>1. life' = "starting" /\ stopAsked' = Never /\ UNCHANGED <<spent, dying, pingVars>>
      BY <1>2 DEF Restart
    <2>2. stopAsked' \in 0..Never
      BY <2>1, Budgets
    <2>3. StepsInTime' /\ AskedInTime' /\ StopsInGrace'
      BY <1>2, <2>1 DEF Restart
    <2>4. ProcInv'
      <3>1. life' \in Alive \union {"gone"} /\ code' = 0 /\ missed' = FALSE
        BY <1>2 DEF Restart
      <3>2. /\ spent' \in 0..DrainBudget + FlushBudget + CloseBudget
            /\ dying' \in (0..FatalBudget) \union {Never}
        BY <2>1
      <3> QED  BY <2>2, <2>3, <3>1, <3>2
    <2>5. Served' /\ PingInv' /\ GoneIsEmpty'
      BY <1>2, <2>1 DEF Restart, Served, PingInv, OnePing, OkIsHeard, GoneIsEmpty, QuietIsEmpty, Quiet, pingVars
    <2> QED  BY <2>4, <2>5, InvParts, PTL
  <1>3. CASE StartEnds
    BY <1>3, ExitKeeps DEF StartEnds
  <1>4. CASE KilledByDocker
    <2>1. stopAsked = Grace /\ Grace # Grace + 1 /\ life \in Alive
      BY <1>4, Budgets DEF KilledByDocker
    <2>2. SUFFICES ASSUME ~missed PROVE FALSE
      BY <1>4, ExitKeeps DEF KilledByDocker
    <2>3. life \in Stopping /\ Grace <= Before[life] + spent
      BY <2>1, <2>2
    <2>4. CASE life \in {"draining", "forcing"}
      BY <2>3, <2>4, Budgets
    <2>5. CASE life = "flushing"
      BY <2>3, <2>5, Budgets
    <2>6. CASE life = "closing"
      BY <2>3, <2>6, Budgets
    <2> QED  BY <2>3, <2>4, <2>5, <2>6
  <1>5. ASSUME NEW byDocker \in BOOLEAN, Signal(byDocker) PROVE ApiInv'
    <2>1. UNCHANGED <<code, dying, request, pingVars>> /\ life' # "gone"
          /\ (life' \in Quiet => life \in Quiet)
      BY <1>5 DEF Signal, Quiet
    <2>2. ProcInv'
      <3>1. CASE life = "serving" /\ byDocker
        BY <1>5, <3>1 DEF Signal
      <3>2. CASE life = "serving" /\ ~byDocker
        BY <1>5, <3>2 DEF Signal
      <3>3. CASE life = "starting"
        BY <1>5, <3>3 DEF Signal
      <3>4. CASE life \in Stopping
        BY <1>5, <3>4 DEF Signal
      <3> QED  BY <1>5, <3>1, <3>2, <3>3, <3>4 DEF Signal
    <2> QED  BY <2>1, <2>2, ProcKeeps
  <1>6. CASE Fatal
    BY <1>6, ProcKeeps DEF Fatal
  <1>7. CASE FatalExit
    BY <1>7, ExitKeeps DEF FatalExit
  <1>8. CASE Drained
    <2>1. ProcInv' /\ life' # "gone" /\ UNCHANGED pingVars
      BY <1>8 DEF Drained
    <2>2. Served' /\ PingInv' /\ GoneIsEmpty'
      BY <1>8, <2>1 DEF Drained, Served, PingInv, OnePing, OkIsHeard, GoneIsEmpty,
                        QuietIsEmpty, pingVars
    <2> QED  BY <2>1, <2>2, InvParts, PTL
  <1>9. CASE DrainTimedOut
    BY <1>9, ProcKeeps DEF DrainTimedOut, DRAIN_TIMEOUT, Quiet
  <1>10. CASE ForcedClosed
    <2>1. ProcInv' /\ life' # "gone" /\ UNCHANGED pingVars
      BY <1>10 DEF ForcedClosed
    <2>2. Served' /\ PingInv' /\ GoneIsEmpty'
      BY <1>10, <2>1
      DEF ForcedClosed, CutRequests, Served, PingInv, OnePing, OkIsHeard, GoneIsEmpty, QuietIsEmpty, Quiet, pingVars
    <2> QED  BY <2>1, <2>2, InvParts, PTL
  <1>11. CASE Flushed
    BY <1>11, ProcKeeps DEF Flushed, Quiet
  <1>12. CASE ShutdownEnds
    BY <1>12, ExitKeeps DEF ShutdownEnds
  <1> QED
    BY <1>1, <1>2, <1>3, <1>4, <1>5, <1>6, <1>7, <1>8, <1>9, <1>10, <1>11, <1>12 DEF Process

-----------------------------------------------------------------------------
(* The steps of the probes, of requests and of time                        *)

\* A step that only probes and the database take.
LEMMA PingKeeps ==
    ASSUME ApiInv, PingInv', GoneIsEmpty', UNCHANGED <<procVars, request>>
    PROVE  ApiInv'
  <1> ProcInv /\ PingInv /\ Served /\ GoneIsEmpty
    BY InvParts
  <1>1. ProcInv' /\ Served'
    BY DEF ProcInv, StepsInTime, AskedInTime, StopsInGrace, Served, procVars
  <1> QED  BY <1>1, InvParts, PTL

LEMMA DeliverKeeps ==
    ASSUME ApiInv, NEW q \in Probes, NEW result \in PingOver, Deliver(q, result)
    PROVE  ApiInv'
  <1> ProcInv /\ PingInv /\ Served /\ GoneIsEmpty
    BY InvParts
  <1> DEFINE p == probe[q].on
  <1>1. /\ UNCHANGED <<procVars, request, postgres, pending>>
        /\ p # Nobody /\ ping[p].step = result
        /\ probe' = [probe EXCEPT ![q] = NoProbe]
        /\ ping' = ping \/ ping' = [ping EXCEPT ![p] = NoPing]
    BY DEF Deliver
  <1>2. p \in Probes /\ ping[p].step \notin InFlight
    BY <1>1 DEF PingInv, InFlight, PingOver
  <1>3. PingInv'
    <2> USE GraceAssumption, NobodyAssumption, <1>1, <1>2
            DEF PingInv, NoPing, NoProbe, InFlight, PingOver
    <2>1. /\ ping' \in [Probes -> [step : InFlight \union PingOver \union {"none"},
                                  age : 0..ConnectBudget]]
          /\ probe' \in [Probes -> [on : Probes \union {Nobody}, age : 0..ReadinessBudget,
                                    heard : BOOLEAN]]
          /\ postgres' \in {"up", "hung", "down"} /\ pending' \in Probes \union {Nobody}
      <3>1. [step |-> "none", age |-> 0]
              \in [step : InFlight \union PingOver \union {"none"}, age : 0..ConnectBudget]
        OBVIOUS
      <3>2. [on |-> Nobody, age |-> 0, heard |-> FALSE]
              \in [on : Probes \union {Nobody}, age : 0..ReadinessBudget, heard : BOOLEAN]
        OBVIOUS
      <3>3. ping' \in [Probes -> [step : InFlight \union PingOver \union {"none"},
                                 age : 0..ConnectBudget]]
        BY <3>1
      <3>4. probe' \in [Probes -> [on : Probes \union {Nobody}, age : 0..ReadinessBudget,
                                   heard : BOOLEAN]]
        BY <3>2
      <3>5. postgres' \in {"up", "hung", "down"} /\ pending' \in Probes \union {Nobody}
        OBVIOUS
      <3> QED  BY <3>3, <3>4, <3>5
    <2>2. OnePing'
      BY DEF OnePing
    <2>3. OkIsHeard'
      BY DEF OkIsHeard
    <2> QED  BY <2>1, <2>2, <2>3
  <1>4. GoneIsEmpty'
    BY <1>1 DEF GoneIsEmpty, QuietIsEmpty, Quiet, procVars
  <1> QED  BY <1>1, <1>3, <1>4, PingKeeps

LEMMA SettledKeepsPings ==
    ASSUME PingInv, NEW p \in Probes, ping[p].step \in InFlight,
           NEW result \in PingOver, Settle(p, result), UNCHANGED postgres,
           \/ result = "failed" /\ UNCHANGED probe
           \/ probe' = [q \in Probes |-> IF probe[q].on = p THEN [probe[q] EXCEPT !.heard = TRUE]
                                                            ELSE probe[q]]
    PROVE  PingInv'
  <1> USE GraceAssumption, NobodyAssumption DEF PingInv, NoPing, InFlight, PingOver
  <1>1. pending = p /\ pending' = Nobody
    BY DEF Settle, OnePing
  <1>2. /\ ping' \in [Probes -> [step : InFlight \union PingOver \union {"none"},
                                age : 0..ConnectBudget]]
        /\ ping'[p].step \in {"none", result}
        /\ \A q \in Probes \ {p} : ping'[q] = ping[q]
    BY DEF Settle
  <1>3. /\ probe' \in [Probes -> [on : Probes \union {Nobody}, age : 0..ReadinessBudget,
                                  heard : BOOLEAN]]
        /\ \A q \in Probes : /\ probe'[q].on = probe[q].on
                             /\ probe[q].heard => probe'[q].heard
                             /\ probe[q].on = p /\ result = "ok" => probe'[q].heard
    <2>1. CASE result = "failed" /\ UNCHANGED probe
      BY <2>1
    <2>2. CASE probe' = [q \in Probes |-> IF probe[q].on = p
                                          THEN [probe[q] EXCEPT !.heard = TRUE] ELSE probe[q]]
      <3>1. \A q \in Probes : /\ probe'[q].on = probe[q].on /\ probe'[q].age = probe[q].age
                              /\ probe'[q].heard = (probe[q].heard \/ probe[q].on = p)
                              /\ probe'[q] \in [on : Probes \union {Nobody},
                                                age : 0..ReadinessBudget, heard : BOOLEAN]
        BY <2>2
      <3> QED  BY <2>2, <3>1
    <2> QED  BY <2>1, <2>2
  <1>4. OnePing'
    BY <1>1, <1>2 DEF OnePing
  <1>5. OkIsHeard'
    BY <1>2, <1>3 DEF OkIsHeard
  <1> QED  BY <1>1, <1>2, <1>3, <1>4, <1>5

LEMMA ReadinessKeeps == ASSUME ApiInv, Readiness PROVE ApiInv'
  <1> ProcInv /\ PingInv /\ Served /\ GoneIsEmpty
    BY InvParts
  <1> USE GraceAssumption, NobodyAssumption DEF PingInv
  <1>1. ASSUME NEW p \in Probes, checkDatabase(p) PROVE ApiInv'
    <2>1. life = "serving" /\ probe[p] = NoProbe /\ UNCHANGED <<procVars, request, postgres>>
      BY <1>1 DEF checkDatabase
    <2>2. GoneIsEmpty'
      BY <2>1 DEF GoneIsEmpty, QuietIsEmpty, Quiet, procVars
    <2>3. CASE pending # Nobody /\ probe' = [probe EXCEPT ![p].on = pending]
               /\ UNCHANGED <<pending, ping>>
      <3>1. ping[pending].step \in InFlight
        BY <2>3 DEF OnePing
      <3>2. PingInv'
        BY <2>1, <2>3, <3>1 DEF OnePing, OkIsHeard, InFlight
      <3> QED  BY <2>1, <2>2, <3>2, PingKeeps
    <2>4. CASE pending = Nobody /\ ping[p] = NoPing /\ pingDatabase(p) /\ pending' = p
               /\ probe' = [probe EXCEPT ![p].on = p]
      <3>1. PICK step \in InFlight : ping' = [ping EXCEPT ![p] = [step |-> step, age |-> 0]]
        BY <2>4 DEF pingDatabase
      <3>2. OnePing'
        BY <2>4, <3>1 DEF OnePing
      <3>3. OkIsHeard'
        BY <2>4, <3>1 DEF OkIsHeard, InFlight
      <3>4. PingInv'
        BY <2>1, <2>4, <3>1, <3>2, <3>3
      <3> QED  BY <2>1, <2>2, <3>4, PingKeeps
    <2> QED  BY <1>1, <2>3, <2>4 DEF checkDatabase, sharedPing
  <1>2. ASSUME NEW p \in Probes, Connected(p) PROVE ApiInv'
    <2>1. PingInv'
      BY <1>2 DEF Connected, OnePing, OkIsHeard, InFlight
    <2> QED  BY <1>2, <2>1, PingKeeps DEF Connected, GoneIsEmpty, QuietIsEmpty, Quiet, procVars
  <1>3. ASSUME NEW p \in Probes, Answered(p) PROVE ApiInv'
    <2>1. ping[p].step \in InFlight
      BY <1>3 DEF Answered, InFlight
    <2>2. PingInv'
      BY <1>3, <2>1, SettledKeepsPings DEF Answered, PingOver
    <2>3. GoneIsEmpty'
      BY <1>3, <2>1 DEF Answered, Settle, GoneIsEmpty, QuietIsEmpty, Quiet, procVars
    <2> QED  BY <1>3, <2>2, <2>3, PingKeeps DEF Answered
  <1>4. ASSUME NEW p \in Probes, PingFailed(p) PROVE ApiInv'
    <2>1. ping[p].step \in InFlight
      BY <1>4 DEF PingFailed, InFlight
    <2>2. PingInv'
      BY <1>4, <2>1, SettledKeepsPings DEF PingFailed, PingOver
    <2>3. GoneIsEmpty'
      BY <1>4, <2>1 DEF PingFailed, Settle, GoneIsEmpty, QuietIsEmpty, Quiet, procVars
    <2> QED  BY <1>4, <2>2, <2>3, PingKeeps DEF PingFailed
  <1>5. ASSUME NEW q \in Probes, TimedOut(q) PROVE ApiInv'
    <2>1. PingInv'
      BY <1>5 DEF TimedOut, OutOfTime, OnePing, OkIsHeard, NoProbe
    <2> QED  BY <1>5, <2>1, PingKeeps DEF TimedOut, GoneIsEmpty, QuietIsEmpty, Quiet, procVars
  <1>6. CASE PostgresTurns
    <2>1. PingInv'
      BY <1>6 DEF PostgresTurns, OnePing, OkIsHeard
    <2> QED  BY <1>6, <2>1, PingKeeps DEF PostgresTurns, GoneIsEmpty, QuietIsEmpty, Quiet, procVars
  <1> QED  BY <1>1, <1>2, <1>3, <1>4, <1>5, <1>6 DEF Readiness

LEMMA RequestsKeep ==
    ASSUME ApiInv, NEW r \in Requests, Arrive(r) \/ Respond(r)
    PROVE  ApiInv'
  <1> ProcInv /\ PingInv /\ Served /\ GoneIsEmpty
    BY InvParts
  <1>1. ProcInv' /\ PingInv'
    BY DEF Arrive, Respond, ProcInv, StepsInTime, AskedInTime, StopsInGrace, PingInv,
           OnePing, OkIsHeard, procVars, pingVars
  <1>2. Served' /\ GoneIsEmpty'
    BY DEF Arrive, Respond, Served, GoneIsEmpty, QuietIsEmpty, Quiet, procVars, pingVars
  <1> QED  BY <1>1, <1>2, InvParts, PTL

LEMMA TickKeeps == ASSUME ApiInv, Tick PROVE ApiInv'
  <1> ProcInv /\ PingInv /\ Served /\ GoneIsEmpty
    BY InvParts
  <1> USE GraceAssumption, NobodyAssumption
  <1>1. ~Due /\ life \in Alive /\ UNCHANGED <<life, code, missed, request, postgres, pending>>
    BY DEF Tick
  <1>2. ProcInv'
    <2>1. /\ spent' = IF life \in Stopping THEN spent + 1 ELSE spent
          /\ stopAsked' = IF stopAsked = Never THEN Never ELSE stopAsked + 1
          /\ dying' = IF dying = Never THEN Never ELSE dying + 1
      BY DEF Tick
    <2>2. /\ life \in Alive \union {"gone"} /\ code \in {0, 1, 137, 143}
          /\ spent \in 0..DrainBudget + FlushBudget + CloseBudget
          /\ stopAsked \in 0..Never /\ missed \in BOOLEAN
          /\ dying \in (0..FatalBudget) \union {Never}
      BY DEF ProcInv
    <2>3. StepsInTime /\ AskedInTime /\ StopsInGrace
      BY DEF ProcInv
    <2>4. /\ ReadinessBudget \in Nat /\ ConnectBudget \in Nat /\ DrainBudget \in Nat
          /\ FlushBudget \in Nat /\ CloseBudget \in Nat /\ FatalBudget \in Nat
          /\ Grace \in Nat /\ Never \in Nat /\ Never = Grace + 1 /\ spent \in Nat
      BY <2>2, Budgets DEF Never
    <2>5. /\ life # "forcing" /\ dying # FatalBudget /\ stopAsked # Grace
          /\ life = "draining" => ~(spent >= DrainBudget)
          /\ life = "flushing" => ~(spent >= FlushBudget)
          /\ life = "closing" => ~(spent >= CloseBudget)
      BY <1>1 DEF Due, DRAIN_TIMEOUT, TELEMETRY_FLUSH_CAP, PG_CLOSE_TIMEOUT
    <2>6. StepsInTime'
      BY <1>1, <2>1, <2>4, <2>5 DEF StepsInTime, Stopping
    <2>7. spent' \in 0..DrainBudget + FlushBudget + CloseBudget
      <3>1. CASE life \in Stopping
        BY <2>1, <2>4, <2>5, <3>1 DEF Stopping
      <3>2. CASE life \notin Stopping
        BY <2>1, <2>2, <3>2
      <3> QED  BY <3>1, <3>2
    <2>8. stopAsked' \in 0..Never
      BY <2>1, <2>2, <2>4, <2>5
    <2>9. dying' \in (0..FatalBudget) \union {Never}
      BY <2>1, <2>2, <2>4, <2>5
    <2>10. AskedInTime'
      <3> SUFFICES ASSUME stopAsked' # Never, ~missed
                   PROVE  /\ life \in Stopping \union {"gone"}
                          /\ life \in Stopping => stopAsked' <= Before[life] + spent'
        BY <1>1 DEF AskedInTime, Never
      <3>1. stopAsked # Never /\ stopAsked' = stopAsked + 1
        BY <2>1
      <3>2. /\ life \in Stopping \union {"gone"}
            /\ life \in Stopping => stopAsked <= Before[life] + spent
        BY <2>3, <3>1 DEF AskedInTime
      <3>3. life \in Stopping => Before[life] \in Nat
        BY <2>4 DEF Stopping, Before
      <3>4. stopAsked \in Nat
        BY <2>2, <2>4
      <3> QED  BY <2>1, <2>4, <3>1, <3>2, <3>3, <3>4
    <2> QED  BY <1>1, <2>2, <2>3, <2>6, <2>7, <2>8, <2>9, <2>10 DEF ProcInv, StopsInGrace, Never
  <1>3. PingInv'
    <2>1. \A p \in Probes : ping'[p].step = ping[p].step /\ probe'[p].on = probe[p].on
                            /\ probe'[p].heard = probe[p].heard
      BY DEF Tick, PingInv
    <2>2. ping' \in [Probes -> [step : InFlight \union PingOver \union {"none"},
                               age : 0..ConnectBudget]]
      BY DEF Tick, PingInv, Older
    <2>3. probe' \in [Probes -> [on : Probes \union {Nobody}, age : 0..ReadinessBudget,
                                 heard : BOOLEAN]]
      <3>1. \A q \in Probes : probe[q].on # Nobody => probe[q].age < ReadinessBudget
        <4> SUFFICES ASSUME NEW q \in Probes, probe[q].on # Nobody
                     PROVE  probe[q].age < ReadinessBudget
          OBVIOUS
        <4>1. probe[q].age \in 0..ReadinessBudget
          BY DEF PingInv
        <4>2. probe[q].age # ReadinessBudget
          BY <1>1 DEF Due, OutOfTime, READINESS_TIMEOUT
        <4> QED  BY <4>1, <4>2, Budgets
      <3> QED  BY <3>1 DEF Tick, PingInv
    <2> QED  BY <1>1, <2>1, <2>2, <2>3 DEF PingInv, OnePing, OkIsHeard
  <1>4. Served' /\ GoneIsEmpty'
    BY <1>1 DEF Served, GoneIsEmpty, QuietIsEmpty, Quiet
  <1> QED  BY <1>2, <1>3, <1>4, InvParts, PTL

LEMMA NextApiInv == ApiInv /\ [ApiNext]_apiVars => ApiInv'
  <1> SUFFICES ASSUME ApiInv, [ApiNext]_apiVars PROVE ApiInv'
    OBVIOUS
  <1>1. CASE UNCHANGED apiVars
    BY <1>1 DEF apiVars, ApiInv, QuietIsEmpty, ApiTypeOK, StepsInTime, AskedInTime, StopsInGrace, OnePing,
                OkIsHeard
  <1> QED
    BY <1>1, DeliverKeeps, ProcessKeeps, ReadinessKeeps, RequestsKeep, TickKeeps DEF ApiNext

LEMMA AlwaysApiInv == ApiSpec => []ApiInv
  BY InitApiInv, NextApiInv, PTL DEF ApiSpec

-----------------------------------------------------------------------------
(* The theorems                                                            *)

\* The state of the process is of its type, always.
THEOREM ApiTypesHold == ApiSpec => []ApiTypeOK
  <1>1. ApiInv => ApiTypeOK
    BY DEF ApiInv
  <1> QED  BY <1>1, AlwaysApiInv, PTL

\* The bounded steps of the shutdown fit the grace period wherever their budgets
\* do: docker only kills a process it asked before it could hear.
THEOREM ShutdownFits == ApiSpec => []StopsInGrace
  <1>1. ApiInv => StopsInGrace
    BY DEF ApiInv
  <1> QED  BY <1>1, AlwaysApiInv, PTL

\* However many probes give up on a hung database and come again, together they
\* hold one connection.
THEOREM ProbesShareOnePing == ApiSpec => []PingsHoldOneConnection
  <1>1. ApiInv => PingsHoldOneConnection
    <2> SUFFICES ASSUME ApiInv PROVE PingsHoldOneConnection
      OBVIOUS
    <2> DEFINE Busy == {p \in Probes : ping[p].step \in InFlight}
    <2>1. Busy \subseteq {pending}
      BY DEF ApiInv, OnePing
    <2>2. IsFiniteSet({pending}) /\ Cardinality({pending}) = 1
      BY FS_Singleton
    <2>3. Cardinality(Busy) <= 1
      BY <2>1, <2>2, FS_Subset
    <2> QED  BY <2>3 DEF PingsHoldOneConnection
  <1> QED  BY <1>1, AlwaysApiInv, PTL

\* Ready means that the database answered this probe's wait.
THEOREM ReadyMeansAnswered == ApiSpec => ReadyIsFresh
  <1>1. ApiInv /\ [ApiNext]_apiVars
          => [\A q \in Probes : Deliver(q, "ok") => probe[q].heard]_apiVars
    BY DEF ApiInv, ApiTypeOK, OkIsHeard, Deliver
  <1> QED  BY <1>1, AlwaysApiInv, PTL DEF ApiSpec, ReadyIsFresh

\* A request is cut only by the end of the process or after a full drain, and
\* telemetry and the pool are closed with no request left.
THEOREM RequestsAreDrained == ApiSpec => RequestsGetTheirTime
  <1>1. ApiInv /\ [ApiNext]_apiVars
          => [/\ \A r \in Requests :
                   (request[r] = "running" /\ request'[r] = "cut")
                   => life' = "gone" \/ (life = "forcing" /\ spent = DrainBudget)
              /\ life' \in {"flushing", "closing"} =>
                   \A r \in Requests : request'[r] # "running"]_apiVars
    <2> SUFFICES ASSUME ApiInv, ApiNext
                 PROVE  /\ \A r \in Requests :
                             (request[r] = "running" /\ request'[r] = "cut")
                             => life' = "gone" \/ (life = "forcing" /\ spent = DrainBudget)
                        /\ life' \in {"flushing", "closing"} =>
                             \A r \in Requests : request'[r] # "running"
      OBVIOUS
    <2>1. QuietIsEmpty'
      BY NextApiInv DEF ApiInv
    <2>2. request' = request \/ life' = "gone" \/ ForcedClosed
          \/ (life' # "gone" /\ \A r \in Requests : request'[r] # "cut")
          \/ \E r \in Requests : Arrive(r) \/ Respond(r)
      BY DEF ApiNext, Process, Readiness, StartServing, Restart, StartEnds, KilledByDocker, Signal,
             Fatal, FatalExit, Drained, DrainTimedOut, Flushed, ShutdownEnds, Exit, Deliver,
             checkDatabase, Connected, Answered, PingFailed, TimedOut, PostgresTurns, Tick
    <2>3. ASSUME NEW r \in Requests, request[r] = "running", request'[r] = "cut"
          PROVE  life' = "gone" \/ (life = "forcing" /\ spent = DrainBudget)
      <3>1. CASE ForcedClosed
        BY <3>1 DEF ForcedClosed, ApiInv, StepsInTime
      <3>2. ASSUME NEW s \in Requests, Arrive(s) \/ Respond(s) PROVE FALSE
        BY <2>3, <3>2 DEF Arrive, Respond, ApiInv, ApiTypeOK
      <3> QED  BY <2>2, <2>3, <3>1, <3>2
    <2> QED  BY <2>1, <2>3 DEF QuietIsEmpty, Quiet
  <1> QED  BY <1>1, AlwaysApiInv, PTL DEF ApiSpec, RequestsGetTheirTime

-----------------------------------------------------------------------------
(***************************************************************************)
(* THE LIMITERS                                                            *)
(***************************************************************************)
\* The window a caller's bucket counts, while it lasts.
Started(bucket, l) == bucket.resetAt - WindowMs[l]
Least(a, b) == IF a < b THEN a ELSE b

\* What a limiter let through of one caller.  In the window that runs, no more than it
\* counted; before it, within the length of a window, no more than one allowance; and as
\* much where no window runs.
Within(bucket, let, l, at) ==
    IF bucket.resetAt <= at
      THEN let[0] = 0 /\ \A age \in Ages(l) : let[age] <= MaxCalls[l]
      ELSE LET inside == at - Started(bucket, l)
           IN  /\ inside \in Ages(l)
               /\ let[inside] <= Least(bucket.count, MaxCalls[l])
               /\ \A age \in Ages(l) : age > inside => let[age] <= let[inside] + MaxCalls[l]

\* What was let through since a moment was let through since any earlier one.
Grows(let, l) == \A a, b \in Ages(l) : a <= b => let[a] <= let[b]

\* A caller's calls that await their refund from a limiter: those let through since a
\* moment, and those let through since one moment and not since a later one.
Young(calls, l, at, b) == {k \in Streams : calls[k].held[l] # 0 /\ at <= calls[k].since + b}
Between(calls, l, at, a, b) ==
    {k \in Streams : calls[k].held[l] # 0 /\ calls[k].since + a < at /\ at <= calls[k].since + b}

\* They are among the calls let through, in every stretch of time: a refund leaves no
\* history below zero, and what was let through still grows with the age.
Covered(calls, let, l, at) ==
    /\ \A a, b \in Ages(l) :
         a <= b => let[a] + Cardinality(Between(calls, l, at, a, b)) <= let[b]
    /\ \A b \in Ages(l) : Cardinality(Young(calls, l, at, b)) <= let[b]

\* A call that awaits its refund was counted in the caller's bucket or in one whose window
\* had ended before the bucket's began.
HeldIn(call, bucket, l, at) ==
    call.held[l] # 0 =>
        /\ call.since <= at /\ call.since < call.held[l]
        /\ call.held[l] <= call.since + WindowMs[l]
        /\ \/ call.held[l] = bucket.resetAt
           \/ IF bucket.resetAt <= at THEN call.held[l] <= at
                                      ELSE call.held[l] <= Started(bucket, l)

Tallies(calls, bucket, let, l, at) ==
    /\ Covered(calls, let, l, at)
    /\ \A k \in Streams : HeldIn(calls[k], bucket, l, at)
    /\ Within(bucket, let, l, at)

AllowanceHolds ==
    \A l \in Limiters, c \in Callers :
        Tallies(handling[c], buckets[l][c], admitted[l][c], l, moment)

-----------------------------------------------------------------------------
Bucket == [count : Nat, resetAt : Nat]
Calls == [Streams -> [since : Nat, held : [Limiters -> Nat]]]

LEMMA LimitTypes ==
    ASSUME RateTypeOK, NEW l \in Limiters, NEW c \in Callers
    PROVE  /\ WindowMs[l] \in Nat \ {0} /\ MaxCalls[l] \in Nat \ {0}
           /\ buckets[l] \in [Callers -> Bucket] /\ buckets[l][c] \in Bucket
           /\ admitted[l] \in [Callers -> [Ages(l) -> Nat]] /\ admitted[l][c] \in [Ages(l) -> Nat]
           /\ moment \in Nat /\ NoBucket \in Bucket
           /\ handling[c] \in Calls
  BY LimitsAssumption DEF RateTypeOK, Bucket, Moments, NoBucket, Calls

LEMMA AwaitingIsFinite ==
    ASSUME NEW S, S \subseteq Streams
    PROVE  IsFiniteSet(S) /\ Cardinality(S) \in Nat
  BY LimitsAssumption, FS_Subset, FS_CardinalityType

LEMMA AgesAreNat ==
    ASSUME NEW l \in Limiters
    PROVE  /\ WindowMs[l] \in Nat \ {0} /\ MaxCalls[l] \in Nat \ {0}
           /\ Ages(l) \subseteq Nat /\ 0 \in Ages(l)
           /\ \A age \in Ages(l) : age # 0 => age - 1 \in Ages(l)
  <1>1. WindowMs[l] \in Nat \ {0} /\ MaxCalls[l] \in Nat \ {0}
    BY LimitsAssumption
  <1> QED  BY <1>1 DEF Ages

LEMMA CoveredGrows ==
    ASSUME NEW l \in Limiters, NEW calls, NEW let \in [Ages(l) -> Nat], NEW at,
           Covered(calls, let, l, at)
    PROVE  Grows(let, l)
  <1> SUFFICES ASSUME NEW a \in Ages(l), NEW b \in Ages(l), a <= b PROVE let[a] <= let[b]
    BY DEF Grows
  <1>1. Cardinality(Between(calls, l, at, a, b)) \in Nat
    BY AwaitingIsFinite DEF Between
  <1>2. let[a] + Cardinality(Between(calls, l, at, a, b)) <= let[b]
    BY DEF Covered
  <1>3. let[a] \in Nat /\ let[b] \in Nat
    OBVIOUS
  <1> QED  BY <1>1, <1>2, <1>3

-----------------------------------------------------------------------------
(* A refund                                                                *)

\* The history without the call is one, and covers the calls that still await theirs.
LEMMA CoveredRefunds ==
    ASSUME NEW l \in Limiters, NEW calls \in Calls, NEW left \in Calls, NEW at \in Nat,
           NEW let \in [Ages(l) -> Nat], Covered(calls, let, l, at),
           NEW k \in Streams, calls[k].held[l] # 0, left[k].held[l] = 0,
           \A j \in Streams \ {k} : left[j] = calls[j],
           NEW less,
           less = [age \in Ages(l) |-> IF calls[k].since + age >= at THEN let[age] - 1 ELSE let[age]]
    PROVE  less \in [Ages(l) -> Nat] /\ Covered(left, less, l, at)
  <1>0. /\ Ages(l) \subseteq Nat /\ calls[k].since \in Nat
        /\ \A age \in Ages(l) : let[age] \in Nat
    BY AgesAreNat DEF Calls
  <1>1. ASSUME NEW b \in Ages(l)
        PROVE  /\ calls[k].since + b >= at => let[b] - 1 \in Nat
               /\ Cardinality(Young(left, l, at, b)) <= less[b]
    <2> DEFINE Y == Young(calls, l, at, b)
    <2>1. Cardinality(Y) <= let[b] /\ b \in Nat /\ let[b] \in Nat
      BY <1>0 DEF Covered
    <2>2. IsFiniteSet(Y) /\ Cardinality(Y) \in Nat
      BY AwaitingIsFinite DEF Young
    <2>3. k \in Y <=> calls[k].since + b >= at
      BY <1>0, <2>1 DEF Young
    <2>4. Young(left, l, at, b) = Y \ {k}
      BY DEF Young
    <2>5. less[b] = IF calls[k].since + b >= at THEN let[b] - 1 ELSE let[b]
      OBVIOUS
    <2> HIDE DEF Y
    <2>6. Cardinality(Y \ {k}) = IF k \in Y THEN Cardinality(Y) - 1 ELSE Cardinality(Y)
      BY <2>2, FS_RemoveElement
    <2>7. k \in Y => Cardinality(Y) # 0
      BY <2>2, FS_EmptySet
    <2> QED  BY <2>1, <2>2, <2>3, <2>4, <2>5, <2>6, <2>7
  <1>2. less \in [Ages(l) -> Nat]
    BY <1>0, <1>1
  <1>3. ASSUME NEW a \in Ages(l), NEW b \in Ages(l), a <= b
        PROVE  less[a] + Cardinality(Between(left, l, at, a, b)) <= less[b]
    <2> DEFINE B == Between(calls, l, at, a, b)
    <2>1. let[a] + Cardinality(B) <= let[b] /\ let[a] \in Nat /\ let[b] \in Nat
          /\ a \in Nat /\ b \in Nat
      BY <1>0, <1>3 DEF Covered
    <2>2. IsFiniteSet(B) /\ Cardinality(B) \in Nat
      BY AwaitingIsFinite DEF Between
    <2>3. k \in B <=> calls[k].since + b >= at /\ ~(calls[k].since + a >= at)
      BY <1>0, <2>1 DEF Between
    <2>4. Between(left, l, at, a, b) = B \ {k}
      BY DEF Between
    <2>5. /\ less[a] = IF calls[k].since + a >= at THEN let[a] - 1 ELSE let[a]
          /\ less[b] = IF calls[k].since + b >= at THEN let[b] - 1 ELSE let[b]
      OBVIOUS
    <2>6. calls[k].since + a >= at => calls[k].since + b >= at
      BY <1>0, <1>3, <2>1
    <2> HIDE DEF B
    <2>7. Cardinality(B \ {k}) = IF k \in B THEN Cardinality(B) - 1 ELSE Cardinality(B)
      BY <2>2, FS_RemoveElement
    <2> QED  BY <2>1, <2>2, <2>3, <2>4, <2>5, <2>6, <2>7
  <1> QED  BY <1>1, <1>2, <1>3 DEF Covered

\* The unit goes back to the bucket the call was counted in, if that is still the caller's:
\* then the call lies inside its window, and otherwise before it.
LEMMA WithinRefunds ==
    ASSUME NEW l \in Limiters, NEW call, call.since \in Nat, call.held[l] \in Nat \ {0},
           NEW bucket \in Bucket, NEW at \in Nat, HeldIn(call, bucket, l, at),
           NEW let \in [Ages(l) -> Nat], Within(bucket, let, l, at),
           NEW less \in [Ages(l) -> Nat],
           \A age \in Ages(l) :
              less[age] = IF call.since + age >= at THEN let[age] - 1 ELSE let[age],
           NEW back,
           back = IF bucket.resetAt = call.held[l]
                  THEN [bucket EXCEPT !.count = IF @ > 0 THEN @ - 1 ELSE 0] ELSE bucket
    PROVE  back \in Bucket /\ back.resetAt = bucket.resetAt /\ Within(back, less, l, at)
  <1>0. /\ WindowMs[l] \in Nat \ {0} /\ MaxCalls[l] \in Nat \ {0} /\ Ages(l) \subseteq Nat
        /\ bucket.resetAt \in Nat /\ bucket.count \in Nat
        /\ \A age \in Ages(l) : let[age] \in Nat /\ less[age] \in Nat
    BY AgesAreNat DEF Bucket
  <1>1. /\ back \in Bucket /\ back.resetAt = bucket.resetAt
        /\ back.count = IF bucket.resetAt = call.held[l] /\ bucket.count > 0
                        THEN bucket.count - 1 ELSE bucket.count
    BY <1>0 DEF Bucket
  <1>2. \A age \in Ages(l) : less[age] <= let[age]
    BY <1>0
  <1>3. CASE bucket.resetAt <= at
    <2>1. let[0] = 0 /\ \A age \in Ages(l) : let[age] <= MaxCalls[l]
      BY <1>3 DEF Within
    <2>2. less[0] = 0
      BY <1>0, <1>2, <2>1, AgesAreNat
    <2>3. \A age \in Ages(l) : less[age] <= MaxCalls[l]
      BY <1>0, <1>2, <2>1
    <2> QED  BY <1>1, <1>3, <2>2, <2>3 DEF Within
  <1>4. CASE bucket.resetAt > at
    <2> DEFINE inside == at - Started(bucket, l)
    <2>1. /\ inside \in Ages(l) /\ let[inside] <= bucket.count /\ let[inside] <= MaxCalls[l]
          /\ \A age \in Ages(l) : age > inside => let[age] <= let[inside] + MaxCalls[l]
      BY <1>0, <1>4 DEF Within, Least
    <2>2. Started(bucket, l) = bucket.resetAt - WindowMs[l] /\ Started(back, l) = Started(bucket, l)
      BY <1>1 DEF Started
    <2>3. inside = at - bucket.resetAt + WindowMs[l] /\ inside \in Nat
      BY <1>0, <2>1, <2>2
    <2>4. /\ call.since <= at /\ call.since < call.held[l]
          /\ call.held[l] <= call.since + WindowMs[l]
          /\ call.held[l] = bucket.resetAt \/ call.held[l] <= bucket.resetAt - WindowMs[l]
      BY <1>0, <1>4, <2>2 DEF HeldIn
    <2> HIDE DEF inside
    <2>5. CASE call.held[l] = bucket.resetAt
      <3>1. \A age \in Ages(l) : age >= inside => call.since + age >= at
        BY <1>0, <2>3, <2>4, <2>5
      <3>2. \A age \in Ages(l) : age >= inside => less[age] = let[age] - 1
        BY <3>1
      <3>3. less[inside] = let[inside] - 1 /\ less[inside] \in Nat /\ let[inside] \in Nat
        BY <1>0, <2>1, <2>3, <3>2
      <3>4. less[inside] <= back.count /\ less[inside] <= MaxCalls[l]
        BY <1>0, <1>1, <2>1, <2>5, <3>3
      <3>5. ASSUME NEW age \in Ages(l), age > inside PROVE less[age] <= less[inside] + MaxCalls[l]
        <4>1. age \in Nat /\ let[age] \in Nat /\ let[age] <= let[inside] + MaxCalls[l]
          BY <1>0, <2>1, <3>5
        <4>2. less[age] = let[age] - 1
          BY <2>3, <3>2, <3>5, <4>1
        <4> QED  BY <1>0, <3>3, <4>1, <4>2
      <3> QED  BY <1>0, <1>1, <1>4, <2>1, <2>2, <3>4, <3>5 DEF Within, Least, inside
    <2>6. CASE call.held[l] # bucket.resetAt
      <3>1. ~(call.since + inside >= at)
        BY <1>0, <2>3, <2>4, <2>6
      <3>2. less[inside] = let[inside]
        BY <2>1, <3>1
      <3>3. less[inside] <= back.count
        BY <1>1, <2>1, <2>6, <3>2
      <3>4. ASSUME NEW age \in Ages(l), age > inside PROVE less[age] <= less[inside] + MaxCalls[l]
        <4>1. less[age] <= let[age] /\ let[age] <= let[inside] + MaxCalls[l]
          BY <1>2, <2>1, <3>4
        <4> QED  BY <1>0, <2>1, <3>2, <4>1
      <3> QED  BY <1>0, <1>1, <1>4, <2>1, <2>2, <3>2, <3>3, <3>4 DEF Within, Least, inside
    <2> QED  BY <2>5, <2>6
  <1> QED  BY <1>0, <1>3, <1>4

LEMMA LeastBounds ==
    \A a, b, c \in Nat : c <= Least(a, b) <=> c <= a /\ c <= b
  BY DEF Least

\* Time passes: what was let through gets older, and a window may end.
LEMMA WithinAges ==
    ASSUME NEW l \in Limiters, NEW bucket \in Bucket, NEW let \in [Ages(l) -> Nat], NEW at \in Nat,
           NEW older \in [Ages(l) -> Nat], Grows(let, l), Within(bucket, let, l, at),
           \A age \in Ages(l) : older[age] = IF age = 0 THEN 0 ELSE let[age - 1]
    PROVE  Grows(older, l) /\ Within(bucket, older, l, at + 1)
  <1>0. /\ WindowMs[l] \in Nat \ {0} /\ MaxCalls[l] \in Nat \ {0}
        /\ bucket.resetAt \in Nat /\ bucket.count \in Nat
        /\ 0 \in Ages(l) /\ Ages(l) \subseteq Nat
        /\ \A age \in Ages(l) : age # 0 => age - 1 \in Ages(l)
        /\ \A age \in Ages(l) : let[age] \in Nat
    <2>1. WindowMs[l] \in Nat \ {0} /\ MaxCalls[l] \in Nat \ {0}
      BY LimitsAssumption
    <2>2. bucket.resetAt \in Nat /\ bucket.count \in Nat
      BY DEF Bucket
    <2>3. /\ 0 \in Ages(l) /\ Ages(l) \subseteq Nat
          /\ \A age \in Ages(l) : age # 0 => age - 1 \in Ages(l)
      BY <2>1 DEF Ages
    <2>4. \A age \in Ages(l) : let[age] \in Nat
      OBVIOUS
    <2> QED  BY <2>1, <2>2, <2>3, <2>4
  <1>1. Grows(older, l)
    BY <1>0 DEF Grows
  <1>2. CASE bucket.resetAt <= at
    <2>1. older[0] = 0 /\ \A age \in Ages(l) : let[age] <= MaxCalls[l]
      BY <1>0, <1>2 DEF Within
    <2>2. \A age \in Ages(l) : older[age] <= MaxCalls[l]
      BY <1>0, <2>1
    <2>3. bucket.resetAt <= at + 1
      BY <1>0, <1>2
    <2> QED  BY <1>1, <2>1, <2>2, <2>3 DEF Within
  <1>3. CASE bucket.resetAt > at
    <2> DEFINE inside == at - Started(bucket, l)
    <2>1. /\ inside \in Ages(l) /\ let[inside] <= bucket.count /\ let[inside] <= MaxCalls[l]
          /\ \A age \in Ages(l) : age > inside => let[age] <= let[inside] + MaxCalls[l]
      BY <1>0, <1>3 DEF Within, Least
    <2>2. \A age \in Ages(l) : age <= inside => let[age] <= let[inside]
      BY <2>1 DEF Grows
    <2>3. CASE bucket.resetAt <= at + 1
      <3>1. inside = WindowMs[l] - 1
        BY <1>0, <1>3, <2>3 DEF Started
      <3>2. \A age \in Ages(l) : age <= inside
        BY <1>0, <3>1 DEF Ages
      <3> HIDE DEF inside
      <3>3. ASSUME NEW age \in Ages(l) PROVE let[age] <= MaxCalls[l]
        <4>1. let[age] <= let[inside] /\ let[inside] <= MaxCalls[l]
          BY <2>1, <2>2, <3>2
        <4>2. let[age] \in Nat /\ let[inside] \in Nat /\ MaxCalls[l] \in Nat
          BY <1>0, <2>1
        <4> QED  BY <4>1, <4>2
      <3>4. \A age \in Ages(l) : older[age] <= MaxCalls[l]
        BY <1>0, <3>3
      <3>5. older[0] = 0
        BY <1>0
      <3>6. Within(bucket, older, l, at + 1)
        BY <2>3, <3>4, <3>5 DEF Within
      <3> QED  BY <1>1, <3>6
    <2>4. CASE bucket.resetAt > at + 1
      <3>1. inside + 1 \in Ages(l) /\ (at + 1) - Started(bucket, l) = inside + 1
        <4>1. inside \in 0..WindowMs[l] - 1
          BY <2>1 DEF Ages
        <4>2. /\ (at + 1) - Started(bucket, l) = inside + 1
              /\ inside + 1 = at + 1 - (bucket.resetAt - WindowMs[l])
          BY <1>0 DEF Started
        <4>3. inside + 1 \in 0..WindowMs[l] - 1
          BY <1>0, <2>4, <4>1, <4>2
        <4> QED  BY <4>2, <4>3 DEF Ages
      <3>2. older[inside + 1] = let[inside]
        BY <1>0, <2>1, <3>1
      <3>3. ASSUME NEW age \in Ages(l), age > inside + 1
            PROVE  older[age] <= older[inside + 1] + MaxCalls[l]
        <4>1. age - 1 \in Ages(l) /\ age - 1 > inside /\ older[age] = let[age - 1]
          BY <1>0, <2>1, <3>3
        <4> QED  BY <2>1, <3>2, <4>1
      <3> HIDE DEF inside
      <3>4. ~(bucket.resetAt <= at + 1)
        BY <1>0, <2>4
      <3>5. older[inside + 1] <= Least(bucket.count, MaxCalls[l])
        BY <2>1, <3>2 DEF Least
      <3> QED  BY <1>1, <3>1, <3>3, <3>4, <3>5 DEF Within
    <2> QED  BY <1>0, <2>3, <2>4
  <1> QED  BY <1>0, <1>1, <1>2, <1>3

\* A call is counted, and let through unless the count is above the allowance.
LEMMA WithinCounts ==
    ASSUME RateTypeOK, NEW l \in Limiters, NEW c \in Callers,
           Grows(admitted[l][c], l), Within(buckets[l][c], admitted[l][c], l, moment),
           NEW more \in [Ages(l) -> Nat],
           \A age \in Ages(l) :
              more[age] = IF Refuses(l, c) THEN admitted[l][c][age] ELSE admitted[l][c][age] + 1
    PROVE  Counted(l, c) \in Bucket /\ Grows(more, l) /\ Within(Counted(l, c), more, l, moment)
  <1> DEFINE bucket == buckets[l][c]
             let == admitted[l][c]
  <1>0. /\ WindowMs[l] \in Nat \ {0} /\ MaxCalls[l] \in Nat \ {0}
        /\ bucket \in Bucket /\ bucket.resetAt \in Nat /\ bucket.count \in Nat
        /\ 0 \in Ages(l) /\ Ages(l) \subseteq Nat /\ moment \in Nat
        /\ \A age \in Ages(l) : let[age] \in Nat
    BY LimitTypes DEF Ages, Bucket
  <1>1. Grows(more, l)
    BY <1>0 DEF Grows
  <1>2. CASE bucket.resetAt <= moment
    <2>1. Counted(l, c) = [count |-> 1, resetAt |-> moment + WindowMs[l]]
      BY <1>0, <1>2, LimitTypes DEF Counted, Swept, Expired
    <2>2. ~Refuses(l, c)
      BY <1>0, <2>1 DEF Refuses
    <2>3. let[0] = 0 /\ \A age \in Ages(l) : let[age] <= MaxCalls[l]
      BY <1>2 DEF Within
    <2>4. more[0] = 1 /\ \A age \in Ages(l) : more[age] <= 1 + MaxCalls[l]
      BY <1>0, <2>2, <2>3
    <2>5. moment - Started(Counted(l, c), l) = 0 /\ ~(Counted(l, c).resetAt <= moment)
          /\ Counted(l, c).count = 1
      BY <1>0, <2>1 DEF Started
    <2>6. Counted(l, c) \in Bucket
      BY <1>0, <2>1 DEF Bucket
    <2> QED  BY <1>0, <1>1, <2>4, <2>5, <2>6 DEF Within, Least
  <1>3. CASE bucket.resetAt > moment
    <2>1. Counted(l, c) = [bucket EXCEPT !.count = @ + 1]
      <3>1. Swept(l)[c] = bucket
        BY <1>0, <1>3, LimitTypes DEF Swept, Expired
      <3>2. bucket # NoBucket
        BY <1>0, <1>3 DEF NoBucket
      <3> QED  BY <1>0, <1>3, <3>1, <3>2 DEF Counted, Expired
    <2>2. /\ Counted(l, c) \in Bucket /\ Counted(l, c).count = bucket.count + 1
          /\ Counted(l, c).resetAt = bucket.resetAt
      BY <1>0, <2>1 DEF Bucket
    <2> DEFINE inside == moment - Started(bucket, l)
    <2>3. /\ inside \in Ages(l) /\ let[inside] <= bucket.count /\ let[inside] <= MaxCalls[l]
          /\ \A age \in Ages(l) : age > inside => let[age] <= let[inside] + MaxCalls[l]
      BY <1>0, <1>3 DEF Within, Least
    <2>4. moment - Started(Counted(l, c), l) = inside
      BY <2>2 DEF Started
    <2>5. more[inside] <= bucket.count + 1 /\ more[inside] <= MaxCalls[l]
      <3>1. CASE Refuses(l, c)
        BY <1>0, <2>3, <3>1
      <3>2. CASE ~Refuses(l, c)
        <4>1. bucket.count + 1 <= MaxCalls[l]
          BY <1>0, <2>2, <3>2 DEF Refuses
        <4> QED  BY <1>0, <2>3, <3>2, <4>1
      <3> QED  BY <3>1, <3>2
    <2>6. \A age \in Ages(l) : age > inside => more[age] <= more[inside] + MaxCalls[l]
      BY <1>0, <2>3
    <2>7. ~(Counted(l, c).resetAt <= moment)
      BY <1>0, <1>3, <2>2
    <2> HIDE DEF inside
    <2> QED  BY <1>0, <1>1, <2>2, <2>3, <2>4, <2>5, <2>6, <2>7 DEF Within, Least
  <1> QED  BY <1>0, <1>2, <1>3

\* A sweep drops no bucket whose window still runs.
LEMMA WithinSwept ==
    ASSUME RateTypeOK, NEW l \in Limiters, NEW c \in Callers,
           Within(buckets[l][c], admitted[l][c], l, moment)
    PROVE  Swept(l)[c] \in Bucket /\ Within(Swept(l)[c], admitted[l][c], l, moment)
  <1>1. Swept(l)[c] = buckets[l][c] \/ (Expired(buckets[l][c]) /\ Swept(l)[c] = NoBucket)
    BY DEF Swept
  <1>2. NoBucket.resetAt <= moment
    BY LimitTypes DEF NoBucket
  <1> QED  BY <1>1, <1>2, LimitTypes DEF Within, Expired

-----------------------------------------------------------------------------
(* The calls that await a refund                                           *)

\* They get older with the rest.
LEMMA CoveredAges ==
    ASSUME NEW l \in Limiters, NEW calls \in Calls, NEW let \in [Ages(l) -> Nat], NEW at \in Nat,
           Covered(calls, let, l, at),
           NEW older \in [Ages(l) -> Nat],
           \A age \in Ages(l) : older[age] = IF age = 0 THEN 0 ELSE let[age - 1],
           \A k \in Streams : calls[k].held[l] # 0 => calls[k].since <= at
    PROVE  Covered(calls, older, l, at + 1)
  <1>0. /\ Ages(l) \subseteq Nat /\ 0 \in Ages(l)
        /\ \A age \in Ages(l) : age # 0 => age - 1 \in Ages(l)
        /\ \A k \in Streams : calls[k].since \in Nat
    BY AgesAreNat DEF Calls
  <1>1. ASSUME NEW b \in Ages(l) PROVE Cardinality(Young(calls, l, at + 1, b)) <= older[b]
    <2>1. CASE b = 0
      <3>1. Young(calls, l, at + 1, b) = {}
        BY <1>0, <2>1 DEF Young
      <3>2. Cardinality(Young(calls, l, at + 1, b)) = 0
        BY <3>1, FS_EmptySet
      <3>3. older[b] = 0
        BY <2>1
      <3> QED  BY <3>2, <3>3
    <2>2. CASE b # 0
      <3>1. b \in Nat /\ b - 1 \in Ages(l)
        BY <1>0, <2>2
      <3>2. Young(calls, l, at + 1, b) = Young(calls, l, at, b - 1)
        BY <1>0, <3>1 DEF Young
      <3>3. Cardinality(Young(calls, l, at, b - 1)) <= let[b - 1] /\ older[b] = let[b - 1]
        BY <2>2, <3>1 DEF Covered
      <3> QED  BY <3>2, <3>3
    <2> QED  BY <2>1, <2>2
  <1>2. ASSUME NEW a \in Ages(l), NEW b \in Ages(l), a <= b
        PROVE  older[a] + Cardinality(Between(calls, l, at + 1, a, b)) <= older[b]
    <2>1. CASE a = 0
      <3> DEFINE Y == Young(calls, l, at + 1, b)
                 B == Between(calls, l, at + 1, a, b)
      <3>1. B \subseteq Y
        BY DEF Young, Between
      <3>2. IsFiniteSet(Y) /\ Cardinality(Y) \in Nat /\ Cardinality(B) \in Nat
        BY AwaitingIsFinite DEF Young, Between
      <3>3. Cardinality(Y) <= older[b] /\ older[a] = 0 /\ older[b] \in Nat
        BY <1>1, <2>1
      <3> HIDE DEF Y
      <3>4. Cardinality(B) <= Cardinality(Y)
        <4> HIDE DEF B
        <4> QED  BY <3>1, <3>2, FS_Subset
      <3> HIDE DEF B
      <3>5. older[a] + Cardinality(B) <= older[b]
        BY <3>2, <3>3, <3>4
      <3> QED  BY <3>5 DEF B
    <2>2. CASE a # 0
      <3>1. a \in Nat /\ b \in Nat /\ b # 0 /\ a - 1 \in Ages(l) /\ b - 1 \in Ages(l) /\ a - 1 <= b - 1
        BY <1>0, <1>2, <2>2
      <3>2. Between(calls, l, at + 1, a, b) = Between(calls, l, at, a - 1, b - 1)
        BY <1>0, <3>1 DEF Between
      <3>3. let[a - 1] + Cardinality(Between(calls, l, at, a - 1, b - 1)) <= let[b - 1]
        BY <3>1 DEF Covered
      <3> QED  BY <2>2, <3>1, <3>2, <3>3
    <2> QED  BY <2>1, <2>2
  <1> QED  BY <1>1, <1>2 DEF Covered

\* A call that the limiter does not keep leaves them as they are.
LEMMA CoveredStays ==
    ASSUME NEW l \in Limiters, NEW calls, NEW after, NEW let, NEW at, Covered(calls, let, l, at),
           \A j \in Streams : after[j] = calls[j] \/ (after[j].held[l] = 0 /\ calls[j].held[l] = 0)
    PROVE  Covered(after, let, l, at)
  <1>1. \A b : Young(after, l, at, b) = Young(calls, l, at, b)
    BY DEF Young
  <1>2. \A a, b : Between(after, l, at, a, b) = Between(calls, l, at, a, b)
    BY DEF Between
  <1> QED  BY <1>1, <1>2 DEF Covered

\* Another call is with its handler, or none.
Joins(calls, after, k, l, at) ==
    \A j \in Streams :
       \/ after[j] = calls[j]
       \/ j = k /\ calls[j].held[l] = 0 /\ (after[j].held[l] = 0 \/ after[j].since = at)

\* One it lets through is at most one more of them.
LEMMA CoveredCounts ==
    ASSUME NEW l \in Limiters, NEW calls, NEW after, NEW let \in [Ages(l) -> Nat],
           NEW at \in Nat, Covered(calls, let, l, at), NEW k, Joins(calls, after, k, l, at),
           NEW more \in [Ages(l) -> Nat], \A age \in Ages(l) : more[age] = let[age] + 1
    PROVE  Covered(after, more, l, at)
  <1>0. Ages(l) \subseteq Nat /\ \A age \in Ages(l) : let[age] \in Nat
    BY AgesAreNat
  <1>1. ASSUME NEW b \in Ages(l) PROVE Cardinality(Young(after, l, at, b)) <= more[b]
    <2> DEFINE Y == Young(calls, l, at, b)
               N == Young(after, l, at, b)
    <2>1. N \subseteq Y \union {k}
      BY DEF Young, Joins
    <2>2. IsFiniteSet(Y) /\ Cardinality(Y) \in Nat /\ Cardinality(N) \in Nat
      BY AwaitingIsFinite DEF Young
    <2>3. Cardinality(Y) <= let[b] /\ more[b] = let[b] + 1 /\ let[b] \in Nat
      BY <1>0 DEF Covered
    <2> HIDE DEF Y, N
    <2>4. /\ IsFiniteSet(Y \union {k})
          /\ Cardinality(Y \union {k}) = IF k \in Y THEN Cardinality(Y) ELSE Cardinality(Y) + 1
      BY <2>2, FS_AddElement
    <2>5. Cardinality(N) <= Cardinality(Y \union {k})
      BY <2>1, <2>4, FS_Subset
    <2>6. Cardinality(N) <= more[b]
      BY <2>2, <2>3, <2>4, <2>5
    <2> QED  BY <2>6 DEF N
  <1>2. ASSUME NEW a \in Ages(l), NEW b \in Ages(l), a <= b
        PROVE  more[a] + Cardinality(Between(after, l, at, a, b)) <= more[b]
    <2>1. a \in Nat
      BY <1>0
    <2>2. Between(after, l, at, a, b) \subseteq Between(calls, l, at, a, b)
      BY <2>1 DEF Between, Joins
    <2>3. /\ IsFiniteSet(Between(calls, l, at, a, b))
          /\ Cardinality(Between(calls, l, at, a, b)) \in Nat
          /\ Cardinality(Between(after, l, at, a, b)) \in Nat
      BY AwaitingIsFinite DEF Between
    <2>4. Cardinality(Between(after, l, at, a, b)) <= Cardinality(Between(calls, l, at, a, b))
      BY <2>2, <2>3, FS_Subset
    <2>5. let[a] + Cardinality(Between(calls, l, at, a, b)) <= let[b]
      BY <1>2 DEF Covered
    <2> QED  BY <1>0, <2>3, <2>4, <2>5
  <1> QED  BY <1>1, <1>2 DEF Covered

\* A bucket keeps its end, or another takes its place once its window has ended.
LEMMA HeldFollows ==
    ASSUME NEW l \in Limiters, NEW call, call.held[l] \in Nat, NEW at \in Nat,
           NEW bucket \in Bucket, NEW next \in Bucket, HeldIn(call, bucket, l, at),
           \/ next.resetAt = bucket.resetAt
           \/ bucket.resetAt <= at /\ (next.resetAt <= at \/ next.resetAt = at + WindowMs[l])
    PROVE  HeldIn(call, next, l, at)
  <1>1. WindowMs[l] \in Nat \ {0} /\ bucket.resetAt \in Nat /\ next.resetAt \in Nat
    BY AgesAreNat DEF Bucket
  <1> QED  BY <1>1 DEF HeldIn, Started

LEMMA HeldAges ==
    ASSUME NEW l \in Limiters, NEW call, call.held[l] \in Nat, call.since \in Nat,
           NEW at \in Nat, NEW bucket \in Bucket, HeldIn(call, bucket, l, at)
    PROVE  HeldIn(call, bucket, l, at + 1)
  <1>1. WindowMs[l] \in Nat \ {0} /\ bucket.resetAt \in Nat
    BY AgesAreNat DEF Bucket
  <1> QED  BY <1>1 DEF HeldIn, Started

\* The bucket a call is counted in: the caller's, or one that begins with the call.
LEMMA CountedWindow ==
    ASSUME RateTypeOK, NEW l \in Limiters, NEW c \in Callers,
           Within(buckets[l][c], admitted[l][c], l, moment)
    PROVE  /\ moment < Counted(l, c).resetAt /\ Counted(l, c).resetAt <= moment + WindowMs[l]
           /\ \/ Counted(l, c).resetAt = buckets[l][c].resetAt
              \/ /\ buckets[l][c].resetAt <= moment
                 /\ Counted(l, c).resetAt = moment + WindowMs[l]
  <1> DEFINE bucket == buckets[l][c]
  <1>0. /\ WindowMs[l] \in Nat \ {0} /\ bucket \in Bucket /\ moment \in Nat
        /\ bucket.resetAt \in Nat /\ bucket.count \in Nat
    BY LimitTypes DEF Bucket
  <1>1. CASE bucket.resetAt <= moment
    <2>1. Counted(l, c) = [count |-> 1, resetAt |-> moment + WindowMs[l]]
      BY <1>0, <1>1, LimitTypes DEF Counted, Swept, Expired
    <2> QED  BY <1>0, <1>1, <2>1
  <1>2. CASE bucket.resetAt > moment
    <2>1. Swept(l)[c] = bucket /\ bucket # NoBucket
      BY <1>0, <1>2, LimitTypes DEF Swept, Expired, NoBucket
    <2>2. Counted(l, c).resetAt = bucket.resetAt
      BY <1>0, <1>2, <2>1 DEF Counted, Expired, Bucket
    <2>3. moment - Started(bucket, l) \in Ages(l)
      BY <1>0, <1>2 DEF Within
    <2>4. bucket.resetAt <= moment + WindowMs[l]
      BY <1>0, <2>3 DEF Ages, Started
    <2> QED  BY <1>2, <2>2, <2>4
  <1> QED  BY <1>0, <1>1, <1>2

\* A caller's calls after one more: where a limiter keeps it, it was let through now and
\* counted in the bucket that ends then.
LEMMA HandledJoins ==
    ASSUME RateTypeOK, NEW c \in Callers, NEW refundable, refundable \subseteq Limiters,
           Handled(c, refundable), NEW l \in Limiters
    PROVE  /\ \A d \in Callers \ {c} : handling'[d] = handling[d]
           /\ \E k : \A j \in Streams :
                \/ handling'[c][j] = handling[c][j]
                \/ /\ j = k /\ handling[c][j].held[l] = 0
                   /\ \/ handling'[c][j].held[l] = 0
                      \/ /\ l \in refundable /\ handling'[c][j].since = moment
                         /\ handling'[c][j].held[l] = Counted(l, c).resetAt
  <1>1. CASE UNCHANGED handling
    BY <1>1
  <1>2. CASE ~UNCHANGED handling
    <2>1. PICK k \in Streams, back \in SUBSET refundable :
             /\ handling[c][k] = Unused
             /\ handling' = [handling EXCEPT ![c][k] = Counting(c, back)]
      BY <1>2 DEF Handled
    <2>2. /\ handling'[c][k] = Counting(c, back)
          /\ \A j \in Streams \ {k} : handling'[c][j] = handling[c][j]
          /\ \A d \in Callers \ {c} : handling'[d] = handling[d]
      BY <2>1 DEF RateTypeOK
    <2>3. /\ Counting(c, back).since = moment
          /\ \/ Counting(c, back).held[l] = 0
             \/ l \in back /\ Counting(c, back).held[l] = Counted(l, c).resetAt
      BY DEF Counting
    <2>4. handling[c][k].held[l] = 0
      BY <2>1 DEF Unused
    <2>5. l \in back => l \in refundable
      OBVIOUS
    <2> QED  BY <2>2, <2>3, <2>4, <2>5
  <1> QED  BY <1>1, <1>2

-----------------------------------------------------------------------------
LEMMA InitAllowance == RateInit => RateTypeOK /\ AllowanceHolds
  <1> SUFFICES ASSUME RateInit PROVE RateTypeOK /\ AllowanceHolds
    OBVIOUS
  <1>1. /\ \A l \in Limiters : WindowMs[l] \in Nat \ {0} /\ MaxCalls[l] \in Nat \ {0}
        /\ FirstMoment \in Nat /\ LastMoment \in Nat
    BY LimitsAssumption
  <1>2. RateTypeOK
    <2>1. NoBucket \in [count : Nat, resetAt : Nat] /\ moment \in Moments /\ 0 \in 0..LastMoment
      BY <1>1, LimitsAssumption DEF NoBucket, RateInit, Moments
    <2>2. buckets \in [Limiters -> [Callers -> [count : Nat, resetAt : Nat]]]
      BY <2>1 DEF RateInit
    <2>3. Unused \in [since : Nat, held : [Limiters -> Nat]]
      BY DEF Unused
    <2>4. handling \in [Callers -> [Streams -> [since : Nat, held : [Limiters -> Nat]]]]
      BY <2>3 DEF RateInit
    <2> QED  BY <2>1, <2>2, <2>4 DEF RateInit, RateTypeOK
  <1>3. ASSUME NEW l \in Limiters, NEW c \in Callers
        PROVE  Tallies(handling[c], buckets[l][c], admitted[l][c], l, moment)
    <2>1. /\ admitted[l][c] = [age \in Ages(l) |-> 0] /\ buckets[l][c].resetAt = 0
          /\ moment \in Nat /\ 0 \in Ages(l)
          /\ \A k \in Streams : handling[c][k].held[l] = 0
      BY <1>1 DEF RateInit, NoBucket, Ages, Unused
    <2>2. Within(buckets[l][c], admitted[l][c], l, moment)
      BY <1>1, <2>1 DEF Within
    <2>3. /\ \A b : Young(handling[c], l, moment, b) = {}
          /\ \A a, b : Between(handling[c], l, moment, a, b) = {}
      BY <2>1 DEF Young, Between
    <2>4. Covered(handling[c], admitted[l][c], l, moment)
      <3>1. /\ \A b : Cardinality(Young(handling[c], l, moment, b)) = 0
            /\ \A a, b : Cardinality(Between(handling[c], l, moment, a, b)) = 0
        BY <2>3, FS_EmptySet
      <3> QED  BY <2>1, <3>1 DEF Covered
    <2>5. \A k \in Streams : HeldIn(handling[c][k], buckets[l][c], l, moment)
      BY <2>1 DEF HeldIn
    <2> QED  BY <2>2, <2>4, <2>5 DEF Tallies
  <1> QED  BY <1>2, <1>3 DEF AllowanceHolds

LEMMA CallKeepsTypes ==
    ASSUME RateTypeOK, AllowanceHolds, NEW route \in {"procedure", "contact"}, NEW c \in Callers,
           Call(route, c)
    PROVE  RateTypeOK' /\ \A l \in Limiters : Counted(l, c) \in Bucket
  <1>0. /\ \A l \in Limiters : WindowMs[l] \in Nat \ {0} /\ MaxCalls[l] \in Nat \ {0}
        /\ FirstMoment \in Nat /\ LastMoment \in Nat /\ moment \in Nat
        /\ buckets \in [Limiters -> [Callers -> Bucket]]
        /\ \A l \in Limiters : admitted[l] \in [Callers -> [Ages(l) -> Nat]]
        /\ NoBucket \in Bucket
    BY LimitsAssumption DEF RateTypeOK, Moments, Bucket, NoBucket
  <1>1. ASSUME NEW l \in Limiters
        PROVE  Swept(l) \in [Callers -> Bucket] /\ Counted(l, c) \in Bucket
    <2>1. Swept(l) \in [Callers -> Bucket]
      BY <1>0 DEF Swept
    <2>2. Swept(l)[c] \in Bucket
      BY <2>1
    <2> HIDE DEF Swept
    <2>3. moment + WindowMs[l] \in Nat
      BY <1>0
    <2>4. Counted(l, c) \in Bucket
      BY <2>2, <2>3 DEF Counted, Bucket
    <2> QED  BY <2>1, <2>4
  <1>2. buckets' \in [Limiters -> [Callers -> Bucket]]
    <2>1. buckets' = [l \in Limiters |->
                        IF l \in Meets(route, c) THEN [Swept(l) EXCEPT ![c] = Counted(l, c)]
                        ELSE buckets[l]]
      BY DEF Call
    <2>2. \A l \in Limiters : [Swept(l) EXCEPT ![c] = Counted(l, c)] \in [Callers -> Bucket]
      BY <1>1
    <2> QED  BY <1>0, <2>1, <2>2
  <1>3. lastSweep' \in [Limiters -> 0..LastMoment]
    <2>1. lastSweep \in [Limiters -> 0..LastMoment] /\ moment \in 0..LastMoment
      BY <1>0 DEF RateTypeOK, Moments
    <2> QED  BY <2>1 DEF Call
  <1>4. DOMAIN admitted' = Limiters /\ \A l \in Limiters : admitted'[l] \in [Callers -> [Ages(l) -> Nat]]
    <2>1. \A l \in Limiters : [age \in Ages(l) |-> admitted[l][c][age] + 1] \in [Ages(l) -> Nat]
      BY <1>0
    <2>2. \A l \in Limiters :
            admitted'[l] = IF l \in Meets(route, c) /\ ~Refuses(l, c)
              THEN [admitted[l] EXCEPT ![c] = [age \in Ages(l) |-> admitted[l][c][age] + 1]]
              ELSE admitted[l]
      BY DEF Call
    <2>3. \A l \in Limiters : admitted'[l] \in [Callers -> [Ages(l) -> Nat]]
      BY <1>0, <2>1, <2>2
    <2> QED  BY <2>3 DEF Call
  <1>5. handling' \in [Callers -> Calls]
    <2>0. handling \in [Callers -> Calls]
      BY DEF RateTypeOK, Calls
    <2>1. \A back : Counting(c, back) \in [since : Nat, held : [Limiters -> Nat]]
      <3>1. \A l \in Limiters : Counted(l, c).resetAt \in Nat
        BY <1>1 DEF Bucket
      <3> QED  BY <1>0, <3>1 DEF Counting
    <2>2. CASE UNCHANGED handling
      BY <2>0, <2>2
    <2>3. CASE ~UNCHANGED handling
      <3>1. PICK k \in Streams, back \in SUBSET Limiters :
               handling' = [handling EXCEPT ![c][k] = Counting(c, back)]
        <4>1. {l \in Meets(route, c) \intersect Refunding : ~Refuses(l, c)} \subseteq Limiters
          BY LimitsAssumption
        <4> QED  BY <2>3, <4>1 DEF Call, Handled
      <3> QED  BY <2>0, <2>1, <3>1 DEF Calls
    <2> QED  BY <2>2, <2>3
  <1> QED  BY <1>1, <1>2, <1>3, <1>4, <1>5 DEF RateTypeOK, Call, Bucket, Calls

LEMMA CallSettles ==
    ASSUME RateTypeOK, AllowanceHolds, NEW route \in {"procedure", "contact"}, NEW c \in Callers,
           Call(route, c), NEW l \in Limiters, NEW d \in Callers
    PROVE  Tallies(handling'[d], buckets'[l][d], admitted'[l][d], l, moment)
  <1> DEFINE met == Meets(route, c)
             bucket == buckets[l][d]
             let == admitted[l][d]
             next == buckets'[l][d]
             more == admitted'[l][d]
             calls == handling[d]
             after == handling'[d]
  <1>0. /\ bucket \in Bucket /\ let \in [Ages(l) -> Nat] /\ calls \in Calls /\ moment \in Nat
        /\ Swept(l)[d] \in Bucket /\ NoBucket \in Bucket
        /\ Covered(calls, let, l, moment) /\ Within(bucket, let, l, moment)
        /\ \A k \in Streams : HeldIn(calls[k], bucket, l, moment)
    <2>1. Covered(calls, let, l, moment) /\ Within(bucket, let, l, moment)
            /\ \A k \in Streams : HeldIn(calls[k], bucket, l, moment)
      BY DEF AllowanceHolds, Tallies
    <2> QED  BY <2>1, LimitTypes, WithinSwept
  <1>1. Grows(let, l)
    <2> HIDE DEF let, calls
    <2> QED  BY <1>0, CoveredGrows
  <1>2. /\ RateTypeOK' /\ Counted(l, c) \in Bucket /\ next \in Bucket /\ more \in [Ages(l) -> Nat]
    BY CallKeepsTypes DEF RateTypeOK, Bucket
  <1>3. /\ buckets'[l] = IF l \in met THEN [Swept(l) EXCEPT ![c] = Counted(l, c)] ELSE buckets[l]
        /\ admitted'[l] = IF l \in met /\ ~Refuses(l, c)
             THEN [admitted[l] EXCEPT ![c] = [age \in Ages(l) |-> admitted[l][c][age] + 1]]
             ELSE admitted[l]
        /\ Handled(c, {m \in met \intersect Refunding : ~Refuses(m, c)})
    BY DEF Call
  <1>4. /\ \A e \in Callers \ {c} : handling'[e] = handling[e]
        /\ \E k : \A j \in Streams :
             \/ handling'[c][j] = handling[c][j]
             \/ /\ j = k /\ handling[c][j].held[l] = 0
                /\ \/ handling'[c][j].held[l] = 0
                   \/ /\ l \in met /\ ~Refuses(l, c) /\ handling'[c][j].since = moment
                      /\ handling'[c][j].held[l] = Counted(l, c).resetAt
    <2> DEFINE refundable == {m \in met \intersect Refunding : ~Refuses(m, c)}
    <2>1. refundable \subseteq Limiters /\ (l \in refundable => l \in met /\ ~Refuses(l, c))
      BY LimitsAssumption
    <2>2. Handled(c, refundable)
      BY <1>3
    <2> HIDE DEF refundable
    <2> QED  BY <2>1, <2>2, HandledJoins
  <1>5. buckets[l] \in [Callers -> Bucket] /\ admitted[l] \in [Callers -> [Ages(l) -> Nat]]
          /\ Swept(l) \in [Callers -> Bucket]
    <2>1. buckets[l] \in [Callers -> Bucket] /\ admitted[l] \in [Callers -> [Ages(l) -> Nat]]
      BY LimitTypes
    <2> QED  BY <1>0, <2>1 DEF Swept
  <1> HIDE DEF met
  \* Another caller's bucket may be swept.
  <1>6. CASE d # c
    <2>1. after = calls /\ more = let /\ next \in {bucket, Swept(l)[d]}
      BY <1>3, <1>4, <1>5, <1>6
    <2>2. Within(next, let, l, moment)
      BY <1>0, <2>1, WithinSwept
    <2>3. next.resetAt = bucket.resetAt \/ (bucket.resetAt <= moment /\ next.resetAt <= moment)
      BY <1>0, <2>1, LimitTypes DEF Swept, Expired, NoBucket
    <2>4. \A k \in Streams : calls[k].held[l] \in Nat
      BY <1>0 DEF Calls
    <2> HIDE DEF bucket, let, next, more, calls, after
    <2>5. \A k \in Streams : HeldIn(calls[k], next, l, moment)
      BY <1>0, <1>2, <2>3, <2>4, HeldFollows
    <2>6. Tallies(after, next, more, l, moment)
      BY <1>0, <2>1, <2>2, <2>5 DEF Tallies
    <2> QED  BY <2>6 DEF after, next, more
  \* A limiter that does not see the call keeps everything.
  <1>7. CASE d = c /\ l \notin met
    <2>1. /\ more = let /\ next = bucket
          /\ \A j \in Streams : after[j] = calls[j] \/ (after[j].held[l] = 0 /\ calls[j].held[l] = 0)
      BY <1>3, <1>4, <1>7
    <2> HIDE DEF bucket, let, next, more, calls, after
    <2>2. Covered(after, let, l, moment)
      BY <1>0, <2>1, CoveredStays
    <2>3. \A j \in Streams : HeldIn(after[j], bucket, l, moment)
      BY <1>0, <2>1 DEF HeldIn
    <2>4. Tallies(after, next, more, l, moment)
      BY <1>0, <2>1, <2>2, <2>3 DEF Tallies
    <2> QED  BY <2>4 DEF after, next, more
  <1>8. CASE d = c /\ l \in met
    <2>1. /\ next = Counted(l, c)
          /\ \A age \in Ages(l) : more[age] = IF Refuses(l, c) THEN let[age] ELSE let[age] + 1
      BY <1>3, <1>5, <1>8
    <2>2. Within(next, more, l, moment)
      BY <1>0, <1>1, <1>2, <1>8, <2>1, WithinCounts
    <2>3. /\ moment < next.resetAt /\ next.resetAt <= moment + WindowMs[l]
          /\ \/ next.resetAt = bucket.resetAt
             \/ bucket.resetAt <= moment /\ next.resetAt = moment + WindowMs[l]
      BY <1>0, <1>8, <2>1, CountedWindow
    <2>4. PICK k : \A j \in Streams :
             \/ after[j] = calls[j]
             \/ /\ j = k /\ calls[j].held[l] = 0
                /\ \/ after[j].held[l] = 0
                   \/ ~Refuses(l, c) /\ after[j].since = moment /\ after[j].held[l] = next.resetAt
      BY <1>4, <1>8, <2>1
    <2>5. \A j \in Streams : calls[j].held[l] \in Nat
      BY <1>0 DEF Calls
    <2> DEFINE refused == Refuses(l, c)
    <2> HIDE DEF bucket, let, next, more, calls, after, refused
    <2>6. Covered(after, more, l, moment)
      <3>1. CASE refused
        <4>1. more = let
          BY <1>0, <1>2, <2>1, <3>1 DEF refused
        <4>2. \A j \in Streams : after[j] = calls[j] \/ (after[j].held[l] = 0 /\ calls[j].held[l] = 0)
          BY <2>4, <3>1 DEF refused
        <4> QED  BY <1>0, <4>1, <4>2, CoveredStays
      <3>2. CASE ~refused
        <4>1. \A age \in Ages(l) : more[age] = let[age] + 1
          BY <2>1, <3>2 DEF refused
        <4>2. Joins(calls, after, k, l, moment)
          BY <2>4 DEF Joins
        <4>3. /\ let \in [Ages(l) -> Nat] /\ more \in [Ages(l) -> Nat] /\ moment \in Nat
              /\ Covered(calls, let, l, moment)
          BY <1>0, <1>2
        <4> QED  BY <4>1, <4>2, <4>3, CoveredCounts
      <3> QED  BY <3>1, <3>2
    <2>7. ASSUME NEW j \in Streams PROVE HeldIn(after[j], next, l, moment)
      <3>1. CASE after[j] = calls[j]
        BY <1>0, <1>2, <2>3, <2>5, <3>1, HeldFollows
      <3>2. CASE after[j].held[l] = 0
        BY <3>2 DEF HeldIn
      <3>3. CASE after[j].since = moment /\ after[j].held[l] = next.resetAt
        BY <1>0, <2>3, <3>3 DEF HeldIn
      <3> QED  BY <2>4, <3>1, <3>2, <3>3
    <2>8. Tallies(after, next, more, l, moment)
      BY <2>2, <2>6, <2>7 DEF Tallies
    <2> QED  BY <2>8 DEF after, next, more
  <1> QED  BY <1>6, <1>7, <1>8

\* A refund, by every limiter that keeps the call.
LEMMA ReturnSettles ==
    ASSUME RateTypeOK, AllowanceHolds, NEW c \in Callers, NEW k \in Streams, Returns(c, k)
    PROVE  /\ RateTypeOK'
           /\ \A l \in Limiters, d \in Callers :
                Tallies(handling'[d], buckets'[l][d], admitted'[l][d], l, moment)
  <1> DEFINE call == handling[c][k]
             less(l) == [age \in Ages(l) |-> IF call.since + age >= moment
                                             THEN admitted[l][c][age] - 1 ELSE admitted[l][c][age]]
             back(l) == IF buckets[l][c].resetAt = call.held[l]
                        THEN [buckets[l][c] EXCEPT !.count = IF @ > 0 THEN @ - 1 ELSE 0]
                        ELSE buckets[l][c]
  <1>0. /\ call.since \in Nat /\ \A l \in Limiters : call.held[l] \in Nat
        /\ handling \in [Callers -> Calls] /\ Unused.held \in [Limiters -> Nat]
        /\ Unused.since \in Nat /\ Unused \in [since : Nat, held : [Limiters -> Nat]]
        /\ \A l \in Limiters : Unused.held[l] = 0
    BY DEF RateTypeOK, Calls, Unused
  <1>1. /\ handling' = [handling EXCEPT ![c][k] = Unused] /\ UNCHANGED <<moment, lastSweep>>
        /\ DOMAIN admitted' = Limiters
    BY DEF Returns
  <1>2. ASSUME NEW l \in Limiters, call.held[l] # 0
        PROVE  /\ buckets'[l] = [buckets[l] EXCEPT ![c] = back(l)]
               /\ admitted'[l] = [admitted[l] EXCEPT ![c] = less(l)]
    <2>1. buckets[l] \in [Callers -> Bucket]
      BY LimitTypes
    <2>2. buckets'[l] = Refunded(l, c, call.held[l])
      BY <1>2 DEF Returns
    <2>3. buckets'[l] = [buckets[l] EXCEPT ![c] = back(l)]
      BY <2>1, <2>2 DEF Refunded, Bucket
    <2>4. admitted'[l] = [admitted[l] EXCEPT ![c] = less(l)]
      BY <1>2 DEF Returns
    <2> QED  BY <2>3, <2>4
  <1>3. ASSUME NEW l \in Limiters, call.held[l] = 0
        PROVE  buckets'[l] = buckets[l] /\ admitted'[l] = admitted[l]
    BY <1>3 DEF Returns
  <1>4. /\ handling'[c][k] = Unused /\ handling' \in [Callers -> Calls]
        /\ \A j \in Streams \ {k} : handling'[c][j] = handling[c][j]
        /\ \A d \in Callers \ {c} : handling'[d] = handling[d]
    BY <1>0, <1>1 DEF Calls
  <1>5. ASSUME NEW l \in Limiters, NEW d \in Callers
        PROVE  /\ moment \in Nat /\ buckets[l] \in [Callers -> Bucket]
               /\ admitted[l] \in [Callers -> [Ages(l) -> Nat]]
               /\ admitted[l][d] \in [Ages(l) -> Nat] /\ buckets[l][d] \in Bucket
               /\ handling[d] \in Calls /\ handling'[d] \in Calls
               /\ Covered(handling[d], admitted[l][d], l, moment)
               /\ Within(buckets[l][d], admitted[l][d], l, moment)
               /\ \A j \in Streams : HeldIn(handling[d][j], buckets[l][d], l, moment)
    BY <1>4, LimitTypes DEF AllowanceHolds, Tallies
  <1> HIDE DEF call
  <1>6. ASSUME NEW l \in Limiters, call.held[l] # 0
        PROVE  /\ less(l) \in [Ages(l) -> Nat] /\ Covered(handling'[c], less(l), l, moment)
               /\ back(l) \in Bucket /\ back(l).resetAt = buckets[l][c].resetAt
               /\ Within(back(l), less(l), l, moment)
    <2>0. call = handling[c][k] /\ handling'[c][k].held[l] = 0
      BY <1>0, <1>4 DEF call
    <2> DEFINE calls == handling[c]
               left == handling'[c]
               let == admitted[l][c]
               bucket == buckets[l][c]
    <2>1. /\ calls \in Calls /\ left \in Calls /\ let \in [Ages(l) -> Nat] /\ moment \in Nat
          /\ bucket \in Bucket /\ Covered(calls, let, l, moment) /\ Within(bucket, let, l, moment)
          /\ HeldIn(call, bucket, l, moment)
          /\ calls[k].held[l] # 0 /\ left[k].held[l] = 0 /\ call = calls[k]
          /\ \A j \in Streams \ {k} : left[j] = calls[j]
      BY <1>4, <1>5, <1>6, <2>0
    <2>2. less(l) = [age \in Ages(l) |-> IF calls[k].since + age >= moment THEN let[age] - 1 ELSE let[age]]
      BY <2>0
    <2>3. back(l) = IF bucket.resetAt = call.held[l]
                    THEN [bucket EXCEPT !.count = IF @ > 0 THEN @ - 1 ELSE 0] ELSE bucket
      OBVIOUS
    <2> DEFINE fewer == less(l)
               given == back(l)
    <2>4. \A age \in Ages(l) : fewer[age] = IF call.since + age >= moment THEN let[age] - 1 ELSE let[age]
      OBVIOUS
    <2>5. fewer = [age \in Ages(l) |-> IF calls[k].since + age >= moment THEN let[age] - 1 ELSE let[age]]
      BY <2>2
    <2>6. given = IF bucket.resetAt = call.held[l]
                  THEN [bucket EXCEPT !.count = IF @ > 0 THEN @ - 1 ELSE 0] ELSE bucket
      BY <2>3
    <2> HIDE DEF calls, left, let, bucket, fewer, given
    <2>7. fewer \in [Ages(l) -> Nat] /\ Covered(left, fewer, l, moment)
      BY <2>1, <2>5, CoveredRefunds
    <2>8. call.since \in Nat /\ call.held[l] \in Nat \ {0}
      BY <1>0, <1>6
    <2>9. given \in Bucket /\ given.resetAt = bucket.resetAt /\ Within(given, fewer, l, moment)
      BY <2>1, <2>4, <2>6, <2>7, <2>8, WithinRefunds
    <2> QED  BY <2>7, <2>9 DEF left, fewer, given, bucket
  <1> HIDE DEF less, back
  <1>7. ASSUME NEW l \in Limiters
        PROVE  buckets'[l] \in [Callers -> Bucket] /\ admitted'[l] \in [Callers -> [Ages(l) -> Nat]]
    <2>0. buckets[l] \in [Callers -> Bucket] /\ admitted[l] \in [Callers -> [Ages(l) -> Nat]]
      BY LimitTypes
    <2>1. CASE call.held[l] = 0
      BY <1>3, <2>0, <2>1
    <2>2. CASE call.held[l] # 0
      <3>1. less(l) \in [Ages(l) -> Nat] /\ back(l) \in Bucket
        BY <1>6, <2>2
      <3>2. buckets'[l] = [buckets[l] EXCEPT ![c] = back(l)]
        BY <1>2, <2>2
      <3>3. admitted'[l] = [admitted[l] EXCEPT ![c] = less(l)]
        BY <1>2, <2>2
      <3>4. buckets'[l] \in [Callers -> Bucket]
        BY <2>0, <3>1, <3>2
      <3>5. admitted'[l] \in [Callers -> [Ages(l) -> Nat]]
        BY <2>0, <3>1, <3>3
      <3> QED  BY <3>4, <3>5
    <2> QED  BY <2>1, <2>2
  <1>8. RateTypeOK'
    <2>1. DOMAIN buckets' = Limiters /\ buckets' = [l \in Limiters |-> buckets'[l]]
      BY DEF Returns
    <2>2. buckets' \in [Limiters -> [Callers -> Bucket]]
      BY <1>7, <2>1
    <2> QED  BY <1>1, <1>4, <1>7, <2>2 DEF RateTypeOK, Bucket, Calls
  <1>9. ASSUME NEW l \in Limiters, NEW d \in Callers
        PROVE  Tallies(handling'[d], buckets'[l][d], admitted'[l][d], l, moment)
    <2>1. CASE d # c
      <3>1. handling'[d] = handling[d] /\ buckets'[l][d] = buckets[l][d]
              /\ admitted'[l][d] = admitted[l][d]
        <4>1. CASE call.held[l] = 0
          BY <1>3, <1>4, <2>1, <4>1
        <4>2. CASE call.held[l] # 0
          <5>1. buckets[l] \in [Callers -> Bucket] /\ admitted[l] \in [Callers -> [Ages(l) -> Nat]]
            BY LimitTypes
          <5>2. /\ buckets'[l] = [buckets[l] EXCEPT ![c] = back(l)]
                /\ admitted'[l] = [admitted[l] EXCEPT ![c] = less(l)]
            BY <1>2, <4>2
          <5> QED  BY <1>4, <2>1, <5>1, <5>2
        <4> QED  BY <4>1, <4>2
      <3> QED  BY <3>1 DEF AllowanceHolds
    <2>2. CASE d = c /\ call.held[l] = 0
      <3>1. buckets'[l][d] = buckets[l][d] /\ admitted'[l][d] = admitted[l][d]
        BY <1>3, <2>2
      <3>2. \A j \in Streams : \/ handling'[c][j] = handling[c][j]
                               \/ handling'[c][j].held[l] = 0 /\ handling[c][j].held[l] = 0
        BY <1>0, <1>4, <2>2 DEF call
      <3>3. Covered(handling'[c], admitted[l][c], l, moment)
        BY <1>5, <3>2, CoveredStays
      <3>4. \A j \in Streams : HeldIn(handling'[c][j], buckets[l][c], l, moment)
        BY <1>5, <3>2 DEF HeldIn
      <3> QED  BY <1>5, <2>2, <3>1, <3>3, <3>4 DEF Tallies
    <2>3. CASE d = c /\ call.held[l] # 0
      <3>1. buckets'[l][d] = back(l) /\ admitted'[l][d] = less(l)
        BY <1>2, <1>5, <2>3
      <3>2. \A j \in Streams : handling'[c][j] = handling[c][j] \/ handling'[c][j].held[l] = 0
        BY <1>0, <1>4
      <3>3. \A j \in Streams : HeldIn(handling'[c][j], back(l), l, moment)
        <4>1. back(l) \in Bucket /\ back(l).resetAt = buckets[l][c].resetAt
          BY <1>6, <2>3
        <4>2. \A j \in Streams : handling'[c][j].held[l] \in Nat
          BY <1>5 DEF Calls
        <4>3. \A j \in Streams : HeldIn(handling'[c][j], buckets[l][c], l, moment)
          BY <1>5, <3>2 DEF HeldIn
        <4> QED  BY <1>5, <4>1, <4>2, <4>3, HeldFollows
      <3> QED  BY <1>6, <2>3, <3>1, <3>3 DEF Tallies
    <2> QED  BY <2>1, <2>2, <2>3
  <1> QED  BY <1>8, <1>9

LEMMA PassesSettles ==
    ASSUME RateTypeOK, AllowanceHolds, Passes
    PROVE  RateTypeOK' /\ AllowanceHolds'
  <1>0. /\ \A l \in Limiters : WindowMs[l] \in Nat \ {0} /\ MaxCalls[l] \in Nat \ {0}
        /\ FirstMoment \in Nat /\ LastMoment \in Nat /\ moment \in Nat
        /\ \A l \in Limiters : admitted[l] \in [Callers -> [Ages(l) -> Nat]]
    BY LimitsAssumption DEF RateTypeOK, Moments
  <1>1. /\ moment' = moment + 1 /\ moment < LastMoment
        /\ UNCHANGED <<buckets, lastSweep, handling>> /\ DOMAIN admitted' = Limiters
        /\ \A l \in Limiters, c \in Callers : \A age \in Ages(l) :
             admitted'[l][c][age] = IF age = 0 THEN 0 ELSE admitted[l][c][age - 1]
    BY DEF Passes
  <1>2. ASSUME NEW l \in Limiters
        PROVE  admitted'[l] \in [Callers -> [Ages(l) -> Nat]]
    <2>1. \A age \in Ages(l) : age # 0 => age - 1 \in Ages(l)
      BY <1>0 DEF Ages
    <2>2. admitted'[l] = [c \in Callers |-> [age \in Ages(l) |->
                            IF age = 0 THEN 0 ELSE admitted[l][c][age - 1]]]
      BY DEF Passes
    <2>3. \A c \in Callers : \A age \in Ages(l) :
            (IF age = 0 THEN 0 ELSE admitted[l][c][age - 1]) \in Nat
      BY <1>0, <2>1
    <2> QED  BY <2>2, <2>3
  <1>3. ASSUME NEW l \in Limiters, NEW c \in Callers
        PROVE  Tallies(handling[c], buckets[l][c], admitted'[l][c], l, moment + 1)
    <2> DEFINE older == admitted'[l][c]
               let == admitted[l][c]
               bucket == buckets[l][c]
               calls == handling[c]
    <2>1. /\ Covered(calls, let, l, moment) /\ Within(bucket, let, l, moment)
          /\ \A k \in Streams : HeldIn(calls[k], bucket, l, moment)
          /\ bucket \in Bucket /\ let \in [Ages(l) -> Nat] /\ calls \in Calls /\ moment \in Nat
      BY LimitTypes DEF AllowanceHolds, Tallies
    <2>2. /\ older \in [Ages(l) -> Nat]
          /\ \A age \in Ages(l) : older[age] = IF age = 0 THEN 0 ELSE let[age - 1]
      BY <1>1, <1>2
    <2>3. \A k \in Streams : calls[k].held[l] \in Nat /\ calls[k].since \in Nat
      BY <2>1 DEF Calls
    <2> HIDE DEF older, let, bucket, calls
    <2>4. Grows(let, l)
      BY <2>1, CoveredGrows
    <2>5. Within(bucket, older, l, moment + 1)
      BY <2>1, <2>2, <2>4, WithinAges
    <2>6. \A k \in Streams : calls[k].held[l] # 0 => calls[k].since <= moment
      BY <2>1 DEF HeldIn
    <2>7. Covered(calls, older, l, moment + 1)
      BY <2>1, <2>2, <2>6, CoveredAges
    <2>8. \A k \in Streams : HeldIn(calls[k], bucket, l, moment + 1)
      BY <2>1, <2>3, HeldAges
    <2>9. Tallies(calls, bucket, older, l, moment + 1)
      BY <2>5, <2>7, <2>8 DEF Tallies
    <2> QED  BY <2>9 DEF older, bucket, calls
  <1>4. moment' \in Moments
    BY <1>0, <1>1 DEF RateTypeOK, Moments
  <1> QED  BY <1>1, <1>2, <1>3, <1>4 DEF RateTypeOK, AllowanceHolds

LEMMA NextAllowance ==
    RateTypeOK /\ AllowanceHolds /\ [RateNext]_limitVars => RateTypeOK' /\ AllowanceHolds'
  <1> SUFFICES ASSUME RateTypeOK, AllowanceHolds, [RateNext]_limitVars
               PROVE  RateTypeOK' /\ AllowanceHolds'
    OBVIOUS
  <1>1. ASSUME NEW route \in {"procedure", "contact"}, NEW c \in Callers, Call(route, c)
        PROVE  RateTypeOK' /\ AllowanceHolds'
    <2>1. moment' = moment
      BY <1>1 DEF Call
    <2> QED  BY <1>1, <2>1, CallKeepsTypes, CallSettles DEF AllowanceHolds
  <1>2. ASSUME NEW c \in Callers, NEW k \in Streams, Returns(c, k)
        PROVE  RateTypeOK' /\ AllowanceHolds'
    <2>1. moment' = moment
      BY <1>2 DEF Returns
    <2> QED  BY <1>2, <2>1, ReturnSettles DEF AllowanceHolds
  <1>3. CASE UNCHANGED limitVars
    BY <1>3 DEF limitVars, RateTypeOK, AllowanceHolds
  <1> QED  BY <1>1, <1>2, <1>3, PassesSettles DEF RateNext

\* While a bucket lasts no more of its caller's calls are let through than the limiter
\* allows, and in any stretch of time as long as a window at most twice as many, wherever
\* the windows lie, whatever is swept, whatever the next limiter refuses and however late a
\* unit is handed back.  Calls that were refunded are not reckoned.
THEOREM AllowanceIsKept == RateSpec => []WithinAllowance
  <1>1. RateTypeOK /\ AllowanceHolds => WithinAllowance
    <2> SUFFICES ASSUME RateTypeOK, AllowanceHolds, NEW l \in Limiters, NEW c \in Callers
                 PROVE  /\ \A age \in Ages(l) :
                             moment - age + WindowMs[l] = buckets[l][c].resetAt =>
                                admitted[l][c][age] <= MaxCalls[l]
                        /\ admitted[l][c][WindowMs[l] - 1] <= 2 * MaxCalls[l]
      BY DEF WithinAllowance
    <2> DEFINE bucket == buckets[l][c]
               let == admitted[l][c]
               last == WindowMs[l] - 1
               inside == moment - Started(bucket, l)
    <2>0. /\ WindowMs[l] \in Nat \ {0} /\ MaxCalls[l] \in Nat \ {0} /\ last \in Ages(l)
          /\ bucket.resetAt \in Nat /\ bucket.count \in Nat /\ moment \in Nat
          /\ \A age \in Ages(l) : let[age] \in Nat
      <3>1. /\ WindowMs[l] \in Nat \ {0} /\ MaxCalls[l] \in Nat \ {0} /\ moment \in Nat
            /\ bucket \in Bucket /\ let \in [Ages(l) -> Nat]
        BY LimitTypes
      <3> HIDE DEF bucket, let
      <3>2. last \in Ages(l)
        BY <3>1 DEF Ages
      <3>3. bucket.resetAt \in Nat /\ bucket.count \in Nat
        BY <3>1 DEF Bucket
      <3>4. \A age \in Ages(l) : let[age] \in Nat
        BY <3>1
      <3> QED  BY <3>1, <3>2, <3>3, <3>4
    <2>1. Within(bucket, let, l, moment)
      BY DEF AllowanceHolds, Tallies
    <2>2. CASE bucket.resetAt <= moment
      <3>1. let[last] <= MaxCalls[l]
        <4> HIDE DEF bucket, let, last
        <4> QED  BY <2>0, <2>1, <2>2 DEF Within
      <3>2. let[last] \in Nat
        BY <2>0
      <3>3. \A age \in Ages(l) : moment - age + WindowMs[l] # bucket.resetAt
        BY <2>0, <2>2 DEF Ages
      <3> QED  BY <2>0, <3>1, <3>2, <3>3
    <2>3. CASE ~(bucket.resetAt <= moment)
      <3>1. /\ inside \in Ages(l) /\ let[inside] <= MaxCalls[l]
            /\ \A age \in Ages(l) : age > inside => let[age] <= let[inside] + MaxCalls[l]
        <4>1. /\ inside \in Ages(l) /\ let[inside] <= Least(bucket.count, MaxCalls[l])
              /\ \A age \in Ages(l) : age > inside => let[age] <= let[inside] + MaxCalls[l]
          BY <2>1, <2>3 DEF Within
        <4> HIDE DEF inside, let, bucket
        <4>2. let[inside] <= MaxCalls[l]
          BY <2>0, <4>1, LeastBounds
        <4> QED  BY <4>1, <4>2
      <3>2. last > inside \/ last = inside
        BY <2>0, <3>1 DEF Ages
      <3>3. let[last] <= let[inside] + MaxCalls[l]
        <4> HIDE DEF inside, let, last
        <4> QED  BY <2>0, <3>1, <3>2
      <3>4. let[last] \in Nat /\ let[inside] \in Nat
        BY <2>0, <3>1
      <3>5. \A age \in Ages(l) : moment - age + WindowMs[l] = bucket.resetAt => age = inside
        BY <2>0 DEF Ages, Started
      <3> HIDE DEF inside, let, last, bucket
      <3>6. let[last] <= 2 * MaxCalls[l]
        BY <2>0, <3>1, <3>3, <3>4
      <3>7. \A age \in Ages(l) : moment - age + WindowMs[l] = bucket.resetAt => let[age] <= MaxCalls[l]
        BY <3>1, <3>5
      <3> QED  BY <3>6, <3>7 DEF let, last, bucket
    <2> QED  BY <2>2, <2>3
  <1> QED  BY <1>1, InitAllowance, NextAllowance, PTL DEF RateSpec
================================================================================
