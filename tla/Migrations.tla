------------------------------ MODULE Migrations ------------------------------
(***************************************************************************)
(* The two migration histories of a product built on the kit, and the      *)
(* migrator that applies them.  packages/db/drizzle holds the kit's        *)
(* migrations and packages/db/drizzle-product the product's; before 1.1.0  *)
(* there was only the first, with the product's migrations among the       *)
(* kit's.                                                                  *)
(*                                                                         *)
(* Three kinds of step are composed:                                       *)
(*   - the product's repository: migrations are generated, on main or on a *)
(*     branch, kit releases are merged well or badly, and                  *)
(*     db:move-product-migrations (move-product-migrations.ts) is run;     *)
(*   - migrators (migrate.ts) of any build shipped so far, several at      *)
(*     once, each of which may be killed between any two steps;            *)
(*   - the database: one table of applied migrations per history, the      *)
(*     advisory lock and transactions that outlive their migrator.         *)
(*                                                                         *)
(* A migration is its journal timestamp, `when`: it is what the code tells *)
(* migrations by.  A journal is a set of them, its order being theirs      *)
(* (migration-files.test.ts).  Release 0 stands for the releases before    *)
(* 1.1.0.                                                                  *)
(***************************************************************************)
EXTENDS Naturals, FiniteSets

CONSTANTS
    Kit,         \* release number -> the timestamps in its kit journal
    LastRelease, \* the newest release
    Times,       \* 1 .. the last moment considered (bounds `now`)
    Upgrade,     \* the moment 1.1.0 can be merged; the model starts there
    MaxBuilds,   \* builds shipped (bounds `shipped`)
    MaxLimbo,    \* commits outliving their migrator at a time (bounds `limbo`)
    Migrators,   \* migrator processes
    NONE

Releases == 0..LastRelease
Homes == {"kit", "product"}

ASSUME KitAssumption ==
    /\ LastRelease \in Nat \ {0}
    /\ Kit \in [Releases -> SUBSET Times]
    /\ \A r, s \in Releases : r <= s => Kit[r] \subseteq Kit[s]

ASSUME BoundsAssumption ==
    /\ Times \subseteq Nat \ {0} /\ IsFiniteSet(Times) /\ Upgrade \in Times
    /\ MaxBuilds \in Nat /\ MaxLimbo \in Nat

ASSUME MigratorsAssumption == NONE \notin Migrators

VARIABLES
    now,       \* the clock db:generate reads
    head,      \* the product's main branch
    work,      \* what the move tool staged and nobody committed, or NONE
    merging,   \* the release whose merge is open (MERGE_HEAD), or 0
    prior,     \* main before its last merge, or NONE
    drafts,    \* migrations generated on branches that are not merged
    authored,  \* every migration of the product that reached main
    shipped,   \* builds some deploy may run
    db,        \* the two history tables
    ran,       \* migration -> times its SQL committed, up to 2
    lock,      \* who holds the advisory lock, or NONE
    limbo,     \* transactions whose migrator is gone and whose COMMIT may land
    mig,       \* the migrators
    outcome,   \* how the last run ended
    marks      \* what happened that the properties make an exception for

repoVars == <<now, head, work, merging, prior, drafts, authored, shipped>>
dbVars == <<db, ran, lock, limbo, mig, outcome, marks>>
vars == <<now, head, work, merging, prior, drafts, authored, shipped,
          db, ran, lock, limbo, mig, outcome, marks>>

Newest(S) == IF S = {} THEN 0 ELSE CHOOSE w \in S : \A v \in S : v <= w
Oldest(S) == CHOOSE w \in S : \A v \in S : w <= v

\* What kit releases contain: everything else in a journal is the product's.
Released == Kit[LastRelease]

Tree == [kit : SUBSET Times, product : SUBSET Times, loose : SUBSET Times, at : Releases]
Build == [kit : SUBSET Times, product : SUBSET Times]
BuildOf(tree) == [kit |-> tree.kit, product |-> tree.product]

NoBuild == [kit |-> {}, product |-> {}]
Idle == [pc |-> "idle", build |-> NoBuild, seen |-> 0]

\* The product as it stands when 1.1.0 comes out: its migrations so far lie in
\* the kit's folder, and its database ran them up to some moment, or none.
Init ==
    /\ now = Upgrade
    /\ \E mine \in SUBSET {w \in Times \ Released : w < Upgrade} :
         /\ head = [kit |-> Kit[0] \union mine, product |-> {}, loose |-> {}, at |-> 0]
         /\ authored = mine
    /\ \E t \in {0} \union Times :
         db = [kit |-> {w \in head.kit : w <= t}, product |-> {},
               tables |-> IF {w \in head.kit : w <= t} = {} THEN {} ELSE {"kit"}]
    /\ ran = [w \in Times |-> IF w \in db.kit THEN 1 ELSE 0]
    /\ work = NONE /\ merging = 0 /\ prior = NONE
    /\ drafts = {} /\ shipped = {}
    /\ lock = NONE /\ limbo = {}
    /\ mig = [m \in Migrators |-> Idle]
    /\ outcome = [build |-> NoBuild, code |-> 0, pending |-> {}]
    /\ marks = {}

-----------------------------------------------------------------------------
(* The product's repository.                                               *)

Settled == work = NONE /\ merging = 0

\* db:generate writes to the product's folder from 1.1.0 on, to the kit's before.
Home == IF head.at = 0 THEN "kit" ELSE "product"

Add(tree, w, home) ==
    IF home = "kit" THEN [tree EXCEPT !.kit = @ \union {w}]
                    ELSE [tree EXCEPT !.product = @ \union {w}]

\* A day goes by; a migration is generated on it, on main or on a branch.
Generate(where) ==
    /\ Settled /\ now \in Times
    /\ now' = now + 1
    /\ CASE where = "nowhere" -> UNCHANGED <<head, prior, drafts, authored>>
         [] where = "main" ->
              /\ now \notin Released
              /\ head' = Add(head, now, Home)
              /\ authored' = authored \union {now}
              /\ prior' = NONE
              /\ UNCHANGED drafts
         [] where = "branch" ->
              /\ now \notin Released
              /\ drafts' = drafts \union {[when |-> now, home |-> Home]}
              /\ UNCHANGED <<head, prior, authored>>
    /\ UNCHANGED <<work, merging, shipped, dbVars>>

\* A branch is merged: its migration joins the journal it was generated in.
MergeBranch(draft) ==
    /\ Settled /\ draft \in drafts
    /\ drafts' = drafts \ {draft}
    /\ head' = Add(head, draft.when, draft.home)
    /\ authored' = authored \union {draft.when}
    /\ prior' = NONE
    /\ UNCHANGED <<now, work, merging, shipped, dbVars>>

\* git merge kit/v1.x.y, which stops for the developer to resolve.
OpenMerge(r) ==
    /\ Settled /\ r > head.at /\ Newest(Kit[r]) < now
    /\ merging' = r
    /\ UNCHANGED <<now, head, work, prior, drafts, authored, shipped, dbVars>>

\* Resolved by hand: both sides' entries kept ("the old way"), or the release's
\* journal taken while the product's files stay in the folder unlisted.
Resolve(how) ==
    /\ merging > 0 /\ work = NONE
    /\ LET mine == head.kit \ Kit[merging]
       IN  head' = CASE how = "both" ->
                          [head EXCEPT !.kit = Kit[merging] \union mine, !.at = merging]
                     [] how = "theirs" ->
                          [head EXCEPT !.kit = Kit[merging], !.loose = @ \union mine,
                                       !.at = merging]
    /\ prior' = head
    /\ merging' = 0
    /\ UNCHANGED <<now, work, drafts, authored, shipped, dbVars>>

\* git merge --abort, or git restore once the merge is committed.
Abandon ==
    /\ ~Settled
    /\ work' = NONE /\ merging' = 0
    /\ UNCHANGED <<now, head, prior, drafts, authored, shipped, dbVars>>

Commit ==
    /\ work # NONE
    /\ head' = [work EXCEPT !.at = IF merging > 0 THEN merging ELSE @]
    /\ prior' = IF merging > 0 THEN head ELSE NONE
    /\ work' = NONE /\ merging' = 0
    /\ UNCHANGED <<now, drafts, authored, shipped, dbVars>>

\* What the tool's refusals tell the developer to do: undo a merge it cannot
\* work on, or move a migration by hand - remembering to take it out of the
\* kit's folder, or not.
UndoMerge ==
    /\ Settled /\ prior # NONE
    /\ head' = prior
    /\ prior' = NONE
    /\ UNCHANGED <<now, work, merging, drafts, authored, shipped, dbVars>>

MoveByHand(w, copied) ==
    /\ Settled /\ head.at > 0 /\ w \in head.kit \ Released
    /\ head' = [head EXCEPT !.product = @ \union {w},
                            !.kit = IF copied THEN @ ELSE @ \ {w}]
    /\ prior' = NONE
    /\ UNCHANGED <<now, work, merging, drafts, authored, shipped, dbVars>>

\* A commit is built and shipped; a rollback may run any build shipped before.
Ship ==
    /\ Settled /\ head.at > 0
    /\ Cardinality(shipped) < MaxBuilds
    /\ shipped' = shipped \union {BuildOf(head)}
    /\ UNCHANGED <<now, head, work, merging, prior, drafts, authored, dbVars>>

-----------------------------------------------------------------------------
(* move-product-migrations.ts.                                             *)

\* The release the tool compares with: --kit's, or the open merge's.
RefOf(given) == IF given # NONE THEN given ELSE merging

\* The product journal in the working tree.
Journaled == IF work # NONE THEN work.product ELSE head.product

\* Entries of main's kit journal that are neither the release's nor moved already.
Mine(ref) == (head.kit \ Kit[ref]) \ Journaled

\* Mutant: files the journal does not list are not looked for.
OrphansIgnored == {}

\* .sql files in the kit's folder that main's journal does not list.
Orphans == head.loose \ head.kit

MoveRefused(ref) ==
    \/ ref = 0              \* no merge is open, or a release before 1.1.0
    \/ Orphans # {}         \* the merge was resolved before the tool ran
    \/ /\ Mine(ref) # {} /\ Journaled # {}
       /\ Oldest(Mine(ref)) <= Newest(Journaled)

\* The kit's folder becomes exactly the release's: what is not listed goes too.
MovedTree(ref) ==
    [head EXCEPT !.kit = Kit[ref], !.product = Journaled \union Mine(ref), !.loose = {}]

moveProductMigrations(given) ==
    LET ref == RefOf(given)
    IN  /\ ~MoveRefused(ref)
        /\ work' = MovedTree(ref)
        /\ UNCHANGED <<now, head, merging, prior, drafts, authored, shipped, dbVars>>

Repository ==
    \/ \E where \in {"nowhere", "main", "branch"} : Generate(where)
    \/ \E draft \in drafts : MergeBranch(draft)
    \/ \E r \in Releases : OpenMerge(r)
    \/ \E how \in {"both", "theirs"} : Resolve(how)
    \/ Abandon
    \/ Commit
    \/ UndoMerge
    \/ \E w \in Times, copied \in BOOLEAN : MoveByHand(w, copied)
    \/ moveProductMigrations(NONE)
    \/ merging = 0 /\ moveProductMigrations(head.at)
    \/ Ship

-----------------------------------------------------------------------------
(* The migrator, migrate.ts.                                               *)

Applying(home) == IF home = "kit" THEN "applyingKit" ELSE "applyingProduct"

Go(m, pc) == mig' = [mig EXCEPT ![m].pc = pc]

\* The finally block: the lock is released and the pool closed.
End(m, code, pending) ==
    /\ mig' = [mig EXCEPT ![m] = Idle]
    /\ outcome' = [build |-> mig[m].build, code |-> code, pending |-> pending]
    /\ lock' = NONE

\* Mutant: the advisory lock is not waited for.
TakeLockAnyway(m) ==
    /\ mig[m].pc = "idle"
    /\ lock' = m
    /\ \E build \in shipped :
         mig' = [mig EXCEPT ![m] = [Idle EXCEPT !.pc = "rehoming", !.build = build]]
    /\ UNCHANGED <<db, ran, limbo, outcome, marks>>

\* pg_advisory_lock on a connection of its own, which waits for the holder: the
\* migrator has done nothing before it.  A build whose kit folder lists a
\* migration this database has already moved is noted: see RunsOnce.
TakeLock(m) ==
    /\ mig[m].pc = "idle" /\ lock = NONE
    /\ lock' = m
    /\ \E build \in shipped :
         /\ mig' = [mig EXCEPT ![m] = [Idle EXCEPT !.pc = "rehoming", !.build = build]]
         /\ marks' = IF build.kit \intersect db.product # {}
                     THEN marks \union {"relisted"} ELSE marks
    /\ UNCHANGED <<db, ran, limbo, outcome>>

Shared(build) == build.product \intersect build.kit

\* Mutant: rows are never moved between the tables.
RehomingNever(build) == FALSE

Rehoming(build) == build.product # {} /\ "kit" \in db.tables

\* Mutant: the rows are deleted and not inserted.
RehomedNowhere(build) ==
    [db EXCEPT !.kit = @ \ build.product, !.tables = @ \union {"product"}]

\* One transaction: rows of the build's product migrations leave the kit's table.
Rehomed(build) ==
    [kit |-> db.kit \ build.product,
     product |-> db.product \union (db.kit \intersect build.product),
     tables |-> db.tables \union {"product"}]

rehomeProductMigrations(m) ==
    LET build == mig[m].build
    IN  /\ mig[m].pc = "rehoming"
        /\ \/ /\ Shared(build) # {}
              /\ End(m, 1, {})
              /\ UNCHANGED db
           \/ /\ Shared(build) = {}
              /\ db' = IF Rehoming(build) THEN Rehomed(build) ELSE db
              /\ Go(m, "kit")
              /\ UNCHANGED <<lock, outcome>>
        /\ UNCHANGED <<ran, limbo, marks>>

\* Drizzle: create the table when there is none and read the newest row in it ...
ReadNewest(m, home) ==
    /\ mig[m].pc = home
    /\ db' = [db EXCEPT !.tables = @ \union {home}]
    /\ mig' = [mig EXCEPT ![m].seen = Newest(db[home]), ![m].pc = Applying(home)]
    /\ UNCHANGED <<ran, lock, limbo, outcome, marks>>

\* ... then run every entry newer than it and record it, in one transaction.
Newer(m, home) == {w \in mig[m].build[home] : w > mig[m].seen}

Applied(home, todo) ==
    /\ db' = [db EXCEPT ![home] = @ \union todo]
    /\ ran' = [w \in Times |-> IF w \in todo /\ ran[w] < 2 THEN ran[w] + 1 ELSE ran[w]]

\* An older entry is skipped while a newer one of the same history is applied.
Overtakes(m, home) ==
    /\ Newer(m, home) # {}
    /\ \E w \in mig[m].build[home] \ db[home] : w <= mig[m].seen

Apply(m, home) ==
    /\ mig[m].pc = Applying(home)
    /\ \/ /\ Applied(home, Newer(m, home))
          /\ marks' = IF Overtakes(m, home) THEN marks \union {"overtaken"} ELSE marks
          /\ Go(m, IF home = "kit" THEN "product" ELSE "verifying")
          /\ UNCHANGED <<lock, outcome>>
       \/ \* a statement fails: the transaction is rolled back
          /\ Newer(m, home) # {}
          /\ End(m, 1, {})
          /\ UNCHANGED <<db, ran, marks>>
    /\ UNCHANGED limbo

\* Mutant: counted as Drizzle counts, by the newest row alone.
PendingByNewest(build, home) == {w \in build[home] : w > Newest(db[home])}

\* diffMigrations: what the build ships and the history's table does not hold.
Pending(build, home) == build[home] \ db[home]

Verify(m) ==
    LET pending == UNION {Pending(mig[m].build, home) : home \in Homes}
    IN  /\ mig[m].pc = "verifying"
        /\ End(m, IF pending = {} THEN 0 ELSE 1, pending)
        /\ UNCHANGED <<db, ran, limbo, marks>>

\* Killed.  Its session ends, and the lock with it; a COMMIT already sent on the
\* other connection may still be carried out.
Kill(m) ==
    /\ mig[m].pc # "idle"
    /\ End(m, 1, {})
    /\ \/ UNCHANGED limbo
       \/ \E home \in Homes :
            /\ Cardinality(limbo) < MaxLimbo
            /\ mig[m].pc = Applying(home) /\ Newer(m, home) # {}
            /\ limbo' = limbo \union {[home |-> home, todo |-> Newer(m, home)]}
    /\ UNCHANGED <<db, ran, marks>>

\* The commit lands, or the server rolls the transaction back.
Land(t) ==
    /\ limbo' = limbo \ {t}
    /\ \/ Applied(t.home, t.todo) /\ marks' = marks \union {"outlived"}
       \/ UNCHANGED <<db, ran, marks>>
    /\ UNCHANGED <<lock, mig, outcome>>

Migrator(m) ==
    /\ \/ TakeLock(m)
       \/ rehomeProductMigrations(m)
       \/ \E home \in Homes : ReadNewest(m, home) \/ Apply(m, home)
       \/ Verify(m)
       \/ Kill(m)
    /\ UNCHANGED repoVars

Next ==
    \/ Repository
    \/ \E m \in Migrators : Migrator(m)
    \/ \E t \in limbo : Land(t) /\ UNCHANGED repoVars

Spec == Init /\ [][Next]_vars

-----------------------------------------------------------------------------
(* Properties.                                                             *)

\* Every variable keeps its type, and the lock is held by exactly the migrator
\* that is past it (migrate.ts: everything after the lock happens inside it).
Locked == {"rehoming", "kit", "applyingKit", "product", "applyingProduct", "verifying"}
Steps == Locked \union {"idle"}

TypeOK ==
    /\ now \in Nat
    /\ head \in Tree
    /\ work \in Tree \union {NONE}
    /\ prior \in Tree \union {NONE}
    /\ merging \in Releases
    /\ drafts \subseteq [when : Times, home : Homes]
    /\ authored \subseteq Times
    /\ shipped \subseteq Build
    /\ db \in [kit : SUBSET Times, product : SUBSET Times, tables : SUBSET Homes]
    /\ ran \in [Times -> 0..2]
    /\ lock \in Migrators \union {NONE}
    /\ limbo \subseteq [home : Homes, todo : SUBSET Times]
    /\ mig \in [Migrators -> [pc : Steps, build : Build, seen : Nat]]
    /\ outcome \in [build : Build, code : {0, 1}, pending : SUBSET Times]
    /\ marks \subseteq {"relisted", "outlived", "overtaken"}
    /\ \A m \in Migrators : mig[m].pc \in Locked <=> lock = m

\* Exit 0 is what lets a deploy start the new code: whatever was merged, in
\* whatever order, and whatever other builds and dead migrators did, every
\* migration the build ships has run on this database and is recorded.
ExitZeroMeansApplied ==
    outcome.code = 0 =>
        \A w \in outcome.build.kit \union outcome.build.product :
            ran[w] > 0 /\ w \in db.kit \union db.product

\* No migration's SQL runs twice (migrate.ts: "the second runner waits for the
\* first, then finds nothing pending"), with the two exceptions the marks
\* record: a migrator killed with a commit under way loses the lock before the
\* commit lands, and a build whose kit folder lists a migration that a later
\* build has moved out of it runs it again (UPGRADING.md says so of builds from
\* before 1.1.0; it is as true of a later one merged "the old way").
RunsOnce == marks \intersect {"relisted", "outlived"} = {} => \A w \in Times : ran[w] < 2

\* A build as the move tool leaves it: its kit folder is a kit release's and its
\* product folder lists every migration of the product this database ran.
Clean(build) ==
    /\ build.kit \subseteq Released
    /\ \A w \in Times \ Released : ran[w] > 0 => w \in build.product

RefusedForKit ==
    /\ "outlived" \notin marks
    /\ Clean(outcome.build)
    /\ outcome.pending \intersect outcome.build.kit # {}

\* Such a build is never refused for a kit migration, however the database and
\* the repository got into the state the tool mends - unless an earlier run
\* applied a newer kit migration past one it skipped.
KitReleaseApplies == "overtaken" \notin marks => ~RefusedForKit

\* UPGRADING.md makes no such exception: "The database recovers by itself: once
\* your migration's row has moved to your history, the kit migration Drizzle
\* skipped applies."
DatabaseRecovers == ~RefusedForKit

\* The move tool, which sets the kit's folder to the release's, never makes a
\* migration of the product's disappear: every one that reached main is in one
\* of its journals, or still in a file there for the developer to undo to.
NoMigrationIsLost ==
    \A w \in authored : w \in head.kit \union head.product \union head.loose

=============================================================================
