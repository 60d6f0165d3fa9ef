-------------------------------- MODULE Drill ---------------------------------
(***************************************************************************)
(* A set and its drill: what the backup writes into the manifest besides   *)
(* the files (countRows, archiveUploads, createManifest) and what          *)
(* `restore <stamp> --drill` makes of it (runDrill and verify in           *)
(* infra/backup/src/restore.ts).  A table is a number of rows or Absent.   *)
(* pg_dump, pg_restore and tar act when they end and may leave something   *)
(* out; the set may be damaged between the backup and the drill; the       *)
(* application writes rows until they are counted, and migrations add and  *)
(* drop tables at any time.  Which set is taken and how its files reach    *)
(* the machine is BackupStore's part.                                      *)
(***************************************************************************)
EXTENDS Naturals, FiniteSets

CONSTANTS
    Tables,      \* tables of the schema public
    Sizes,       \* numbers of rows a table can have
    MaxChanges,  \* bound on the writes and migrations after the dump
    Absent,      \* no such table
    NoDatabase   \* no scratch database; no live one that could be listed

ASSUME DrillAssumption ==
    /\ Sizes \subseteq Nat /\ 0 \in Sizes /\ MaxChanges \in Nat
    /\ Absent \notin Sizes /\ NoDatabase \notin [Tables -> Sizes \union {Absent}]

VARIABLES
    live,      \* the database the application uses
    was,       \* what it held when pg_dump took its snapshot
    changes,   \* how often it has changed since
    drifted,   \* it has between the dump and the count
    stored,    \* the set: dump, its file, the uploads archive, the manifest
    at,        \* how far the backup and then the drill have come
    options,   \* of the drill
    trusted,   \* the manifest the drill goes by was read
    scratch,   \* the drill's database
    restored,  \* what it held when it was looked at
    compared,  \* the live database it was compared with
    errors,    \* report.errors is not empty
    verdict

madeVars  == <<was, changes, drifted, stored>>
drillVars == <<options, trusted, scratch, restored, compared, errors, verdict>>
trialVars == <<live, madeVars, at, drillVars>>

-----------------------------------------------------------------------------
Contents  == [Tables -> Sizes \union {Absent}]
Has(d)    == {t \in Tables : d[t] # Absent}
Empty     == [t \in Tables |-> Absent]

\* What a tool that leaves out tables, or the rows of tables, makes of d.
Leaves(d) == {e \in Contents : \A t \in Tables : e[t] \in {d[t], Absent} \union
                                   (IF d[t] = Absent THEN {} ELSE {0})}
\* At most one table suffers, and not twice.
LeavesOne(d) == {e \in Leaves(d) : Cardinality({t \in Tables : e[t] # d[t]}) <= 1}

Archives == {"none", "whole", "partial", "damaged", "gone"}
\* newer: --release, the live database may have tables that the set predates.
Options  == [noManifestCheck : BOOLEAN, newer : BOOLEAN]

\* What is stored, the manifest's uploadsIncluded, uploadsDegraded and rowCounts
\* among it.
StoredSets == [dump : Contents, intact : BOOLEAN, uploads : Archives, included : BOOLEAN,
               degraded : BOOLEAN, counts : Contents, counted : BOOLEAN, manifest : BOOLEAN]

DrillInit ==
    /\ live \in Contents
    /\ was = Empty /\ changes = 0 /\ drifted = FALSE
    /\ stored = [dump |-> Empty, intact |-> TRUE, uploads |-> "none", included |-> FALSE,
                 degraded |-> FALSE, counts |-> Empty, counted |-> FALSE, manifest |-> FALSE]
    /\ at = "idle"
    /\ options = [noManifestCheck |-> FALSE, newer |-> FALSE]
    /\ trusted = FALSE /\ scratch = NoDatabase /\ restored = Empty
    /\ compared = NoDatabase /\ errors = FALSE /\ verdict = "none"

-----------------------------------------------------------------------------
(* The application *)

\* Before the dump there is no need: DrillInit has every content.
Changes(t, n) ==
    /\ at # "idle" /\ changes < MaxChanges
    /\ live' = [live EXCEPT ![t] = n]
    /\ changes' = changes + 1
    /\ drifted' = (drifted \/ at \in {"dumped", "archived"})
    /\ UNCHANGED <<was, stored, at, drillVars>>

\* Once they are counted, rows no longer matter.
WriteRows(t, n) ==
    /\ at \in {"dumped", "archived"}
    /\ live[t] # Absent /\ n # live[t]
    /\ Changes(t, n)

\* A migration; nobody asks after the drill has looked.
CreateTable(t) ==
    /\ verdict = "none" /\ compared = NoDatabase
    /\ live[t] = Absent
    /\ Changes(t, 0)

DropTable(t) ==
    /\ verdict = "none" /\ compared = NoDatabase
    /\ live[t] # Absent
    /\ Changes(t, Absent)

-----------------------------------------------------------------------------
(* The backup *)

\* databaseIsEmpty: a release backup is skipped.
IsEmptyDatabase == Has(live) = {}

\* An archive without table data is refused (inspectArchive); nothing to drill.
TakeDump(release, d) ==
    /\ at = "idle"
    /\ release => ~IsEmptyDatabase
    /\ d \in LeavesOne(live) /\ Has(d) # {}
    /\ stored' = [stored EXCEPT !.dump = d]
    /\ was' = live
    /\ at' = "dumped"
    /\ UNCHANGED <<live, changes, drifted, drillVars>>

\* "partial": tar exited 1 over files that changed or could not be read.
ArchiveUploads(a) ==
    /\ at = "dumped"
    /\ a \in {"none", "whole", "partial"}
    /\ stored' = [stored EXCEPT !.uploads = a, !.included = (a # "none"),
                                !.degraded = (a = "partial")]
    /\ at' = "archived"
    /\ UNCHANGED <<live, was, changes, drifted, drillVars>>

CreateManifest(counts, counted) ==
    [stored EXCEPT !.counts = counts, !.counted = counted, !.manifest = TRUE]

\* The tables of the moment, or none of them when a query fails or times out.
CountRows(counted) ==
    /\ at = "archived"
    /\ stored' = CreateManifest(IF counted THEN live ELSE Empty, counted)
    /\ at' = "kept"
    /\ UNCHANGED <<live, was, changes, drifted, drillVars>>

\* One fault on the volume or in the bucket while the set is kept.
Unharmed == stored.intact /\ stored.manifest /\ stored.uploads \notin {"damaged", "gone"}
Harm ==
    /\ at = "kept" /\ Unharmed
    /\ \/ stored' = [stored EXCEPT !.intact = FALSE]
       \/ stored' = [stored EXCEPT !.manifest = FALSE]
       \/ \E a \in {"damaged", "gone"} :
             stored.uploads # "none" /\ stored' = [stored EXCEPT !.uploads = a]
    /\ UNCHANGED <<live, was, changes, drifted, at, drillVars>>

-----------------------------------------------------------------------------
(* The drill *)

Refuse ==
    /\ at' = "over" /\ verdict' = "refused"
    /\ UNCHANGED <<live, madeVars, scratch, restored, compared, errors>>

\* loadManifest, verifyArtifact of the dump.
Begin(o) ==
    /\ at = "kept"
    /\ options' = o
    /\ trusted' = stored.manifest
    /\ IF (stored.manifest /\ ~stored.intact) \/ (~stored.manifest /\ ~o.noManifestCheck)
         THEN Refuse
         ELSE /\ at' = "create"
              /\ UNCHANGED <<live, madeVars, scratch, restored, compared, errors, verdict>>

\* The name carries a random part: it is no other database's.
CreateScratch ==
    /\ at = "create"
    /\ \/ scratch' = Empty /\ at' = "restore" /\ UNCHANGED verdict
       \/ at' = "over" /\ verdict' = "refused" /\ UNCHANGED scratch
    /\ UNCHANGED <<live, madeVars, options, trusted, restored, compared, errors>>

\* pg_restore exits 0, also after it has lost something; or it fails part way.
PgRestore ==
    /\ at = "restore"
    /\ \/ /\ \E d \in LeavesOne(stored.dump) : scratch' = d
          /\ at' = "tables" /\ UNCHANGED errors
       \/ /\ scratch' = Empty
          /\ at' = "uploads" /\ errors' = TRUE
    /\ UNCHANGED <<live, madeVars, options, trusted, restored, compared, verdict>>

Compares == trusted /\ stored.counted

\* Without counts the fallback tables are looked for; any of Tables may be one.
Missing == IF Compares THEN Has(stored.counts) \ Has(scratch) ELSE {}

FloorOf(n) == (19 * n) \div 20    \* ROW_COUNT_TOLERANCE
FarShortTables ==   \* wrong: the tolerance alone, which lets one row of one go
    IF ~Compares THEN {}
    ELSE {t \in Has(stored.counts) \intersect Has(scratch) :
            scratch[t] < FloorOf(stored.counts[t])}

ShortTables ==
    IF ~Compares THEN {}
    ELSE {t \in Has(stored.counts) \intersect Has(scratch) :
            \/ scratch[t] < FloorOf(stored.counts[t])
            \/ stored.counts[t] > 0 /\ scratch[t] = 0}

\* verify up to the live database: a lost connection throws past the uploads.
VerifyTables ==
    /\ at = "tables"
    /\ restored' = scratch
    /\ \/ /\ errors' = (errors \/ Has(scratch) = {} \/ Missing # {} \/ ShortTables # {})
          /\ at' = "live"
       \/ ~Compares /\ errors' = TRUE /\ at' = "live"
       \/ errors' = TRUE /\ at' = "drop"
    /\ UNCHANGED <<live, madeVars, options, trusted, scratch, compared, verdict>>

\* A live database that cannot be listed is not compared with.
CompareLive ==
    /\ at = "live"
    /\ \/ /\ compared' = live
          /\ errors' = (errors \/ (~options.newer /\ ~(Has(live) \subseteq Has(scratch))))
       \/ UNCHANGED <<compared, errors>>
    /\ at' = "uploads"
    /\ UNCHANGED <<live, madeVars, options, trusted, scratch, restored, verdict>>

Located == stored.uploads \notin {"none", "gone"}

Objects == trusted /\ (stored.uploads = "damaged" \/ stored.degraded)

\* The listing, tar or a link in the archive may be an error; a damaged archive
\* that no manifest vouches for may unpack.
VerifyDrillUploads == errors' \in {errors, TRUE}

VerifyUploads ==
    /\ at = "uploads"
    /\ IF Located
         THEN IF Objects THEN errors' = TRUE ELSE VerifyDrillUploads
         ELSE \/ errors' = (errors \/ (trusted /\ stored.included))
              \/ errors' = TRUE               \* the bucket could not be asked
    /\ at' = "drop"
    /\ UNCHANGED <<live, madeVars, options, trusted, scratch, restored, compared, verdict>>

\* `finally`, then the verdict.
DropScratch ==
    /\ at = "drop"
    /\ at' = "over"
    /\ \/ /\ scratch' = NoDatabase
          /\ verdict' = IF errors THEN "failed" ELSE "ok"
          /\ UNCHANGED errors
       \/ /\ errors' = TRUE /\ verdict' = "failed" /\ UNCHANGED scratch
    /\ UNCHANGED <<live, madeVars, options, trusted, restored, compared>>

\* The process dies; its database stays.
Kill ==
    /\ at \in {"create", "restore", "tables", "live", "uploads", "drop"}
    /\ at' = "over" /\ verdict' = "killed"
    /\ UNCHANGED <<live, madeVars, options, trusted, scratch, restored, compared, errors>>

-----------------------------------------------------------------------------
DrillNext ==
    \/ \E t \in Tables, n \in Sizes : WriteRows(t, n)
    \/ \E t \in Tables : CreateTable(t) \/ DropTable(t)
    \/ \E release \in BOOLEAN, d \in Contents : TakeDump(release, d)
    \/ \E a \in Archives : ArchiveUploads(a)
    \/ \E counted \in BOOLEAN : CountRows(counted)
    \/ Harm
    \/ \E o \in Options : Begin(o)
    \/ CreateScratch \/ PgRestore \/ VerifyTables \/ CompareLive \/ VerifyUploads
    \/ DropScratch \/ Kill

DrillSpec == DrillInit /\ [][DrillNext]_trialVars

-----------------------------------------------------------------------------
DrillTypeOK ==
    /\ live \in Contents /\ was \in Contents
    /\ changes \in 0..MaxChanges /\ drifted \in BOOLEAN
    /\ stored \in StoredSets
    /\ at \in {"idle", "dumped", "archived", "kept", "create", "restore", "tables", "live",
               "uploads", "drop", "over"}
    /\ options \in Options
    /\ trusted \in BOOLEAN /\ errors \in BOOLEAN
    /\ scratch \in Contents \union {NoDatabase} /\ restored \in Contents
    /\ compared \in Contents \union {NoDatabase}
    /\ verdict \in {"none", "ok", "failed", "refused", "killed"}

\* Every row of d is in e, up to the drift a drill forgives, and no table with
\* rows has come back empty.
Holds(d, e) == \A t \in Has(d) : /\ t \in Has(e)
                                 /\ e[t] >= FloorOf(d[t])
                                 /\ d[t] > 0 => e[t] > 0

\* `drill ok` means the night's data can be brought back: of a set whose
\* manifest was read and holds counts that nobody's writes moved, what was
\* restored is what the database held at the dump, whatever pg_dump and
\* pg_restore left out without saying so; documents the backup archived are
\* there and unharmed; without --release, no table of the live database it was
\* compared with is missing; and the scratch database is gone (runDrill,
\* verify).
DrillProves ==
    verdict = "ok" =>
      /\ scratch = NoDatabase
      /\ trusted => stored.intact
      /\ trusted /\ stored.counted /\ ~drifted => Holds(was, restored)
      /\ trusted /\ stored.included => stored.uploads = "whole"
      /\ ~options.newer /\ compared # NoDatabase => Has(compared) \subseteq Has(restored)
===============================================================================
