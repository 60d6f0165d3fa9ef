----------------------------- MODULE LocalSetup -------------------------------
(***************************************************************************)
(* The local environment files of a clone: `bun run setup`                 *)
(* (scripts/setup.ts), which creates and completes them, and `bun run      *)
(* doctor` (scripts/doctor.ts), which only reads them, beside the person   *)
(* who edits and removes files, exports variables and renames the product. *)
(*                                                                         *)
(* Of each file the model keeps the row setup fills (for the web app the   *)
(* one row doctor requires), whether the template's other rows are there   *)
(* and acceptable, and the product they name.  A write that a kill cuts    *)
(* short leaves an empty file.                                             *)
(***************************************************************************)
EXTENDS Naturals, Sequences

CONSTANTS
    Setups,    \* runs of the script
    MaxTouches,  \* bound on the person's changes
    NoFile       \* no such file

\* MANAGED_FILES, in order, and those with a row to fill.
Managed == <<"root", "web", "site", "docs">>
Files   == {"root", "web", "site", "docs"}
Filled  == {"root", "site", "docs"}

\* "masked": a value in one row and a later, blank one, which every reader takes.
\* "odd": a value that doctor refuses.
RowStates == {"absent", "blank", "masked", "own", "odd", "generated"}
Rests     == {"template", "odd", "lost"}
Products  == {"old", "new"}
File      == [row : RowStates, rest : Rests, names : Products]

ASSUME SetupAssumption == MaxTouches \in Nat /\ NoFile \notin File

VARIABLES
    disk,       \* the files
    templates,  \* files whose .example is there
    product,    \* what package.json and the templates call the product
    shell,      \* whether, and how, the rows setup fills are exported
    setup,      \* the script: where it is, what it will write, what it has written
    overtaken,  \* runs whose files somebody else has changed since they looked
    edits

setupVars == <<disk, templates, product, shell, setup, overtaken, edits>>

-----------------------------------------------------------------------------
(* setup.ts *)

\* rowValue: blank counts as unset.
IsSet(row) == row \in {"own", "odd", "generated"}

FillFirstRow(row) == IF row = "masked" THEN "masked" ELSE "generated"   \* wrong

\* The last assignment is the one completed.
FillRow(row) == "generated"

ExampleOf(f) == [row |-> IF f = "web" THEN "own" ELSE "blank", rest |-> "template",
                names |-> product]

\* planSetup for one file: nothing to do, or what the file becomes.
Draft(f)  == IF disk[f] # NoFile THEN disk[f] ELSE ExampleOf(f)
Skipped(f) == disk[f] = NoFile /\ f \notin templates
Fills(f)  == f \in Filled /\ ~IsSet(Draft(f).row)
Writes(f) == ~Skipped(f) /\ (disk[f] = NoFile \/ Fills(f))
TextFor(f) ==
    [created |-> disk[f] = NoFile,
     text |-> IF Fills(f) THEN [Draft(f) EXCEPT !.row = FillRow(@)] ELSE Draft(f)]

NoText == [created |-> FALSE, text |-> NoFile]
Texts  == [created : BOOLEAN, text : File \union {NoFile}]
AtRest   == [at |-> "idle", plan |-> [f \in Files |-> NoText], next |-> 1]

SetupInit ==
    /\ disk \in [root : {NoFile} \union [row : {"masked", "own"}, rest : {"template"},
                                       names : {"old"}],
                 web  : {NoFile, [row |-> "own", rest |-> "template", names |-> "old"]},
                 site : {NoFile, [row |-> "absent", rest |-> "template", names |-> "old"]},
                 docs : {NoFile}]
    /\ templates \in {Files, Files \ {"docs"}}
    /\ product = "old"
    /\ shell \in {"none", "blank", "own"}
    /\ setup = [s \in Setups |-> AtRest]
    /\ overtaken = {} /\ edits = 0

\* The four files are read one by one; nothing else is told apart between them.
PlanSetup(s) ==
    /\ setup[s].at = "idle"
    /\ setup' = [setup EXCEPT ![s] =
                   [at |-> "apply", next |-> 1,
                    plan |-> [f \in Files |-> IF Writes(f) THEN TextFor(f) ELSE NoText]]]
    /\ UNCHANGED <<disk, templates, product, shell, overtaken, edits>>

\* One file of applySetup: a new one is opened exclusively and fails the run
\* when it has appeared meanwhile; an existing one is written over.
Apply(s) ==
    /\ setup[s].at = "apply" /\ setup[s].next <= Len(Managed)
    /\ LET f == Managed[setup[s].next]
           c == setup[s].plan[f]
       IN IF c = NoText
            THEN UNCHANGED disk /\ setup' = [setup EXCEPT ![s].next = @ + 1]
          ELSE IF c.created /\ disk[f] # NoFile
            THEN UNCHANGED disk /\ setup' = [setup EXCEPT ![s].at = "failed"]
          ELSE disk' = [disk EXCEPT ![f] = c.text]
               /\ setup' = [setup EXCEPT ![s].next = @ + 1]
    /\ UNCHANGED <<templates, product, shell, overtaken, edits>>

Finish(s) ==
    /\ setup[s].at = "apply" /\ setup[s].next > Len(Managed)
    /\ setup' = [setup EXCEPT ![s].at = "done"]
    /\ UNCHANGED <<disk, templates, product, shell, overtaken, edits>>

\* Killed, between two files or while it writes one.
KillSetup(s) ==
    /\ setup[s].at = "apply"
    /\ setup' = [setup EXCEPT ![s].at = "killed"]
    /\ \/ UNCHANGED <<disk, overtaken>>
       \/ /\ setup[s].next <= Len(Managed)
          /\ LET f == Managed[setup[s].next]
                 c == setup[s].plan[f]
             IN /\ c # NoText /\ (c.created => disk[f] = NoFile)
                /\ disk' = [disk EXCEPT ![f] = [row |-> "absent", rest |-> "lost",
                                                names |-> product]]
          /\ overtaken' = Setups
    /\ UNCHANGED <<templates, product, shell, edits>>

-----------------------------------------------------------------------------
(* The person *)

Touches ==
    /\ edits < MaxTouches /\ edits' = edits + 1
    /\ overtaken' = {s \in Setups : setup[s].at # "idle"}

EditRow(f, row) ==
    /\ Touches
    /\ disk[f] # NoFile /\ disk[f].row # row
    /\ row \in {"own", "odd", "blank"}
    /\ disk' = [disk EXCEPT ![f].row = row]
    /\ UNCHANGED <<templates, product, shell, setup>>

EditRest ==
    /\ Touches
    /\ disk["root"] # NoFile /\ disk["root"].rest = "template"
    /\ disk' = [disk EXCEPT !["root"].rest = "odd"]
    /\ UNCHANGED <<templates, product, shell, setup>>

Remove(f) ==
    /\ Touches
    /\ disk[f] # NoFile
    /\ disk' = [disk EXCEPT ![f] = NoFile]
    /\ UNCHANGED <<templates, product, shell, setup>>

\* `bun run rename --write`: tracked files only.
RenameProduct ==
    /\ Touches
    /\ product = "old" /\ product' = "new"
    /\ UNCHANGED <<disk, templates, shell, setup>>

SetupNext ==
    \/ \E s \in Setups : PlanSetup(s) \/ Apply(s) \/ Finish(s) \/ KillSetup(s)
    \/ \E f \in Files : Remove(f) \/ \E row \in RowStates : EditRow(f, row)
    \/ EditRest \/ RenameProduct

SetupSpec == SetupInit /\ [][SetupNext]_setupVars

-----------------------------------------------------------------------------
(* doctor.ts, of the files as they are *)

\* mergeEnv: an exported variable wins, also when it is blank.
Row(f)  == IF disk[f] = NoFile THEN "absent" ELSE disk[f].row
RootRow == IF shell # "none" THEN shell ELSE Row("root")

\* siteEnvironment: a blank one does not.
SiteRow(f) == IF shell = "own" THEN shell ELSE Row(f)

RootProblems ==
    (IF ~IsSet(RootRow) THEN {"BETTER_AUTH_SECRET-missing"} ELSE {})
    \union (IF RootRow = "odd" THEN {"BETTER_AUTH_SECRET-short"} ELSE {})
    \union (IF disk["root"] = NoFile THEN {}
            ELSE IF disk["root"].rest = "lost" THEN {"DATABASE_URL-missing"}
            ELSE IF disk["root"].rest = "odd" THEN {"local-rule-broken"} ELSE {})

\* "no URL" also stands for an origin that is not the API's.
WebProblems ==
    IF disk["web"] = NoFile THEN {}
    ELSE IF ~IsSet(disk["web"].row) THEN {"PUBLIC_API_URL-missing"}
    ELSE IF disk["web"].row = "odd" THEN {"PUBLIC_API_URL-no-URL"} ELSE {}

SiteProblems(f) ==
    (IF ~IsSet(SiteRow(f)) THEN {"SITE_URL-missing"} ELSE {})
    \union (IF SiteRow(f) = "odd" THEN {"SITE_URL-no-public-URL"} ELSE {})

\* environmentCheck, optionalEnvironmentCheck: a missing file of the first kind
\* is a failure of its own.
FileMissing(f) == f \in {"root", "web"} /\ disk[f] = NoFile

Problems(f) == CASE f = "root" -> RootProblems
                 [] f = "web"  -> WebProblems
                 [] OTHER      -> SiteProblems(f)

Passes(f) == ~FileMissing(f) /\ Problems(f) = {}

\* The message names `bun run setup`.
NamesSetup(f) ==
    \/ FileMissing(f)
    \/ Problems(f) \intersect {"BETTER_AUTH_SECRET-missing", "SITE_URL-missing"} # {}

\* renameLeftovers: a warning, which does not fail the run.
Leftovers == /\ disk["root"] # NoFile /\ disk["root"].rest = "template"
             /\ disk["root"].names # product

\* runDoctor --build: the checks of the environment files.
DoctorReport == [ok |-> \A f \in Files : Passes(f), warns |-> Leftovers]

-----------------------------------------------------------------------------
Torn == \E f \in Files : disk[f] # NoFile /\ disk[f].rest = "lost"

SetupTypeOK ==
    /\ disk \in [Files -> File \union {NoFile}]
    /\ templates \subseteq Files /\ product \in Products
    /\ shell \in {"none", "blank", "own"}
    /\ setup \in [Setups -> [at : {"idle", "apply", "done", "failed", "killed"},
                             plan : [Files -> Texts], next : 1..5]]
    /\ overtaken \subseteq Setups /\ edits \in 0..MaxTouches

\* setup and doctor agree on what a gap is.  Once a run of setup has ended well,
\* also beside another run or after one that was killed, doctor names setup for
\* nothing that setup could still do: the only file it may name has no template,
\* the only row is blank in the shell, not in the file; and nobody has edited
\* anything, the files pass.  Whatever setup would write, doctor names, unless
\* the shell's own value stands in for it (planSetup; environmentCheck,
\* rootEnvironmentProblems, siteEnvironmentProblems, runDoctor).
GapsClose ==
    /\ (\E s \in Setups \ overtaken : setup[s].at = "done") =>
         /\ \A f \in Files : NamesSetup(f) => \/ f \notin templates /\ disk[f] = NoFile
                                              \/ f = "root" /\ shell = "blank"
         /\ edits = 0 /\ shell # "blank" /\ templates = Files /\ ~Torn
              => DoctorReport = [ok |-> TRUE, warns |-> FALSE]
    /\ \A f \in Files : Writes(f) => NamesSetup(f) \/ (f # "web" /\ shell = "own")
===============================================================================
