------------------------------- MODULE Rename --------------------------------
(***************************************************************************)
(* `bun run rename` (scripts/rename.ts): the product's name, slug, bundle  *)
(* identifier and workspace scope are replaced in every tracked text file, *)
(* by substitutions that run in a fixed order over text that does not say  *)
(* which of them it is an instance of.                                     *)
(*                                                                         *)
(* A word is cut into the pieces a rule can tell apart; a value, like a    *)
(* mention of it in a file, is a sequence of pieces, a file a sequence of  *)
(* mentions.  The repository's few files stand for the kinds there are: a  *)
(* mention alone, inside a longer word, in a variable's name, in a         *)
(* manifest that has to stay sorted, and in a file that is left alone.     *)
(***************************************************************************)
EXTENDS Naturals, Sequences, TLC
Folded == INSTANCE SequencesExt

CONSTANTS
    MaxRenames,  \* bound on the runs of the script
    NotGiven,    \* an option that was not given
    CutShort     \* what a write that was cut short leaves

ASSUME RenameAssumption == MaxRenames \in Nat

Kit     == [name |-> <<"Starterdough">>, slug |-> <<"starterdough">>,
            identifier |-> <<"dev", ".", "starterdough", ".", "native">>,
            scope |-> <<"@", "starterdough">>]
Acme    == [name |-> <<"Acme">>, slug |-> <<"acme">>, scope |-> <<"@", "acme">>,
            identifier |-> <<"com", ".", "acme", ".", "desktop">>]
AcmePro == [name |-> <<"Acme", " ", "Pro">>, slug |-> <<"acme", "-", "pro">>,
            identifier |-> <<"com", ".", "acme", "-", "pro", ".", "desktop">>,
            scope |-> <<"@", "acme", "-", "pro">>]
\* A name in capitals is also the prefix of its variables; its slug begins a word.
Shout   == [name |-> <<"FORM">>, slug |-> <<"form">>, scope |-> <<"@", "form">>,
            identifier |-> <<"io", ".", "form", ".", "shell">>]

Brands == {Kit, Acme, AcmePro, Shout}

\* Arguments the script refuses.
Wrong == {[Acme EXCEPT !.scope = NotGiven], [Acme EXCEPT !.slug = <<"Acme">>],
          [Acme EXCEPT !.identifier = <<"com", ".", "acme", ".", "app">>]}

Letters == {"acme", "pro", "form", "al", "starterdough", "dev", "com", "io", "kit"}

Capital == ("starterdough" :> "STARTERDOUGH") @@ ("acme" :> "ACME") @@ ("pro" :> "PRO")
             @@ ("form" :> "FORM") @@ ("-" :> "_")
Capitals == {"STARTERDOUGH", "ACME", "PRO", "FORM"}

VARIABLES
    tree,     \* the working tree
    head,     \* what is committed
    renaming  \* the run of the script, and how many there have been

renameVars == <<tree, head, renaming>>

-----------------------------------------------------------------------------
(* What the repository holds, of a product *)

EnvPrefix(slug) == [i \in DOMAIN slug |-> Capital[slug[i]]]

KitRepo    == <<"starterdough", "/", "starterdough">>
SellerSite == <<"starterdough", ".", "dev">>
KitName    == <<"Starterdough", " ", "kit">>
Verbatim   == {KitRepo, SellerSite, KitName}

\* As `bun add` keeps them: by code unit.
Alphabet == <<"acme", "form", "orpc", "starterdough", "hono">>
Place(dep) == CHOOSE i \in DOMAIN Alphabet :
                  Alphabet[i] = IF dep[1] = "@" THEN dep[2] ELSE dep[1]
Sorted(deps) == SortSeq(deps, LAMBDA a, b : Place(a) < Place(b))

\* Every file as the product p has it, in the order of `git ls-files`.
Tracked == <<".env.example", "README.md", "UPGRADING.md", "tauri.conf.json", "bun.lock",
             "package.json", "packages/tsconfig/package.json", "scripts/setup.ts">>
Repository  == {Tracked[i] : i \in DOMAIN Tracked}

Written(p) ==
    [path \in Repository |->
       CASE path = ".env.example" -> <<p.slug, EnvPrefix(p.slug) \o <<"_", "STATE_DIR">>>>
         [] path = "README.md" -> <<p.name, KitRepo, KitName, <<"form", "al">>, p.slug>>
         [] path = "UPGRADING.md" -> <<KitRepo, Kit.slug>>
         [] path = "tauri.conf.json" -> <<p.name, p.identifier>>
         [] path = "bun.lock" -> <<Kit.scope \o <<"/", "db">>>>
         [] path = "package.json" ->
              <<p.slug>> \o Sorted(<<<<"hono">>, p.scope \o <<"/", "db">>,
                                     <<"@", "orpc", "/", "server">>>>)
         [] path = "packages/tsconfig/package.json" -> <<p.scope \o <<"/", "tsconfig">>>>
         [] OTHER -> <<p.slug \o <<"-", "api">>, <<"x", "-">> \o p.slug \o <<"-", "ip">>,
                       SellerSite>>]

-----------------------------------------------------------------------------
(* The arguments and the values to replace *)

Given(asked) == \A option \in DOMAIN asked : asked[option] # NotGiven

Acceptable(asked) ==
    /\ Given(asked)
    /\ \A i \in DOMAIN asked.slug : asked.slug[i] \in Letters \union {"-"}
    /\ Len(asked.identifier) > 2 /\ asked.identifier[Len(asked.identifier)] # "app"
    /\ asked.scope[1] = "@"

\* The three files the current values are read from.
Readable == \A path \in {"package.json", "tauri.conf.json", "packages/tsconfig/package.json"} :
                tree[path] # CutShort

CurrentValues(files) ==
    LET named == files["packages/tsconfig/package.json"][1]
        slash == CHOOSE i \in DOMAIN named : named[i] = "/"
    IN [name |-> files["tauri.conf.json"][1], slug |-> files["package.json"][1],
        identifier |-> files["tauri.conf.json"][2], scope |-> SubSeq(named, 1, slash - 1)]

\* A rule: what it replaces, what by, and what may not stand around it.
Rule(from, to, notBefore, notAfter) ==
    [from |-> from, to |-> to, notBefore |-> notBefore, notAfter |-> notAfter]

Rules(current, wanted) ==
    LET changed(field, rule) == IF current[field] # wanted[field] THEN <<rule>> ELSE <<>>
    IN  changed("identifier", Rule(current.identifier, wanted.identifier, {}, {}))
     \o changed("scope", Rule(current.scope \o <<"/">>, wanted.scope \o <<"/">>, {}, {}))
     \o changed("slug", Rule(EnvPrefix(current.slug) \o <<"_">>,
                             EnvPrefix(wanted.slug) \o <<"_">>, Capitals \union {"_"}, {}))
     \o changed("name", Rule(current.name, wanted.name, {}, Letters))
     \o changed("slug", Rule(current.slug, wanted.slug, {}, Letters))

-----------------------------------------------------------------------------
(* The substitution *)

Occurs(text, i, part) ==
    i + Len(part) <= Len(text) + 1 /\ SubSeq(text, i, i + Len(part) - 1) = part

\* The lookbehind and the lookahead: a slug that begins a longer word is left.
Matches(text, i, rule) ==
    LET end == i + Len(rule.from)
    IN /\ Occurs(text, i, rule.from)
       /\ (i > 1 => text[i - 1] \notin rule.notBefore)
       /\ (end <= Len(text) => text[end] \notin rule.notAfter)

Substitute(text, rule) ==
    LET from[i \in 1..Len(text) + 1] ==
          IF i > Len(text) THEN <<>>
          ELSE IF Matches(text, i, rule) THEN rule.to \o from[i + Len(rule.from)]
          ELSE <<text[i]>> \o from[i + 1]
    IN from[1]

\* The text around a string that survives; a mention holds one at most.
Rewrite(mention, rules) ==
    LET applied(segment) == Folded!FoldLeft(Substitute, segment, rules)
        spots == {i \in DOMAIN mention : \E v \in Verbatim : Occurs(mention, i, v)}
    IN IF spots = {} THEN applied(mention)
       ELSE LET i == CHOOSE i \in spots : \A j \in spots : i <= j
                v == CHOOSE v \in Verbatim : Occurs(mention, i, v)
            IN applied(SubSeq(mention, 1, i - 1)) \o v
                 \o applied(SubSeq(mention, i + Len(v), Len(mention)))

\* sortDependencyMaps: the map follows the name.
SortDependencyMaps(text) == <<text[1]>> \o Sorted(Tail(text))

RewriteText(path, text, rules) ==
    LET rewritten == [i \in DOMAIN text |-> Rewrite(text[i], rules)]
    IN IF path = "package.json" /\ rewritten # text THEN SortDependencyMaps(rewritten)
                                                     ELSE rewritten

\* KEEP_VERBATIM and SKIP_PATTERNS.
LeftAlone(path) == path \in {"UPGRADING.md", "bun.lock"}

-----------------------------------------------------------------------------
(* Products that can take each other's place *)

\* No value that is asked for holds the slug or the name that is replaced after
\* it: acme-pro in place of acme would be found again by the slug's own rule.
Apart(p, q) ==
    \A part \in {p.slug, p.name}, value \in {q.name, q.slug, q.identifier, q.scope} :
        p # q => \A i \in DOMAIN value : ~Occurs(value, i, part)

\* The products and the files are few and fixed.  That a product's values are read
\* back out of its files, and that the rules turn one product's file into the other's,
\* are closed facts about them, which TLC computes.
ASSUME TextAssumption ==
    /\ \A p \in Brands : CurrentValues(Written(p)) = p
    /\ \A p, q \in Brands : Apart(p, q) =>
         \A path \in Repository : ~LeftAlone(path) =>
             RewriteText(path, Written(p)[path], Rules(p, q)) = Written(q)[path]

ASSUME CutShortAssumption ==
    \A p \in Brands, path \in Repository : Written(p)[path] # CutShort

-----------------------------------------------------------------------------
RenameInit ==
    /\ tree = Written(Kit) /\ head = tree
    /\ renaming = [at |-> "idle", runs |-> 0, next |-> 1, began |-> tree, from |-> Kit,
                 to |-> Kit, write |-> FALSE, changes |-> {}]

StartRename(asked, write) ==
    /\ renaming.at # "running" /\ renaming.runs < MaxRenames
    /\ LET accepted == Acceptable(asked) /\ Readable
           current  == IF accepted THEN CurrentValues(tree) ELSE renaming.from
       IN renaming' = [at |-> IF ~accepted THEN "refused"
                              ELSE IF Rules(current, asked) = <<>> THEN "done" ELSE "running",
                     runs |-> renaming.runs + 1, next |-> 1, began |-> tree,
                     from |-> current, to |-> asked, write |-> write, changes |-> {}]
    /\ UNCHANGED <<tree, head>>

\* One file of the loop: read, rewritten by the values at hand, and written at once.
RewriteBy(current) ==
    /\ renaming.at = "running" /\ renaming.next <= Len(Tracked)
    /\ LET path == Tracked[renaming.next]
           text == RewriteText(path, tree[path], Rules(current, renaming.to))
       IN IF LeftAlone(path) \/ tree[path] = CutShort \/ text = tree[path]
            THEN UNCHANGED tree /\ renaming' = [renaming EXCEPT !.next = @ + 1]
          ELSE /\ renaming' = [renaming EXCEPT !.next = @ + 1, !.changes = @ \union {path}]
               /\ tree' = IF renaming.write THEN [tree EXCEPT ![path] = text] ELSE tree
    /\ UNCHANGED head

RereadFile  == RewriteBy(CurrentValues(tree))   \* wrong: read again for every file
RewriteFile == RewriteBy(renaming.from)

FinishRename ==
    /\ renaming.at = "running" /\ renaming.next > Len(Tracked)
    /\ renaming' = [renaming EXCEPT !.at = "done"]
    /\ UNCHANGED <<tree, head>>

\* Killed, between two files or while it writes one.
KillRename ==
    /\ renaming.at = "running"
    /\ renaming' = [renaming EXCEPT !.at = "killed"]
    /\ \/ UNCHANGED tree
       \/ /\ renaming.write /\ renaming.next <= Len(Tracked)
          /\ LET path == Tracked[renaming.next]
             IN /\ ~LeftAlone(path) /\ tree[path] # CutShort
                /\ RewriteText(path, tree[path], Rules(renaming.from, renaming.to)) # tree[path]
                /\ tree' = [tree EXCEPT ![path] = CutShort]
    /\ UNCHANGED head

\* git commit, git restore.
Commit ==
    /\ renaming.at = "done" /\ head # tree /\ head' = tree
    /\ UNCHANGED <<tree, renaming>>

TakeBack ==
    /\ renaming.at # "running" /\ tree # head
    /\ tree' = head /\ renaming' = [renaming EXCEPT !.at = "idle"]
    /\ UNCHANGED head

RenameNext ==
    \/ \E asked \in Brands \union Wrong, write \in BOOLEAN : StartRename(asked, write)
    \/ RewriteFile \/ FinishRename \/ KillRename \/ Commit \/ TakeBack

RenameSpec == RenameInit /\ [][RenameNext]_renameVars

-----------------------------------------------------------------------------
RenameTypeOK ==
    /\ DOMAIN tree = Repository /\ DOMAIN head = Repository
    /\ renaming.at \in {"idle", "running", "done", "refused", "killed"}
    /\ renaming.runs \in 0..MaxRenames /\ renaming.next \in 1..Len(Tracked) + 1
    /\ renaming.to \in Brands \union Wrong /\ renaming.write \in BOOLEAN
    /\ \A path \in renaming.changes : path \in Repository /\ ~LeftAlone(path)

\* A run reads the current values out of files that an earlier run wrote, and its
\* substitutions see only text.  From a tree that is one product's, when the
\* values are apart: every mention in every file becomes the new product's, in
\* names, variables, packages and sorted maps alike; what is not the product's
\* (the seller's strings, a longer word, the files left alone) stays; a dry run
\* lists the files a run would change, and changes none.  A run that is cut off
\* leaves the files before the cut renamed and those after it as they were
\* (currentValues, rules, rewrite, sortDependencyMaps, skipped).
RenameIsWhole ==
    /\ renaming.at = "refused" => tree = renaming.began
    /\ ~renaming.write => tree = renaming.began \/ renaming.at = "idle"
    /\ renaming.at \in {"running", "killed", "done"} =>
         \A p, q \in Brands :
           renaming.to = q /\ renaming.began = Written(p) /\ Apart(p, q) =>
             /\ renaming.at = "done" =>
                  /\ tree = IF renaming.write THEN Written(q) ELSE Written(p)
                  /\ renaming.changes = {path \in Repository : Written(q)[path] # Written(p)[path]}
             /\ \A i \in DOMAIN Tracked :
                  renaming.write /\ renaming.at # "done" =>
                    /\ i < renaming.next => tree[Tracked[i]] = Written(q)[Tracked[i]]
                    /\ i > renaming.next => tree[Tracked[i]] = Written(p)[Tracked[i]]
==============================================================================
