------------------------------- MODULE ListPages -------------------------------
(***************************************************************************)
(* The pages of the web application that show a list and change it: users  *)
(* and feature flags in the admin area, sessions and passkeys in the       *)
(* settings.  One person has one of them open in one tab.                  *)
(*                                                                         *)
(* A list is a function from its items to what was last written to each:   *)
(* the number of the change that did it, 0 where there is no such item.    *)
(* Requests are answered in any order; an answer may get lost.  The page   *)
(* then takes what was done for an error, or the call rejects: the flags   *)
(* page turns that into an error too (safe), and on the others, which call *)
(* the auth client, whatever the call was to end never ends.               *)
(***************************************************************************)
EXTENDS Naturals, FiniteSets

CONSTANTS
    Items,
    MaxChanges, \* changes this person makes (bounds `changes`)
    MaxLoads,   \* list requests in flight at a time (bounds `loads`)
    NotLoaded, Nothing

\* A change on its way: what it does to which item, where it is, and its number.
Writes == [op : {"change", "remove", "others", "add"}, item : Items \union {"others"},
            is : {"asked", "done", "refused", "stuck"}, no : 0..MaxChanges + 1]

ASSUME PagesAssumption ==
    /\ MaxChanges \in Nat /\ MaxLoads \in Nat \ {0}
    /\ NotLoaded \notin [Items -> 0..MaxChanges + 1]
    /\ "others" \notin Items /\ Nothing \notin Items \union {"others"} \union Writes

VARIABLES
    page,       \* which page it is
    server,     \* the list in the database
    changes,    \* changes made to it so far
    shown,      \* the list on the page, or NotLoaded
    shownFor,   \* users: the query the list on the page answers
    query,      \* users: the search and offset the page says it shows
    loads,      \* list requests in flight
    armed,      \* sessions: the rows carry their tokens
    loading, failed, \* the skeleton, loadError
    write,      \* "row", "add" -> the change in flight there, or Nothing
    reloading,  \* users: the change is done and busy lasts until the list is there
    confirming, \* the row whose dialog is open, "others", or Nothing
    learnt,     \* the newest change an answer has told the page of
    overtaken,  \* an answer older than that was put on the page
    doubt       \* item -> the newest change to it whose answer was lost, 0 for none

listVars == <<page, server, changes, shown, shownFor, query, loads, armed,
              loading, failed, write, reloading, confirming, learnt, overtaken, doubt>>
serverVars == <<page, server, changes>>
formVars == <<write, reloading, confirming, learnt, doubt>>

Slots == {"row", "add"}
Queries == {0, 1}
Lists == [Items -> 0..MaxChanges + 1]

\* A request for the list: its query, whether its ticket is the newest, whether
\* busy ends with it, what the server answered and after which change.
Load(n, q, frees) ==
    [n |-> n, for |-> q, newest |-> TRUE, frees |-> frees, got |-> NotLoaded, asOf |-> 0]

\* The load function of the route (+page.ts) fetched the list, or could not.  The
\* sessions it fetched carry no tokens: that page asks again in any case.
ListInit ==
    /\ page \in {"users", "flags", "sessions", "passkeys"}
    /\ server \in [Items -> {0, 1}] /\ changes = 1
    /\ shown \in {server, NotLoaded}
    /\ shownFor = 0 /\ query = 0
    /\ loads = IF shown = NotLoaded \/ page = "sessions" THEN {Load(1, 0, FALSE)} ELSE {}
    /\ armed = FALSE
    /\ loading = (shown = NotLoaded) /\ failed = FALSE
    /\ write = [s \in Slots |-> Nothing]
    /\ reloading = FALSE /\ confirming = Nothing
    /\ learnt = 0 /\ overtaken = FALSE /\ doubt = [i \in Items |-> 0]

-----------------------------------------------------------------------------
(* Loading the list.                                                       *)

\* Sessions: no skeleton over rows that are already on screen.
LoadStarts(q, frees) ==
    /\ \E n \in 1..MaxLoads :
         /\ \A l \in loads : l.n # n
         /\ \A k \in 1..n - 1 : \E l \in loads : l.n = k
         /\ loads' = {[l EXCEPT !.newest = FALSE] : l \in loads} \union {Load(n, q, frees)}
    /\ query' = q
    /\ loading' = (page = "sessions" => shown = NotLoaded)
    /\ failed' = FALSE

\* Refresh, Try again; users: another page of results or another search.
Reload ==
    /\ CASE page \in {"users", "flags"} -> ~loading
         [] page \in {"sessions", "passkeys"} -> failed /\ ~loading
    /\ \E q \in IF page = "users" THEN Queries ELSE {query} : LoadStarts(q, FALSE)
    /\ UNCHANGED <<serverVars, formVars, armed, shown, shownFor, overtaken>>

ServerLists(l) ==
    /\ l \in loads /\ l.got = NotLoaded
    /\ loads' = (loads \ {l}) \union {[l EXCEPT !.got = server, !.asOf = changes]}
    /\ UNCHANGED <<serverVars, formVars, shown, shownFor, query, loading, failed, armed,
                   overtaken>>

\* Mutant: no look at the ticket.
SupersededNever(l) == FALSE

\* users: `if (ticket !== loadCounter) return`.
Superseded(l) == page = "users" /\ ~l.newest

Latest(a, b) == IF a > b THEN a ELSE b

\* What happens when load() returns, whatever it did.
AfterLoad(l) ==
    /\ loads' = loads \ {l}
    /\ reloading' = (reloading /\ ~l.frees)
    /\ UNCHANGED <<serverVars, query, write, confirming>>

LoadDropped(l) ==
    /\ l \in loads /\ Superseded(l)
    /\ AfterLoad(l)
    /\ UNCHANGED <<armed, shown, shownFor, loading, failed, learnt, overtaken, doubt>>

LoadAnswered(l) ==
    /\ l \in loads /\ ~Superseded(l) /\ l.got # NotLoaded
    /\ shown' = l.got /\ shownFor' = l.for
    /\ loading' = FALSE
    /\ learnt' = Latest(learnt, l.asOf)
    /\ overtaken' = (overtaken \/ l.asOf < learnt)
    /\ doubt' = [i \in Items |-> IF doubt[i] > l.asOf THEN doubt[i] ELSE 0]
    /\ AfterLoad(l)
    /\ armed' = (armed \/ page = "sessions")
    /\ UNCHANGED failed

LoadFailed(l) ==
    /\ l \in loads /\ ~Superseded(l)
    /\ loading' = FALSE /\ failed' = TRUE
    /\ AfterLoad(l)
    /\ UNCHANGED <<armed, shown, shownFor, learnt, overtaken, doubt>>

\* The auth client rejects: the rest of load(), and of what waits for it, is not
\* run.  Sessions: rows that were on screen stay there without a word.
LoadRejected(l) ==
    /\ page # "flags" /\ l \in loads
    /\ loads' = loads \ {l}
    /\ doubt' = IF page = "sessions" THEN [i \in Items |-> Latest(doubt[i], learnt)] ELSE doubt
    /\ UNCHANGED <<serverVars, write, reloading, confirming, learnt, armed, shown, shownFor,
                   query, loading, failed, overtaken>>

-----------------------------------------------------------------------------
(* Changing it.                                                            *)

Listed(i) == shown # NotLoaded /\ shown[i] # 0

RowsOnScreen ==
    /\ shown # NotLoaded /\ ~failed
    /\ page \in {"sessions", "passkeys"} => ~loading

Free(slot) == write[slot] = Nothing /\ ~reloading

\* Sessions, passkeys: the dialog, which stays when the list is hidden again.
\* A session without its token cannot be picked: the first load brings them.
OpenDialog(i) ==
    /\ page \in {"sessions", "passkeys"}
    /\ RowsOnScreen /\ Free("row") /\ confirming = Nothing
    /\ IF i = "others" THEN page = "sessions" /\ \E j \in Items : Listed(j)
       ELSE Listed(i) /\ (page = "sessions" => armed)
    /\ confirming' = i
    /\ UNCHANGED <<serverVars, armed, shown, shownFor, query, loads, loading, failed,
                   write, reloading, learnt, overtaken, doubt>>

CloseDialog ==
    /\ confirming # Nothing /\ Free("row")
    /\ confirming' = Nothing
    /\ UNCHANGED <<serverVars, armed, shown, shownFor, query, loads, loading, failed,
                   write, reloading, learnt, overtaken, doubt>>

\* What the page offers to do: a row's role, ban, default, description or name;
\* removing one; a new one.  flags: creating is refused for a key on the page.
Offered(op, i) ==
    CASE op = "change" -> page # "sessions" /\ RowsOnScreen /\ Listed(i)
      [] op = "remove" -> \/ page = "flags" /\ RowsOnScreen /\ Listed(i)
                          \/ page \in {"sessions", "passkeys"} /\ confirming = i
      [] op = "others" -> confirming = "others"
      [] op = "add"    -> \/ page = "flags" /\ ~Listed(i)
                          \/ page = "passkeys" /\ server[i] = 0

Slot(op) == IF op = "add" THEN "add" ELSE "row"

Change(op, i) ==
    /\ changes <= MaxChanges
    /\ IF op = "add" THEN write["add"] = Nothing ELSE Free("row")
    /\ Offered(op, i)
    /\ write' = [write EXCEPT ![Slot(op)] = [op |-> op, item |-> i, is |-> "asked", no |-> 0]]
    /\ UNCHANGED <<serverVars, armed, shown, shownFor, query, loads, loading, failed,
                   reloading, confirming, learnt, overtaken, doubt>>

\* What the server makes of it: an upsert creates, anything else needs the item.
Possible(op, i) ==
    (op = "remove" \/ (op = "change" /\ page # "flags")) => server[i] # 0

Written(op, i) ==
    CASE op \in {"change", "add"} -> [server EXCEPT ![i] = changes + 1]
      [] op = "remove" -> [server EXCEPT ![i] = 0]
      [] op = "others" -> [j \in Items |-> 0]

Becomes(slot, outcome, no) == write' = [write EXCEPT ![slot].is = outcome, ![slot].no = no]

ServerChanges(slot) ==
    /\ write[slot] # Nothing /\ write[slot].is = "asked"
    /\ \/ /\ Possible(write[slot].op, write[slot].item)
          /\ changes <= MaxChanges
          /\ server' = Written(write[slot].op, write[slot].item)
          /\ changes' = changes + 1
          /\ Becomes(slot, "done", changes + 1)
       \/ Becomes(slot, "refused", 0) /\ UNCHANGED <<server, changes>>
    /\ UNCHANGED <<page, armed, shown, shownFor, query, loads, loading, failed, reloading,
                   confirming, learnt, overtaken, doubt>>

\* flags: put() and the filter of deleteFlag patch the list on the page.
Put(w) ==
    LET list == IF shown = NotLoaded THEN [i \in Items |-> 0] ELSE shown
    IN  [list EXCEPT ![w.item] = IF w.op = "remove" THEN 0 ELSE w.no]

Succeeded(slot) ==
    /\ write[slot] # Nothing /\ write[slot].is = "done"
    /\ write' = [write EXCEPT ![slot] = Nothing]
    /\ confirming' = IF slot = "row" THEN Nothing ELSE confirming
    /\ learnt' = Latest(learnt, write[slot].no)
    /\ overtaken' = (overtaken \/ (page = "flags" /\ write[slot].no < learnt))
    /\ IF page = "flags"
       THEN shown' = Put(write[slot]) /\ UNCHANGED <<query, loads, loading, failed, reloading>>
       ELSE /\ LoadStarts(query, page = "users")
            /\ reloading' = (page = "users")
            /\ UNCHANGED shown
    /\ UNCHANGED <<serverVars, armed, shownFor, doubt>>

Doubted(w) ==
    IF w.is = "refused" THEN doubt
    ELSE [i \in Items |-> IF w.item \in {i, "others"} THEN Latest(doubt[i], w.no) ELSE doubt[i]]

\* The list is left as it is, also when only the answer was lost.
Errored(slot) ==
    /\ write[slot] # Nothing /\ write[slot].is \in {"done", "refused"}
    /\ write' = [write EXCEPT ![slot] = Nothing]
    /\ confirming' = IF slot = "row" THEN Nothing ELSE confirming
    /\ doubt' = Doubted(write[slot])
    /\ UNCHANGED <<serverVars, armed, shown, shownFor, query, loads, loading, failed,
                   reloading, learnt, overtaken>>

\* The auth client rejects: busy stays, and the dialog with it.
ChangeRejected(slot) ==
    /\ page # "flags"
    /\ write[slot] # Nothing /\ write[slot].is \in {"done", "refused"}
    /\ Becomes(slot, "stuck", 0)
    /\ doubt' = Doubted(write[slot])
    /\ UNCHANGED <<serverVars, armed, shown, shownFor, query, loads, loading, failed,
                   reloading, confirming, learnt, overtaken>>

ListNext ==
    \/ Reload
    \/ \E l \in loads : ServerLists(l) \/ LoadDropped(l) \/ LoadAnswered(l) \/ LoadFailed(l)
                        \/ LoadRejected(l)
    \/ \E i \in Items \union {"others"} : OpenDialog(i)
    \/ CloseDialog
    \/ \E op \in {"change", "remove", "add"}, i \in Items : Change(op, i)
    \/ Change("others", "others")
    \/ \E slot \in Slots : ServerChanges(slot) \/ Succeeded(slot) \/ Errored(slot)
                           \/ ChangeRejected(slot)

ListSpec == ListInit /\ [][ListNext]_listVars

-----------------------------------------------------------------------------
(* Properties.                                                             *)

\* Every variable keeps its type.
ListTypeOK ==
    /\ page \in {"users", "flags", "sessions", "passkeys"}
    /\ server \in Lists /\ changes \in 1..MaxChanges + 1
    /\ shown \in Lists \union {NotLoaded}
    /\ shownFor \in Queries /\ query \in Queries
    /\ loads \subseteq [n : 1..MaxLoads, for : Queries, newest : BOOLEAN, frees : BOOLEAN,
                         got : Lists \union {NotLoaded}, asOf : 0..MaxChanges + 1]
    /\ armed \in BOOLEAN
    /\ loading \in BOOLEAN /\ failed \in BOOLEAN /\ reloading \in BOOLEAN
    /\ write \in [Slots -> Writes \union {Nothing}]
    /\ confirming \in Items \union {"others", Nothing}
    /\ learnt \in 0..MaxChanges + 1 /\ overtaken \in BOOLEAN
    /\ doubt \in [Items -> 0..MaxChanges + 1]

Quiet == loads = {} /\ (\A s \in Slots : write[s] = Nothing) /\ ~failed /\ ~loading

\* Once a page has its answers, it shows what this person made of the list, under
\* the search and the range it names.  The users page promises it whatever order
\* answers arrive in ("Guards against a slow response for a previous query
\* overwriting the current one"); the pages without a ticket only as long as no
\* answer came in that was older than a change they knew of.
ReadsYourWrites ==
    (Quiet /\ shown # NotLoaded /\ (page = "users" \/ ~overtaken)) =>
        /\ \A i \in Items : doubt[i] = 0 => shown[i] = server[i]
        /\ shownFor = query

=============================================================================
