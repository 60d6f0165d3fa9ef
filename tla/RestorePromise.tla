--------------------------- MODULE RestorePromise ----------------------------
(***************************************************************************)
(* What a live restore promises (restore in infra/backup/src/restore.ts),  *)
(* without the lock, the sessions, the staging or the transaction: the     *)
(* database changes hands in one step, and what it held is kept in the     *)
(* same step, so that the restore is one restore away from being undone.   *)
(***************************************************************************)
EXTENDS Naturals

CONSTANTS
    Restores,      \* live restores
    NoSafetyDump,  \* those run with --no-safety-dump
    Live,          \* the database nobody has restored into
    Nothing,       \* no dump
    MaxWrites      \* bound on the writes of the application

VARIABLES
    data,   \* the database: what it was restored from, and the writes it holds
    acked,  \* how many writes have been acknowledged
    undo    \* what each restore has kept of the database it replaced

Promised == <<data, acked, undo>>

SetOf(r) == [base |-> r, writes |-> {}]

Init ==
    /\ data = [base |-> Live, writes |-> {}]
    /\ acked = 0
    /\ undo = [r \in Restores |-> Nothing]

Write ==
    /\ acked < MaxWrites
    /\ acked' = acked + 1
    /\ data' = [data EXCEPT !.writes = @ \union {acked + 1}]
    /\ UNCHANGED undo

Replace(r) ==
    /\ undo[r] = Nothing
    /\ data' = SetOf(r)
    /\ undo' = [undo EXCEPT ![r] = IF r \in NoSafetyDump THEN Nothing ELSE data]
    /\ UNCHANGED acked

Next == Write \/ \E r \in Restores : Replace(r)

Spec == Init /\ [][Next]_Promised
=============================================================================
