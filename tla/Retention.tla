------------------------------ MODULE Retention ------------------------------
(***************************************************************************)
(* The pure half of the backup tool: what infra/backup/src/names.ts says   *)
(* of a directory listing or a bucket listing.  A listing is a set of      *)
(* records with at least the fields stamp and kind; names that are not     *)
(* artifacts (pre-restore dumps, .part files) never enter a listing, as    *)
(* parseArtifact yields null for them.  Stamps and clock values are        *)
(* naturals counting from 1 in one unit; NoStamp stands for null.          *)
(***************************************************************************)
EXTENDS Naturals, FiniteSets

CONSTANTS
    FloorSets,       \* RETENTION_FLOOR_SETS: newest complete sets never pruned
    FutureTolerance  \* FUTURE_STAMP_TOLERANCE_MS, in clock units

ASSUME RetentionAssumption ==
    /\ FloorSets \in Nat \ {0}
    /\ FutureTolerance \in Nat

NoStamp == 0

\* ArtifactKind; a set is the artifacts that share one stamp.
ArtifactKinds == {"dump", "uploads", "manifest"}

Has(listing, s, k) == \E f \in listing : f.stamp = s /\ f.kind = k

\* A set is complete by its names alone: a dump and a manifest are there.
CompleteStamps(listing) ==
    {s \in {f.stamp : f \in listing} :
        Has(listing, s, "dump") /\ Has(listing, s, "manifest")}

\* The complete sets of a listing that are newer than s.
NewerComplete(listing, s) == {t \in CompleteStamps(listing) : t > s}

\* newestCompleteStamps: the newest `count` of the complete sets.
NewestCompleteStamps(listing, count) ==
    {s \in CompleteStamps(listing) :
        Cardinality(NewerComplete(listing, s)) < count}

\* selectExpired: older than the retention and not one of the floor.
SelectExpiredAnyFloor(listing, retention, now) ==   \* wrong: partial sets fill the floor
    {f \in listing :
        /\ Cardinality({t \in {g.stamp : g \in listing} : t > f.stamp}) >= FloorSets
        /\ f.stamp + retention < now}

SelectExpired(listing, retention, now) ==
    {f \in listing :
        /\ f.stamp \notin NewestCompleteStamps(listing, FloorSets)
        /\ f.stamp + retention < now}

\* A stamp this far ahead of the clock was written by a wrong clock.
InFuture(s, now) == s > now + FutureTolerance

\* latestDumpStamp: the newest complete set that is not in the future.
LatestDumpStamp(listing, now) ==
    LET usable == {s \in CompleteStamps(listing) : ~InFuture(s, now)}
        newest == {s \in usable : \A t \in usable : t <= s}
    IN  IF newest = {} THEN NoStamp ELSE CHOOSE s \in newest : TRUE

\* selectLatest: the newer of the two sources, the local one on a tie.
SelectLatest(local, remote, now) ==
    LET l == LatestDumpStamp(local, now)
        r == LatestDumpStamp(remote, now)
    IN  IF l # NoStamp /\ (r = NoStamp \/ l >= r)
        THEN [stamp |-> l, source |-> "local"]
        ELSE [stamp |-> r, source |-> IF r = NoStamp THEN "none" ELSE "s3"]
=============================================================================
