------------------------------- MODULE RateLimit -------------------------------
(***************************************************************************)
(* The API's limiters (apps/api/src/middleware/rate-limit.ts) as app.ts    *)
(* chains them: every procedure call spends from its caller's allowance,   *)
(* and a message of the contact form from a second, smaller one as well.   *)
(* Each limiter keeps its buckets in the process and counts in fixed       *)
(* windows that start with a caller's first request.                       *)
(*                                                                         *)
(* There is no await before a decision.  A call that is let through stays  *)
(* with its handler for any time; on its way back a limiter with a refund  *)
(* may give its unit to the bucket it was counted in, which may not be the *)
(* caller's bucket any more.                                               *)
(***************************************************************************)
EXTENDS Naturals, FiniteSets

CONSTANTS
    Callers,   \* what clientIp tells apart
    Limiters,  \* the limiters in the order a call meets them
    WindowMs,  \* limiter -> length of its window
    MaxCalls,  \* limiter -> calls allowed in one
    Refunding, \* limiters with a refund option
    Streams,   \* bound on the calls of one caller that await their refund together
    FirstMoment, LastMoment \* the stretch of the clock considered

ASSUME LimitsAssumption ==
    /\ Limiters \subseteq {"procedure", "contact"}
    /\ WindowMs \in [Limiters -> Nat \ {0}]
    /\ MaxCalls \in [Limiters -> Nat \ {0}]
    /\ Refunding \subseteq Limiters /\ IsFiniteSet(Streams)
    /\ FirstMoment \in Nat /\ LastMoment \in Nat /\ FirstMoment <= LastMoment
    \* the epoch, where lastSweep starts, is long ago
    /\ \A l \in Limiters : FirstMoment >= WindowMs[l]

VARIABLES
    moment,    \* Date.now()
    buckets,   \* limiter -> caller -> its bucket, or NoBucket
    lastSweep, \* limiter -> when it last dropped expired buckets
    handling,  \* caller -> stream -> a call that is going to be refunded: when it was let
               \* through, and the end of the bucket each such limiter counted it in
    admitted   \* limiter -> caller -> age -> calls let through since, age + 1 moments in all,
               \* but for those refunded

limitVars == <<moment, buckets, lastSweep, handling, admitted>>

Moments == FirstMoment..LastMoment

\* What is older than a window is forgotten.
Ages(l) == 0..WindowMs[l] - 1

NoBucket == [count |-> 0, resetAt |-> 0]
Unused == [since |-> 0, held |-> [l \in Limiters |-> 0]]

RateInit ==
    /\ moment = FirstMoment
    /\ buckets = [l \in Limiters |-> [c \in Callers |-> NoBucket]]
    /\ lastSweep = [l \in Limiters |-> 0]
    /\ handling = [c \in Callers |-> [k \in Streams |-> Unused]]
    /\ admitted = [l \in Limiters |-> [c \in Callers |-> [age \in Ages(l) |-> 0]]]

\* app.ts: /rpc/* and /api/v1/* meet the first limiter, the contact form both.
Chain(route) == IF route = "contact" THEN {"procedure", "contact"} ELSE {"procedure"}

Expired(bucket) == bucket.resetAt <= moment

\* Buckets after the sweep, which happens at most once per window.
Swept(l) ==
    IF moment >= lastSweep[l] + WindowMs[l]
    THEN [c \in Callers |-> IF Expired(buckets[l][c]) THEN NoBucket ELSE buckets[l][c]]
    ELSE buckets[l]

\* The caller's bucket with this call counted.
Counted(l, c) ==
    LET bucket == Swept(l)[c]
    IN  IF bucket = NoBucket \/ Expired(bucket)
        THEN [count |-> 1, resetAt |-> moment + WindowMs[l]]
        ELSE [bucket EXCEPT !.count = @ + 1]

Refuses(l, c) == Counted(l, c).count > MaxCalls[l]

\* A refusal ends the chain: the limiters behind it do not see the call.
Meets(route, c) ==
    {l \in Chain(route) : l = "contact" => ~Refuses("procedure", c)}

\* What the closure of the middleware keeps of a call for the refund: the bucket of each limiter.
Counting(c, back) ==
    [since |-> moment, held |-> [l \in Limiters |-> IF l \in back THEN Counted(l, c).resetAt ELSE 0]]

\* With its handler; a call whose answer is not one to refund changes nothing more.
Handled(c, refundable) ==
    \/ UNCHANGED handling
    \/ \E k \in Streams, back \in (SUBSET refundable) \ {{}} :
         /\ handling[c][k] = Unused
         /\ handling' = [handling EXCEPT ![c][k] = Counting(c, back)]

Call(route, c) ==
    LET met == Meets(route, c)
    IN  /\ Handled(c, {l \in met \intersect Refunding : ~Refuses(l, c)})
        /\ buckets' = [l \in Limiters |->
                         IF l \in met THEN [Swept(l) EXCEPT ![c] = Counted(l, c)] ELSE buckets[l]]
        /\ lastSweep' = [l \in Limiters |->
                           IF l \in met /\ moment >= lastSweep[l] + WindowMs[l]
                           THEN moment ELSE lastSweep[l]]
        /\ admitted' = [l \in Limiters |->
                          IF l \in met /\ ~Refuses(l, c)
                          THEN [admitted[l] EXCEPT ![c] = [age \in Ages(l) |-> @[age] + 1]]
                          ELSE admitted[l]]
        /\ UNCHANGED moment

RefundedLate(l, c, resetAt) ==   \* wrong: to whichever bucket the caller has by now
    [buckets[l] EXCEPT ![c].count = IF @ > 0 THEN @ - 1 ELSE 0]

\* A bucket that was replaced or swept meanwhile is nobody's: its count is not read again.
Refunded(l, c, resetAt) ==
    IF buckets[l][c].resetAt = resetAt
    THEN [buckets[l] EXCEPT ![c].count = IF @ > 0 THEN @ - 1 ELSE 0]
    ELSE buckets[l]

\* The rest of the chain has run, and the answer is one to refund.
Returns(c, k) ==
    LET call == handling[c][k]
    IN  /\ call # Unused
        /\ handling' = [handling EXCEPT ![c][k] = Unused]
        /\ buckets' = [l \in Limiters |->
                         IF call.held[l] # 0 THEN Refunded(l, c, call.held[l]) ELSE buckets[l]]
        /\ admitted' = [l \in Limiters |->
             IF call.held[l] # 0
             THEN [admitted[l] EXCEPT ![c] = [age \in Ages(l) |->
                     IF call.since + age >= moment THEN @[age] - 1 ELSE @[age]]]
             ELSE admitted[l]]
        /\ UNCHANGED <<moment, lastSweep>>

Passes ==
    /\ moment < LastMoment
    /\ moment' = moment + 1
    /\ admitted' = [l \in Limiters |-> [c \in Callers |-> [age \in Ages(l) |->
                      IF age = 0 THEN 0 ELSE admitted[l][c][age - 1]]]]
    /\ UNCHANGED <<buckets, lastSweep, handling>>

\* Bounds the calls: one refusal per window is enough.
Patient(route, c) ==
    \A l \in Meets(route, c) : Counted(l, c).count <= MaxCalls[l] + 1

RateNext ==
    \/ \E route \in {"procedure", "contact"}, c \in Callers : Patient(route, c) /\ Call(route, c)
    \/ \E c \in Callers, k \in Streams : Returns(c, k)
    \/ Passes

RateSpec == RateInit /\ [][RateNext]_limitVars

-----------------------------------------------------------------------------
(* Properties.                                                             *)

\* Every variable keeps its type.
RateTypeOK ==
    /\ moment \in Moments
    /\ buckets \in [Limiters -> [Callers -> [count : Nat, resetAt : Nat]]]
    /\ lastSweep \in [Limiters -> 0..LastMoment]
    /\ handling \in [Callers -> [Streams -> [since : Nat, held : [Limiters -> Nat]]]]
    /\ DOMAIN admitted = Limiters
    /\ \A l \in Limiters : admitted[l] \in [Callers -> [Ages(l) -> Nat]]

\* "Requests allowed per key per window" (RateLimitOptions.max): while a bucket lasts no
\* more of its caller's calls are let through than the limiter allows, and wherever the
\* windows lie at most twice as many in any stretch of that length.  Buckets are swept and
\* replaced meanwhile, refusals are counted too, and the unit of a call that a later check
\* turned away is handed back at any time after; such calls are not reckoned.
WithinAllowance ==
    \A l \in Limiters, c \in Callers :
        /\ \A age \in Ages(l) :
             moment - age + WindowMs[l] = buckets[l][c].resetAt =>
                admitted[l][c][age] <= MaxCalls[l]
        /\ admitted[l][c][WindowMs[l] - 1] <= 2 * MaxCalls[l]

=============================================================================
