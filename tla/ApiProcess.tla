------------------------------ MODULE ApiProcess ------------------------------
(***************************************************************************)
(* The API process (apps/api/src): its start (index.ts), the readiness     *)
(* probe with the ping all probes share (app.ts, migrations.ts), graceful  *)
(* shutdown and fatal errors (lifecycle.ts), under docker, which restarts  *)
(* it when it dies and kills it when it does not stop in time.             *)
(*                                                                         *)
(* Time is discrete, in units the budgets are given in; every timer fires  *)
(* at its deadline.  Requests are the ones outside the probes: what they   *)
(* do is left out, except that one may never end (a stream).               *)
(***************************************************************************)
EXTENDS Naturals, FiniteSets

CONSTANTS
    Requests, Probes,  \* ids, each used again once its answer is out
    ReadinessBudget,   \* READINESS_TIMEOUT_MS, also the ping's statement timeout
    ConnectBudget,     \* connectionTimeout of the pool
    DrainBudget, FlushBudget, CloseBudget, \* shutdown's three bounded steps
    FatalBudget,       \* FATAL_REPORT_FLUSH_MS
    Grace,             \* stop_grace_period of the container
    Nobody

\* lifecycle.ts: "the bounded steps below must fit inside it".
ASSUME GraceAssumption ==
    /\ {ReadinessBudget, ConnectBudget, DrainBudget, FlushBudget, CloseBudget,
        FatalBudget, Grace} \subseteq Nat \ {0}
    /\ DrainBudget + FlushBudget + CloseBudget < Grace

ASSUME NobodyAssumption == Nobody \notin Probes

VARIABLES
    life,      \* where the process is in its life
    code,      \* the exit code it left with
    spent,     \* time in the present step of the shutdown
    stopAsked, \* time since docker asked it to stop, or Never
    missed,    \* docker asked before the handlers were installed
    dying,     \* time since a fatal error waits for its report, or Never
    request,   \* request -> what became of it
    postgres,  \* what the server does with a query
    pending,   \* singleFlight's pending: the probe that started it, or Nobody
    ping,      \* probe -> the ping it started
    probe      \* probe -> what it waits for

procVars == <<life, code, spent, stopAsked, missed, dying>>
pingVars == <<postgres, pending, ping, probe>>
apiVars == <<life, code, spent, stopAsked, missed, dying, request,
             postgres, pending, ping, probe>>

Never == Grace + 1

\* Mutant: the drain alone fills the grace period.
DrainForever == Grace

DRAIN_TIMEOUT == DrainBudget
TELEMETRY_FLUSH_CAP == FlushBudget
PG_CLOSE_TIMEOUT == CloseBudget
READINESS_TIMEOUT == ReadinessBudget

NoPing == [step |-> "none", age |-> 0]
NoProbe == [on |-> Nobody, age |-> 0, heard |-> FALSE]

InFlight == {"connecting", "asking"}
PingOver == {"ok", "failed"}
Stopping == {"draining", "forcing", "flushing", "closing"}
Alive == Stopping \union {"starting", "serving"}

ApiInit ==
    /\ life = "starting" /\ code = 0 /\ spent = 0
    /\ stopAsked = Never /\ missed = FALSE /\ dying = Never
    /\ request = [r \in Requests |-> "none"]
    /\ postgres \in {"up", "hung", "down"}
    /\ pending = Nobody
    /\ ping = [p \in Probes |-> NoPing]
    /\ probe = [p \in Probes |-> NoProbe]

-----------------------------------------------------------------------------
(* Start and end of the process.                                           *)

\* Telemetry, error reporting, Bun.serve, then the handlers.
StartServing ==
    /\ life = "starting"
    /\ life' = "serving"
    /\ UNCHANGED <<code, spent, stopAsked, missed, dying, request, pingVars>>

CutRequests == [r \in Requests |-> IF request[r] = "running" THEN "cut" ELSE request[r]]

\* The process is gone: what it was serving is cut, its sockets close.
Exit(status) ==
    /\ life' = "gone" /\ code' = status
    /\ spent' = 0 /\ dying' = Never
    /\ request' = CutRequests
    /\ pending' = Nobody
    /\ ping' = [p \in Probes |-> NoPing]
    /\ probe' = [p \in Probes |-> NoProbe]
    /\ UNCHANGED <<stopAsked, missed, postgres>>

\* restart: unless-stopped, and the next `docker compose up` after a stop.
Restart ==
    /\ life = "gone"
    /\ life' = "starting" /\ code' = 0
    /\ stopAsked' = Never /\ missed' = FALSE
    /\ request' = [r \in Requests |-> "none"]
    /\ UNCHANGED <<spent, dying, pingVars>>

StepTo(next) == life' = next /\ spent' = 0

\* SIGTERM from docker stop, or a signal sent by hand.  Before the handlers are
\* installed it has its default effect, or none where the process is the
\* container's first; later ones find `stopping` set.
Signal(byDocker) ==
    /\ life \in Alive
    /\ byDocker => stopAsked = Never
    /\ stopAsked' = IF byDocker THEN 0 ELSE stopAsked
    /\ missed' = (missed \/ (byDocker /\ life = "starting"))
    /\ IF life = "serving" THEN StepTo("draining") ELSE UNCHANGED <<life, spent>>
    /\ UNCHANGED <<code, dying, request, pingVars>>

\* That default effect, or a start that fails.
StartEnds ==
    /\ life = "starting"
    /\ \E status \in {1, 143} : Exit(status)

\* docker kills what is left at the end of the grace period.
KilledByDocker ==
    /\ life \in Alive /\ stopAsked = Grace
    /\ Exit(137)

\* An unhandled rejection or an uncaught exception waits for its report ...
Fatal ==
    /\ life \in Alive \ {"starting"} /\ dying = Never
    /\ dying' = 0
    /\ UNCHANGED <<life, code, spent, stopAsked, missed, request, pingVars>>

\* ... which is out at once when reporting is off, and bounded when it is on.
FatalExit ==
    /\ life \in Alive /\ dying \in 0..FatalBudget
    /\ Exit(1)

-----------------------------------------------------------------------------
(* createShutdown.                                                         *)

\* server.stop() resolved: nothing was in flight any more.
Drained ==
    /\ life = "draining"
    /\ \A r \in Requests : request[r] # "running"
    /\ StepTo("flushing")
    /\ UNCHANGED <<code, stopAsked, missed, dying, request, pingVars>>

\* Mutant: connections are forced closed at once.
DrainSkipped ==
    /\ life = "draining"
    /\ life' = "forcing"
    /\ UNCHANGED <<code, spent, stopAsked, missed, dying, request, pingVars>>

DrainTimedOut ==
    /\ life = "draining" /\ spent = DRAIN_TIMEOUT
    /\ life' = "forcing"
    /\ UNCHANGED <<code, spent, stopAsked, missed, dying, request, pingVars>>

\* server.stop(true).
ForcedClosed ==
    /\ life = "forcing"
    /\ request' = CutRequests
    /\ StepTo("flushing")
    /\ UNCHANGED <<code, stopAsked, missed, dying, pingVars>>

\* Spans and reports are out, or the cap is reached; shutdownTelemetry and
\* flushErrorReporting never reject.
Flushed ==
    /\ life = "flushing"
    /\ StepTo("closing")
    /\ UNCHANGED <<code, stopAsked, missed, dying, request, pingVars>>

\* pg.close({ timeout }) - or a step threw, and the finally block exits as well.
ShutdownEnds ==
    /\ life \in Stopping
    /\ Exit(0)

-----------------------------------------------------------------------------
(* Requests.                                                               *)

\* A connection is accepted until server.stop().
Arrive(r) ==
    /\ life = "serving" /\ request[r] = "none"
    /\ request' = [request EXCEPT ![r] = "running"]
    /\ UNCHANGED <<procVars, pingVars>>

Respond(r) ==
    /\ request[r] = "running"
    /\ request' = [request EXCEPT ![r] = "none"]
    /\ UNCHANGED <<procVars, pingVars>>

-----------------------------------------------------------------------------
(* /readyz: checkDatabase, singleFlight and pingDatabase.                  *)

Waiters(p) == {q \in Probes : probe[q].on = p}

\* The ping's transaction, on an idle connection of the pool or on a new one.
pingDatabase(p) ==
    \E step \in InFlight : ping' = [ping EXCEPT ![p] = [step |-> step, age |-> 0]]

\* A probe joins the call in flight, or starts one.
sharedPing(p) ==
    \/ /\ pending # Nobody
       /\ probe' = [probe EXCEPT ![p].on = pending]
       /\ UNCHANGED <<pending, ping>>
    \/ /\ pending = Nobody /\ ping[p] = NoPing
       /\ pingDatabase(p)
       /\ pending' = p
       /\ probe' = [probe EXCEPT ![p].on = p]

checkDatabase(p) ==
    /\ life = "serving" /\ probe[p] = NoProbe
    /\ sharedPing(p)
    /\ UNCHANGED <<procVars, request, postgres>>

Connected(p) ==
    /\ ping[p].step = "connecting" /\ postgres = "up"
    /\ ping' = [ping EXCEPT ![p] = [step |-> "asking", age |-> 0]]
    /\ UNCHANGED <<procVars, request, postgres, pending, probe>>

\* Mutant: a settled ping keeps its place.
SettleForGood(p, result) ==
    /\ ping' = [ping EXCEPT ![p] = [step |-> result, age |-> 0]]
    /\ UNCHANGED pending

\* The ping's promise settles; its `finally` makes room for the next one.
Settle(p, result) ==
    /\ ping' = [ping EXCEPT ![p] = IF Waiters(p) = {} THEN NoPing ELSE [step |-> result, age |-> 0]]
    /\ pending' = IF pending = p THEN Nobody ELSE pending

\* The server answers: that is news to whoever waits for this ping by now.
Answered(p) ==
    /\ ping[p].step = "asking" /\ postgres = "up"
    /\ Settle(p, "ok")
    /\ probe' = [q \in Probes |-> IF probe[q].on = p THEN [probe[q] EXCEPT !.heard = TRUE]
                                                     ELSE probe[q]]
    /\ UNCHANGED <<procVars, request, postgres>>

\* Refused or dropped by a server that is down, given up by the connect timeout,
\* or cancelled by a server that is there to enforce its statement timeout.
PingFailed(p) ==
    /\ \/ ping[p].step \in InFlight /\ postgres = "down"
       \/ ping[p].step = "connecting" /\ ping[p].age = ConnectBudget
       \/ ping[p].step = "asking" /\ ping[p].age >= READINESS_TIMEOUT /\ postgres = "up"
    /\ Settle(p, "failed")
    /\ UNCHANGED <<procVars, request, postgres, probe>>

\* The race between the ping and the timer is won by the ping: 200 or 503.
Deliver(q, result) ==
    LET p == probe[q].on
    IN  /\ p # Nobody /\ ping[p].step = result
        /\ probe' = [probe EXCEPT ![q] = NoProbe]
        /\ ping' = IF Waiters(p) = {q} /\ pending # p THEN [ping EXCEPT ![p] = NoPing] ELSE ping
        /\ UNCHANGED <<procVars, request, postgres, pending>>

OutOfTime(q) == probe[q].on # Nobody /\ probe[q].age = READINESS_TIMEOUT

\* Mutant: the probe that gives up also gives the place away.
TimedOutFreeing(q) ==
    /\ OutOfTime(q)
    /\ probe' = [probe EXCEPT ![q] = NoProbe]
    /\ pending' = Nobody
    /\ UNCHANGED <<procVars, request, postgres, ping>>

\* ... or by the timer: 503.
TimedOut(q) ==
    /\ OutOfTime(q)
    /\ probe' = [probe EXCEPT ![q] = NoProbe]
    /\ UNCHANGED <<procVars, request, postgres, pending, ping>>

PostgresTurns ==
    /\ postgres' \in {"up", "hung", "down"} \ {postgres}
    /\ UNCHANGED <<procVars, request, pending, ping, probe>>

-----------------------------------------------------------------------------
\* The reactions to a promise that settled run before anything else does.
Reacting == \E q \in Probes : probe[q].on # Nobody /\ ping[probe[q].on].step \in PingOver

\* A timer that is due fires before time goes on.
Due ==
    \/ life = "forcing"
    \/ life = "draining" /\ spent >= DRAIN_TIMEOUT
    \/ life = "flushing" /\ spent >= TELEMETRY_FLUSH_CAP
    \/ life = "closing" /\ spent >= PG_CLOSE_TIMEOUT
    \/ dying = FatalBudget
    \/ stopAsked = Grace
    \/ \E q \in Probes : OutOfTime(q)
    \/ \E p \in Probes : ping[p].step = "connecting" /\ ping[p].age = ConnectBudget

Older(age, bound) == IF age < bound THEN age + 1 ELSE age

Tick ==
    /\ life \in Alive /\ ~Due
    /\ spent' = IF life \in Stopping THEN spent + 1 ELSE spent
    /\ stopAsked' = IF stopAsked = Never THEN Never ELSE stopAsked + 1
    /\ dying' = IF dying = Never THEN Never ELSE dying + 1
    /\ ping' = [p \in Probes |-> IF ping[p].step \in InFlight
                                 THEN [ping[p] EXCEPT !.age = Older(@, ConnectBudget)]
                                 ELSE ping[p]]
    /\ probe' = [q \in Probes |-> IF probe[q].on # Nobody THEN [probe[q] EXCEPT !.age = @ + 1]
                                                          ELSE probe[q]]
    /\ UNCHANGED <<life, code, missed, request, postgres, pending>>

Process ==
    \/ StartServing \/ Restart \/ StartEnds \/ KilledByDocker
    \/ \E byDocker \in BOOLEAN : Signal(byDocker)
    \/ Fatal \/ FatalExit
    \/ Drained \/ DrainTimedOut \/ ForcedClosed \/ Flushed \/ ShutdownEnds

Readiness ==
    \/ \E p \in Probes : \/ checkDatabase(p) \/ Connected(p) \/ Answered(p)
                         \/ PingFailed(p) \/ TimedOut(p)
    \/ PostgresTurns

ApiNext ==
    \/ \E q \in Probes, result \in PingOver : Deliver(q, result)
    \/ ~Reacting /\ Process
    \/ ~Reacting /\ Readiness
    \/ ~Reacting /\ \E r \in Requests : Arrive(r) \/ Respond(r)
    \/ ~Reacting /\ Tick

ApiSpec == ApiInit /\ [][ApiNext]_apiVars

-----------------------------------------------------------------------------
(* Properties.                                                             *)

\* Every variable keeps its type; a process that is gone has nothing in hand.
ApiTypeOK ==
    /\ life \in Alive \union {"gone"}
    /\ code \in {0, 1, 137, 143}
    /\ spent \in 0..DrainBudget + FlushBudget + CloseBudget
    /\ stopAsked \in 0..Never
    /\ missed \in BOOLEAN
    /\ dying \in (0..FatalBudget) \union {Never}
    /\ request \in [Requests -> {"none", "running", "cut"}]
    /\ postgres \in {"up", "hung", "down"}
    /\ pending \in Probes \union {Nobody}
    /\ ping \in [Probes -> [step : InFlight \union PingOver \union {"none"}, age : 0..ConnectBudget]]
    /\ probe \in [Probes -> [on : Probes \union {Nobody}, age : 0..ReadinessBudget,
                             heard : BOOLEAN]]
    /\ life = "gone" => /\ pending = Nobody
                        /\ \A r \in Requests : request[r] # "running"

\* Whatever requests do not end, whatever hangs, throws or fails and however many
\* signals come in, docker never has to kill a process that had its handlers
\* when it was asked to stop (lifecycle.ts: "the bounded steps below must fit
\* inside it").
StopsInGrace == code = 137 => missed

\* Probes come in faster than a hung database lets go of them; together they
\* hold one connection of the pool (app.ts: "the probes share one").
PingsHoldOneConnection == Cardinality({p \in Probes : ping[p].step \in InFlight}) <= 1

\* Ready means that the database answered while this probe waited, not some
\* time before.
ReadyIsFresh == [][\A q \in Probes : Deliver(q, "ok") => probe[q].heard]_apiVars

\* A request is cut only by the end of the process or once the drain has had the
\* whole of its budget, and none is left when telemetry and the pool are closed.
RequestsGetTheirTime ==
    [][/\ \A r \in Requests :
            (request[r] = "running" /\ request'[r] = "cut")
            => life' = "gone" \/ (life = "forcing" /\ spent = DrainBudget)
       /\ life' \in {"flushing", "closing"} => \A r \in Requests : request'[r] # "running"]_apiVars

=============================================================================
