----------------------------- MODULE MCApplication -----------------------------
(* Small instances of the application's parts for TLC: the migrations, the  *)
(* API process, its limiters, two kinds of page, who is signed in, and the  *)
(* pages of an account.  They share no state, so one run checks them side   *)
(* by side: `part` picks the one that acts, the others rest where they      *)
(* start.                                                                   *)
EXTENDS MCMigrations, ApiProcess, RateLimit, ListPages, TwoFactorPage, SignIn,
        AccountPages

CONSTANTS p1, p2, p3, r1, ca, cb, s1, i1, i2, a1, a2

MCProbes == {p1, p2, p3}
MCRequests == {r1}
MCCallers == {ca, cb}
MCLimiters == {"procedure", "contact"}
MCWindowMs == "procedure" :> 2 @@ "contact" :> 3
MCMaxCalls == "procedure" :> 2 @@ "contact" :> 1
MCRefunding == {"procedure"}
MCStreams == {s1}
MCItems == {i1, i2}
MCAddresses == {a1, a2}

VARIABLE part

appVars == <<part, vars, apiVars, limitVars, listVars, factorVars, signInVars,
             accountVars>>

\* One initial state of each part, for the runs in which it rests.
Rests(p) ==
    /\ p # "migrations" => authored = {} /\ db.tables = {}
    /\ p # "api" => postgres = "up"
    /\ p # "list" => /\ page = "users"
                     /\ server = [i \in Items |-> 0] /\ shown = server
    /\ p # "factor" => ~factor.on
    /\ p # "sign-in" => build = "web" /\ ~twoFactor
    /\ IF p = "account" THEN account.at # NoAddress => account.at = a1 /\ ~required
       ELSE account.at = NoAddress /\ ~required /\ sheet.at = "login"

AppInit ==
    /\ Init /\ ApiInit /\ RateInit /\ ListInit /\ FactorInit /\ SignInInit
    /\ AccountInit
    /\ part \in {"migrations", "api", "limits", "list", "factor", "sign-in", "account"}
    /\ Rests(part)

AppNext ==
    \/ /\ part = "migrations"
       /\ UNCHANGED <<part, apiVars, limitVars, listVars, factorVars, signInVars, accountVars>>
       /\ Next
    \/ /\ part = "api"
       /\ UNCHANGED <<part, vars, limitVars, listVars, factorVars, signInVars, accountVars>>
       /\ ApiNext
    \/ /\ part = "limits"
       /\ UNCHANGED <<part, vars, apiVars, listVars, factorVars, signInVars, accountVars>>
       /\ RateNext
    \/ /\ part = "list"
       /\ UNCHANGED <<part, vars, apiVars, limitVars, factorVars, signInVars, accountVars>>
       /\ ListNext
    \/ /\ part = "factor"
       /\ UNCHANGED <<part, vars, apiVars, limitVars, listVars, signInVars, accountVars>>
       /\ FactorNext
    \/ /\ part = "sign-in"
       /\ UNCHANGED <<part, vars, apiVars, limitVars, listVars, factorVars, accountVars>>
       /\ SignInNext
    \/ /\ part = "account"
       /\ UNCHANGED <<part, vars, apiVars, limitVars, listVars, factorVars, signInVars>>
       /\ AccountNext

AppSpec == AppInit /\ [][AppNext]_appVars

\* Of a call, what its next steps read: a cookie goes with the call that uses it, and who
\* called matters to the handlers of three.
SeenOfTrip(k) ==
    LET c == trip[k]
    IN CASE c.at = "sent" -> <<"sent", c.as, IF k = "stop" THEN c.parked ELSE NoSession,
                               k = "code" /\ c.halfway>>
         [] c.at = "answered" ->
              <<"answered", IF c.answer = "fault" /\ k # "stop" THEN "no" ELSE c.answer, c.session,
                IF k \in {"impersonate", "stop", "signOut"} THEN c.as ELSE NoSession,
                IF k = "stop" THEN c.parked ELSE NoSession>>
         [] OTHER -> <<c.at>>

\* The sessions something still refers to: nobody can be signed in with the others any more.
Held == {jar.session, jar.parked, token, ended.whose, ended.parked}
          \union UNION {{trip[k].as, trip[k].parked, trip[k].session} : k \in Calls}

\* The addresses are alike: it is a1 that gets the account, and one that has been verified does
\* not depend on whether it had to be.
OneSignsUp == account.secret = 0 => account'.at # a2

\* A button is pressed while at most one other call is on its way.
UnderWay == {k \in Calls : trip[k].at \in {"sent", "answered"}}
TwoAtOnce == pressed' # pressed => Cardinality(UnderWay) <= 1

\* The callers are alike: the first call is ca's.
FirstCaller == lastSweep["procedure"] = 0 => buckets'["procedure"][cb] = NoBucket

\* Buckets are a caller's own: calls of one caller at a time await their refund.
OneAwaits == \E c \in Callers : \A k \in Streams : handling'[c][k] = Unused

\* Probes that wait for nothing and have no ping out are alike: the first of them comes next.
Spare(p) == probe[p] = NoProbe /\ ping[p] = NoPing
FirstSpare ==
    /\ Spare(p2) /\ probe'[p2] # NoProbe => ~Spare(p1)
    /\ Spare(p3) /\ probe'[p3] # NoProbe => ~Spare(p1) /\ ~Spare(p2)

\* Of a call and of a claim, what the next steps and the property read.
SeenOfErrand(k) ==
    LET e == errand[k]
    IN IF e.at \in {"idle", "stuck"} THEN <<e.at>>
       ELSE IF e.answer = "yes" THEN <<e.reader, e.email, e.saw>>
       ELSE <<e.at, e.reader, e.email, e.answer>>

SeenOfClaim(k) ==
    LET c == told[k]
    IN IF c = Silent THEN <<>>
       ELSE CASE k \in {"reset", "password"} -> <<c.saw.secret>>
              [] k \in Reminders -> <<c.to, c.saw.at = c.to /\ ~c.saw.verified>>
              [] k \in {"signUp", "forgot", "delete"} -> <<c.saw.at>>
              [] OTHER -> <<c.to, c.copy, c.saw.at, c.saw.verified>>

\* The parts that rest do not change.
SeenOfApp ==
    CASE part = "migrations" -> <<part, Seen>>
      [] part = "api"        -> <<part, apiVars>>
      [] part = "limits"     -> <<part, limitVars>>
      [] part = "list"       -> <<part, listVars>>
      [] part = "factor"     -> <<part, factorVars>>
      [] part = "sign-in"    -> <<part, build, twoFactor, live \intersect Held, granted, jar, token,
                                  screen, pressed, ended, [k \in Calls |-> SeenOfTrip(k)]>>
      [] part = "account"    -> <<part, required, account, signedIn, mails, asked,
                                  [sheet EXCEPT !.gate = @ /\ sheet.at = "signup"],
                                  [k \in Errands |-> <<SeenOfErrand(k), SeenOfClaim(k)>>]>>
=============================================================================
