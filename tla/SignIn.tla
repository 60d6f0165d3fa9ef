-------------------------------- MODULE SignIn --------------------------------
(***************************************************************************)
(* Who a copy of the web app is signed in as: the sign-in pages, the       *)
(* guards of /app and /admin, impersonation and its way back, sign-out,    *)
(* and the refreshes of the session store that overlap all of them.        *)
(*                                                                         *)
(* The same pages run in three builds: the web app with its cookies, the   *)
(* static build on a host of the app's own site, which sends a bearer      *)
(* token too, and the static build in a native shell, which gets no cookie *)
(* back from the API's site and has the token alone.  Better Auth is taken *)
(* as the clients in apps/web and packages/auth use it; a call goes out,   *)
(* is served and comes back in three steps.                                *)
(***************************************************************************)
EXTENDS Naturals

CONSTANTS
    MaxSessions,  \* bound on the sessions the API issues
    MaxPresses,   \* bound on the calls the client sends
    NoSession     \* no session

ASSUME SignInAssumption == MaxSessions \in Nat \ {0} /\ MaxPresses \in Nat

Buttons == {"email", "code", "passkey", "social", "impersonate", "stop", "signOut"}
Calls   == Buttons \union {"look"}
Pages   == {"login", "code", "app", "users"}

\* n tells sessions apart; an impersonation is the user's session, by the administrator.
Session == [n : 1..MaxSessions, who : {"admin", "user"}, by : {"admin", "nobody"}]

ASSUME NoSessionAssumption == NoSession \notin Session

VARIABLES
    build,      \* "web", "static" or "shell"
    twoFactor,  \* whether the account has a second factor
    live,       \* the API's sessions
    granted,    \* how many it has granted
    jar,        \* the cookies: session, parked administrator, half-finished sign-in
    token,      \* the token store
    screen,     \* the page that is open
    trip,       \* each call: where it is, what it carries, what was answered
    pressed,    \* calls sent so far
    ended       \* what the last button to be answered came to, for which session, whether by way
                \* of a provider, and the administrator's session it was to go back to

sessionVars == <<live, granted>>
clientVars  == <<jar, token, screen, ended>>
signInVars  == <<build, twoFactor, live, granted, jar, token, screen, trip, pressed, ended>>

-----------------------------------------------------------------------------
(* api.ts, token-store.ts: what a build has *)

UsesBearerAuth == build # "web"
InShell == build = "shell"

SOCIAL_SIGN_IN_AVAILABLE     == ~InShell
PASSKEYS_AVAILABLE           == ~InShell
TWO_FACTOR_SIGN_IN_AVAILABLE == ~InShell
IMPERSONATION_AVAILABLE      == ~InShell

\* What a call is made as: the token when the store has one.
Credential(cookies, stored) ==
    IF UsesBearerAuth /\ stored # NoSession THEN stored ELSE cookies.session

Caller == Credential(jar, token)

Forgets(session, halfway) ==                                             \* wrong
    /\ jar'   = IF InShell THEN jar ELSE [jar EXCEPT !.session = session, !.halfway = halfway]
    /\ token' = token

\* onSuccess: set-auth-token; a cookie clings only where the page is on the API's site.
Keeps(session, halfway) ==
    /\ jar'   = IF InShell THEN jar ELSE [jar EXCEPT !.session = session, !.halfway = halfway]
    /\ token' = IF UsesBearerAuth THEN session ELSE token

-----------------------------------------------------------------------------
AtRest == [at |-> "idle", as |-> NoSession, parked |-> NoSession, halfway |-> FALSE,
         answer |-> "none", session |-> NoSession]
Ended(what, whose) ==
    [what |-> what, whose |-> whose, provider |-> FALSE, parked |-> NoSession]

\* A shell may have been left impersonating by an older build.
SignInInit ==
    /\ build \in {"web", "static", "shell"} /\ twoFactor \in BOOLEAN
    /\ jar = [session |-> NoSession, parked |-> NoSession, halfway |-> FALSE]
    /\ \/ live = {} /\ granted = 0 /\ token = NoSession /\ screen = "login"
       \/ /\ build = "shell" /\ granted = 1 /\ screen = "app"
          /\ token = [n |-> 1, who |-> "user", by |-> "admin"] /\ live = {token}
    /\ trip = [k \in Calls |-> AtRest] /\ pressed = 0
    /\ ended = Ended("nothing", NoSession)

Unsent(k) == trip[k].at = "idle"

\* Where a button is, and when it is not disabled.
OnOffer(k) ==
    CASE k \in {"email", "passkey"} -> screen = "login" /\ Unsent("email") /\ Unsent("passkey")
                                         /\ (k = "passkey" => PASSKEYS_AVAILABLE)
      [] k = "social" -> screen = "login" /\ SOCIAL_SIGN_IN_AVAILABLE
      [] k = "code"   -> screen = "code" /\ TWO_FACTOR_SIGN_IN_AVAILABLE
      [] k = "impersonate" -> screen = "users" /\ IMPERSONATION_AVAILABLE
      [] k = "stop"   -> screen = "app" /\ Caller # NoSession /\ Caller.by = "admin"
      [] k = "signOut" -> screen = "app"
      [] OTHER -> TRUE

Sent == [at |-> "sent", as |-> Caller, parked |-> jar.parked, halfway |-> jar.halfway,
         answer |-> "none", session |-> NoSession]

Press(k) ==
    /\ Unsent(k) /\ OnOffer(k) /\ pressed < MaxPresses
    /\ trip' = [trip EXCEPT ![k] = Sent] /\ pressed' = pressed + 1
    /\ UNCHANGED <<build, twoFactor, sessionVars, clientVars>>

-----------------------------------------------------------------------------
(* The API's side of a call *)

Answering(k, answer, session) ==
    trip' = [trip EXCEPT ![k].at = "answered", ![k].answer = answer, ![k].session = session]

Issue(k, who, by) ==
    /\ granted < MaxSessions /\ granted' = granted + 1
    /\ LET s == [n |-> granted + 1, who |-> who, by |-> by]
       IN live' = live \union {s} /\ Answering(k, "yes", s)

Refuse(k) == Answering(k, "no", NoSession) /\ UNCHANGED sessionVars

Serve(k) ==
    /\ trip[k].at = "sent"
    /\ LET c == trip[k]
       IN CASE k = "email" -> IF twoFactor THEN Answering(k, "yes", NoSession) /\ UNCHANGED sessionVars
                              ELSE Issue(k, "admin", "nobody")
            [] k = "code"  -> IF c.halfway THEN Issue(k, "admin", "nobody") ELSE Refuse(k)
            [] k \in {"passkey", "social"} -> Issue(k, "admin", "nobody")
            [] k = "impersonate" ->
                 IF c.as \in live /\ c.as.who = "admin" THEN Issue(k, "user", "admin")
                 ELSE Refuse(k)
            [] k = "stop" -> IF c.as \in live /\ c.as.by = "admin" /\ c.parked \in live
                               THEN /\ live' = live \ {c.as} /\ UNCHANGED granted
                                    /\ Answering(k, "yes", c.parked)
                             ELSE Refuse(k)
            [] k = "signOut" -> /\ live' = live \ {c.as} /\ UNCHANGED granted
                                 /\ Answering(k, "yes", NoSession)
            [] OTHER -> /\ Answering(k, "yes", IF c.as \in live THEN c.as ELSE NoSession)
                        /\ UNCHANGED sessionVars
    /\ UNCHANGED <<build, twoFactor, clientVars, pressed>>

\* A 5xx, before or after the call took effect.
ServeBadly(k) ==
    /\ trip[k].at \in {"sent", "answered"}
    /\ Answering(k, "fault", NoSession)
    /\ UNCHANGED <<build, twoFactor, sessionVars, clientVars, pressed>>

\* No answer at all: the handler throws, and what it had disabled stays so.
Throw(k) ==
    /\ trip[k].at \in {"sent", "answered"}
    /\ trip' = [trip EXCEPT ![k] = IF k \in {"passkey", "code", "impersonate", "stop"}
                                     THEN [AtRest EXCEPT !.at = "stuck"] ELSE AtRest]
    /\ UNCHANGED <<build, twoFactor, sessionVars, clientVars, pressed>>

\* Expired, or revoked from another device.
SessionEnds(s) ==
    /\ s \in live /\ live' = live \ {s}
    /\ UNCHANGED <<build, twoFactor, granted, clientVars, trip, pressed>>

\* The cookie of a half-finished sign-in lives for minutes.
HalfwayExpires ==
    /\ jar.halfway /\ jar' = [jar EXCEPT !.halfway = FALSE]
    /\ UNCHANGED <<build, twoFactor, sessionVars, token, screen, trip, pressed, ended>>

-----------------------------------------------------------------------------
(* The handlers, once a call has been answered *)

\* The guards of /app and /admin, for whoever the API now takes the client for.
Landing(target) ==
    LET caller == Credential(jar', token')
    IN IF caller \notin live THEN "login"
       ELSE IF target = "users" /\ caller.who # "admin" THEN "app" ELSE target

Returned(k) == trip' = [trip EXCEPT ![k] = AtRest]

Comes(k) == trip[k].at = "answered" /\ UNCHANGED <<build, twoFactor, sessionVars, pressed>>

TurnedDown(k) == /\ trip[k].answer # "yes" /\ ended' = Ended("nothing", NoSession)
                 /\ UNCHANGED <<jar, token, screen>>

\* In: goto, and the guard of where it goes.  A code that was right is the end of its cookie.
GoesOn(k) ==
    LET c == trip[k]
    IN /\ c.answer = "yes" /\ c.session # NoSession
       /\ Keeps(c.session, jar.halfway /\ k # "code") /\ screen' = Landing("app")
       /\ ended' = Ended(IF screen' = "login" THEN "bounced" ELSE "in", c.session)

\* onTwoFactorRedirect: the password was accepted and a code is wanted.
AsksForCode ==
    /\ trip["email"].answer = "yes" /\ trip["email"].session = NoSession
    /\ jar' = [jar EXCEPT !.halfway = ~InShell] /\ screen' = "code"
    /\ ended' = Ended("nothing", NoSession) /\ UNCHANGED token

EmailAnswered ==
    /\ Comes("email") /\ Returned("email")
    /\ TurnedDown("email") \/ AsksForCode \/ GoesOn("email")

PasskeyAnswered == /\ Comes("passkey") /\ Returned("passkey")
                   /\ TurnedDown("passkey") \/ GoesOn("passkey")

CodeAnswered == /\ Comes("code") /\ Returned("code")
                /\ TurnedDown("code") \/ GoesOn("code")

\* The provider sends the browser back: the page is a new one, without its calls, and nothing
\* on this way replaces a token that is in the store.
SocialReturns ==
    /\ Comes("social") /\ trip["social"].answer = "yes"
    /\ trip' = [k \in Calls |-> AtRest]
    /\ jar' = [jar EXCEPT !.session = trip["social"].session] /\ UNCHANGED token
    /\ screen' = Landing("app")
    /\ ended' = [Ended(IF screen' = "login" THEN "bounced" ELSE "in", trip["social"].session)
                   EXCEPT !.provider = TRUE]

SocialFails == Comes("social") /\ Returned("social") /\ TurnedDown("social")

Impersonates ==
    /\ Comes("impersonate") /\ Returned("impersonate")
    /\ ended' = Ended("nothing", NoSession)
    /\ LET c == trip["impersonate"]
       IN IF c.answer = "yes"
            THEN /\ jar' = IF InShell THEN jar
                          ELSE [jar EXCEPT !.session = c.session, !.parked = c.as]
                 /\ token' = (IF UsesBearerAuth THEN c.session ELSE token)
                 /\ screen' = Landing("app")
          ELSE UNCHANGED <<jar, token, screen>>

\* Back to the administrator; in a shell, which has no way back, out.
Stops ==
    /\ Comes("stop")
    /\ LET c == trip["stop"]
       IN \/ /\ c.answer = "yes" /\ Returned("stop")
             /\ jar' = IF InShell THEN jar
                      ELSE [jar EXCEPT !.session = c.session, !.parked = NoSession]
             /\ token' = (IF UsesBearerAuth THEN c.session ELSE token)
             /\ screen' = Landing("users")
             /\ ended' = [Ended("stop", c.as) EXCEPT !.parked = c.parked]
          \/ /\ c.answer # "yes" /\ IMPERSONATION_AVAILABLE /\ Returned("stop")
             /\ ended' = [Ended(IF c.answer = "no" THEN "stop" ELSE "nothing", c.as)
                            EXCEPT !.parked = c.parked]
             /\ UNCHANGED <<jar, token, screen>>
          \/ /\ c.answer # "yes" /\ ~IMPERSONATION_AVAILABLE
             /\ trip' = [trip EXCEPT !["stop"] = AtRest,
                                     !["signOut"] = IF Unsent("signOut") THEN Sent ELSE @]
             /\ ended' = Ended("nothing", c.as) /\ UNCHANGED <<jar, token, screen>>

\* signOut goes on to clear the store whatever was answered.
SignsOut ==
    /\ Comes("signOut") /\ Returned("signOut")
    /\ LET c == trip["signOut"]
       IN /\ jar'   = IF c.answer = "yes" THEN [jar EXCEPT !.session = NoSession] ELSE jar
          /\ ended' = Ended("out", c.as)
    /\ token' = NoSession /\ screen' = "login"

\* useSession: a refresh may hand the session out again; none at all leaves the page.
Looks ==
    /\ Comes("look") /\ Returned("look")
    /\ LET c == trip["look"]
       IN \/ /\ c.answer = "yes" => c.session # NoSession
             /\ UNCHANGED <<jar, token, screen, ended>>
          \/ /\ c.session # NoSession /\ Keeps(c.session, jar.halfway) /\ UNCHANGED screen
             /\ ended' = IF c.session = ended.whose THEN ended ELSE Ended("nothing", NoSession)
          \/ /\ c.answer = "yes" /\ c.session = NoSession
             /\ jar' \in {jar, [jar EXCEPT !.session = NoSession]} /\ UNCHANGED <<token, ended>>
             /\ screen' = IF screen \in {"app", "users"} THEN "login" ELSE screen

-----------------------------------------------------------------------------
(* The person goes somewhere, or reloads *)

\* The sign-in pages have no guard.
Visit(target) ==
    /\ screen # target /\ UNCHANGED <<jar, token>>
    /\ screen' = IF target \in {"login", "code"} THEN target ELSE Landing(target)
    /\ UNCHANGED <<build, twoFactor, sessionVars, trip, pressed, ended>>

ReloadPage ==
    /\ \E k \in Calls : ~Unsent(k)
    /\ trip' = [k \in Calls |-> AtRest] /\ UNCHANGED <<jar, token>>
    /\ screen' = IF screen \in {"app", "users"} THEN Landing(screen) ELSE screen
    /\ UNCHANGED <<build, twoFactor, sessionVars, pressed, ended>>

SignInNext ==
    \/ \E k \in Calls : Press(k) \/ Serve(k) \/ ServeBadly(k) \/ Throw(k)
    \/ EmailAnswered \/ PasskeyAnswered \/ CodeAnswered
    \/ SocialReturns \/ SocialFails \/ Impersonates \/ Stops \/ SignsOut \/ Looks
    \/ (\E s \in live : SessionEnds(s)) \/ HalfwayExpires
    \/ \E target \in Pages : Visit(target)
    \/ ReloadPage

SignInSpec == SignInInit /\ [][SignInNext]_signInVars

-----------------------------------------------------------------------------
Someone == Session \union {NoSession}

SignInTypeOK ==
    /\ build \in {"web", "static", "shell"} /\ twoFactor \in BOOLEAN
    /\ live \subseteq Session /\ granted \in 0..MaxSessions
    /\ jar \in [session : Someone, parked : Someone, halfway : BOOLEAN] /\ token \in Someone
    /\ screen \in Pages /\ pressed \in 0..MaxPresses
    /\ trip \in [Calls -> [at : {"idle", "sent", "answered", "stuck"}, as : Someone,
                           parked : Someone, halfway : BOOLEAN,
                           answer : {"none", "yes", "no", "fault"}, session : Someone]]
    /\ ended \in [what : {"nothing", "in", "bounced", "stop", "out"}, whose : Someone,
                  provider : BOOLEAN, parked : Someone]

\* A step that was accepted takes effect.  A sign-in gets past the guard of /app unless
\* its session has ended again, or it came by way of a provider to a client that still
\* sends a token; once Stop has been answered the client acts as that other person only
\* where the administrator's session it was to go back to is gone (client.ts onSuccess,
\* login, two-factor, +layout.svelte stopImpersonating).
NoDeadEnd ==
    /\ ended.what = "bounced" =>
           ended.whose \notin live \/ (ended.provider /\ UsesBearerAuth /\ token # NoSession)
    /\ ended.what = "stop" /\ Caller \in live /\ Caller = ended.whose =>
           ~InShell /\ ended.parked \notin live

\* "An account that only has a provider or a passkey must still be able to sign in" from a
\* static host (api.ts, inShell): every sign-in that was accepted, one by way of a provider
\* too, gets past the guard of /app.  A token whose session has ended stays in the store and
\* goes out with each call instead of the cookie the provider's round trip has set.
AcceptedSignInsGetIn ==
    ended.what = "bounced" => ended.whose \notin live

\* "Nothing of this session may survive on the machine" (+layout.svelte, signOut): once the
\* button has led to the sign-in page, neither the cookie nor the token store holds the
\* session it ended.  The answer to the call is not looked at, and a refresh that was on its
\* way may put the session back.
NothingSurvivesSignOut ==
    ended.what = "out" /\ ended.whose # NoSession => ended.whose \notin {jar.session, token}
===============================================================================
