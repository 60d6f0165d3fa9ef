------------------------------ MODULE Web_proofs ------------------------------
(***************************************************************************)
(* What holds of the web application's pages for every number of sessions, *)
(* calls, items, changes, loads, codes and passwords: who a copy of it is  *)
(* signed in as, what its list pages show, which codes the two-factor page *)
(* tells the person to keep, and what the account pages say has happened.  *)
(***************************************************************************)
EXTENDS SignIn, ListPages, TwoFactorPage, AccountPages, TLAPS

-----------------------------------------------------------------------------
(* Who is signed in: the inductive invariant *)

\* A session the API has granted.
Granted(s) == s = NoSession \/ s.n <= granted

SessionsAreGranted ==
    /\ \A s \in live \union {jar.session, jar.parked, token, ended.whose, ended.parked} : Granted(s)
    /\ \A k \in Calls : Granted(trip[k].as) /\ Granted(trip[k].parked) /\ Granted(trip[k].session)

\* What an answer says of the sessions that its call was made as, or was to go back to.
AnswersAreTrue ==
    /\ trip["stop"].at \in {"sent", "answered"} =>
           trip["stop"].as # NoSession /\ trip["stop"].as.by = "admin"
    /\ trip["stop"].at = "answered" /\ trip["stop"].answer = "yes" => trip["stop"].as \notin live
    /\ trip["stop"].at = "answered" /\ trip["stop"].answer = "no" =>
           trip["stop"].as \notin live \/ trip["stop"].parked \notin live

\* What the last button came to.
EndIsKept ==
    /\ ended.what = "bounced" =>
           ended.whose \notin live \/ (ended.provider /\ UsesBearerAuth /\ token # NoSession)
    /\ ended.what = "stop" =>
           ended.whose \notin live \/ (~InShell /\ ended.parked \notin live)

SignInInv ==
    /\ SignInTypeOK
    /\ SessionsAreGranted
    /\ AnswersAreTrue
    /\ EndIsKept

LEMMA InitSignInInv == SignInInit => SignInInv
  <1> SUFFICES ASSUME SignInInit PROVE SignInInv
    OBVIOUS
  <1> USE SignInAssumption, NoSessionAssumption DEF SignInInit, AtRest, Ended, Someone
  <1>1. live \subseteq Session /\ granted \in 0..MaxSessions /\ token \in Someone
        /\ screen \in Pages
    BY DEF Session, Pages
  <1>2. trip \in [Calls -> [at : {"idle", "sent", "answered", "stuck"}, as : Someone,
                           parked : Someone, halfway : BOOLEAN,
                           answer : {"none", "yes", "no", "fault"}, session : Someone]]
    OBVIOUS
  <1>3. SignInTypeOK
    BY <1>1, <1>2 DEF SignInTypeOK
  <1>4. SessionsAreGranted
    BY <1>1, <1>2 DEF SessionsAreGranted, Granted, Session
  <1>5. AnswersAreTrue
    BY DEF AnswersAreTrue, Calls, Buttons
  <1>6. EndIsKept
    BY DEF EndIsKept
  <1> QED  BY <1>3, <1>4, <1>5, <1>6 DEF SignInInv

\* What is on its way for a call.
Trips == [at : {"idle", "sent", "answered", "stuck"}, as : Someone,
          parked : Someone, halfway : BOOLEAN,
          answer : {"none", "yes", "no", "fault"}, session : Someone]

LEMMA CallerIsGranted ==
  ASSUME SignInInv
  PROVE  Caller \in Someone /\ Granted(Caller)
  BY DEF SignInInv, SignInTypeOK, SessionsAreGranted, Caller, Credential, Someone

LEMMA SentIsATrip ==
  ASSUME SignInInv
  PROVE  /\ Sent \in Trips /\ Sent.at = "sent" /\ Sent.as = Caller /\ Sent.parked = jar.parked
         /\ Sent.session = NoSession
  BY CallerIsGranted DEF Sent, Trips, SignInInv, SignInTypeOK, Someone

LEMMA AtRestIsATrip ==
  AtRest \in Trips /\ AtRest.at = "idle"
  /\ AtRest.as = NoSession /\ AtRest.parked = NoSession /\ AtRest.session = NoSession
  BY DEF AtRest, Trips, Someone

LEMMA PressKeeps ==
  ASSUME SignInInv, NEW k \in Calls, Press(k)
  PROVE  SignInInv'
  <1>1. /\ trip[k].at = "idle" /\ trip' = [trip EXCEPT ![k] = Sent] /\ pressed' = pressed + 1
        /\ UNCHANGED <<build, twoFactor, live, granted, jar, token, screen, ended>>
        /\ pressed < MaxPresses /\ OnOffer(k)
    BY DEF Press, Unsent, sessionVars, clientVars
  <1>2. trip' \in [Calls -> Trips]
    BY <1>1, SentIsATrip DEF SignInInv, SignInTypeOK, Trips
  <1>3. SignInTypeOK'
    BY <1>1, <1>2, SignInAssumption DEF SignInInv, SignInTypeOK, Trips, Someone
  <1>4. SessionsAreGranted'
    BY <1>1, <1>2, SentIsATrip, CallerIsGranted
    DEF SignInInv, SignInTypeOK, SessionsAreGranted, Granted
  <1>5. AnswersAreTrue'
    BY <1>1, <1>2, SentIsATrip DEF SignInInv, SignInTypeOK, AnswersAreTrue, OnOffer, Calls, Buttons
  <1>6. EndIsKept'
    BY <1>1 DEF SignInInv, EndIsKept, Caller, Credential, UsesBearerAuth, InShell
  <1> QED  BY <1>3, <1>4, <1>5, <1>6 DEF SignInInv

\* What a step of the API does to the sessions.
EndOrIssue ==
    \/ live' \subseteq live /\ granted' = granted
    \/ /\ granted < MaxSessions /\ granted' = granted + 1
       /\ \E s \in Session : s.n = granted + 1 /\ live' = live \union {s}

\* None that was granted and has ended is live again.
LEMMA SessionsEndOnce ==
  ASSUME SignInInv, EndOrIssue
  PROVE  /\ live' \subseteq Session /\ granted' \in 0..MaxSessions
         /\ \A s \in live' : Granted(s)'
         /\ \A s \in Someone : Granted(s) => Granted(s)' /\ (s \notin live => s \notin live')
  <1>1. /\ live \subseteq Session /\ granted \in 0..MaxSessions
        /\ \A s \in live : Granted(s)
    BY DEF SignInInv, SignInTypeOK, SessionsAreGranted
  <1>2. CASE live' \subseteq live /\ granted' = granted
    BY <1>1, <1>2 DEF Granted
  <1>3. CASE /\ granted < MaxSessions /\ granted' = granted + 1
             /\ \E s \in Session : s.n = granted + 1 /\ live' = live \union {s}
    BY <1>1, <1>3, SignInAssumption, NoSessionAssumption DEF Granted, Someone, Session
  <1> QED  BY <1>2, <1>3 DEF EndOrIssue

\* A step that leaves the client alone keeps what is said of the client.
LEMMA ClientRests ==
  ASSUME SignInInv, EndOrIssue, UNCHANGED <<build, jar, token, screen, ended>>
  PROVE  /\ EndIsKept'
         /\ \A s \in live' \union {jar'.session, jar'.parked, token', ended'.whose, ended'.parked} :
                Granted(s)'
  <1>1. \A s \in {jar.session, jar.parked, token, ended.whose, ended.parked} :
            s \in Someone /\ Granted(s)
    BY DEF SignInInv, SignInTypeOK, SessionsAreGranted
  <1>2. Caller' = Caller
    BY DEF Caller, Credential, UsesBearerAuth
  <1>3. /\ ended.whose \notin live => ended.whose \notin live'
        /\ ended.parked \notin live => ended.parked \notin live'
        /\ Caller \notin live => Caller \notin live'
    BY <1>1, CallerIsGranted, SessionsEndOnce
  <1>4. EndIsKept'
    BY <1>2, <1>3 DEF SignInInv, EndIsKept, InShell, UsesBearerAuth
  <1> QED  BY <1>1, <1>4, SessionsEndOnce

\* A call that is answered.
LEMMA AnswerKeeps ==
  ASSUME SignInInv, EndOrIssue, NEW k \in Calls, trip[k].at \in {"sent", "answered"},
         NEW answer \in {"yes", "no", "fault"}, NEW session \in Someone,
         Answering(k, answer, session), Granted(session)',
         UNCHANGED <<build, twoFactor, clientVars, pressed>>,
         k = "signOut" /\ answer = "yes" => trip[k].as \notin live',
         k = "stop" /\ answer = "yes" => trip[k].as \notin live',
         k = "stop" /\ answer = "no" =>
             trip[k].as \notin live' \/ trip[k].parked \notin live'
  PROVE  SignInInv'
  <1>1. UNCHANGED <<build, jar, token, screen, ended>>
    BY DEF clientVars
  <1>2. trip \in [Calls -> Trips]
    BY DEF SignInInv, SignInTypeOK, Trips
  <1>3. /\ trip' = [trip EXCEPT ![k] = trip'[k]] /\ trip'[k] \in Trips
        /\ trip'[k].at = "answered" /\ trip'[k].answer = answer /\ trip'[k].session = session
        /\ trip'[k].as = trip[k].as /\ trip'[k].parked = trip[k].parked
    BY <1>2 DEF Answering, Trips
  <1>4. trip' \in [Calls -> Trips] /\ \A j \in Calls : j # k => trip'[j] = trip[j]
    BY <1>2, <1>3
  <1>5. SignInTypeOK'
    BY <1>1, <1>4, SessionsEndOnce DEF SignInInv, SignInTypeOK, Trips, clientVars
  <1>6. \A j \in Calls : /\ trip[j].as \in Someone /\ Granted(trip[j].as)
                         /\ trip[j].parked \in Someone /\ Granted(trip[j].parked)
                         /\ trip[j].session \in Someone /\ Granted(trip[j].session)
    BY <1>2 DEF SignInInv, SessionsAreGranted, Trips
  <1>7. \A j \in Calls : /\ Granted(trip[j].as)'
                         /\ trip[j].as \notin live => trip[j].as \notin live'
                         /\ Granted(trip[j].parked)'
                         /\ trip[j].parked \notin live => trip[j].parked \notin live'
                         /\ Granted(trip[j].session)'
    BY <1>3, <1>4, <1>6, SessionsEndOnce DEF Granted
  <1>8. SessionsAreGranted'
    BY <1>1, <1>7, ClientRests DEF SessionsAreGranted
  <1>9. AnswersAreTrue'
    <2>1. "signOut" \in Calls /\ "stop" \in Calls
      BY DEF Calls, Buttons
    <2>2. CASE k = "signOut"
      BY <2>1, <2>2, <1>3, <1>4, <1>7 DEF SignInInv, AnswersAreTrue
    <2>3. CASE k = "stop"
      BY <2>1, <2>3, <1>3, <1>4, <1>7 DEF SignInInv, AnswersAreTrue
    <2>4. CASE k \notin {"signOut", "stop"}
      BY <2>1, <2>4, <1>3, <1>4, <1>7 DEF SignInInv, AnswersAreTrue
    <2> QED  BY <2>2, <2>3, <2>4
  <1> QED  BY <1>1, <1>5, <1>8, <1>9, ClientRests DEF SignInInv

\* A call that is served.
LEMMA ServeKeeps ==
  ASSUME SignInInv, NEW k \in Calls, Serve(k)
  PROVE  SignInInv'
  <1> DEFINE c == trip[k]
  <1>1. c.at = "sent" /\ UNCHANGED <<build, twoFactor, clientVars, pressed>>
    BY DEF Serve
  <1>2. /\ c.as \in Someone /\ Granted(c.as) /\ c.parked \in Someone /\ Granted(c.parked)
        /\ NoSession \in Someone /\ NoSession \notin live
        /\ k = "stop" => c.as # NoSession /\ c.as.by = "admin"
    BY <1>1, NoSessionAssumption
    DEF SignInInv, SignInTypeOK, SessionsAreGranted, AnswersAreTrue, Someone
  <1>3. ASSUME NEW who \in {"admin", "user"}, NEW by \in {"admin", "nobody"}, Issue(k, who, by),
               k \notin {"stop", "signOut"}
        PROVE  SignInInv'
    <2>1. granted < MaxSessions /\ granted' = granted + 1
      BY <1>3 DEF Issue
    <2>2. PICK s \in Session : /\ s.n = granted + 1 /\ live' = live \union {s}
                              /\ Answering(k, "yes", s)
      BY <1>3, <2>1, SignInAssumption DEF Issue, SignInInv, SignInTypeOK, Session
    <2>3. EndOrIssue /\ Granted(s)'
      BY <2>1, <2>2, SignInAssumption DEF EndOrIssue, Granted, SignInInv, SignInTypeOK
    <2>4. s \in Someone
      BY <2>2 DEF Someone
    <2> QED  BY <1>1, <1>3, <2>2, <2>3, <2>4, AnswerKeeps
  <1>4. ASSUME Refuse(k),
               k = "stop" => c.as \notin live \/ c.parked \notin live
        PROVE  SignInInv'
    <2>1. Answering(k, "no", NoSession) /\ live' = live /\ granted' = granted
      BY <1>4 DEF Refuse, sessionVars
    <2>2. EndOrIssue /\ Granted(NoSession)'
      BY <2>1 DEF EndOrIssue, Granted
    <2> QED  BY <1>1, <1>2, <1>4, <2>1, <2>2, AnswerKeeps
  <1>5. ASSUME NEW session \in Someone, Answering(k, "yes", session), Granted(session),
               live' \subseteq live, granted' = granted,
               k \in {"stop", "signOut"} => c.as \notin live'
        PROVE  SignInInv'
    <2>1. EndOrIssue /\ Granted(session)'
      BY <1>5 DEF EndOrIssue, Granted
    <2> QED  BY <1>1, <1>5, <2>1, AnswerKeeps
  <1>6. CASE k = "email"
    <2>1. CASE twoFactor
      BY <1>2, <1>5, <1>6, <2>1 DEF Serve, sessionVars, Granted
    <2>2. CASE ~twoFactor
      BY <1>3, <1>6, <2>2 DEF Serve
    <2> QED  BY <2>1, <2>2
  <1>7. CASE k = "code"
    BY <1>3, <1>4, <1>7 DEF Serve
  <1>8. CASE k \in {"passkey", "social"}
    BY <1>3, <1>8 DEF Serve
  <1>9. CASE k = "impersonate"
    BY <1>3, <1>4, <1>9 DEF Serve
  <1>10. CASE k = "stop"
    <2>1. CASE c.as \in live /\ c.as.by = "admin" /\ c.parked \in live
      <3>1. live' = live \ {c.as} /\ granted' = granted /\ Answering(k, "yes", c.parked)
        BY <1>10, <2>1 DEF Serve
      <3> QED  BY <1>2, <1>5, <3>1
    <2>2. CASE ~(c.as \in live /\ c.as.by = "admin" /\ c.parked \in live)
      <3>1. Refuse(k)
        BY <1>10, <2>2 DEF Serve
      <3> QED  BY <1>2, <1>4, <1>10, <2>2, <3>1
    <2> QED  BY <2>1, <2>2
  <1>11. CASE k = "signOut"
    <2>1. live' = live \ {c.as} /\ granted' = granted /\ Answering(k, "yes", NoSession)
      BY <1>11 DEF Serve
    <2> QED  BY <1>2, <1>5, <2>1 DEF Granted
  <1>12. CASE k = "look"
    <2>1. /\ Answering(k, "yes", IF c.as \in live THEN c.as ELSE NoSession)
          /\ live' = live /\ granted' = granted
      BY <1>12 DEF Serve, sessionVars
    <2> QED  BY <1>2, <1>5, <1>12, <2>1 DEF Granted
  <1> QED  BY <1>6, <1>7, <1>8, <1>9, <1>10, <1>11, <1>12 DEF Calls, Buttons

\* An error, a lost answer, and a session that ends by itself.
LEMMA FaultsKeep ==
  ASSUME SignInInv,
         \/ \E k \in Calls : ServeBadly(k) \/ Throw(k)
         \/ \E s \in live : SessionEnds(s)
  PROVE  SignInInv'
  <1>1. NoSession \in Someone /\ Granted(NoSession)'
    BY DEF Someone, Granted
  <1>2. ASSUME NEW k \in Calls, ServeBadly(k) PROVE SignInInv'
    <2>1. /\ trip[k].at \in {"sent", "answered"} /\ Answering(k, "fault", NoSession) /\ EndOrIssue
          /\ UNCHANGED <<build, twoFactor, clientVars, pressed>>
      BY <1>2 DEF ServeBadly, sessionVars, EndOrIssue
    <2> QED  BY <1>1, <2>1, AnswerKeeps
  <1>3. ASSUME NEW k \in Calls, Throw(k) PROVE SignInInv'
    <2>1. PICK t \in {AtRest, [AtRest EXCEPT !.at = "stuck"]} : trip' = [trip EXCEPT ![k] = t]
      BY <1>3 DEF Throw
    <2>2. /\ t \in Trips /\ t.at \in {"idle", "stuck"}
          /\ t.as = NoSession /\ t.parked = NoSession /\ t.session = NoSession
      <3>1. CASE t = AtRest
        BY <3>1, AtRestIsATrip
      <3>2. CASE t = [AtRest EXCEPT !.at = "stuck"]
        BY <3>2 DEF AtRest, Trips, Someone
      <3> QED  BY <3>1, <3>2
    <2>3. UNCHANGED <<build, twoFactor, live, granted, jar, token, screen, ended, pressed>>
      BY <1>3 DEF Throw, sessionVars, clientVars
    <2>4. trip \in [Calls -> Trips] /\ trip' \in [Calls -> Trips]
      BY <2>1, <2>2 DEF SignInInv, SignInTypeOK, Trips
    <2>5. \A j \in Calls : trip'[j] = IF j = k THEN t ELSE trip[j]
      BY <2>1, <2>4
    <2>6. SignInTypeOK'
      BY <2>3, <2>4 DEF SignInInv, SignInTypeOK, Trips
    <2>7. SessionsAreGranted'
      BY <2>2, <2>3, <2>5 DEF SignInInv, SessionsAreGranted, Granted
    <2>8. AnswersAreTrue'
      BY <2>2, <2>3, <2>5 DEF SignInInv, AnswersAreTrue, Calls, Buttons
    <2>9. EndIsKept'
      BY <2>3 DEF SignInInv, EndIsKept, Caller, Credential, UsesBearerAuth, InShell
    <2> QED  BY <2>6, <2>7, <2>8, <2>9 DEF SignInInv
  <1>4. ASSUME NEW s \in live, SessionEnds(s) PROVE SignInInv'
    <2>1. /\ live' \subseteq live /\ EndOrIssue
          /\ UNCHANGED <<build, twoFactor, granted, jar, token, screen, ended, trip, pressed>>
      BY <1>4 DEF SessionEnds, clientVars, EndOrIssue
    <2>2. SignInTypeOK'
      BY <2>1 DEF SignInInv, SignInTypeOK
    <2>3. SessionsAreGranted'
      BY <2>1 DEF SignInInv, SessionsAreGranted, Granted
    <2>4. AnswersAreTrue'
      BY <2>1 DEF SignInInv, AnswersAreTrue
    <2>5. EndIsKept'
      BY <2>1, ClientRests
    <2> QED  BY <2>2, <2>3, <2>4, <2>5 DEF SignInInv
  <1> QED  BY <1>2, <1>3, <1>4

-----------------------------------------------------------------------------
(* What the handlers and the person do *)

Good(s) == s \in Someone /\ Granted(s)

\* What any of them may leave behind.
ClientMoves ==
    /\ UNCHANGED <<build, twoFactor, live, granted, pressed>>
    /\ trip' = [k \in Calls |-> trip'[k]]
    /\ \A k \in Calls : trip'[k] \in {trip[k], AtRest} \/ (k = "signOut" /\ trip'[k] = Sent)
    /\ jar' \in [session : Someone, parked : Someone, halfway : BOOLEAN]
    /\ ended' \in [what : {"nothing", "in", "bounced", "stop", "out"}, whose : Someone,
                   provider : BOOLEAN, parked : Someone]
    /\ \A s \in {jar'.session, jar'.parked, token', ended'.whose, ended'.parked} : Good(s)
    /\ screen' \in Pages

LEMMA ClientMovesKeep ==
  ASSUME SignInInv, ClientMoves, EndIsKept'
  PROVE  SignInInv'
  <1>1. UNCHANGED <<build, twoFactor, live, granted, pressed>>
    BY DEF ClientMoves
  <1>2. trip \in [Calls -> Trips] /\ trip' = [k \in Calls |-> trip'[k]]
    BY DEF SignInInv, SignInTypeOK, Trips, ClientMoves
  <1>3. \A k \in Calls : /\ trip'[k] \in Trips /\ Granted(trip'[k].as) /\ Granted(trip'[k].parked)
                         /\ Granted(trip'[k].session)
    <2> SUFFICES ASSUME NEW k \in Calls
                 PROVE  /\ trip'[k] \in Trips /\ Granted(trip'[k].as) /\ Granted(trip'[k].parked)
                        /\ Granted(trip'[k].session)
      OBVIOUS
    <2>1. CASE trip'[k] = trip[k]
      BY <1>2, <2>1 DEF SignInInv, SessionsAreGranted
    <2>2. CASE trip'[k] = AtRest
      BY <2>2, AtRestIsATrip DEF Granted
    <2>3. CASE trip'[k] = Sent
      BY <2>3, SentIsATrip, CallerIsGranted DEF SignInInv, SessionsAreGranted, Granted
    <2> QED  BY <2>1, <2>2, <2>3 DEF ClientMoves
  <1>4. trip' \in [Calls -> Trips]
    BY <1>2, <1>3
  <1>5. token' \in Someone
    BY DEF ClientMoves, Good
  <1>6. SignInTypeOK'
    BY <1>1, <1>4, <1>5 DEF SignInInv, SignInTypeOK, ClientMoves, Trips
  <1>7. SessionsAreGranted'
    <2>1. \A s \in live' \union {jar'.session, jar'.parked, token', ended'.whose, ended'.parked} :
              Granted(s)
      BY <1>1 DEF ClientMoves, Good, SignInInv, SessionsAreGranted
    <2> QED  BY <1>1, <1>3, <2>1 DEF SessionsAreGranted, Granted
  <1>8. AnswersAreTrue'
    <2>1. "signOut" \in Calls /\ "stop" \in Calls /\ "stop" # "signOut"
      BY DEF Calls, Buttons
    <2>2. trip'["stop"] = trip["stop"] \/ trip'["stop"].at = "idle"
      BY <2>1, AtRestIsATrip DEF ClientMoves
    <2>3. trip'["signOut"] = trip["signOut"] \/ trip'["signOut"].at # "answered"
      BY <2>1, AtRestIsATrip, SentIsATrip DEF ClientMoves
    <2> QED  BY <1>1, <2>2, <2>3 DEF SignInInv, AnswersAreTrue
  <1> QED  BY <1>6, <1>7, <1>8 DEF SignInInv

LEMMA Returns ==
  ASSUME SignInInv, NEW k \in Calls, Comes(k), Returned(k)
  PROVE  /\ UNCHANGED <<build, twoFactor, live, granted, pressed>>
         /\ trip' = [j \in Calls |-> trip'[j]]
         /\ \A j \in Calls : trip'[j] \in {trip[j], AtRest}
  BY DEF Comes, Returned, SignInInv, SignInTypeOK, sessionVars

LEMMA WhatIsThereIsGood ==
  ASSUME SignInInv
  PROVE  /\ Good(NoSession) /\ Good(jar.session) /\ Good(jar.parked) /\ Good(token)
         /\ Good(ended.whose) /\ Good(ended.parked) /\ Good(Caller)
         /\ \A k \in Calls : Good(trip[k].as) /\ Good(trip[k].parked) /\ Good(trip[k].session)
  BY CallerIsGranted
  DEF Good, Granted, Someone, SignInInv, SignInTypeOK, SessionsAreGranted

LEMMA LandsOk ==
  ASSUME NEW target \in {"app", "users"}, screen' = Landing(target)
  PROVE  /\ screen' \in {"login", "app", "users"}
         /\ screen' = "login" => Credential(jar', token') \notin live
  BY DEF Landing

LEMMA PagesNamed == {"login", "app", "users", "code"} \subseteq Pages
  BY DEF Pages

\* Whoever the client is handed a session for, it acts as from then on.
LEMMA Kept ==
  ASSUME SignInInv, NEW s \in Someone, Good(s), s # NoSession,
         NEW halfway \in BOOLEAN, Keeps(s, halfway)
  PROVE  /\ jar' \in [session : Someone, parked : Someone, halfway : BOOLEAN]
         /\ jar'.parked = jar.parked
         /\ Good(jar'.session) /\ Good(token')
         /\ Credential(jar', token') = s
         /\ UsesBearerAuth => token' = s
  BY WhatIsThereIsGood
  DEF Keeps, Credential, UsesBearerAuth, InShell, SignInInv, SignInTypeOK

LEMMA TurnedDownKeeps ==
  ASSUME SignInInv, NEW k \in Calls, Comes(k), Returned(k), TurnedDown(k)
  PROVE  SignInInv'
  <1>1. /\ UNCHANGED <<jar, token, screen>>
        /\ ended' = [what |-> "nothing", whose |-> NoSession,
                      provider |-> FALSE, parked |-> NoSession]
    BY DEF TurnedDown, Ended
  <1>2. ClientMoves
    BY <1>1, Returns, WhatIsThereIsGood DEF ClientMoves, Good, SignInInv, SignInTypeOK
  <1>3. EndIsKept'
    BY <1>1, Returns DEF EndIsKept, InShell, SignInInv
  <1> QED  BY <1>2, <1>3, ClientMovesKeep

LEMMA GoesOnKeeps ==
  ASSUME SignInInv, NEW k \in Calls, Comes(k), Returned(k), GoesOn(k)
  PROVE  SignInInv'
  <1> DEFINE s == trip[k].session
  <1>1. /\ s # NoSession /\ Good(s) /\ screen' = Landing("app")
        /\ Keeps(s, jar.halfway /\ k # "code") /\ jar.halfway \in BOOLEAN
        /\ ended' = [what |-> IF screen' = "login" THEN "bounced" ELSE "in", whose |-> s,
                     provider |-> FALSE, parked |-> NoSession]
    BY WhatIsThereIsGood DEF GoesOn, Ended, SignInInv, SignInTypeOK
  <1>2. /\ jar' \in [session : Someone, parked : Someone, halfway : BOOLEAN]
        /\ jar'.parked = jar.parked
        /\ Good(jar'.session) /\ Good(token')
        /\ Credential(jar', token') = s
    BY <1>1, Kept DEF Good
  <1>3. screen' \in {"login", "app", "users"} /\ (screen' = "login" => s \notin live)
    BY <1>1, <1>2, LandsOk
  <1>4. ClientMoves
    <2>1. ended' \in [what : {"nothing", "in", "bounced", "stop", "out"}, whose : Someone,
                      provider : BOOLEAN, parked : Someone]
      BY <1>1, WhatIsThereIsGood DEF Good
    <2>2. ended'.whose = s /\ ended'.parked = NoSession
      BY <1>1
    <2> QED  BY <1>1, <1>2, <1>3, <2>1, <2>2, Returns, WhatIsThereIsGood, PagesNamed
             DEF ClientMoves
  <1>5. EndIsKept'
    BY <1>1, <1>3, Returns DEF EndIsKept
  <1> QED  BY <1>4, <1>5, ClientMovesKeep

LEMMA EmailKeeps ==
  ASSUME SignInInv, EmailAnswered
  PROVE  SignInInv'
  <1>1. "email" \in Calls /\ Comes("email") /\ Returned("email")
    BY DEF EmailAnswered, Calls, Buttons
  <1>2. CASE AsksForCode
    <2>1. /\ jar' = [jar EXCEPT !.halfway = ~InShell] /\ screen' = "code" /\ UNCHANGED token
          /\ ended' = [what |-> "nothing", whose |-> NoSession,
                      provider |-> FALSE, parked |-> NoSession]
      BY <1>2 DEF AsksForCode, Ended
    <2>2. /\ jar' \in [session : Someone, parked : Someone, halfway : BOOLEAN]
          /\ jar'.session = jar.session /\ jar'.parked = jar.parked
      BY <2>1 DEF SignInInv, SignInTypeOK, InShell
    <2>3. ClientMoves
      BY <1>1, <2>1, <2>2, Returns, WhatIsThereIsGood, PagesNamed DEF ClientMoves, Good
    <2>4. EndIsKept'
      BY <1>1, <2>1, <2>2, Returns DEF EndIsKept, InShell
    <2> QED  BY <2>3, <2>4, ClientMovesKeep
  <1> QED  BY <1>1, <1>2, TurnedDownKeeps, GoesOnKeeps DEF EmailAnswered

LEMMA SocialKeeps ==
  ASSUME SignInInv, SocialReturns
  PROVE  SignInInv'
  <1> DEFINE s == trip["social"].session
  <1>1. "social" \in Calls
    BY DEF Calls, Buttons
  <1>2. /\ UNCHANGED <<build, twoFactor, live, granted, pressed, token>>
        /\ trip' = [k \in Calls |-> AtRest]
        /\ jar' = [jar EXCEPT !.session = s] /\ screen' = Landing("app")
        /\ ended' = [what |-> IF screen' = "login" THEN "bounced" ELSE "in",
                     whose |-> s, provider |-> TRUE, parked |-> NoSession]
    BY DEF SocialReturns, Comes, Ended, sessionVars
  <1>3. /\ jar' \in [session : Someone, parked : Someone, halfway : BOOLEAN]
        /\ jar'.session = s /\ jar'.parked = jar.parked /\ Good(s)
    BY <1>1, <1>2, WhatIsThereIsGood DEF SignInInv, SignInTypeOK, Good
  <1>4. screen' \in {"login", "app", "users"}
        /\ (screen' = "login" => Credential(jar', token') \notin live)
    BY <1>2, LandsOk
  <1>5. ended'.what = "bounced" => s \notin live \/ (UsesBearerAuth /\ token # NoSession)
    BY <1>2, <1>3, <1>4 DEF Credential
  <1>6. ClientMoves
    <2>1. ended' \in [what : {"nothing", "in", "bounced", "stop", "out"}, whose : Someone,
                      provider : BOOLEAN, parked : Someone]
      BY <1>2, <1>3, WhatIsThereIsGood DEF Good
    <2>2. ended'.whose = s /\ ended'.parked = NoSession
      BY <1>2
    <2> QED  BY <1>2, <1>3, <1>4, <2>1, <2>2, WhatIsThereIsGood, PagesNamed DEF ClientMoves
  <1>7. EndIsKept'
    BY <1>2, <1>5 DEF EndIsKept, UsesBearerAuth
  <1> QED  BY <1>6, <1>7, ClientMovesKeep

LEMMA ImpersonatesKeeps ==
  ASSUME SignInInv, Impersonates
  PROVE  SignInInv'
  <1> DEFINE c == trip["impersonate"]
  <1>1. "impersonate" \in Calls /\ Comes("impersonate") /\ Returned("impersonate")
    BY DEF Impersonates, Calls, Buttons
  <1>2. ended' = [what |-> "nothing", whose |-> NoSession,
                      provider |-> FALSE, parked |-> NoSession]
    BY DEF Impersonates, Ended
  <1>3. Good(c.session) /\ Good(c.as)
    BY <1>1, WhatIsThereIsGood
  <1>4. /\ jar' \in [session : Someone, parked : Someone, halfway : BOOLEAN]
        /\ Good(jar'.session) /\ Good(jar'.parked) /\ Good(token')
        /\ screen' \in {"login", "app", "users"} \/ screen' = screen
    <2>1. CASE c.answer = "yes"
      <3>1. /\ jar' = IF InShell THEN jar ELSE [jar EXCEPT !.session = c.session, !.parked = c.as]
            /\ token' = (IF UsesBearerAuth THEN c.session ELSE token) /\ screen' = Landing("app")
        BY <2>1 DEF Impersonates
      <3> QED  BY <1>3, <3>1, LandsOk, WhatIsThereIsGood DEF SignInInv, SignInTypeOK, Good
    <2>2. CASE c.answer # "yes"
      <3>1. UNCHANGED <<jar, token, screen>>
        BY <2>2 DEF Impersonates
      <3> QED  BY <3>1, WhatIsThereIsGood DEF SignInInv, SignInTypeOK
    <2> QED  BY <2>1, <2>2
  <1>5. ClientMoves
    BY <1>1, <1>2, <1>4, Returns, WhatIsThereIsGood, PagesNamed
    DEF ClientMoves, Good, SignInInv, SignInTypeOK
  <1>6. EndIsKept'
    BY <1>1, <1>2, <1>4, Returns DEF EndIsKept, InShell, SignInInv
  <1> QED  BY <1>5, <1>6, ClientMovesKeep

LEMMA StopsKeeps ==
  ASSUME SignInInv, Stops
  PROVE  SignInInv'
  <1> DEFINE c == trip["stop"]
  <1>1. "stop" \in Calls /\ Comes("stop") /\ c.at = "answered"
    BY DEF Stops, Comes, Calls, Buttons
  <1>2. Good(c.session) /\ Good(c.as) /\ Good(c.parked) /\ UNCHANGED <<build, live, granted>>
    BY <1>1, WhatIsThereIsGood DEF Comes, sessionVars
  <1>3. CASE /\ c.answer = "yes" /\ Returned("stop")
             /\ jar' = IF InShell THEN jar
                      ELSE [jar EXCEPT !.session = c.session, !.parked = NoSession]
             /\ token' = (IF UsesBearerAuth THEN c.session ELSE token)
             /\ screen' = Landing("users")
             /\ ended' = [Ended("stop", c.as) EXCEPT !.parked = c.parked]
    <2>1. ended' = [what |-> "stop", whose |-> c.as, provider |-> FALSE, parked |-> c.parked]
      BY <1>3 DEF Ended
    <2>2. /\ jar' \in [session : Someone, parked : Someone, halfway : BOOLEAN]
          /\ Good(jar'.session) /\ Good(jar'.parked) /\ Good(token')
      BY <1>2, <1>3, WhatIsThereIsGood DEF SignInInv, SignInTypeOK, Good
    <2>3. screen' \in {"login", "app", "users"}
      BY <1>3, LandsOk
    <2>4. ClientMoves
      <3>1. ended' \in [what : {"nothing", "in", "bounced", "stop", "out"}, whose : Someone,
                      provider : BOOLEAN, parked : Someone]
        BY <1>2, <2>1 DEF Good
      <3>2. ended'.whose = c.as /\ ended'.parked = c.parked
        BY <2>1
      <3> QED  BY <1>1, <1>2, <1>3, <2>2, <2>3, <3>1, <3>2, Returns, PagesNamed
               DEF ClientMoves, Good
    <2>5. EndIsKept'
      BY <1>1, <1>2, <1>3, <2>1, <2>3 DEF EndIsKept, SignInInv, AnswersAreTrue
    <2> QED  BY <2>4, <2>5, ClientMovesKeep
  <1>4. CASE /\ c.answer # "yes" /\ IMPERSONATION_AVAILABLE /\ Returned("stop")
             /\ ended' = [Ended(IF c.answer = "no" THEN "stop" ELSE "nothing", c.as)
                            EXCEPT !.parked = c.parked]
             /\ UNCHANGED <<jar, token, screen>>
    <2>1. ended' = [what |-> IF c.answer = "no" THEN "stop" ELSE "nothing", whose |-> c.as,
                    provider |-> FALSE, parked |-> c.parked]
      BY <1>4 DEF Ended
    <2>2. ended' \in [what : {"nothing", "in", "bounced", "stop", "out"}, whose : Someone,
                      provider : BOOLEAN, parked : Someone]
      BY <1>2, <2>1 DEF Good
    <2>3. ClientMoves
      <3>1. ended'.whose = c.as /\ ended'.parked = c.parked
        BY <2>1
      <3> QED  BY <1>1, <1>2, <1>4, <2>2, <3>1, Returns, WhatIsThereIsGood
               DEF ClientMoves, Good, SignInInv, SignInTypeOK
    <2>4. EndIsKept'
      BY <1>1, <1>2, <1>4, <2>1
      DEF EndIsKept, SignInInv, AnswersAreTrue, IMPERSONATION_AVAILABLE, InShell
    <2> QED  BY <2>3, <2>4, ClientMovesKeep
  <1>5. CASE /\ c.answer # "yes" /\ ~IMPERSONATION_AVAILABLE
             /\ trip' = [trip EXCEPT !["stop"] = AtRest,
                                     !["signOut"] = IF Unsent("signOut") THEN Sent ELSE @]
             /\ ended' = Ended("nothing", c.as) /\ UNCHANGED <<jar, token, screen>>
    <2>1. ended' = [what |-> "nothing", whose |-> c.as, provider |-> FALSE, parked |-> NoSession]
      BY <1>5 DEF Ended
    <2>2. /\ trip' = [k \in Calls |-> trip'[k]]
          /\ \A k \in Calls : trip'[k] \in {trip[k], AtRest} \/ (k = "signOut" /\ trip'[k] = Sent)
      BY <1>1, <1>5 DEF SignInInv, SignInTypeOK
    <2>3. ClientMoves
      <3>1. ended' \in [what : {"nothing", "in", "bounced", "stop", "out"}, whose : Someone,
                      provider : BOOLEAN, parked : Someone]
        BY <1>2, <2>1, WhatIsThereIsGood DEF Good
      <3>2. ended'.whose = c.as /\ ended'.parked = NoSession
        BY <2>1
      <3>3. UNCHANGED <<build, twoFactor, live, granted, pressed>>
        BY <1>1 DEF Comes, sessionVars
      <3> QED  BY <1>2, <1>5, <2>2, <3>1, <3>2, <3>3, WhatIsThereIsGood
               DEF ClientMoves, SignInInv, SignInTypeOK
    <2>4. EndIsKept'
      BY <1>2, <1>5, <2>1 DEF EndIsKept, SignInInv, InShell
    <2> QED  BY <2>3, <2>4, ClientMovesKeep
  <1> QED  BY <1>3, <1>4, <1>5 DEF Stops

LEMMA SignsOutKeeps ==
  ASSUME SignInInv, SignsOut
  PROVE  SignInInv'
  <1> DEFINE c == trip["signOut"]
  <1>1. "signOut" \in Calls /\ Comes("signOut") /\ Returned("signOut")
    BY DEF SignsOut, Comes, Calls, Buttons
  <1>2. /\ jar' = (IF c.answer = "yes" THEN [jar EXCEPT !.session = NoSession] ELSE jar)
        /\ ended' = [what |-> "out", whose |-> c.as, provider |-> FALSE, parked |-> NoSession]
        /\ token' = NoSession /\ screen' = "login"
    BY DEF SignsOut, Ended
  <1>3. /\ jar' \in [session : Someone, parked : Someone, halfway : BOOLEAN]
        /\ Good(jar'.session) /\ jar'.parked = jar.parked
    BY <1>2, WhatIsThereIsGood DEF SignInInv, SignInTypeOK, Good
  <1>4. /\ ended' \in [what : {"nothing", "in", "bounced", "stop", "out"}, whose : Someone,
                      provider : BOOLEAN, parked : Someone]
        /\ ended'.whose = c.as /\ ended'.parked = NoSession
    BY <1>1, <1>2, WhatIsThereIsGood DEF Good
  <1>5. ClientMoves
    BY <1>1, <1>2, <1>3, <1>4, Returns, WhatIsThereIsGood, PagesNamed DEF ClientMoves
  <1>6. EndIsKept'
    BY <1>2 DEF EndIsKept
  <1> QED  BY <1>5, <1>6, ClientMovesKeep

LEMMA LooksKeeps ==
  ASSUME SignInInv, Looks
  PROVE  SignInInv'
  <1> DEFINE c == trip["look"]
  <1>1. "look" \in Calls /\ Comes("look") /\ Returned("look") /\ Good(c.session)
    BY WhatIsThereIsGood DEF Looks, Calls, Buttons
  <1>2. UNCHANGED <<build, live>>
    BY <1>1, Returns
  <1>3. CASE UNCHANGED <<jar, token, screen, ended>>
    <2>1. ClientMoves
      BY <1>1, <1>3, Returns, WhatIsThereIsGood
      DEF ClientMoves, Good, SignInInv, SignInTypeOK
    <2>2. EndIsKept'
      BY <1>2, <1>3
      DEF SignInInv, EndIsKept, Caller, Credential, UsesBearerAuth, InShell
    <2> QED  BY <2>1, <2>2, ClientMovesKeep
  <1>4. CASE /\ c.session # NoSession /\ Keeps(c.session, jar.halfway) /\ UNCHANGED screen
             /\ ended' = IF c.session = ended.whose THEN ended ELSE Ended("nothing", NoSession)
    <2>1. /\ jar' \in [session : Someone, parked : Someone, halfway : BOOLEAN]
          /\ jar'.parked = jar.parked /\ Good(jar'.session) /\ Good(token')
          /\ UsesBearerAuth => token' = c.session
      <3>1. jar.halfway \in BOOLEAN
        BY DEF SignInInv, SignInTypeOK
      <3> QED  BY <1>1, <1>4, <3>1, Kept DEF Good
    <2>2. ended' = ended \/ ended' = [what |-> "nothing", whose |-> NoSession,
                                     provider |-> FALSE, parked |-> NoSession]
      BY <1>4 DEF Ended
    <2>3. ClientMoves
      <3>1. /\ ended' \in [what : {"nothing", "in", "bounced", "stop", "out"}, whose : Someone,
                          provider : BOOLEAN, parked : Someone]
            /\ Good(ended'.whose) /\ Good(ended'.parked)
        <4>1. CASE ended' = ended
          BY <4>1, WhatIsThereIsGood DEF SignInInv, SignInTypeOK
        <4>2. CASE ended' = [what |-> "nothing", whose |-> NoSession,
                             provider |-> FALSE, parked |-> NoSession]
          BY <4>2, WhatIsThereIsGood DEF Good
        <4> QED  BY <2>2, <4>1, <4>2
      <3>2. screen' \in Pages
        BY <1>4 DEF SignInInv, SignInTypeOK
      <3> QED  BY <1>1, <2>1, <3>1, <3>2, Returns, WhatIsThereIsGood DEF ClientMoves
    <2>4. EndIsKept'
      BY <1>2, <1>4, <2>1, <2>2 DEF SignInInv, EndIsKept, InShell, UsesBearerAuth
    <2> QED  BY <2>3, <2>4, ClientMovesKeep
  <1>5. CASE /\ c.answer = "yes" /\ c.session = NoSession
             /\ jar' \in {jar, [jar EXCEPT !.session = NoSession]} /\ UNCHANGED <<token, ended>>
             /\ screen' = IF screen \in {"app", "users"} THEN "login" ELSE screen
    <2>1. /\ jar' \in [session : Someone, parked : Someone, halfway : BOOLEAN]
          /\ jar'.session \in {jar.session, NoSession} /\ jar'.parked = jar.parked
      BY <1>5, WhatIsThereIsGood DEF SignInInv, SignInTypeOK, Good
    <2>2. ClientMoves
      BY <1>1, <1>5, <2>1, Returns, WhatIsThereIsGood, PagesNamed
      DEF ClientMoves, Good, SignInInv, SignInTypeOK
    <2>3. EndIsKept'
      BY <1>2, <1>5 DEF SignInInv, EndIsKept, InShell, UsesBearerAuth
    <2> QED  BY <2>2, <2>3, ClientMovesKeep
  <1> QED  BY <1>3, <1>4, <1>5 DEF Looks

\* The person goes to another page or reloads this one, and a cookie expires.
LEMMA PersonKeeps ==
  ASSUME SignInInv, ReloadPage \/ HalfwayExpires \/ \E target \in Pages : Visit(target)
  PROVE  SignInInv'
  <1>1. /\ UNCHANGED <<build, twoFactor, live, granted, pressed, token, ended>>
        /\ jar' = jar \/ jar' = [jar EXCEPT !.halfway = FALSE]
    BY DEF ReloadPage, HalfwayExpires, Visit, sessionVars
  <1>2. screen' \in {"login", "code", "app", "users"} \/ screen' = screen
    BY LandsOk DEF ReloadPage, HalfwayExpires, Visit, Pages
  <1>3. trip' = [k \in Calls |-> trip'[k]] /\ \A k \in Calls : trip'[k] \in {trip[k], AtRest}
    BY DEF ReloadPage, HalfwayExpires, Visit, SignInInv, SignInTypeOK
  <1>4. ClientMoves
    <2>1. /\ jar' \in [session : Someone, parked : Someone, halfway : BOOLEAN]
          /\ jar'.session = jar.session /\ jar'.parked = jar.parked
      BY <1>1 DEF SignInInv, SignInTypeOK
    <2>2. screen' \in Pages
      BY <1>2, PagesNamed DEF SignInInv, SignInTypeOK
    <2> QED  BY <1>1, <1>3, <2>1, <2>2, WhatIsThereIsGood DEF ClientMoves, SignInInv, SignInTypeOK
  <1>5. EndIsKept'
    BY <1>1 DEF SignInInv, EndIsKept, UsesBearerAuth, InShell
  <1> QED  BY <1>4, <1>5, ClientMovesKeep

LEMMA NextSignInInv == SignInInv /\ [SignInNext]_signInVars => SignInInv'
  <1> SUFFICES ASSUME SignInInv, [SignInNext]_signInVars PROVE SignInInv'
    OBVIOUS
  <1>1. ASSUME NEW k \in Calls, Press(k) \/ Serve(k) PROVE SignInInv'
    BY <1>1, PressKeeps, ServeKeeps
  <1>2. CASE \/ \E k \in Calls : ServeBadly(k) \/ Throw(k)
             \/ \E s \in live : SessionEnds(s)
    BY <1>2, FaultsKeep
  <1>3. CASE EmailAnswered
    BY <1>3, EmailKeeps
  <1>4. CASE PasskeyAnswered \/ CodeAnswered \/ SocialFails
    BY <1>4, TurnedDownKeeps, GoesOnKeeps
    DEF PasskeyAnswered, CodeAnswered, SocialFails, Calls, Buttons
  <1>5. CASE SocialReturns
    BY <1>5, SocialKeeps
  <1>6. CASE Impersonates
    BY <1>6, ImpersonatesKeeps
  <1>7. CASE Stops
    BY <1>7, StopsKeeps
  <1>8. CASE SignsOut
    BY <1>8, SignsOutKeeps
  <1>9. CASE Looks
    BY <1>9, LooksKeeps
  <1>10. CASE ReloadPage \/ HalfwayExpires \/ \E target \in Pages : Visit(target)
    BY <1>10, PersonKeeps
  <1>11. CASE UNCHANGED signInVars
    BY <1>11
    DEF signInVars, SignInInv, SignInTypeOK, SessionsAreGranted, Granted, AnswersAreTrue, EndIsKept,
        Caller, Credential, UsesBearerAuth, InShell
  <1> QED
    BY <1>1, <1>2, <1>3, <1>4, <1>5, <1>6, <1>7, <1>8, <1>9, <1>10, <1>11 DEF SignInNext

-----------------------------------------------------------------------------
(* The theorems on who is signed in *)

\* The client, its calls and the API's sessions are of their types, always.
THEOREM SignInTypesHold == SignInSpec => []SignInTypeOK
  <1>1. SignInInv => SignInTypeOK
    BY DEF SignInInv
  <1> QED  BY InitSignInInv, NextSignInInv, <1>1, PTL DEF SignInSpec

\* A step that was accepted takes effect: a sign-in gets past the guard of /app, but for
\* one by way of a provider to a client whose store still holds a token, and a Stop that
\* was answered ends the impersonation or leaves it only where there is nobody to go
\* back to.
THEOREM StepsCanBeFinished == SignInSpec => []NoDeadEnd
  <1>1. SignInInv => NoDeadEnd
    BY DEF SignInInv, EndIsKept, NoDeadEnd
  <1> QED  BY InitSignInInv, NextSignInInv, <1>1, PTL DEF SignInSpec

-----------------------------------------------------------------------------
(* A list page: the inductive invariant *)

\* The change is done, it did something to the item, and the page has not heard.
Touches(s, i) == write[s] # Nothing /\ write[s].is = "done" /\ write[s].item \in {i, "others"}

\* The page has been told of a change to the item after the n-th, will be, or is left
\* in doubt about one.
Later(i, n) == learnt > n \/ doubt[i] > n \/ \E s \in Slots : Touches(s, i) /\ write[s].no > n

\* What the server listed differs from what it has now only by later changes.
LoadsAreSnapshots ==
    \A l \in loads : l.got # NotLoaded =>
        /\ l.asOf <= changes
        /\ \A i \in Items : l.got[i] # server[i] => Later(i, l.asOf)

\* What a change makes of its item.
Outcome(w) == IF w.op = "remove" THEN 0 ELSE w.no

\* What a change made of its item differs from what the server has only by later
\* changes; the page offers to end the other sessions only where there are sessions.
WritesAreTold ==
    /\ learnt <= changes
    /\ confirming = "others" => page = "sessions"
    /\ \A s \in Slots : write[s] # Nothing =>
        /\ write[s].op = "others" <=> write[s].item = "others"
        /\ write[s].item = "others" => page = "sessions"
        /\ write[s].is = "done" =>
            /\ write[s].no \in 2..changes
            /\ write[s].item \in Items /\ server[write[s].item] # Outcome(write[s])
                    => Later(write[s].item, write[s].no)

\* Users: the one load that counts answers the query on the page, after every
\* change the page has been told of.
NewestIsNewest ==
    page = "users" =>
        \A l \in loads : l.newest =>
           /\ l.for = query
           /\ l.got # NotLoaded => l.asOf >= learnt
           /\ \A m \in loads : m.newest => m = l

QueryIsAnswered ==
    /\ ~loading /\ ~failed => shownFor = query
    /\ page # "users" => shownFor = query /\ \A l \in loads : l.for = query

Behind(i) == doubt[i] > 0 \/ \E s \in Slots : Touches(s, i)

\* An item on the page that is not the server's has a change on its way or in doubt,
\* or the page still loads, or says that it could not.
ListIsCurrent ==
    /\ shown = NotLoaded => loading \/ failed
    /\ \A i \in Items :
         shown # NotLoaded /\ shown[i] # server[i] =>
           /\ Behind(i) \/ learnt > 0
           /\ ~failed /\ (page = "users" \/ ~overtaken) =>
                 Behind(i) \/ (IF page = "sessions" THEN loads # {} ELSE loading)

ListInv ==
    /\ ListTypeOK
    /\ LoadsAreSnapshots
    /\ WritesAreTold
    /\ NewestIsNewest
    /\ QueryIsAnswered
    /\ ListIsCurrent

\* A request for the list.
LoadType == [n : 1..MaxLoads, for : Queries, newest : BOOLEAN, frees : BOOLEAN,
             got : Lists \union {NotLoaded}, asOf : 0..MaxChanges + 1]

LEMMA InitListInv == ListInit => ListInv
  <1> SUFFICES ASSUME ListInit PROVE ListInv
    OBVIOUS
  <1> USE PagesAssumption DEF ListInit
  <1>1. server \in Lists /\ shown \in {server, NotLoaded}
    BY DEF Lists
  <1>2. /\ loads = {} \/ loads = {Load(1, 0, FALSE)}
        /\ Load(1, 0, FALSE) \in LoadType
        /\ Load(1, 0, FALSE).got = NotLoaded /\ Load(1, 0, FALSE).for = 0
    BY DEF Load, LoadType, Queries
  <1>3. write \in [Slots -> Writes \union {Nothing}] /\ doubt \in [Items -> 0..MaxChanges + 1]
        /\ changes \in 1..MaxChanges + 1 /\ learnt \in 0..MaxChanges + 1
        /\ learnt <= changes
    OBVIOUS
  <1>4. ListTypeOK
    BY <1>1, <1>2, <1>3 DEF ListTypeOK, LoadType, Queries
  <1>6. LoadsAreSnapshots /\ QueryIsAnswered
    BY <1>2 DEF LoadsAreSnapshots, QueryIsAnswered
  <1>7. NewestIsNewest
    BY <1>2 DEF NewestIsNewest
  <1>8. WritesAreTold
    BY <1>3 DEF WritesAreTold
  <1>5. ListIsCurrent
    BY <1>1 DEF ListIsCurrent
  <1> QED  BY <1>4, <1>5, <1>6, <1>7, <1>8 DEF ListInv

-----------------------------------------------------------------------------
(* What a step must keep *)

\* No change is forgotten before the page has been told or is in doubt.
Remembers == \A i \in Items, n \in Nat : Later(i, n) => Later(i, n)'

LEMMA SnapshotsLast ==
  ASSUME ListInv, ListTypeOK', Remembers, changes' >= changes,
         \A i \in Items, n \in Nat : server'[i] # server[i] /\ n <= changes => Later(i, n)',
         \A l \in loads' : \/ l.got = NotLoaded
                           \/ l.got = server /\ l.asOf = changes
                           \/ \E m \in loads : m.got = l.got /\ m.asOf = l.asOf
  PROVE  LoadsAreSnapshots'
  <1> SUFFICES ASSUME NEW l \in loads', l.got # NotLoaded
               PROVE  /\ l.asOf <= changes'
                      /\ \A i \in Items : l.got[i] # server'[i] => Later(i, l.asOf)'
    BY DEF LoadsAreSnapshots
  <1>1. /\ changes \in Nat /\ changes' \in Nat /\ learnt' \in Nat /\ doubt' \in [Items -> Nat]
        /\ l.asOf \in Nat
    BY PagesAssumption DEF ListInv, ListTypeOK, Writes
  <1>2. /\ l.asOf <= changes
        /\ \A i \in Items : l.got[i] # server[i] => Later(i, l.asOf)
    BY <1>1 DEF ListInv, LoadsAreSnapshots
  <1> QED  BY <1>1, <1>2 DEF Remembers

LEMMA LoadIsStarted ==
  ASSUME ListTypeOK, NEW q \in Queries, NEW frees \in BOOLEAN, LoadStarts(q, frees)
  PROVE  /\ loads' \subseteq LoadType /\ loads' # {}
         /\ query' = q /\ loading' = (page = "sessions" => shown = NotLoaded) /\ failed' = FALSE
         /\ loading' \in BOOLEAN
         /\ \A m \in loads' :
              \/ m.newest /\ m.got = NotLoaded /\ m.for = q
              \/ ~m.newest /\ \E l \in loads : m.got = l.got /\ m.asOf = l.asOf /\ m.for = l.for
         /\ \A m, k \in loads' : m.newest /\ k.newest => m = k
  <1>1. PICK n \in 1..MaxLoads :
          loads' = {[l EXCEPT !.newest = FALSE] : l \in loads} \union {Load(n, q, frees)}
    BY DEF LoadStarts
  <1>2. /\ Load(n, q, frees) \in LoadType /\ Load(n, q, frees).newest
        /\ Load(n, q, frees).got = NotLoaded /\ Load(n, q, frees).for = q
    BY PagesAssumption DEF Load, LoadType
  <1>3. ASSUME NEW l \in loads
        PROVE  /\ [l EXCEPT !.newest = FALSE] \in LoadType
               /\ [l EXCEPT !.newest = FALSE].newest = FALSE
               /\ [l EXCEPT !.newest = FALSE].got = l.got
               /\ [l EXCEPT !.newest = FALSE].asOf = l.asOf
               /\ [l EXCEPT !.newest = FALSE].for = l.for
    BY DEF ListTypeOK, LoadType
  <1>4. /\ query' = q /\ loading' = (page = "sessions" => shown = NotLoaded) /\ failed' = FALSE
        /\ loading' \in BOOLEAN
    BY DEF LoadStarts
  <1>5. /\ loads' \subseteq LoadType /\ loads' # {}
        /\ \A m \in loads' :
              \/ m = Load(n, q, frees)
              \/ ~m.newest /\ \E l \in loads : m.got = l.got /\ m.asOf = l.asOf /\ m.for = l.for
    <2>1. ASSUME NEW m \in loads'
          PROVE  m = Load(n, q, frees) \/ \E l \in loads : m = [l EXCEPT !.newest = FALSE]
      BY <1>1
    <2>2. ASSUME NEW m \in loads', m # Load(n, q, frees)
          PROVE  /\ m \in LoadType /\ ~m.newest
                 /\ \E l \in loads : m.got = l.got /\ m.asOf = l.asOf /\ m.for = l.for
      <3>1. PICK l \in loads : m = [l EXCEPT !.newest = FALSE]
        BY <2>1, <2>2
      <3>2. m \in LoadType /\ m.newest = FALSE
        BY <1>3, <3>1
      <3>3. m.got = l.got /\ m.asOf = l.asOf /\ m.for = l.for
        BY <1>3, <3>1
      <3> QED  BY <3>2, <3>3
    <2>3. loads' \subseteq LoadType
      BY <1>2, <2>2
    <2>4. loads' # {}
      BY <1>1
    <2> QED  BY <2>2, <2>3, <2>4
  <1> QED  BY <1>2, <1>4, <1>5

\* A new request for the list.
LEMMA ReloadKeeps == ListInv /\ Reload => ListInv'
  <1> SUFFICES ASSUME ListInv, Reload PROVE ListInv'
    OBVIOUS
  <1>1. /\ UNCHANGED <<page, server, changes, write, reloading, confirming, learnt, doubt, armed,
                       shown, shownFor, overtaken>>
        /\ \E q \in IF page = "users" THEN Queries ELSE {query} : LoadStarts(q, FALSE)
    BY DEF Reload, serverVars, formVars
  <1>2. PICK q \in Queries : LoadStarts(q, FALSE) /\ (page # "users" => q = query)
    BY <1>1 DEF ListInv, ListTypeOK
  <1> HIDE DEF Reload
  <1>3. /\ loads' \subseteq LoadType /\ loads' # {}
        /\ query' = q /\ loading' = (page = "sessions" => shown = NotLoaded) /\ failed' = FALSE
        /\ loading' \in BOOLEAN
        /\ \A m \in loads' :
              \/ m.newest /\ m.got = NotLoaded /\ m.for = q
              \/ ~m.newest /\ \E l \in loads : m.got = l.got /\ m.asOf = l.asOf /\ m.for = l.for
        /\ \A m, k \in loads' : m.newest /\ k.newest => m = k
    BY <1>2, LoadIsStarted DEF ListInv
  <1>4. ListTypeOK'
    BY <1>1, <1>3 DEF ListInv, ListTypeOK, LoadType
  <1>5. Remembers
    BY <1>1 DEF Remembers, Later, Touches
  <1>6. LoadsAreSnapshots'
    BY <1>1, <1>3, <1>4, <1>5, SnapshotsLast DEF ListInv, ListTypeOK
  <1>7. WritesAreTold'
    BY <1>1 DEF ListInv, WritesAreTold, Later, Touches
  <1>8. NewestIsNewest'
    BY <1>1, <1>3 DEF NewestIsNewest
  <1>9. QueryIsAnswered'
    BY <1>1, <1>2, <1>3 DEF ListInv, QueryIsAnswered
  <1>10. ListIsCurrent'
    BY <1>1, <1>3 DEF ListInv, ListIsCurrent, Behind, Touches
  <1> QED  BY <1>4, <1>6, <1>7, <1>8, <1>9, <1>10 DEF ListInv

LEMMA ServerListsKeeps ==
  ASSUME ListInv, NEW l \in loads, ServerLists(l)
  PROVE  ListInv'
  <1> DEFINE r == [l EXCEPT !.got = server, !.asOf = changes]
  <1>1. /\ UNCHANGED <<page, server, changes, write, reloading, confirming, learnt, doubt, armed,
                       shown, shownFor, query, loading, failed, overtaken>>
        /\ loads' = (loads \ {l}) \union {r} /\ l.got = NotLoaded
    BY DEF ServerLists, serverVars, formVars
  <1>2. /\ r \in LoadType /\ r.newest = l.newest /\ r.for = l.for
        /\ r.got = server /\ r.asOf = changes
    <2>1. l \in LoadType /\ server \in Lists /\ changes \in 0..MaxChanges + 1
      BY PagesAssumption DEF ListInv, ListTypeOK, LoadType
    <2> QED  BY <2>1 DEF LoadType
  <1> HIDE DEF r
  <1>3. ListTypeOK'
    BY <1>1, <1>2 DEF ListInv, ListTypeOK, LoadType
  <1>4. Remembers
    BY <1>1 DEF Remembers, Later, Touches
  <1>5. LoadsAreSnapshots'
    BY <1>1, <1>2, <1>3, <1>4, SnapshotsLast DEF ListInv, ListTypeOK
  <1>6. WritesAreTold'
    BY <1>1 DEF ListInv, WritesAreTold, Later, Touches
  <1>7. NewestIsNewest'
    BY <1>1, <1>2 DEF ListInv, NewestIsNewest, WritesAreTold
  <1>8. QueryIsAnswered'
    BY <1>1, <1>2 DEF ListInv, QueryIsAnswered
  <1>9. ListIsCurrent'
    BY <1>1 DEF ListInv, ListIsCurrent, Behind, Touches
  <1> QED  BY <1>3, <1>5, <1>6, <1>7, <1>8, <1>9 DEF ListInv

\* An answer that is not put on the page, or that there is none.
LEMMA LoadLostKeeps ==
  ASSUME ListInv, NEW l \in loads, LoadDropped(l) \/ LoadFailed(l)
  PROVE  ListInv'
  <1>1. /\ UNCHANGED <<page, server, changes, write, confirming, learnt, doubt, armed,
                       shown, shownFor, query, overtaken>>
        /\ reloading' \in BOOLEAN /\ loads' = loads \ {l}
        /\ \/ UNCHANGED <<loading, failed>> /\ page = "users"
           \/ loading' = FALSE /\ failed' = TRUE
    BY DEF LoadDropped, LoadFailed, AfterLoad, serverVars, Superseded
  <1>2. ListTypeOK'
    BY <1>1 DEF ListInv, ListTypeOK
  <1>3. Remembers
    BY <1>1 DEF Remembers, Later, Touches
  <1>4. LoadsAreSnapshots'
    BY <1>1, <1>2, <1>3, SnapshotsLast DEF ListInv, ListTypeOK
  <1>5. WritesAreTold'
    BY <1>1 DEF ListInv, WritesAreTold, Later, Touches
  <1>6. NewestIsNewest'
    BY <1>1 DEF ListInv, NewestIsNewest
  <1>7. QueryIsAnswered'
    BY <1>1 DEF ListInv, QueryIsAnswered
  <1>8. ListIsCurrent'
    BY <1>1 DEF ListInv, ListIsCurrent, Behind, Touches
  <1> QED  BY <1>2, <1>4, <1>5, <1>6, <1>7, <1>8 DEF ListInv

LEMMA LatestIs ==
  ASSUME NEW a \in Nat, NEW b \in Nat
  PROVE  Latest(a, b) \in {a, b} /\ Latest(a, b) >= a /\ Latest(a, b) >= b
  BY DEF Latest

LEMMA LoadAnsweredKeeps ==
  ASSUME ListInv, NEW l \in loads, LoadAnswered(l)
  PROVE  ListInv'
  <1>1. /\ UNCHANGED <<page, server, changes, query, write, confirming, failed>>
        /\ ~(page = "users" /\ ~l.newest) /\ l.got # NotLoaded
        /\ shown' = l.got /\ shownFor' = l.for /\ loading' = FALSE
        /\ learnt' = Latest(learnt, l.asOf)
        /\ overtaken' = (overtaken \/ l.asOf < learnt)
        /\ doubt' = [i \in Items |-> IF doubt[i] > l.asOf THEN doubt[i] ELSE 0]
        /\ reloading' = (reloading /\ ~l.frees) /\ loads' = loads \ {l}
        /\ armed' = (armed \/ page = "sessions")
    BY DEF LoadAnswered, AfterLoad, Superseded, serverVars
  <1>2. /\ l \in LoadType /\ l.asOf \in 0..MaxChanges + 1 /\ l.asOf \in Nat /\ l.got \in Lists
        /\ learnt \in Nat /\ changes \in Nat /\ doubt \in [Items -> 0..MaxChanges + 1]
    BY <1>1, PagesAssumption DEF ListInv, ListTypeOK, LoadType
  <1>3. /\ learnt' \in Nat /\ learnt' \in {learnt, l.asOf} /\ learnt' >= learnt /\ learnt' >= l.asOf
    BY <1>1, <1>2, LatestIs
  <1>4. ListTypeOK'
    <2>1. doubt' \in [Items -> 0..MaxChanges + 1]
      BY <1>1, <1>2, PagesAssumption
    <2>2. /\ reloading' \in BOOLEAN /\ overtaken' \in BOOLEAN
          /\ armed' \in BOOLEAN /\ loading' \in BOOLEAN
      BY <1>1 DEF ListInv, ListTypeOK
    <2> QED  BY <1>1, <1>2, <1>3, <2>1, <2>2 DEF ListInv, ListTypeOK, LoadType
  <1>5. Remembers
    <2> SUFFICES ASSUME NEW i \in Items, NEW n \in Nat, Later(i, n) PROVE Later(i, n)'
      BY DEF Remembers
    <2> QED  BY <1>1, <1>2, <1>3 DEF Later, Touches
  <1>6. LoadsAreSnapshots'
    BY <1>1, <1>4, <1>5, SnapshotsLast DEF ListInv, ListTypeOK
  <1>7. WritesAreTold'
    <2>1. learnt' <= changes'
      BY <1>1, <1>2, <1>3 DEF ListInv, WritesAreTold, LoadsAreSnapshots
    <2>2. \A s \in Slots : write[s] # Nothing /\ write[s].is = "done" => write[s].no \in Nat
      BY PagesAssumption DEF ListInv, ListTypeOK, Writes
    <2> QED  BY <1>1, <1>5, <2>1, <2>2 DEF ListInv, WritesAreTold, Remembers
  <1>8. NewestIsNewest'
    BY <1>1 DEF ListInv, NewestIsNewest
  <1>9. QueryIsAnswered'
    BY <1>1 DEF ListInv, QueryIsAnswered, NewestIsNewest
  <1>10. ListIsCurrent'
    <2>1. shown' # NotLoaded
      BY <1>1
    <2> SUFFICES ASSUME NEW i \in Items, shown'[i] # server'[i]
                 PROVE  /\ Behind(i)' \/ learnt' > 0
                        /\ page' = "users" \/ ~overtaken' => Behind(i)'
      BY <2>1 DEF ListIsCurrent
    <2>2. Later(i, l.asOf)
      <3>1. l.got # NotLoaded /\ l.got[i] # server[i]
        BY <1>1
      <3> QED  BY <3>1 DEF ListInv, LoadsAreSnapshots
    <2>3. CASE learnt > l.asOf
      <3>0. l.asOf < learnt /\ learnt' > 0
        BY <1>2, <1>3, <2>3
      <3>1. overtaken'
        BY <1>1, <3>0, Zenon
      <3>2. page # "users"
        BY <1>1, <1>2, <2>3 DEF ListInv, NewestIsNewest
      <3> QED  BY <1>1, <3>0, <3>1, <3>2
    <2>4. CASE doubt[i] > l.asOf
      <3>1. doubt'[i] > 0
        BY <1>1, <1>2, <2>4
      <3> QED  BY <3>1 DEF Behind
    <2>5. CASE \E s \in Slots : Touches(s, i) /\ write[s].no > l.asOf
      BY <1>1, <2>5 DEF Behind, Touches
    <2> QED  BY <2>2, <2>3, <2>4, <2>5 DEF Later
  <1> QED  BY <1>4, <1>6, <1>7, <1>8, <1>9, <1>10 DEF ListInv

LEMMA LoadRejectedKeeps ==
  ASSUME ListInv, NEW l \in loads, LoadRejected(l)
  PROVE  ListInv'
  <1>1. /\ UNCHANGED <<page, server, changes, write, reloading, confirming, learnt, armed,
                       shown, shownFor, query, loading, failed, overtaken>>
        /\ page # "flags" /\ loads' = loads \ {l}
        /\ doubt' = IF page = "sessions" THEN [i \in Items |-> Latest(doubt[i], learnt)] ELSE doubt
    BY DEF LoadRejected, serverVars
  <1>2. /\ doubt \in [Items -> 0..MaxChanges + 1] /\ doubt \in [Items -> Nat]
        /\ learnt \in 0..MaxChanges + 1 /\ learnt \in Nat
    BY PagesAssumption DEF ListInv, ListTypeOK
  <1>3. /\ doubt' \in [Items -> 0..MaxChanges + 1]
        /\ \A i \in Items : /\ doubt'[i] \in Nat /\ doubt'[i] >= doubt[i]
                            /\ page = "sessions" => doubt'[i] >= learnt
    BY <1>1, <1>2, LatestIs
  <1>4. ListTypeOK'
    BY <1>1, <1>3 DEF ListInv, ListTypeOK
  <1>5. Remembers
    BY <1>1, <1>2, <1>3 DEF Remembers, Later, Touches
  <1>6. LoadsAreSnapshots'
    BY <1>1, <1>4, <1>5, SnapshotsLast DEF ListInv, ListTypeOK
  <1>7. WritesAreTold'
    <2>1. \A s \in Slots : write[s] # Nothing /\ write[s].is = "done" => write[s].no \in Nat
      BY PagesAssumption DEF ListInv, ListTypeOK, Writes
    <2> QED  BY <1>1, <1>5, <2>1 DEF ListInv, WritesAreTold, Remembers
  <1>8. NewestIsNewest'
    BY <1>1 DEF ListInv, NewestIsNewest
  <1>9. QueryIsAnswered'
    BY <1>1 DEF ListInv, QueryIsAnswered
  <1>10. ListIsCurrent'
    <2> SUFFICES ASSUME NEW i \in Items, shown # NotLoaded, shown[i] # server[i]
                 PROVE  /\ Behind(i)' \/ learnt > 0
                        /\ ~failed /\ (page = "users" \/ ~overtaken) =>
                              Behind(i)' \/ (IF page = "sessions" THEN loads' # {} ELSE loading)
      BY <1>1 DEF ListInv, ListIsCurrent
    <2>1. Behind(i) => Behind(i)'
      BY <1>1, <1>2, <1>3 DEF Behind, Touches
    <2>2. page = "sessions" /\ learnt > 0 => Behind(i)'
      BY <1>2, <1>3 DEF Behind
    <2> QED  BY <2>1, <2>2 DEF ListInv, ListIsCurrent
  <1> QED  BY <1>4, <1>6, <1>7, <1>8, <1>9, <1>10 DEF ListInv

\* The dialog, and a change that is asked for.
LEMMA AskKeeps ==
  ASSUME ListInv,
         UNCHANGED <<page, server, changes, armed, shown, shownFor, query, loads, loading, failed,
                     reloading, learnt, overtaken, doubt>>,
         confirming' \in Items \union {"others", Nothing},
         confirming' = "others" => page = "sessions",
         \/ UNCHANGED write
         \/ \E s \in Slots, w \in Writes :
              /\ w.is = "asked" /\ (w.op = "others" <=> w.item = "others")
              /\ w.item = "others" => page = "sessions"
              /\ write[s] = Nothing /\ write' = [write EXCEPT ![s] = w]
  PROVE  ListInv'
  <1>1. \A s \in Slots : write'[s] = write[s] \/ (/\ write[s] = Nothing /\ write'[s] \in Writes
                                                  /\ write'[s].is = "asked"
                                                  /\ (write'[s].op = "others") = (write'[s].item = "others")
                                                  /\ write'[s].item = "others" => page = "sessions")
    BY DEF ListInv, ListTypeOK
  <1>2. \A s \in Slots, i \in Items : /\ Touches(s, i)' = Touches(s, i)
                                      /\ Touches(s, i) => write'[s] = write[s]
    BY <1>1 DEF Touches
  <1>3. ListTypeOK'
    BY DEF ListInv, ListTypeOK
  <1>4. \A i \in Items, n \in Nat : Later(i, n)' = Later(i, n)
    BY <1>2 DEF Later
  <1>5. LoadsAreSnapshots'
    BY <1>3, <1>4, SnapshotsLast DEF ListInv, ListTypeOK, Remembers
  <1>6. WritesAreTold'
    <2>1. \A s \in Slots : write[s] # Nothing /\ write[s].is = "done" => write[s].no \in Nat
      BY PagesAssumption DEF ListInv, ListTypeOK, Writes
    <2> QED  BY <1>1, <1>4, <2>1 DEF ListInv, WritesAreTold
  <1>7. NewestIsNewest' /\ QueryIsAnswered'
    BY DEF ListInv, NewestIsNewest, QueryIsAnswered
  <1>8. \A i \in Items : Behind(i)' = Behind(i)
    BY <1>2 DEF Behind
  <1>9. ListIsCurrent'
    BY <1>8 DEF ListInv, ListIsCurrent
  <1> QED  BY <1>3, <1>5, <1>6, <1>7, <1>9 DEF ListInv

LEMMA BecomesIs ==
  ASSUME ListTypeOK, NEW slot \in Slots, write[slot] \in Writes,
         NEW outcome \in {"done", "refused", "stuck"}, NEW no \in 0..MaxChanges + 1,
         Becomes(slot, outcome, no)
  PROVE  /\ write' \in [Slots -> Writes \union {Nothing}]
         /\ \A s \in Slots \ {slot} : write'[s] = write[s]
         /\ write'[slot] \in Writes /\ write'[slot] # Nothing
         /\ write'[slot].is = outcome /\ write'[slot].no = no
         /\ write'[slot].item = write[slot].item /\ write'[slot].op = write[slot].op
  <1> DEFINE w == [write[slot] EXCEPT !.is = outcome, !.no = no]
  <1>1. w \in Writes /\ w.is = outcome /\ w.no = no /\ w.item = write[slot].item
        /\ w.op = write[slot].op
    BY DEF Writes
  <1>2. write' = [write EXCEPT ![slot] = w] /\ write \in [Slots -> Writes \union {Nothing}]
    BY DEF Becomes, ListTypeOK
  <1> HIDE DEF w
  <1>3. write' \in [Slots -> Writes \union {Nothing}] /\ write'[slot] = w
        /\ \A s \in Slots \ {slot} : write'[s] = write[s]
    BY <1>1, <1>2
  <1>4. w # Nothing
    BY <1>1, PagesAssumption
  <1> QED  BY <1>1, <1>3, <1>4

LEMMA ServerChangesKeeps ==
  ASSUME ListInv, NEW slot \in Slots, ServerChanges(slot)
  PROVE  ListInv'
  <1> DEFINE w == write[slot]
  <1>1. /\ UNCHANGED <<page, armed, shown, shownFor, query, loads, loading, failed, reloading,
                       confirming, learnt, overtaken, doubt>>
        /\ w # Nothing /\ w.is = "asked" /\ w \in Writes
    BY DEF ServerChanges, ListInv, ListTypeOK
  <1>2. changes \in Nat /\ changes + 1 \in Nat /\ changes \in 1..MaxChanges + 1
    BY PagesAssumption DEF ListInv, ListTypeOK
  <1>3. CASE Becomes(slot, "refused", 0) /\ UNCHANGED <<server, changes>>
    <2>1. /\ write' \in [Slots -> Writes \union {Nothing}]
          /\ \A s \in Slots \ {slot} : write'[s] = write[s]
          /\ write'[slot].is = "refused" /\ write'[slot].item = w.item /\ write'[slot].op = w.op
      BY <1>1, <1>3, BecomesIs, PagesAssumption DEF ListInv
    <2>2. ListTypeOK'
      BY <1>1, <1>3, <2>1 DEF ListInv, ListTypeOK
    <2>3. \A s \in Slots, i \in Items : /\ Touches(s, i)' = Touches(s, i)
                                        /\ Touches(s, i) => write'[s] = write[s]
      BY <1>1, <2>1 DEF Touches
    <2>4. \A i \in Items, n \in Nat : Later(i, n)' = Later(i, n)
      BY <1>1, <2>3 DEF Later
    <2>5. LoadsAreSnapshots'
      BY <1>1, <1>3, <2>2, <2>4, SnapshotsLast DEF ListInv, ListTypeOK, Remembers
    <2>6. WritesAreTold'
      <3>1. \A s \in Slots : write[s] # Nothing /\ write[s].is = "done" => write[s].no \in Nat
        BY PagesAssumption DEF ListInv, ListTypeOK, Writes
      <3> QED  BY <1>1, <1>3, <2>1, <2>4, <3>1 DEF ListInv, WritesAreTold
    <2>7. NewestIsNewest' /\ QueryIsAnswered'
      BY <1>1 DEF ListInv, NewestIsNewest, QueryIsAnswered
    <2>8. \A i \in Items : Behind(i)' = Behind(i)
      BY <1>1, <2>3 DEF Behind
    <2>9. ListIsCurrent'
      BY <1>1, <1>3, <2>8 DEF ListInv, ListIsCurrent
    <2> QED  BY <2>2, <2>5, <2>6, <2>7, <2>9 DEF ListInv
  <1>4. CASE /\ changes <= MaxChanges
             /\ server' = Written(w.op, w.item)
             /\ changes' = changes + 1
             /\ Becomes(slot, "done", changes + 1)
    <2>1. changes + 1 \in 1..MaxChanges + 1 /\ changes + 1 \in 0..MaxChanges + 1
      BY <1>2, <1>4, PagesAssumption
    <2>2. /\ write' \in [Slots -> Writes \union {Nothing}]
          /\ \A s \in Slots \ {slot} : write'[s] = write[s]
          /\ write'[slot] # Nothing
          /\ write'[slot].is = "done" /\ write'[slot].no = changes + 1
          /\ write'[slot].item = w.item /\ write'[slot].op = w.op
      BY <1>1, <1>4, <2>1, BecomesIs DEF ListInv
    <2>3. /\ server' \in Lists
          /\ \A i \in Items : server'[i] # server[i] => w.item \in {i, "others"}
          /\ w.item \in Items => server'[w.item] = Outcome(write'[slot])
      <3>1. server \in [Items -> 0..MaxChanges + 1] /\ w.item \in Items \union {"others"}
            /\ 0 \in 0..MaxChanges + 1
        BY <1>1, PagesAssumption DEF ListInv, ListTypeOK, Lists, Writes
      <3>2. CASE w.op = "others"
        <4>1. w.item = "others" /\ server' = [j \in Items |-> 0]
          BY <1>1, <1>4, <3>2 DEF Written, ListInv, WritesAreTold
        <4> QED  BY <3>1, <4>1, PagesAssumption DEF Lists
      <3>3. CASE w.op \in {"change", "add"}
        <4>1. server' = [server EXCEPT ![w.item] = changes + 1] /\ w.item \in Items
          BY <1>1, <1>4, <3>1, <3>3 DEF Written, ListInv, WritesAreTold
        <4> QED  BY <2>1, <2>2, <3>1, <3>3, <4>1 DEF Lists, Outcome
      <3>4. CASE w.op = "remove"
        <4>1. server' = [server EXCEPT ![w.item] = 0] /\ w.item \in Items
          BY <1>1, <1>4, <3>1, <3>4 DEF Written, ListInv, WritesAreTold
        <4> QED  BY <2>2, <3>1, <3>4, <4>1 DEF Lists, Outcome
      <3> QED  BY <1>1, <3>2, <3>3, <3>4 DEF Writes
    <2>4. ListTypeOK'
      BY <1>1, <1>4, <2>1, <2>2, <2>3 DEF ListInv, ListTypeOK
    <2>5. \A s \in Slots, i \in Items : Touches(s, i) => Touches(s, i)' /\ write'[s] = write[s]
      BY <1>1, <2>2 DEF Touches
    <2>6. Remembers
      BY <1>1, <2>5 DEF Remembers, Later
    <2>7. \A i \in Items : server'[i] # server[i] =>
              Touches(slot, i)' /\ \A n \in Nat : n <= changes => Later(i, n)'
      <3>1. \A n \in Nat : n <= changes => write'[slot].no > n
        BY <1>2, <2>2
      <3>2. ASSUME NEW i \in Items, server'[i] # server[i] PROVE Touches(slot, i)'
        BY <2>2, <2>3, <3>2 DEF Touches
      <3> QED  BY <3>1, <3>2 DEF Later
    <2>8. LoadsAreSnapshots'
      BY <1>1, <1>2, <1>4, <2>4, <2>6, <2>7, SnapshotsLast DEF ListInv, ListTypeOK
    <2>9. WritesAreTold'
      <3>1. learnt' <= changes'
        BY <1>1, <1>2, <1>4, PagesAssumption DEF ListInv, ListTypeOK, WritesAreTold
      <3>2. ASSUME NEW s \in Slots, write'[s] # Nothing
            PROVE  (/\ write[s].op = "others" <=> write[s].item = "others"
                    /\ write[s].item = "others" => page = "sessions"
                    /\ write[s].is = "done" =>
                         /\ write[s].no \in 2..changes
                         /\ write[s].item \in Items /\ server[write[s].item] # Outcome(write[s])
                               => Later(write[s].item, write[s].no))'
        <4>1. CASE s = slot
          BY <1>1, <1>2, <1>4, <2>2, <2>3, <4>1 DEF ListInv, WritesAreTold
        <4>2. CASE s # slot
          <5>1. write'[s] = write[s] /\ write[s] # Nothing
            BY <2>2, <3>2, <4>2
          <5>2. CASE write[s].is = "done" /\ write[s].item \in Items
            <6>1. PICK i \in Items, n \in 2..changes : i = write[s].item /\ n = write[s].no
              BY <5>1, <5>2 DEF ListInv, WritesAreTold
            <6>2. n \in Nat /\ n \in 2..changes' /\ (server[i] # Outcome(write[s]) => Later(i, n))
              BY <1>2, <1>4, <5>1, <5>2, <6>1 DEF ListInv, WritesAreTold
            <6>3. server'[i] # server[i] => Later(i, n)'
              <7>1. server'[i] # server[i] => Touches(slot, i)' /\ write'[slot].no > n
                BY <1>2, <2>2, <2>7, <6>1
              <7> QED  BY <7>1 DEF Later
            <6>4. server'[i] # Outcome(write[s]) => Later(i, n)'
              BY <2>6, <6>2, <6>3 DEF Remembers
            <6>5. i = write'[s].item /\ n = write'[s].no /\ Outcome(write[s]) = Outcome(write'[s])
              BY <5>1, <6>1
            <6> QED  BY <1>1, <5>1, <6>1, <6>2, <6>4, <6>5 DEF ListInv, WritesAreTold
          <5>3. CASE ~(write[s].is = "done" /\ write[s].item \in Items)
            BY <1>1, <1>2, <1>4, <5>1, <5>3 DEF ListInv, WritesAreTold
          <5> QED  BY <5>2, <5>3
        <4> QED  BY <4>1, <4>2
      <3>3. confirming' = "others" => page' = "sessions"
        BY <1>1 DEF ListInv, WritesAreTold
      <3> QED  BY <3>1, <3>2, <3>3 DEF WritesAreTold
    <2>10. NewestIsNewest' /\ QueryIsAnswered'
      BY <1>1 DEF ListInv, NewestIsNewest, QueryIsAnswered
    <2>11. ListIsCurrent'
      <3>1. ASSUME NEW i \in Items
            PROVE  /\ Behind(i) => Behind(i)'
                   /\ server'[i] # server[i] => Behind(i)'
        BY <1>1, <2>5, <2>7 DEF Behind
      <3> QED  BY <1>1, <3>1 DEF ListInv, ListIsCurrent
    <2> QED  BY <2>4, <2>8, <2>9, <2>10, <2>11 DEF ListInv
  <1> QED  BY <1>3, <1>4 DEF ServerChanges

\* A change that is over: the page has been told, or is in doubt.
LEMMA OverKeeps ==
  ASSUME ListInv, NEW slot \in Slots, write[slot] # Nothing, ListTypeOK',
         UNCHANGED <<page, server, changes>>, confirming' \in {Nothing, confirming},
         \A s \in Slots : /\ s # slot => write'[s] = write[s]
                          /\ s = slot => write'[s] = Nothing \/ write'[s].is # "done"
                          /\ write'[s] # Nothing => /\ write[s] # Nothing
                                                     /\ write'[s].item = write[s].item
                                                     /\ write'[s].op = write[s].op,
         learnt' >= learnt, learnt' <= changes,
         \A i \in Items : doubt'[i] >= doubt[i],
         write[slot].is = "done" =>
            \/ learnt' >= write[slot].no
            \/ \A i \in Items : Touches(slot, i) => doubt'[i] >= write[slot].no,
         \A l \in loads' : l.got = NotLoaded \/ \E m \in loads : m.got = l.got /\ m.asOf = l.asOf
  PROVE  /\ Remembers /\ LoadsAreSnapshots' /\ WritesAreTold'
         /\ \A i \in Items : Behind(i) => Behind(i)' \/ learnt' >= write[slot].no
  <1>1. /\ changes \in Nat /\ learnt \in Nat /\ learnt' \in Nat
        /\ \A i \in Items : doubt[i] \in Nat /\ doubt'[i] \in Nat
        /\ \A s \in Slots : write[s] # Nothing => write[s].no \in Nat
        /\ write[slot].is = "done" => write[slot].no > 0
    BY PagesAssumption DEF ListInv, ListTypeOK, Writes, WritesAreTold
  <1>2. \A s \in Slots \ {slot}, i \in Items : Touches(s, i) => Touches(s, i)'
    BY DEF Touches
  <1>3. Remembers
    <2> SUFFICES ASSUME NEW i \in Items, NEW n \in Nat, Later(i, n) PROVE Later(i, n)'
      BY DEF Remembers
    <2>1. CASE learnt > n \/ doubt[i] > n
      BY <1>1, <2>1 DEF Later
    <2>2. ASSUME NEW s \in Slots, Touches(s, i), write[s].no > n PROVE Later(i, n)'
      <3>1. CASE s # slot
        BY <1>2, <2>2, <3>1 DEF Later
      <3>2. CASE s = slot
        BY <1>1, <2>2, <3>2 DEF Later, Touches
      <3> QED  BY <3>1, <3>2
    <2> QED  BY <2>1, <2>2 DEF Later
  <1>4. LoadsAreSnapshots'
    BY <1>1, <1>3, SnapshotsLast DEF ListInv, ListTypeOK
  <1>5. WritesAreTold'
    BY <1>1, <1>3, PagesAssumption DEF ListInv, WritesAreTold, Remembers
  <1>6. ASSUME NEW i \in Items, Behind(i) PROVE Behind(i)' \/ learnt' >= write[slot].no
    <2>1. CASE doubt[i] > 0
      BY <1>1, <2>1 DEF Behind
    <2>2. ASSUME NEW s \in Slots, Touches(s, i) PROVE Behind(i)' \/ learnt' >= write[slot].no
      <3>1. CASE s # slot
        BY <1>2, <2>2, <3>1 DEF Behind
      <3>2. CASE s = slot
        BY <1>1, <2>2, <3>2 DEF Behind, Touches
      <3> QED  BY <3>1, <3>2
    <2> QED  BY <1>6, <2>1, <2>2 DEF Behind
  <1> QED  BY <1>3, <1>4, <1>5, <1>6

LEMMA SucceededKeeps ==
  ASSUME ListInv, NEW slot \in Slots, Succeeded(slot)
  PROVE  ListInv'
  <1> DEFINE w == write[slot]
  <1>1. /\ UNCHANGED <<page, server, changes, armed, shownFor, doubt>>
        /\ w # Nothing /\ w.is = "done" /\ w \in Writes
        /\ write' = [write EXCEPT ![slot] = Nothing]
        /\ confirming' = IF slot = "row" THEN Nothing ELSE confirming
        /\ learnt' = Latest(learnt, w.no)
        /\ overtaken' = (overtaken \/ (page = "flags" /\ w.no < learnt))
    BY DEF Succeeded, serverVars, ListInv, ListTypeOK
  <1>2. /\ w.no \in 2..changes /\ w.no \in 0..MaxChanges + 1 /\ w.no \in Nat
        /\ learnt \in Nat /\ learnt \in 0..MaxChanges + 1 /\ changes \in Nat /\ learnt <= changes
        /\ doubt \in [Items -> Nat] /\ w.item \in Items \union {"others"}
    BY <1>1, PagesAssumption DEF ListInv, ListTypeOK, Writes, WritesAreTold
  <1>3. learnt' \in {learnt, w.no} /\ learnt' >= learnt /\ learnt' >= w.no
    BY <1>1, <1>2, LatestIs
  <1>4. /\ write' \in [Slots -> Writes \union {Nothing}] /\ write'[slot] = Nothing
        /\ \A s \in Slots \ {slot} : write'[s] = write[s]
    BY <1>1 DEF ListInv, ListTypeOK
  <1>5. confirming' \in Items \union {"others", Nothing} /\ overtaken' \in BOOLEAN
    BY <1>1 DEF ListInv, ListTypeOK
  <1>6. CASE page = "flags"
    <2>1. /\ shown' = Put(w) /\ UNCHANGED <<query, loads, loading, failed, reloading>>
      BY <1>6 DEF Succeeded
    <2>2. /\ w.item \in Items
          /\ shown' \in Lists /\ shown'[w.item] = Outcome(w)
          /\ \A i \in Items \ {w.item} : shown # NotLoaded => shown'[i] = shown[i]
      <3>1. w.item \in Items /\ Outcome(w) \in 0..MaxChanges + 1 /\ 0 \in 0..MaxChanges + 1
        BY <1>1, <1>2, <1>6, PagesAssumption DEF ListInv, WritesAreTold, Outcome
      <3>2. CASE shown = NotLoaded
        <4>1. shown' = [[i \in Items |-> 0] EXCEPT ![w.item] = Outcome(w)]
          BY <2>1, <3>2 DEF Put, Outcome
        <4> HIDE DEF w
        <4> QED  BY <3>1, <3>2, <4>1 DEF Lists
      <3>3. CASE shown # NotLoaded
        <4>1. /\ shown' = [shown EXCEPT ![w.item] = Outcome(w)]
              /\ shown \in [Items -> 0..MaxChanges + 1]
          BY <2>1, <3>3 DEF Put, Outcome, ListInv, ListTypeOK, Lists
        <4> HIDE DEF w
        <4> QED  BY <3>1, <3>3, <4>1 DEF Lists
      <3> QED  BY <3>2, <3>3
    <2>3. ListTypeOK'
      BY <1>1, <1>2, <1>3, <1>4, <1>5, <2>1, <2>2 DEF ListInv, ListTypeOK
    <2>4. Remembers /\ LoadsAreSnapshots' /\ WritesAreTold'
      BY <1>1, <1>2, <1>3, <1>4, <2>1, <2>3, OverKeeps DEF ListInv, ListTypeOK
    <2>5. NewestIsNewest' /\ QueryIsAnswered'
      BY <1>1, <1>6, <2>1 DEF ListInv, NewestIsNewest, QueryIsAnswered
    <2>6. ListIsCurrent'
      <3>1. shown' # NotLoaded
        BY <2>2, PagesAssumption DEF Lists
      <3> SUFFICES ASSUME NEW i \in Items, shown'[i] # server'[i]
                   PROVE  /\ Behind(i)' \/ learnt' > 0
                          /\ ~failed' /\ ~overtaken' => Behind(i)' \/ loading'
        BY <1>1, <1>6, <3>1 DEF ListIsCurrent
      <3>2. learnt' > 0
        BY <1>2, <1>3
      <3>3. CASE i = w.item
        <4>1. Later(i, w.no)
          BY <1>1, <2>2, <3>3 DEF ListInv, WritesAreTold
        <4>2. CASE learnt > w.no
          <5>1. w.no < learnt
            BY <1>2, <4>2
          <5>2. overtaken'
            BY <1>1, <1>6, <5>1, Zenon
          <5> QED  BY <3>2, <5>2
        <4>3. CASE doubt[i] > w.no
          BY <1>1, <1>2, <3>2, <4>3 DEF Behind
        <4>4. ASSUME NEW s \in Slots, Touches(s, i), write[s].no > w.no
              PROVE  Behind(i)'
          BY <1>2, <1>4, <4>4 DEF Behind, Touches
        <4> QED  BY <3>2, <4>1, <4>2, <4>3, <4>4 DEF Later
      <3>4. CASE i # w.item
        <4>1. Behind(i) => Behind(i)'
          BY <1>1, <1>4, <2>2, <3>4, PagesAssumption DEF Behind, Touches
        <4>2. overtaken => overtaken'
          BY <1>1, Zenon
        <4> QED  BY <1>1, <1>6, <2>1, <2>2, <3>2, <3>4, <4>1, <4>2 DEF ListInv, ListIsCurrent
      <3> QED  BY <3>3, <3>4
    <2> QED  BY <2>3, <2>4, <2>5, <2>6 DEF ListInv
  <1>7. CASE page # "flags"
    <2>1. LoadStarts(query, page = "users") /\ reloading' = (page = "users") /\ UNCHANGED shown
      BY <1>7 DEF Succeeded
    <2>2. query \in Queries /\ (page = "users") \in BOOLEAN
      BY DEF ListInv, ListTypeOK
    <2>3. /\ loads' \subseteq LoadType /\ loads' # {}
          /\ query' = query /\ failed' = FALSE
          /\ loading' = (page = "sessions" => shown = NotLoaded)
          /\ loading' \in BOOLEAN
          /\ \A m \in loads' :
                \/ m.newest /\ m.got = NotLoaded /\ m.for = query
                \/ ~m.newest /\ \E l \in loads : m.got = l.got /\ m.asOf = l.asOf /\ m.for = l.for
          /\ \A m, k \in loads' : m.newest /\ k.newest => m = k
      BY <2>1, <2>2, LoadIsStarted DEF ListInv
    <2>4. ListTypeOK'
      BY <1>1, <1>2, <1>3, <1>4, <1>5, <2>1, <2>3 DEF ListInv, ListTypeOK, LoadType
    <2>5. Remembers /\ LoadsAreSnapshots' /\ WritesAreTold'
      BY <1>1, <1>2, <1>3, <1>4, <2>3, <2>4, OverKeeps DEF ListInv, ListTypeOK
    <2>6. NewestIsNewest'
      BY <1>1, <2>3 DEF NewestIsNewest
    <2>7. QueryIsAnswered'
      BY <1>1, <2>3 DEF ListInv, QueryIsAnswered
    <2>8. ListIsCurrent'
      <3>1. learnt' > 0
        BY <1>2, <1>3
      <3> QED  BY <1>1, <2>1, <2>3, <3>1 DEF ListInv, ListIsCurrent
    <2> QED  BY <2>4, <2>5, <2>6, <2>7, <2>8 DEF ListInv
  <1> QED  BY <1>6, <1>7

LEMMA DoubtedIs ==
  ASSUME ListTypeOK, NEW slot \in Slots, write[slot] \in Writes,
         doubt' = Doubted(write[slot]),
         write[slot].is \in {"done", "refused"}
  PROVE  /\ doubt' \in [Items -> 0..MaxChanges + 1]
         /\ \A i \in Items : doubt'[i] >= doubt[i]
         /\ write[slot].is = "done" =>
               \A i \in Items : Touches(slot, i) => doubt'[i] >= write[slot].no
  <1>1. doubt \in [Items -> 0..MaxChanges + 1] /\ write[slot].no \in 0..MaxChanges + 1
        /\ \A i \in Items : doubt[i] \in Nat /\ write[slot].no \in Nat
    BY PagesAssumption DEF ListTypeOK, Writes
  <1>2. CASE write[slot].is = "refused"
    BY <1>1, <1>2 DEF Doubted
  <1>3. CASE write[slot].is = "done"
    <2>1. doubt' = [i \in Items |-> IF write[slot].item \in {i, "others"}
                                    THEN Latest(doubt[i], write[slot].no) ELSE doubt[i]]
      BY <1>3 DEF Doubted
    <2>2. \A i \in Items : /\ Latest(doubt[i], write[slot].no) \in 0..MaxChanges + 1
                           /\ Latest(doubt[i], write[slot].no) >= doubt[i]
                           /\ Latest(doubt[i], write[slot].no) >= write[slot].no
      BY <1>1, LatestIs
    <2> QED  BY <1>1, <2>1, <2>2 DEF Touches
  <1> QED  BY <1>2, <1>3

\* The answer is an error, or there is none.
LEMMA NotHeardKeeps ==
  ASSUME ListInv, NEW slot \in Slots, Errored(slot) \/ ChangeRejected(slot)
  PROVE  ListInv'
  <1>1. /\ UNCHANGED <<page, server, changes, armed, shown, shownFor, query, loads, loading,
                       failed, reloading, learnt, overtaken>>
        /\ write[slot] # Nothing /\ write[slot].is \in {"done", "refused"}
        /\ write[slot] \in Writes /\ doubt' = Doubted(write[slot])
        /\ confirming' \in {Nothing, confirming}
    BY DEF Errored, ChangeRejected, serverVars, ListInv, ListTypeOK
  <1>2. /\ doubt' \in [Items -> 0..MaxChanges + 1]
        /\ \A i \in Items : doubt'[i] >= doubt[i]
        /\ write[slot].is = "done" =>
               \A i \in Items : Touches(slot, i) => doubt'[i] >= write[slot].no
    BY <1>1, DoubtedIs DEF ListInv
  <1>3. /\ write' \in [Slots -> Writes \union {Nothing}]
        /\ \A s \in Slots : /\ s # slot => write'[s] = write[s]
                            /\ s = slot => write'[s] = Nothing \/ write'[s].is # "done"
                            /\ write'[s] # Nothing => /\ write[s] # Nothing
                                                      /\ write'[s].item = write[s].item
                                                      /\ write'[s].op = write[s].op
    <2>1. CASE Errored(slot)
      <3>1. write' = [write EXCEPT ![slot] = Nothing]
        BY <2>1 DEF Errored
      <3> QED  BY <3>1 DEF ListInv, ListTypeOK
    <2>2. CASE ChangeRejected(slot)
      <3>1. Becomes(slot, "stuck", 0) /\ 0 \in 0..MaxChanges + 1
        BY <2>2, PagesAssumption DEF ChangeRejected
      <3> QED  BY <1>1, <3>1, BecomesIs DEF ListInv
    <2> QED  BY <2>1, <2>2
  <1>4. ListTypeOK'
    BY <1>1, <1>2, <1>3 DEF ListInv, ListTypeOK
  <1>5. learnt <= changes /\ learnt' >= learnt
    BY <1>1, PagesAssumption DEF ListInv, WritesAreTold, ListTypeOK
  <1>6. Remembers /\ LoadsAreSnapshots' /\ WritesAreTold'
    BY <1>1, <1>2, <1>3, <1>4, <1>5, OverKeeps
  <1>7. NewestIsNewest' /\ QueryIsAnswered'
    BY <1>1 DEF ListInv, NewestIsNewest, QueryIsAnswered
  <1>8. ASSUME NEW i \in Items, Behind(i) PROVE Behind(i)'
    <2>1. /\ doubt[i] \in Nat /\ doubt'[i] \in Nat
          /\ write[slot].is = "done" => write[slot].no \in Nat /\ write[slot].no > 0
      BY <1>1, <1>2, PagesAssumption DEF ListInv, ListTypeOK, WritesAreTold
    <2>2. CASE doubt[i] > 0
      BY <1>2, <2>1, <2>2 DEF Behind
    <2>3. ASSUME NEW s \in Slots, Touches(s, i) PROVE Behind(i)'
      <3>1. CASE s # slot
        BY <1>3, <2>3, <3>1 DEF Behind, Touches
      <3>2. CASE s = slot
        <4>1. write[slot].is = "done" /\ doubt'[i] >= write[slot].no
          BY <1>2, <2>3, <3>2 DEF Touches
        <4> QED  BY <2>1, <4>1 DEF Behind
      <3> QED  BY <3>1, <3>2
    <2> QED  BY <1>8, <2>2, <2>3 DEF Behind
  <1>9. ListIsCurrent'
    BY <1>1, <1>8 DEF ListInv, ListIsCurrent
  <1> QED  BY <1>4, <1>6, <1>7, <1>9 DEF ListInv

LEMMA PersonAsks ==
  ASSUME ListInv,
         \/ CloseDialog \/ \E i \in Items \union {"others"} : OpenDialog(i)
         \/ \E op \in {"change", "remove", "add"}, i \in Items : Change(op, i)
         \/ Change("others", "others")
  PROVE  ListInv'
  <1>1. ASSUME CloseDialog \/ \E i \in Items \union {"others"} : OpenDialog(i)
        PROVE  ListInv'
    <2>1. /\ confirming' \in Items \union {"others", Nothing}
          /\ confirming' = "others" => page = "sessions"
      BY <1>1, PagesAssumption DEF CloseDialog, OpenDialog
    <2> QED  BY <1>1, <2>1, AskKeeps DEF CloseDialog, OpenDialog, serverVars
  <1>2. ASSUME NEW op \in {"change", "remove", "add", "others"}, NEW i \in Items \union {"others"},
               op = "others" <=> i = "others", Change(op, i)
        PROVE  ListInv'
    <2> DEFINE w == [op |-> op, item |-> i, is |-> "asked", no |-> 0]
    <2>1. w \in Writes /\ w.is = "asked" /\ w.op = op /\ w.item = i
      BY PagesAssumption DEF Writes
    <2>2. write' = [write EXCEPT ![Slot(op)] = w] /\ Slot(op) \in Slots /\ write[Slot(op)] = Nothing
      BY <1>2 DEF Change, Slot, Slots, Free
    <2>3. i = "others" => page = "sessions"
      <3>1. i = "others" => confirming = "others"
        BY <1>2 DEF Change, Offered
      <3> QED  BY <3>1 DEF ListInv, WritesAreTold
    <2>4. UNCHANGED <<page, server, changes, armed, shown, shownFor, query, loads, loading, failed,
                      reloading, confirming, learnt, overtaken, doubt>>
      BY <1>2 DEF Change, serverVars
    <2>5. /\ confirming' \in Items \union {"others", Nothing}
          /\ confirming' = "others" => page = "sessions"
      BY <2>4 DEF ListInv, ListTypeOK, WritesAreTold
    <2> QED  BY <1>2, <2>1, <2>2, <2>3, <2>4, <2>5, AskKeeps
  <1> QED  BY <1>1, <1>2, PagesAssumption

LEMMA NextListInv == ListInv /\ [ListNext]_listVars => ListInv'
  <1> SUFFICES ASSUME ListInv, [ListNext]_listVars PROVE ListInv'
    OBVIOUS
  <1>1. CASE UNCHANGED listVars
    BY <1>1, AskKeeps DEF listVars, ListInv, ListTypeOK, WritesAreTold
  <1> QED
    BY <1>1, ReloadKeeps, ServerListsKeeps, LoadLostKeeps, LoadAnsweredKeeps, LoadRejectedKeeps,
       PersonAsks, ServerChangesKeeps, SucceededKeeps, NotHeardKeeps DEF ListNext

\* The state of a list page is of its type, always.
THEOREM ListTypesHold == ListSpec => []ListTypeOK
  <1>1. ListInv => ListTypeOK
    BY DEF ListInv
  <1> QED  BY InitListInv, NextListInv, <1>1, PTL DEF ListSpec

\* A page that has its answers shows what the person made of the list, under the
\* search and the range it names: the users page for every order of answers, the
\* flags, sessions and passkeys as long as no answer to a change overtook that to
\* another, and each item but those whose change was never answered.
THEOREM WritesAreRead == ListSpec => []ReadsYourWrites
  <1>1. ListInv => ReadsYourWrites
    <2> SUFFICES ASSUME ListInv, Quiet, shown # NotLoaded, page = "users" \/ ~overtaken
                 PROVE  (\A i \in Items : doubt[i] = 0 => shown[i] = server[i]) /\ shownFor = query
      BY DEF ReadsYourWrites
    <2>1. \A i \in Items : Behind(i) => doubt[i] > 0
      BY DEF Behind, Touches, Quiet
    <2> QED  BY <2>1 DEF ListInv, ListIsCurrent, QueryIsAnswered, Quiet
  <1> QED  BY InitListInv, NextListInv, <1>1, PTL DEF ListSpec

-----------------------------------------------------------------------------
(* The two-factor page: the inductive invariant *)

\* Which control a call came from: the prompt, which stays open until its answer,
\* or the enrolment on screen.
CallsHaveTheirForm ==
    /\ call.op = "none" => call = NoCall
    /\ call.op \in Kinds => prompt = call.op /\ call.is # "stuck"
    /\ call.op = "verify" => setup # 0

\* An enrolment puts the codes of an earlier one away.
OneSetOnScreen == setup # 0 => backupCodes = 0

PromptAnswered == call.op \in Kinds /\ call.is = "done"

\* What an answer on its way will put on screen, and what is there, is the
\* account's: until an answer that brought codes is lost.
ScreenIsAccount ==
    /\ setup # 0 => factor.codes = setup
    /\ call.op = "verify" /\ call.is = "done" => factor.on
    /\ call.op = "enable" /\ call.is = "done" => call.codes = factor.codes
    /\ call.op = "regenerate" /\ call.is = "done" => factor.on /\ call.codes = factor.codes
    /\ call.op = "disable" /\ call.is = "done" => call.codes = 0
    /\ backupCodes # 0 /\ ~PromptAnswered => factor.on /\ factor.codes = backupCodes

FactorInv ==
    /\ FactorTypeOK
    /\ CallsHaveTheirForm
    /\ OneSetOnScreen
    /\ ~lost => ScreenIsAccount

LEMMA InitFactorInv == FactorInit => FactorInv
  <1> SUFFICES ASSUME FactorInit PROVE FactorInv
    OBVIOUS
  <1> USE IssuedAssumption DEF FactorInit, NoCall, Kinds
  <1>1. factor \in [on : BOOLEAN, codes : 0..MaxIssued] /\ issued \in 0..MaxIssued
    <2>1. CASE factor = [on |-> FALSE, codes |-> 0]
      BY <2>1
    <2>2. CASE factor = [on |-> TRUE, codes |-> 1]
      BY <2>2
    <2> QED  BY <2>1, <2>2
  <1>2. call \in [op : Kinds \union {"verify", "none"},
                 is : {"none", "asked", "done", "refused", "stuck"}, codes : 0..MaxIssued]
    OBVIOUS
  <1>3. FactorTypeOK
    BY <1>1, <1>2 DEF FactorTypeOK
  <1>4. CallsHaveTheirForm /\ OneSetOnScreen /\ ScreenIsAccount
    BY DEF CallsHaveTheirForm, OneSetOnScreen, ScreenIsAccount, PromptAnswered
  <1> QED  BY <1>3, <1>4 DEF FactorInv

LEMMA NextFactorInv == FactorInv /\ [FactorNext]_factorVars => FactorInv'
  <1> SUFFICES ASSUME FactorInv, [FactorNext]_factorVars PROVE FactorInv'
    OBVIOUS
  <1> USE IssuedAssumption DEF FactorInv, FactorTypeOK, CallsHaveTheirForm, OneSetOnScreen,
          ScreenIsAccount, PromptAnswered, NoCall, Kinds, twoFactorBusy
  <1>1. ASSUME NEW kind \in Kinds, openPrompt(kind) PROVE FactorInv'
    BY <1>1 DEF openPrompt
  <1>2. CASE closePrompt
    BY <1>2 DEF closePrompt
  <1>3. CASE submitPassword
    BY <1>3 DEF submitPassword, Asks
  <1>4. CASE verify
    BY <1>4 DEF verify, Asks
  <1>5. CASE cancelSetup
    BY <1>5 DEF cancelSetup
  <1>6. CASE ServerActs
    <2> UNCHANGED <<twoFactorEnabled, prompt, setup, backupCodes, lost>> /\ call.is = "asked"
      BY <1>6 DEF ServerActs
    <2>1. ASSUME call.op = "enable" \/ (call.op = "regenerate" /\ factor.on),
                 issued < MaxIssued, issued' = issued + 1,
                 factor' = [factor EXCEPT !.codes = issued'], Done(issued')
          PROVE  FactorInv'
      <3>1. issued' \in 0..MaxIssued
        BY <2>1
      <3>2. /\ factor' \in [on : BOOLEAN, codes : 0..MaxIssued]
            /\ factor'.on = factor.on /\ factor'.codes = issued'
        BY <2>1, <3>1
      <3>3. call'.op = call.op /\ call'.is = "done" /\ call'.codes = issued'
        BY <2>1 DEF Done
      <3>4. call' \in [op : Kinds \union {"verify", "none"},
                      is : {"none", "asked", "done", "refused", "stuck"}, codes : 0..MaxIssued]
        BY <2>1, <3>1 DEF Done
      <3>5. setup = 0
        BY <2>1
      <3> QED  BY <2>1, <3>1, <3>2, <3>3, <3>4, <3>5
    <2>2. ASSUME call.op = "verify", factor.codes # 0, factor' = [factor EXCEPT !.on = TRUE],
                 Done(0), UNCHANGED issued
          PROVE  FactorInv'
      BY <2>2 DEF Done
    <2>3. ASSUME call.op = "disable", factor' = [on |-> FALSE, codes |-> 0],
                 Done(0), UNCHANGED issued
          PROVE  FactorInv'
      BY <2>3 DEF Done
    <2>4. ASSUME call' = [call EXCEPT !.is = "refused"], UNCHANGED <<factor, issued>>
          PROVE  FactorInv'
      BY <2>4
    <2> QED  BY <1>6, <2>1, <2>2, <2>3, <2>4 DEF ServerActs
  <1>7. CASE StoreFollows
    BY <1>7 DEF StoreFollows
  <1>8. CASE startEnable
    BY <1>8 DEF startEnable
  <1>9. CASE Verified
    BY <1>9 DEF Verified
  <1>10. CASE PromptDone
    BY <1>10 DEF PromptDone
  <1>11. CASE Refused
    BY <1>11 DEF Refused, BringsCodes
  <1>12. CASE Rejected
    BY <1>12 DEF Rejected, BringsCodes
  <1>13. CASE UNCHANGED factorVars
    BY <1>13 DEF factorVars
  <1> QED
    BY <1>1, <1>2, <1>3, <1>4, <1>5, <1>6, <1>7, <1>8, <1>9, <1>10, <1>11, <1>12, <1>13
    DEF FactorNext

-----------------------------------------------------------------------------
(* The theorems on the two-factor page *)

\* The state of the page and of the account is of its type, always.
THEOREM FactorTypesHold == FactorSpec => []FactorTypeOK
  <1>1. FactorInv => FactorTypeOK
    BY DEF FactorInv
  <1> QED  BY InitFactorInv, NextFactorInv, <1>1, PTL DEF FactorSpec

\* The codes the page tells the person to keep are the account's: an enrolment
\* begun again, abandoned or refused, and a session store that lags behind, leave
\* no codes on screen that would not get anyone in.
THEOREM CodesToKeepWork == FactorSpec => []CodesShownWork
  <1>1. FactorInv => CodesShownWork
    BY DEF FactorInv, CallsHaveTheirForm, ScreenIsAccount, PromptAnswered, CodesShownWork,
           twoFactorBusy, NoCall, Kinds
  <1> QED  BY InitFactorInv, NextFactorInv, <1>1, PTL DEF FactorSpec

-----------------------------------------------------------------------------
(* What the account pages say: the inductive invariant *)

\* What a step may do to the account, its mails and its sessions.
ApiMoves ==
    /\ mails \subseteq mails' /\ account.secret <= account'.secret
    /\ \A d \in Devices : signedIn'[d] \in {0, signedIn[d]} \/ signedIn'[d] >= account.secret
    /\ account.secret # 0 /\ (account.verified \/ account.at = NoAddress) =>
           account'.verified \/ account'.at = NoAddress

ApiTypeOK ==
    /\ required \in BOOLEAN /\ account \in Account /\ mails \subseteq Mail
    /\ signedIn \in [Devices -> 0..MaxSecrets]

\* Without an account there is no session, and before the first no mail either.
AccountIsThere ==
    /\ account.secret = 0 => account.at = NoAddress /\ mails = {}
    /\ account.at = NoAddress => \A d \in Devices : signedIn[d] = 0

\* What an answer to a call stands for: the mail is out, or the sessions are new.
HoldsTrue(k, to, saw) ==
    /\ k = "signUp" => Mailed("verify", to)
    /\ k = "forgot" /\ saw.at = to => Mailed("reset", to)
    /\ k \in Reminders /\ saw.at = to /\ ~saw.verified => Mailed("verify", to)
    /\ k = "change" => IF saw.verified THEN Mailed("approve", saw.at) ELSE Mailed("confirm", to)
    /\ k = "delete" => Mailed("delete", saw.at)
    /\ k \in {"reset", "password"} => saw.secret <= account.secret /\ OnlyNewSessions(saw.secret)

\* The page a call that still has its reader came from.
OnItsPage(k) ==
    /\ k = "signUp" => sheet.at = "signup" /\ sheet.step = "form"
    /\ k = "signIn" => sheet.at = "login"
    /\ k = "forgot" => sheet.at = "forgot" /\ sheet.step = "form"
    /\ k = "reset" => sheet.at = "reset"
    /\ k = "look" => sheet.at = "verify" /\ sheet.step = "checking"

UnderWay(k) == errand[k].at \in {"sent", "answered"}

\* The page an emailed link lands on says no more than the link has done.
VerifyPageIsRight ==
    sheet.at = "verify" =>
        /\ account.secret # 0 /\ sheet.step \in {"checking", "done", "failed"}
        /\ sheet.step # "failed" => account.verified \/ account.at = NoAddress

CallsAreOfTheirPage ==
    \A k \in Errands :
        /\ k \in NeedsAddress /\ errand[k].at = "sent" => errand[k].email # NoAddress
        /\ errand[k].at # "answered" => errand[k].answer = "none"
        /\ UnderWay(k) /\ errand[k].reader = "here" => OnItsPage(k)

AnswersStand ==
    /\ \A k \in Errands :
         /\ errand[k].answer = "yes" => HoldsTrue(k, errand[k].email, errand[k].saw)
         /\ told[k] # Silent => HoldsTrue(k, told[k].to, told[k].saw)

\* The screens that name an inbox name the one that was written to.
InboxesStay ==
    /\ told["signUp"] # Silent =>
           sheet.at = "signup" /\ sheet.step = "inbox" /\ told["signUp"].to = sheet.email
    /\ told["forgot"] # Silent =>
           sheet.at = "forgot" /\ sheet.step = "sent" /\ told["forgot"].to = sheet.email

AccountInv == /\ AccountTypeOK /\ AccountIsThere /\ VerifyPageIsRight
              /\ CallsAreOfTheirPage /\ AnswersStand /\ InboxesStay

\* What a step does to the calls and to what is said: an answer that is taken for a yes is one
\* already, or what it stands for holds now; what is said was said, or is such an answer.
AnswerKept(k) ==
    errand'[k].answer = "yes" =>
        \/ errand[k].answer = "yes" /\ errand'[k].email = errand[k].email
           /\ errand'[k].saw = errand[k].saw
        \/ HoldsTrue(k, errand[k].email, errand[k].saw)'

ToldFrom(k) ==
    told'[k] # Silent =>
        \/ told'[k] = told[k]
        \/ errand[k].answer = "yes" /\ told'[k].to = errand[k].email
           /\ told'[k].saw = errand[k].saw

PageTypeOK == /\ sheet \in Sheets /\ told \in [Errands -> Claims \union {Silent}]
              /\ errand \in [Errands -> States] /\ asked \in 0..MaxAsked

PageKeeps == /\ PageTypeOK' /\ CallsAreOfTheirPage' /\ InboxesStay'
             /\ \A k \in Errands : AnswerKept(k) /\ ToldFrom(k)

LEMMA InitAccountInv == AccountInit => AccountInv
  <1> SUFFICES ASSUME AccountInit PROVE AccountInv
    OBVIOUS
  <1> USE AccountAssumption DEF AccountInit
  <1>1. /\ account \in Account /\ signedIn \in [Devices -> 0..MaxSecrets] /\ mails = {}
        /\ account.at = NoAddress => \A d \in Devices : signedIn[d] = 0
        /\ account.secret = 0 => account.at = NoAddress
    <2>1. CASE account = [at |-> NoAddress, verified |-> FALSE, secret |-> 0]
      <3>1. mails = {} /\ signedIn = [d \in Devices |-> 0]
        BY <2>1
      <3> QED  BY <2>1, <3>1 DEF Account, Somewhere
    <2>2. CASE \E a \in Addresses :
                 /\ account = [at |-> a, verified |-> TRUE, secret |-> 1]
                 /\ mails = {} /\ signedIn \in {[d \in Devices |-> IF d = "away" THEN 1 ELSE h] : h \in {0, 1}}
      <3>1. PICK a \in Addresses :
                 /\ account = [at |-> a, verified |-> TRUE, secret |-> 1]
                 /\ mails = {} /\ signedIn \in {[d \in Devices |-> IF d = "away" THEN 1 ELSE h] : h \in {0, 1}}
        BY <2>2
      <3>2. 1 \in 0..MaxSecrets
        OBVIOUS
      <3>3. account \in Account /\ account.at # NoAddress /\ account.secret # 0
        BY <3>1, <3>2 DEF Account, Somewhere
      <3>4. PICK h \in {0, 1} : signedIn = [d \in Devices |-> IF d = "away" THEN 1 ELSE h]
        BY <3>1
      <3>5. signedIn \in [Devices -> 0..MaxSecrets]
        BY <3>2, <3>4
      <3> QED  BY <3>1, <3>3, <3>5
    <2> QED  BY <2>1, <2>2
  <1>2. /\ sheet \in [at : Forms \union Shell, step : {"form"}, email : Somewhere, gate : BOOLEAN,
                      copy : [at : Somewhere, verified : BOOLEAN]]
    <2>1. CASE sheet = ShellOn("home", TheCopy)
      BY <1>1, <2>1 DEF ShellOn, TheCopy, Shell, Somewhere, Account
    <2>2. CASE \E at \in Forms, gate \in Gates : sheet = FormOn(at, NoAddress, gate)
      <3>1. PICK at \in Forms, gate \in Gates : sheet = FormOn(at, NoAddress, gate)
        BY <2>2
      <3>2. gate \in BOOLEAN
        BY <3>1 DEF Gates
      <3> QED  BY <3>1, <3>2 DEF FormOn, NoCopy, Somewhere
    <2> QED  BY <2>1, <2>2
  <1>3. /\ told = NothingTold /\ errand = [k \in Errands |-> Rest] /\ asked = 0
        /\ required \in BOOLEAN
    OBVIOUS
  <1>4. Rest \in States
    BY DEF Rest, Somewhere, Account, States
  <1>5. AccountTypeOK
    BY <1>1, <1>2, <1>3, <1>4 DEF AccountTypeOK, NothingTold, Sheets, Copies
  <1>6. AccountIsThere /\ VerifyPageIsRight
    BY <1>1, <1>2 DEF AccountIsThere, VerifyPageIsRight, Forms, Shell
  <1>7. CallsAreOfTheirPage /\ AnswersStand /\ InboxesStay
    <2>1. \A k \in Errands : errand[k].at = "idle" /\ errand[k].answer = "none" /\ told[k] = Silent
      BY <1>3 DEF Rest, NothingTold
    <2> QED  BY <2>1 DEF CallsAreOfTheirPage, AnswersStand, InboxesStay, UnderWay, Errands
  <1> QED  BY <1>5, <1>6, <1>7 DEF AccountInv

LEMMA SetsOfMails ==
    /\ \A a \in Addresses : VerificationTo(a) \in Mail /\ ResetTo(a) \in Mail /\ DeletionTo(a) \in Mail
    /\ \A a \in Addresses, b \in Addresses : Confirmation(a, b) \in Mail
    /\ \A b \in Addresses : account.at \in Addresses => ChangeTo(b) \in Mail
  BY DEF Mail, VerificationTo, ResetTo, DeletionTo, AboutItself, Confirmation, ChangeTo

LEMMA StandsStill ==
    ASSUME AccountInv, UNCHANGED <<account, signedIn, mails>>, UNCHANGED required
    PROVE  ApiMoves /\ ApiTypeOK' /\ AccountIsThere'
  BY DEF AccountInv, AccountTypeOK, ApiMoves, ApiTypeOK, AccountIsThere, Account, Devices

\* What a call carries is an address, where it needs one.
LEMMA CallsCarryAddresses ==
    ASSUME AccountInv, NEW k \in NeedsAddress, errand[k].at = "sent"
    PROVE  errand[k].email \in Addresses
  <1>1. k \in Errands
    BY DEF NeedsAddress, Errands, Reminders
  <1> QED  BY <1>1 DEF AccountInv, AccountTypeOK, CallsAreOfTheirPage, States, Somewhere

LEMMA ServedMoves ==
    ASSUME AccountInv, Served PROVE ApiMoves /\ ApiTypeOK' /\ AccountIsThere'
  <1> USE AccountAssumption DEF ApiMoves, ApiTypeOK, AccountIsThere
  <1>0. /\ account \in Account /\ signedIn \in [Devices -> 0..MaxSecrets] /\ mails \subseteq Mail
        /\ required \in BOOLEAN /\ AccountIsThere
        /\ 1 \in 0..MaxSecrets /\ account.secret \in 0..MaxSecrets /\ "here" \in Devices
    BY DEF AccountInv, AccountTypeOK, Devices, Account
  <1>1. CASE CreatesAccount
    <2>1. errand["signUp"].email \in Addresses
      BY <1>1, CallsCarryAddresses DEF CreatesAccount, Serves, NeedsAddress
    <2>2. /\ account.secret = 0 /\ UNCHANGED required
          /\ account' = [at |-> errand["signUp"].email, verified |-> FALSE, secret |-> 1]
          /\ signedIn' = signedIn \/ signedIn' = [signedIn EXCEPT !["here"] = 1]
          /\ mails' = mails \union {VerificationTo(errand["signUp"].email)}
      BY <1>1 DEF CreatesAccount, Serves
    <2>3. account' \in Account /\ account'.secret = 1 /\ account'.at # NoAddress
      BY <1>0, <2>1, <2>2 DEF Account, Somewhere
    <2>4. /\ signedIn' \in [Devices -> 0..MaxSecrets]
          /\ \A d \in Devices : signedIn'[d] \in {0, signedIn[d]} \/ signedIn'[d] >= account.secret
      BY <1>0, <2>2
    <2>5. mails' \subseteq Mail /\ mails \subseteq mails'
      BY <1>0, <2>1, <2>2, SetsOfMails
    <2> QED  BY <1>0, <2>2, <2>3, <2>4, <2>5
  <1>2. CASE Admits
    <2>1. errand["signIn"].email \in Addresses
      BY <1>2, CallsCarryAddresses DEF Admits, Serves, NeedsAddress
    <2>2. /\ account.at = errand["signIn"].email /\ UNCHANGED <<account, mails, required>>
          /\ signedIn' = signedIn \/ signedIn' = [signedIn EXCEPT !["here"] = account.secret]
      BY <1>2 DEF Admits, Serves
    <2>3. /\ signedIn' \in [Devices -> 0..MaxSecrets]
          /\ \A d \in Devices : signedIn'[d] \in {0, signedIn[d]} \/ signedIn'[d] >= account.secret
      BY <1>0, <2>2
    <2> QED  BY <1>0, <2>1, <2>2, <2>3
  <1>3. CASE \E k \in Errands : Reminds(k)
    <2>1. PICK k \in Errands : Reminds(k)
      BY <1>3
    <2>2. errand[k].email \in Addresses
      BY <2>1, CallsCarryAddresses DEF Reminds, Serves, NeedsAddress
    <2>3. /\ UNCHANGED <<account, signedIn, required>>
          /\ mails' = mails \/ (account.at = errand[k].email /\ mails' = mails \union {VerificationTo(account.at)})
      BY <2>1 DEF Reminds, Serves
    <2>4. mails' \subseteq Mail /\ mails \subseteq mails' /\ (mails' # mails => account.at \in Addresses)
      BY <1>0, <2>2, <2>3, SetsOfMails
    <2> QED  BY <1>0, <2>2, <2>3, <2>4
  <1>4. CASE MailsReset
    <2>2. errand["forgot"].email \in Addresses
      BY <1>4, CallsCarryAddresses DEF MailsReset, Serves, NeedsAddress
    <2>3. /\ UNCHANGED <<account, signedIn, required>>
          /\ mails' = mails \/ (account.at = errand["forgot"].email /\ mails' = mails \union {ResetTo(account.at)})
      BY <1>4 DEF MailsReset, Serves
    <2>4. mails' \subseteq Mail /\ mails \subseteq mails' /\ (mails' # mails => account.at \in Addresses)
      BY <1>0, <2>2, <2>3, SetsOfMails
    <2> QED  BY <1>0, <2>2, <2>3, <2>4
  <1>5. CASE ChangesPassword
    <2>1. /\ account.at # NoAddress
          /\ account.secret < MaxSecrets /\ account' = [account EXCEPT !.secret = account.secret + 1]
          /\ signedIn' = [d \in Devices |-> IF d = "here" THEN account.secret + 1 ELSE 0]
          /\ UNCHANGED <<mails, required>>
      BY <1>0, <1>5 DEF ChangesPassword, Serves
    <2>2. account' \in Account /\ account'.secret = account.secret + 1 /\ account'.at = account.at
          /\ account'.verified = account.verified /\ account.secret + 1 \in 0..MaxSecrets
      BY <1>0, <2>1 DEF Account
    <2>3. /\ signedIn' \in [Devices -> 0..MaxSecrets]
          /\ \A d \in Devices : signedIn'[d] \in {0, signedIn[d]} \/ signedIn'[d] >= account.secret
      BY <1>0, <2>1, <2>2
    <2> QED  BY <1>0, <2>1, <2>2, <2>3
  <1>6. CASE MailsChange
    <2>1. errand["change"].email \in Addresses /\ account.at \in Addresses
      BY <1>0, <1>6, CallsCarryAddresses DEF MailsChange, Serves, NeedsAddress, Account, Somewhere
    <2>2. /\ UNCHANGED <<account, signedIn, required>>
          /\ mails' = mails \union {ChangeTo(errand["change"].email)}
      BY <1>6 DEF MailsChange, Serves
    <2>3. ChangeTo(errand["change"].email) \in Mail
      BY <2>1, SetsOfMails
    <2> QED  BY <1>0, <2>1, <2>2, <2>3
  <1>7. CASE MailsDeletion
    <2>1. account.at \in Addresses
      BY <1>0, <1>7 DEF MailsDeletion, Account, Somewhere
    <2>2. /\ UNCHANGED <<account, signedIn, required>> /\ mails' = mails \union {DeletionTo(account.at)}
      BY <1>7 DEF MailsDeletion, Serves
    <2>3. DeletionTo(account.at) \in Mail
      BY <2>1, SetsOfMails
    <2> QED  BY <1>0, <2>1, <2>2, <2>3
  <1>8. CASE ResetsPassword /\ Serves("reset", "yes")
    <2>1. /\ account.at # NoAddress
          /\ account.secret < MaxSecrets /\ account' = [account EXCEPT !.secret = account.secret + 1]
          /\ signedIn' = [d \in Devices |-> 0] /\ UNCHANGED <<mails, required>>
      BY <1>8 DEF ResetsPassword, Serves
    <2>2. account' \in Account /\ account'.secret = account.secret + 1 /\ account'.at = account.at
          /\ account'.verified = account.verified
      BY <1>0, <2>1 DEF Account
    <2> QED  BY <1>0, <2>1, <2>2
  <1>9. CASE LooksUp \/ \E k \in Errands : Fails(k) \/ Throws(k)
    <2>1. UNCHANGED <<account, signedIn, mails>> /\ UNCHANGED required
      BY <1>9 DEF LooksUp, Serves, Fails, Throws, apiSide
    <2> QED  BY <2>1, StandsStill
  <1> QED  BY <1>1, <1>2, <1>3, <1>4, <1>5, <1>6, <1>7, <1>8, <1>9 DEF Served

LEMMA FollowedMoves ==
    ASSUME AccountInv, NEW mail \in mails, NEW d \in Devices, Follows(mail, d)
    PROVE  /\ ApiMoves /\ ApiTypeOK' /\ AccountIsThere'
           /\ account'.secret # 0 /\ asked' = asked
  <1> USE AccountAssumption DEF ApiMoves, ApiTypeOK, AccountIsThere
  <1>0. /\ account \in Account /\ signedIn \in [Devices -> 0..MaxSecrets] /\ mails \subseteq Mail
        /\ required \in BOOLEAN /\ AccountIsThere /\ account.secret \in 0..MaxSecrets
        /\ account.secret # 0 /\ required' = required /\ asked' = asked
    BY DEF AccountInv, AccountTypeOK, Devices, Account, Follows
  <1>1. mail.to \in Addresses /\ mail.from \in Addresses /\ mail.new \in Addresses
    BY <1>0 DEF Mail
  <1>2. CASE FollowsVerification(mail, d)
    <2>1. /\ account.at = mail.to /\ mails' = mails
          /\ account' = [account EXCEPT !.verified = TRUE]
          /\ signedIn' = signedIn \/ signedIn' = [signedIn EXCEPT ![d] = account.secret]
      BY <1>2 DEF FollowsVerification
    <2>2. account' \in Account /\ account'.at = account.at /\ account'.secret = account.secret
          /\ account'.verified
      BY <1>0, <2>1 DEF Account
    <2>3. /\ signedIn' \in [Devices -> 0..MaxSecrets]
          /\ \A e \in Devices : signedIn'[e] \in {0, signedIn[e]} \/ signedIn'[e] >= account.secret
      BY <1>0, <2>1
    <2> QED  BY <1>0, <1>1, <2>1, <2>2, <2>3
  <1>3. CASE FollowsApproval(mail, d)
    <2>1. /\ UNCHANGED <<account, signedIn>> /\ mails' = mails \union {Confirmation(mail.from, mail.new)}
      BY <1>3 DEF FollowsApproval
    <2>2. Confirmation(mail.from, mail.new) \in Mail
      BY <1>1, SetsOfMails
    <2> QED  BY <1>0, <2>1, <2>2
  <1>4. CASE FollowsConfirmation(mail, d)
    <2>1. /\ account.at = mail.from /\ account' = [account EXCEPT !.at = mail.new, !.verified = TRUE]
          /\ UNCHANGED <<signedIn, mails>>
      BY <1>4 DEF FollowsConfirmation
    <2>2. account' \in Account /\ account'.at = mail.new /\ account'.secret = account.secret
          /\ account'.verified
      BY <1>0, <1>1, <2>1 DEF Account, Somewhere
    <2> QED  BY <1>0, <1>1, <2>1, <2>2
  <1>5. CASE FollowsReset(mail, d)
    <2>1. CASE UNCHANGED <<account, signedIn, mails>>
      BY <1>0, <2>1, StandsStill
    <2>2. CASE ResetsPassword
      <3>1. /\ account.at # NoAddress
            /\ account.secret < MaxSecrets /\ account' = [account EXCEPT !.secret = account.secret + 1]
            /\ signedIn' = [e \in Devices |-> 0] /\ UNCHANGED mails
        BY <2>2 DEF ResetsPassword
      <3>2. account' \in Account /\ account'.secret = account.secret + 1 /\ account'.at = account.at
            /\ account'.verified = account.verified
        BY <1>0, <3>1 DEF Account
      <3> QED  BY <1>0, <3>1, <3>2
    <2> QED  BY <1>5, <2>1, <2>2 DEF FollowsReset
  <1>6. CASE FollowsDeletion(mail, d)
    <2>1. /\ account' = [account EXCEPT !.at = NoAddress, !.verified = FALSE]
          /\ signedIn' = [e \in Devices |-> 0] /\ UNCHANGED mails
      BY <1>6 DEF FollowsDeletion
    <2>2. account' \in Account /\ account'.secret = account.secret /\ account'.at = NoAddress
      BY <1>0, <2>1 DEF Account, Somewhere
    <2> QED  BY <1>0, <2>1, <2>2
  <1>7. CASE FollowsInVain(mail, d)
    BY <1>0, <1>7, StandsStill DEF FollowsInVain
  <1> QED  BY <1>2, <1>3, <1>4, <1>5, <1>6, <1>7 DEF Follows

LEMMA HoldsStays ==
    ASSUME ApiTypeOK, ApiTypeOK', ApiMoves, NEW k, NEW to, NEW saw \in Account,
           HoldsTrue(k, to, saw)
    PROVE  HoldsTrue(k, to, saw)'
  <1>1. \A kind, a : Mailed(kind, a) => Mailed(kind, a)'
    BY DEF Mailed, ApiMoves
  <1>2. saw.secret <= account.secret /\ OnlyNewSessions(saw.secret) =>
            saw.secret <= account'.secret /\ OnlyNewSessions(saw.secret)'
    BY DEF ApiTypeOK, ApiMoves, OnlyNewSessions, Account
  <1> QED  BY <1>1, <1>2 DEF HoldsTrue

LEMMA TypesOfBoth == AccountTypeOK <=> ApiTypeOK /\ PageTypeOK
  BY DEF AccountTypeOK, ApiTypeOK, PageTypeOK

LEMMA RestIs == /\ Rest \in States /\ Rest.at = "idle" /\ Rest.answer = "none"
                /\ Stuck \in States /\ Stuck.at = "stuck" /\ Stuck.answer = "none"
                /\ Rest.saw \in Account
  <1>1. Rest \in States /\ Rest.at = "idle" /\ Rest.answer = "none" /\ Rest.saw \in Account
    BY AccountAssumption DEF Rest, Somewhere, Account, States
  <1>2. ASSUME NEW r \in States
        PROVE  /\ [r EXCEPT !.at = "stuck"] \in States
               /\ [r EXCEPT !.at = "stuck"].at = "stuck"
               /\ [r EXCEPT !.at = "stuck"].answer = r.answer
    BY DEF States
  <1> QED  BY <1>1, <1>2 DEF Stuck

\* A page that gives way says nothing any more, and the calls it leaves have no reader there.
LEMMA DepartedIs ==
    ASSUME AccountInv, NEW how
    PROVE  /\ Departed(how) \in [Errands -> States]
           /\ \A k \in Errands :
                 \/ Departed(how)[k] = Rest
                 \/ /\ Departed(how)[k].at = errand[k].at /\ Departed(how)[k].reader # "here"
                    /\ Departed(how)[k].email = errand[k].email
                    /\ Departed(how)[k].answer = errand[k].answer
                    /\ Departed(how)[k].saw = errand[k].saw
  <1>1. \A k \in Errands : errand[k] \in States
    BY DEF AccountInv, AccountTypeOK
  <1>2. ASSUME NEW k \in Errands, NEW r \in {"left", "lost"}
        PROVE  LET e == [errand[k] EXCEPT !.reader = r]
               IN /\ e \in States /\ e.at = errand[k].at /\ e.reader # "here"
                  /\ e.email = errand[k].email /\ e.answer = errand[k].answer
                  /\ e.saw = errand[k].saw
    BY <1>1 DEF States
  <1>3. \A k \in Errands : \/ Departed(how)[k] = Rest
                          \/ \E r \in {"left", "lost"} : Departed(how)[k] = [errand[k] EXCEPT !.reader = r]
    BY DEF Departed
  <1>4. \A k \in Errands : Departed(how)[k] \in States
    BY <1>2, <1>3, RestIs
  <1>5. Departed(how) = [k \in Errands |-> Departed(how)[k]]
    BY DEF Departed
  <1>6. ASSUME NEW k \in Errands, Departed(how)[k] # Rest
        PROVE  /\ Departed(how)[k].at = errand[k].at /\ Departed(how)[k].reader # "here"
               /\ Departed(how)[k].email = errand[k].email
               /\ Departed(how)[k].answer = errand[k].answer
               /\ Departed(how)[k].saw = errand[k].saw
    <2>1. PICK r \in {"left", "lost"} : Departed(how)[k] = [errand[k] EXCEPT !.reader = r]
      BY <1>3, <1>6
    <2> QED  BY <1>2, <2>1
  <1> QED  BY <1>4, <1>5, <1>6

LEMMA Leaves ==
    ASSUME AccountInv, told' = NothingTold, asked' = asked, sheet' \in Sheets, NEW how,
           \/ errand' = Departed(how)
           \/ \E j \in Errands : errand' = [Departed(how) EXCEPT ![j] = Rest]
    PROVE  PageKeeps
  <1> DEFINE d == Departed(how)
  <1>1. /\ errand' \in [Errands -> States]
        /\ \A k \in Errands : errand'[k] = Rest \/ errand'[k] = d[k]
    BY DepartedIs, RestIs
  <1>2. \A k \in Errands : told'[k] = Silent
    BY DEF NothingTold
  <1>3. \A k \in Errands :
            \/ errand'[k] = Rest
            \/ /\ errand'[k].at = errand[k].at /\ errand'[k].reader # "here"
               /\ errand'[k].email = errand[k].email /\ errand'[k].answer = errand[k].answer
               /\ errand'[k].saw = errand[k].saw
    <2> HIDE DEF d
    <2>1. \A k \in Errands :
            \/ d[k] = Rest
            \/ /\ d[k].at = errand[k].at /\ d[k].reader # "here"
               /\ d[k].email = errand[k].email /\ d[k].answer = errand[k].answer
               /\ d[k].saw = errand[k].saw
      BY DepartedIs DEF d
    <2> QED  BY <1>1, <2>1
  <1>4. PageTypeOK'
    <2>1. told' \in [Errands -> Claims \union {Silent}]
      BY DEF NothingTold
    <2> QED  BY <1>1, <2>1 DEF PageTypeOK, AccountInv, AccountTypeOK
  <1>5. CallsAreOfTheirPage'
    BY <1>3, RestIs DEF AccountInv, CallsAreOfTheirPage, UnderWay
  <1>6. InboxesStay'
    BY <1>2 DEF InboxesStay, Errands
  <1>7. \A k \in Errands : AnswerKept(k) /\ ToldFrom(k)
    BY <1>2, <1>3, RestIs DEF AnswerKept, ToldFrom
  <1> QED  BY <1>4, <1>5, <1>6, <1>7 DEF PageKeeps

LEMMA ArrivesWell ==
    ASSUME AccountInv, ApiTypeOK', NEW at \in Forms \union Shell, NEW gate \in Gates,
           sheet' = Arriving(at, gate)
    PROVE  sheet' \in Sheets /\ sheet'.at # "verify"
  <1>1. gate \in BOOLEAN
    BY DEF Gates, AccountInv, AccountTypeOK
  <1>2. TheCopy' \in Copies
    BY DEF TheCopy, ApiTypeOK, Account, Copies
  <1>3. CASE signedIn'["here"] = 0 \/ at = "forgot"
    <2>1. PICK a \in Forms : sheet' = FormOn(a, NoAddress, gate)
      BY <1>3 DEF Arriving, Forms, Shell
    <2> QED  BY <1>1, <2>1 DEF FormOn, NoCopy, Sheets, Copies, Somewhere, Forms
  <1>4. CASE ~(signedIn'["here"] = 0 \/ at = "forgot")
    <2>1. PICK a \in Shell : sheet' = ShellOn(a, TheCopy')
      BY <1>4 DEF Arriving, Forms, Shell
    <2> QED  BY <1>2, <2>1 DEF ShellOn, Sheets, Somewhere, Shell
  <1> QED  BY <1>3, <1>4

LEMMA OpensWell ==
    ASSUME NEW at \in {"verify", "reset"},
           NEW step \in {"form", "failed", "checking", "done", "invalid", "open"},
           sheet' = Opened(at, step)
    PROVE  sheet' \in Sheets /\ sheet'.at = at /\ sheet'.step = step
  BY DEF Opened, NoCopy, Sheets, Copies, Somewhere

\* The page an emailed link landed on goes on saying what is so.
LEMMA VerifyStays ==
    ASSUME AccountInv, ApiMoves, ApiTypeOK',
           \/ sheet'.at # "verify"
           \/ sheet.at = "verify" /\ sheet'.step = sheet.step
           \/ sheet.at = "verify" /\ {sheet.step, sheet'.step} \subseteq {"checking", "done"}
    PROVE  VerifyPageIsRight'
  <1>1. account.secret # 0 => account'.secret # 0
    BY DEF ApiMoves, ApiTypeOK, AccountInv, AccountTypeOK, Account
  <1> QED  BY <1>1 DEF AccountInv, VerifyPageIsRight, ApiMoves

LEMMA GoesToWell ==
    ASSUME AccountInv, ApiTypeOK', ApiMoves, asked' = asked, NEW at \in Forms \union Shell, GoesTo(at), NEW how,
           \/ errand' = Departed(how)
           \/ \E j \in Errands : errand' = [Departed(how) EXCEPT ![j] = Rest]
    PROVE  PageKeeps /\ VerifyPageIsRight'
  <1>1. PICK gate \in Gates : sheet' = Arriving(at, gate)
    BY DEF GoesTo
  <1>2. sheet' \in Sheets /\ sheet'.at # "verify"
    BY <1>1, ArrivesWell
  <1> QED  BY <1>2, Leaves, VerifyStays DEF GoesTo

\* A call's answer changes nothing on the pages, and what it stands for holds.
LEMMA AnswersKeep ==
    ASSUME AccountInv, NEW k \in Errands, NEW e \in States, errand' = [errand EXCEPT ![k] = e],
           UNCHANGED <<sheet, told, asked>>,
           e.at \in {"idle", "stuck", "answered"}, e.at # "answered" => e.answer = "none",
           UnderWay(k), e.reader = errand[k].reader \/ e.at # "answered",
           e.answer = "yes" => HoldsTrue(k, errand[k].email, errand[k].saw)'
    PROVE  PageKeeps
  <1>1. /\ errand' \in [Errands -> States] /\ errand'[k] = e
        /\ \A j \in Errands \ {k} : errand'[j] = errand[j]
    BY DEF AccountInv, AccountTypeOK
  <1>2. PageTypeOK'
    BY <1>1 DEF PageTypeOK, AccountInv, AccountTypeOK
  <1>3. CallsAreOfTheirPage'
    <2>1. \A j \in Errands : OnItsPage(j) => OnItsPage(j)'
      BY DEF OnItsPage
    <2> QED  BY <1>1, <2>1 DEF AccountInv, CallsAreOfTheirPage, UnderWay
  <1>4. InboxesStay'
    BY DEF AccountInv, InboxesStay
  <1>5. \A j \in Errands : AnswerKept(j) /\ ToldFrom(j)
    BY <1>1 DEF AnswerKept, ToldFrom
  <1> QED  BY <1>2, <1>3, <1>4, <1>5 DEF PageKeeps

LEMMA WithAnswerIs ==
    ASSUME AccountInv, NEW k \in Errands, NEW answer \in {"yes", "no", "unverified"},
           NEW saw \in Account
    PROVE  LET e == WithAnswer(k, answer, saw)
           IN /\ e \in States /\ e.at = "answered" /\ e.reader = errand[k].reader
              /\ e.email = errand[k].email /\ e.answer = answer /\ e.saw = saw
  <1>1. ASSUME NEW r \in States
        PROVE  LET e == [r EXCEPT !.at = "answered", !.answer = answer, !.saw = saw]
               IN /\ e \in States /\ e.at = "answered" /\ e.reader = r.reader
                  /\ e.email = r.email /\ e.answer = answer /\ e.saw = saw
    BY DEF States
  <1>2. PICK r \in States : r = errand[k]
    BY DEF AccountInv, AccountTypeOK
  <1> QED  BY <1>1, <1>2 DEF WithAnswer

LEMMA ServesKeeps ==
    ASSUME AccountInv, ApiTypeOK', NEW k \in Errands,
           NEW answer \in {"yes", "no", "unverified"}, Serves(k, answer),
           answer = "yes" => \A to, saw : to = errand[k].email /\ saw = account' =>
                                 HoldsTrue(k, to, saw)'
    PROVE  PageKeeps
  <1> DEFINE e == WithAnswer(k, answer, account')
  <1>0. errand[k] \in States /\ account' \in Account /\ errand \in [Errands -> States]
    BY DEF AccountInv, AccountTypeOK, ApiTypeOK
  <1>1. /\ e \in States /\ e.at = "answered" /\ e.reader = errand[k].reader
        /\ e.email = errand[k].email /\ e.answer = answer /\ e.saw = account'
    BY <1>0, WithAnswerIs
  <1>2. errand' = [errand EXCEPT ![k] = e]
    BY DEF Serves
  <1>3. UNCHANGED <<sheet, told, asked>> /\ UnderWay(k)
    BY DEF Serves, UnderWay
  <1>4. errand'[k].email = errand[k].email /\ errand'[k].saw = account'
    BY <1>0, <1>1, <1>2
  <1>5. answer = "yes" => HoldsTrue(k, errand[k].email, errand[k].saw)'
    BY <1>4
  <1> HIDE DEF e
  <1> QED  BY <1>1, <1>2, <1>3, <1>5, AnswersKeep

\* What each answer that is a yes stands for, when it is given.
LEMMA ServedTruly ==
    ASSUME AccountInv, Served, ApiTypeOK' PROVE PageKeeps
  <1> USE DEF HoldsTrue, Mailed
  <1>0. /\ "signUp" \in Errands /\ "signIn" \in Errands /\ "forgot" \in Errands
        /\ "reset" \in Errands /\ "look" \in Errands /\ "change" \in Errands
        /\ "password" \in Errands /\ "delete" \in Errands
        /\ "reminder" \in Errands /\ "banner" \in Errands /\ Reminders = {"reminder", "banner"}
    BY DEF Errands, Reminders
  <1>1. CASE CreatesAccount
    <2>1. VerificationTo(errand["signUp"].email) \in mails' /\ Serves("signUp", "yes")
      BY <1>1 DEF CreatesAccount
    <2>2. \A to, saw : to = errand["signUp"].email /\ saw = account' => HoldsTrue("signUp", to, saw)'
      BY <1>0, <2>1 DEF VerificationTo, AboutItself
    <2> HIDE DEF HoldsTrue
    <2> QED  BY <1>0, <2>1, <2>2, ServesKeeps
  <1>2. CASE Admits
    <2>1. \A to, saw : HoldsTrue("signIn", to, saw)'
      BY <1>0
    <2>2. Serves("signIn", "unverified") \/ Serves("signIn", "yes")
      BY <1>2 DEF Admits
    <2> HIDE DEF HoldsTrue
    <2> QED  BY <1>0, <2>1, <2>2, ServesKeeps
  <1>3. ASSUME NEW k \in Errands, Reminds(k) PROVE PageKeeps
    <2>1. /\ k \in Reminders /\ account' = account /\ Serves(k, "yes")
          /\ account.at = errand[k].email /\ ~account.verified => VerificationTo(account.at) \in mails'
      BY <1>3 DEF Reminds
    <2>2. \A to, saw : to = errand[k].email /\ saw = account' => HoldsTrue(k, to, saw)'
      BY <1>0, <2>1 DEF VerificationTo, AboutItself
    <2> HIDE DEF HoldsTrue
    <2> QED  BY <2>1, <2>2, ServesKeeps
  <1>4. CASE MailsReset
    <2>1. /\ account' = account /\ Serves("forgot", "yes")
          /\ account.at = errand["forgot"].email => ResetTo(account.at) \in mails'
      BY <1>4 DEF MailsReset
    <2>2. \A to, saw : to = errand["forgot"].email /\ saw = account' => HoldsTrue("forgot", to, saw)'
      BY <1>0, <2>1 DEF ResetTo, AboutItself
    <2> HIDE DEF HoldsTrue
    <2> QED  BY <1>0, <2>1, <2>2, ServesKeeps
  <1>5. CASE ChangesPassword
    <2>1. /\ account' = [account EXCEPT !.secret = account.secret + 1] /\ account \in Account
          /\ signedIn' = [d \in Devices |-> IF d = "here" THEN account.secret + 1 ELSE 0]
          /\ Serves("password", "yes")
      BY <1>5 DEF ChangesPassword, AccountInv, AccountTypeOK
    <2>2. account'.secret = account.secret + 1 /\ account.secret \in Nat
      BY <2>1 DEF Account
    <2>3. \A d \in Devices : signedIn'[d] # 0 => signedIn'[d] >= account'.secret
      BY <2>1, <2>2 DEF Devices
    <2>4. ASSUME NEW to, NEW saw, saw = account' PROVE HoldsTrue("password", to, saw)'
      <3>1. saw.secret <= account'.secret /\ OnlyNewSessions(saw.secret)'
        BY <2>2, <2>3, <2>4 DEF OnlyNewSessions
      <3> QED  BY <1>0, <3>1
    <2> HIDE DEF HoldsTrue
    <2> QED  BY <1>0, <2>1, <2>4, ServesKeeps
  <1>6. CASE MailsChange
    <2>1. /\ account' = account /\ Serves("change", "yes")
          /\ ChangeTo(errand["change"].email) \in mails'
      BY <1>6 DEF MailsChange
    <2>2. \A to, saw : to = errand["change"].email /\ saw = account' => HoldsTrue("change", to, saw)'
      BY <1>0, <2>1 DEF ChangeTo, Confirmation
    <2> HIDE DEF HoldsTrue
    <2> QED  BY <1>0, <2>1, <2>2, ServesKeeps
  <1>7. CASE MailsDeletion
    <2>1. account' = account /\ Serves("delete", "yes") /\ DeletionTo(account.at) \in mails'
      BY <1>7 DEF MailsDeletion
    <2>2. \A to, saw : to = errand["delete"].email /\ saw = account' => HoldsTrue("delete", to, saw)'
      BY <1>0, <2>1 DEF DeletionTo, AboutItself
    <2> HIDE DEF HoldsTrue
    <2> QED  BY <1>0, <2>1, <2>2, ServesKeeps
  <1>8. CASE LooksUp
    <2>1. Serves("look", "yes") \/ Serves("look", "no")
      BY <1>8 DEF LooksUp
    <2>2. \A to, saw : HoldsTrue("look", to, saw)'
      BY <1>0
    <2> HIDE DEF HoldsTrue
    <2> QED  BY <1>0, <2>1, <2>2, ServesKeeps
  <1>9. CASE ResetsPassword /\ Serves("reset", "yes")
    <2>1. /\ account' = [account EXCEPT !.secret = account.secret + 1] /\ account \in Account
          /\ signedIn' = [d \in Devices |-> 0] /\ Serves("reset", "yes")
      BY <1>9 DEF ResetsPassword, AccountInv, AccountTypeOK
    <2>2. account'.secret = account.secret + 1 /\ account.secret \in Nat
      BY <2>1 DEF Account
    <2>3. \A d \in Devices : signedIn'[d] # 0 => signedIn'[d] >= account'.secret
      BY <2>1, <2>2 DEF Devices
    <2>4. ASSUME NEW to, NEW saw, saw = account' PROVE HoldsTrue("reset", to, saw)'
      <3>1. saw.secret <= account'.secret /\ OnlyNewSessions(saw.secret)'
        BY <2>2, <2>3, <2>4 DEF OnlyNewSessions
      <3> QED  BY <1>0, <3>1
    <2> HIDE DEF HoldsTrue
    <2> QED  BY <1>0, <2>1, <2>4, ServesKeeps
  <1>10. ASSUME NEW k \in Errands, Fails(k) PROVE PageKeeps
    <2> DEFINE e == WithAnswer(k, "no", Rest.saw)
    <2>0. errand[k] \in States /\ errand \in [Errands -> States] /\ Rest.saw \in Account
      BY RestIs DEF AccountInv, AccountTypeOK
    <2>1. e \in States /\ e.at = "answered" /\ e.reader = errand[k].reader /\ e.answer = "no"
      BY <2>0, WithAnswerIs
    <2>2. errand' = [errand EXCEPT ![k] = e]
      BY <1>10 DEF Fails
    <2>3. UNCHANGED <<sheet, told, asked>> /\ UnderWay(k)
      BY <1>10 DEF Fails, UnderWay
    <2> HIDE DEF e, HoldsTrue
    <2> QED  BY <2>1, <2>2, <2>3, AnswersKeep
  <1>11. ASSUME NEW k \in Errands, Throws(k) PROVE PageKeeps
    <2> DEFINE e == WithAnswer(k, "no", Rest.saw)
    <2>0. errand[k] \in States /\ errand \in [Errands -> States] /\ Rest.saw \in Account
      BY RestIs DEF AccountInv, AccountTypeOK
    <2>1. e \in States /\ e.at = "answered" /\ e.reader = errand[k].reader /\ e.answer = "no"
      BY <2>0, WithAnswerIs
    <2>3. UNCHANGED <<sheet, told, asked>> /\ UnderWay(k)
      BY <1>11 DEF Throws, UnderWay
    <2> HIDE DEF e, HoldsTrue
    <2>5. PICK f \in {e, Rest, Stuck} : errand' = [errand EXCEPT ![k] = f]
      BY <1>11 DEF Throws, e
    <2>6. /\ f \in States /\ f.at \in {"idle", "stuck", "answered"} /\ f.answer # "yes"
          /\ f.at # "answered" => f.answer = "none"
          /\ f.reader = errand[k].reader \/ f.at # "answered"
      BY <2>1, <2>5, RestIs
    <2> QED  BY <2>3, <2>5, <2>6, AnswersKeep
  <1> HIDE DEF HoldsTrue, Mailed
  <1> QED  BY <1>1, <1>2, <1>3, <1>4, <1>5, <1>6, <1>7, <1>8, <1>9, <1>10, <1>11 DEF Served

\* A call that has come back is over; what its handler says is what was answered.
LEMMA HandlersKeep ==
    ASSUME AccountInv, NEW k \in Errands, asked' = asked, Ends(k),
           told' = told \/ (Says(k) /\ errand[k].answer = "yes"), sheet' \in Sheets, InboxesStay',
           \A j \in Errands \ {k} : OnItsPage(j) => OnItsPage(j)'
    PROVE  PageKeeps
  <1>0. /\ errand \in [Errands -> States] /\ told \in [Errands -> Claims \union {Silent}]
        /\ sheet \in Sheets /\ errand[k] \in States
    BY DEF AccountInv, AccountTypeOK
  <1>1. /\ errand' \in [Errands -> States] /\ errand'[k] = Rest
        /\ \A j \in Errands \ {k} : errand'[j] = errand[j]
    BY <1>0, RestIs DEF Ends
  <1>2. /\ told' \in [Errands -> Claims \union {Silent}]
        /\ \A j \in Errands : ToldFrom(j)
    <2>1. CASE told' = told
      BY <1>0, <2>1 DEF ToldFrom
    <2>2. CASE Says(k) /\ errand[k].answer = "yes"
      <3> DEFINE c == [to |-> errand[k].email, copy |-> sheet.copy, saw |-> errand[k].saw]
      <3>1. c \in Claims /\ c.to = errand[k].email /\ c.saw = errand[k].saw
        BY <1>0 DEF Claims, States, Sheets
      <3>2. told' = [told EXCEPT ![k] = c]
        BY <2>2 DEF Says
      <3> HIDE DEF c
      <3>3. told'[k] = c /\ \A j \in Errands \ {k} : told'[j] = told[j]
        BY <1>0, <3>2
      <3> QED  BY <1>0, <2>2, <3>1, <3>2, <3>3 DEF ToldFrom
    <2> QED  BY <2>1, <2>2
  <1>3. CallsAreOfTheirPage'
    BY <1>1, RestIs DEF AccountInv, CallsAreOfTheirPage, UnderWay
  <1>4. \A j \in Errands : AnswerKept(j)
    BY <1>1, RestIs DEF AnswerKept
  <1> QED  BY <1>1, <1>2, <1>3, <1>4 DEF PageKeeps, PageTypeOK, AccountInv, AccountTypeOK

LEMMA HandledBackKeeps ==
    ASSUME AccountInv, HandledBack, ApiTypeOK', ApiMoves PROVE PageKeeps /\ VerifyPageIsRight'
  <1>0. /\ sheet \in Sheets /\ errand \in [Errands -> States] /\ InboxesStay
        /\ \A k \in Errands : errand[k] \in States
        /\ "signUp" \in Errands /\ "signIn" \in Errands /\ "forgot" \in Errands
        /\ "reset" \in Errands /\ "look" \in Errands
        /\ \A k \in Errands : UnderWay(k) /\ errand[k].reader = "here" => OnItsPage(k)
    BY DEF AccountInv, AccountTypeOK, Errands, CallsAreOfTheirPage
  <1>a. \A k \in Errands : ComesBack(k) => OnItsPage(k) /\ asked' = asked
    BY <1>0 DEF ComesBack, UnderWay
  <1>d. \A k \in Errands : errand[k].email \in Somewhere
    BY <1>0 DEF States
  <1>e. ASSUME NEW k \in Errands, GoesHome(k), asked' = asked PROVE PageKeeps /\ VerifyPageIsRight'
    <2>1. GoesTo("home") /\ errand' = [Departed("left") EXCEPT ![k] = Rest]
      BY <1>e DEF GoesHome
    <2> QED  BY <1>e, <2>1, GoesToWell DEF Shell
  <1>f. ASSUME NEW k \in {"signUp", "signIn", "forgot"}, ComesBack(k), TurnsDown(k)
        PROVE  PageKeeps /\ VerifyPageIsRight'
    <2>1. k \in Errands /\ Ends(k) /\ told' = told /\ asked' = asked /\ OnItsPage(k)
      BY <1>0, <1>a, <1>f DEF TurnsDown
    <2>2. /\ sheet' \in Sheets /\ sheet'.at = sheet.at /\ sheet'.step = sheet.step
      BY <1>0, <1>d, <1>f, <2>1 DEF TurnsDown, Sheets
    <2>3. \A j \in Errands : OnItsPage(j) => OnItsPage(j)'
      BY <2>2 DEF OnItsPage
    <2>4. told["signUp"] = Silent /\ told["forgot"] = Silent
      BY <1>0, <2>1 DEF OnItsPage, InboxesStay
    <2>5. InboxesStay'
      BY <1>0, <2>1, <2>4 DEF InboxesStay
    <2> QED  BY <2>1, <2>2, <2>3, <2>5, HandlersKeep, VerifyStays
  <1>1. CASE SignUpAnswered
    <2>1. CASE /\ errand["signUp"].answer = "yes" /\ Says("signUp") /\ Ends("signUp")
               /\ WritesBack("signUp", "inbox")
      <3>1. OnItsPage("signUp") /\ asked' = asked
        BY <1>0, <1>1, <1>a DEF SignUpAnswered
      <3>2. /\ sheet' \in Sheets /\ sheet'.at = sheet.at /\ sheet'.step = "inbox"
            /\ sheet'.email = errand["signUp"].email /\ sheet.at = "signup"
        BY <1>0, <1>d, <2>1, <3>1 DEF WritesBack, OnItsPage, Sheets
      <3>3. \A j \in Errands \ {"signUp"} : OnItsPage(j) => OnItsPage(j)'
        BY <3>2 DEF OnItsPage
      <3>4. told'["forgot"] = told["forgot"] /\ told'["signUp"].to = errand["signUp"].email
        BY <2>1, <1>0 DEF Says, AccountInv, AccountTypeOK
      <3>5. InboxesStay'
        BY <1>0, <3>2, <3>4 DEF InboxesStay
      <3> QED  BY <1>0, <2>1, <3>1, <3>2, <3>3, <3>5, HandlersKeep, VerifyStays
    <2> QED  BY <1>0, <1>1, <1>a, <1>e, <1>f, <2>1 DEF SignUpAnswered
  <1>2. CASE SignInAnswered
    <2>1. CASE Ends("signIn") /\ WritesBack("signIn", "unverified") /\ UNCHANGED told
      <3>1. OnItsPage("signIn") /\ asked' = asked
        BY <1>0, <1>2, <1>a DEF SignInAnswered
      <3>2. sheet' \in Sheets /\ sheet'.at = sheet.at /\ sheet.at = "login"
        BY <1>0, <1>d, <2>1, <3>1 DEF WritesBack, OnItsPage, Sheets
      <3>3. \A j \in Errands \ {"signIn"} : OnItsPage(j) => OnItsPage(j)'
        BY <3>2 DEF OnItsPage
      <3>4. InboxesStay'
        BY <1>0, <2>1, <3>2 DEF InboxesStay
      <3> QED  BY <1>0, <2>1, <3>1, <3>2, <3>3, <3>4, HandlersKeep, VerifyStays
    <2> QED  BY <1>0, <1>2, <1>a, <1>e, <1>f, <2>1 DEF SignInAnswered
  <1>3. CASE ForgotAnswered
    <2>1. CASE /\ errand["forgot"].answer = "yes" /\ Says("forgot") /\ Ends("forgot")
               /\ WritesBack("forgot", "sent")
      <3>1. OnItsPage("forgot") /\ asked' = asked
        BY <1>0, <1>3, <1>a DEF ForgotAnswered
      <3>2. /\ sheet' \in Sheets /\ sheet'.at = sheet.at /\ sheet'.step = "sent"
            /\ sheet'.email = errand["forgot"].email /\ sheet.at = "forgot"
        BY <1>0, <1>d, <2>1, <3>1 DEF WritesBack, OnItsPage, Sheets
      <3>3. \A j \in Errands \ {"forgot"} : OnItsPage(j) => OnItsPage(j)'
        BY <3>2 DEF OnItsPage
      <3>4. told'["signUp"] = told["signUp"] /\ told'["forgot"].to = errand["forgot"].email
        BY <2>1, <1>0 DEF Says, AccountInv, AccountTypeOK
      <3>5. InboxesStay'
        BY <1>0, <3>2, <3>4 DEF InboxesStay
      <3> QED  BY <1>0, <2>1, <3>1, <3>2, <3>3, <3>5, HandlersKeep, VerifyStays
    <2> QED  BY <1>0, <1>3, <1>a, <1>f, <2>1 DEF ForgotAnswered
  <1>4. CASE ResetAnswered
    <2>1. OnItsPage("reset") /\ asked' = asked /\ Ends("reset")
      BY <1>0, <1>4, <1>a DEF ResetAnswered
    <2>2. /\ told' = told \/ (Says("reset") /\ errand["reset"].answer = "yes")
          /\ sheet' = sheet \/ sheet' = [sheet EXCEPT !.step = "done"]
      BY <1>4 DEF ResetAnswered
    <2>3. /\ sheet' \in Sheets /\ sheet'.at = sheet.at /\ sheet.at = "reset"
      BY <1>0, <2>1, <2>2 DEF Sheets, OnItsPage
    <2>4. \A j \in Errands \ {"reset"} : OnItsPage(j) => OnItsPage(j)'
      BY <2>3 DEF OnItsPage
    <2>5. told'["signUp"] = told["signUp"] /\ told'["forgot"] = told["forgot"]
      BY <2>2, <1>0 DEF Says, AccountInv, AccountTypeOK
    <2>6. InboxesStay'
      BY <1>0, <2>3, <2>5 DEF InboxesStay
    <2> QED  BY <1>0, <2>1, <2>2, <2>3, <2>4, <2>6, HandlersKeep, VerifyStays
  <1>5. CASE LookAnswered
    <2>1. CASE sheet' = [sheet EXCEPT !.step = "done"] /\ Ends("look") /\ UNCHANGED told
      <3>1. OnItsPage("look") /\ asked' = asked
        BY <1>0, <1>5, <1>a DEF LookAnswered
      <3>2. /\ sheet' \in Sheets /\ sheet'.at = sheet.at /\ sheet.at = "verify"
            /\ sheet.step = "checking" /\ sheet'.step = "done"
        BY <1>0, <2>1, <3>1 DEF Sheets, OnItsPage
      <3>3. \A j \in Errands \ {"look"} : OnItsPage(j) => OnItsPage(j)'
        BY <3>2 DEF OnItsPage
      <3>4. InboxesStay'
        BY <1>0, <2>1, <3>2 DEF InboxesStay
      <3> QED  BY <1>0, <2>1, <3>1, <3>2, <3>3, <3>4, HandlersKeep, VerifyStays
    <2> QED  BY <1>0, <1>5, <1>a, <1>e, <2>1 DEF LookAnswered
  <1>6. ASSUME NEW k \in Errands, ReminderAnswered(k) \/ SettingAnswered(k)
        PROVE  PageKeeps /\ VerifyPageIsRight'
    <2>1. /\ asked' = asked /\ Ends(k) /\ sheet' = sheet /\ k \notin {"signUp", "forgot"}
          /\ told' = told \/ (Says(k) /\ errand[k].answer = "yes")
      BY <1>6 DEF ReminderAnswered, SettingAnswered, ComesBack, Reminders
    <2>2. told'["signUp"] = told["signUp"] /\ told'["forgot"] = told["forgot"]
      BY <2>1, <1>0 DEF Says, AccountInv, AccountTypeOK
    <2>3. InboxesStay'
      BY <1>0, <2>1, <2>2 DEF InboxesStay
    <2>4. \A j \in Errands : OnItsPage(j) => OnItsPage(j)'
      BY <2>1 DEF OnItsPage
    <2>5. sheet' \in Sheets /\ (sheet'.at # "verify" \/ (sheet.at = "verify" /\ sheet'.step = sheet.step))
      BY <1>0, <2>1
    <2> QED  BY <2>1, <2>3, <2>4, <2>5, HandlersKeep, VerifyStays
  <1>7. ASSUME NEW k \in Errands, ComesTooLate(k) PROVE PageKeeps /\ VerifyPageIsRight'
    <2>0. asked' = asked
      BY <1>7 DEF ComesTooLate
    <2>1. CASE Ends(k) /\ UNCHANGED <<sheet, told>>
      <3>1. InboxesStay'
        BY <1>0, <2>1 DEF InboxesStay
      <3>2. \A j \in Errands : OnItsPage(j) => OnItsPage(j)'
        BY <2>1 DEF OnItsPage
      <3>3. sheet' \in Sheets /\ (sheet'.at # "verify" \/ (sheet.at = "verify" /\ sheet'.step = sheet.step))
        BY <1>0, <2>1
      <3> QED  BY <2>0, <2>1, <3>1, <3>2, <3>3, HandlersKeep, VerifyStays
    <2> QED  BY <1>7, <1>e, <2>0, <2>1 DEF ComesTooLate
  <1> QED  BY <1>1, <1>2, <1>3, <1>4, <1>5, <1>6, <1>7 DEF HandledBack

\* A page that stays as it is, and calls that stay where they are.
LEMMA PageStays ==
    ASSUME AccountInv, ApiTypeOK', ApiMoves, UNCHANGED <<sheet, told, errand, asked>>
    PROVE  PageKeeps /\ VerifyPageIsRight'
  <1>1. PageTypeOK' /\ CallsAreOfTheirPage' /\ InboxesStay'
    BY DEF AccountInv, AccountTypeOK, PageTypeOK, CallsAreOfTheirPage, UnderWay, OnItsPage, InboxesStay
  <1>2. \A k \in Errands : AnswerKept(k) /\ ToldFrom(k)
    BY DEF AnswerKept, ToldFrom
  <1> QED  BY <1>1, <1>2, VerifyStays DEF PageKeeps

LEMMA TypingKeeps ==
    ASSUME AccountInv, NEW a \in Addresses, TypesAddress(a), ApiTypeOK', ApiMoves
    PROVE  PageKeeps /\ VerifyPageIsRight'
  <1>1. /\ UNCHANGED <<told, errand, asked>> /\ HasField
        /\ sheet' = [sheet EXCEPT !.email = a] /\ sheet \in Sheets /\ InboxesStay
    BY DEF TypesAddress, AccountInv, AccountTypeOK
  <1>2. sheet' \in Sheets /\ sheet'.at = sheet.at /\ sheet'.step = sheet.step
    BY <1>1 DEF Sheets, Somewhere
  <1>3. InboxesStay'
    BY <1>1, <1>2 DEF InboxesStay, HasField
  <1>4. CallsAreOfTheirPage'
    BY <1>1, <1>2 DEF AccountInv, CallsAreOfTheirPage, UnderWay, OnItsPage
  <1>5. PageTypeOK'
    BY <1>1, <1>2 DEF AccountInv, AccountTypeOK, PageTypeOK
  <1>6. \A k \in Errands : AnswerKept(k) /\ ToldFrom(k)
    BY <1>1 DEF AnswerKept, ToldFrom
  <1> QED  BY <1>2, <1>3, <1>4, <1>5, <1>6, VerifyStays DEF PageKeeps

LEMMA SendingKeeps ==
    ASSUME AccountInv, NEW k \in Errands, Sends(k), ApiTypeOK', ApiMoves
    PROVE  PageKeeps /\ VerifyPageIsRight'
  <1>0. /\ sheet \in Sheets /\ errand[k] \in States /\ errand \in [Errands -> States]
        /\ told \in [Errands -> Claims \union {Silent}] /\ asked \in 0..MaxAsked
        /\ InboxesStay /\ CallsAreOfTheirPage
    BY DEF AccountInv, AccountTypeOK
  <1>1. PICK a \in Carried(k) : /\ k \in NeedsAddress => a # NoAddress
                               /\ errand' = [errand EXCEPT ![k] = [errand[k] EXCEPT !.at = "sent", !.email = a]]
    BY <1>0 DEF Sends
  <1>2. a \in Somewhere
    BY <1>0 DEF Carried, Sheets, Somewhere, Copies
  <1>3. ASSUME NEW r \in States
        PROVE  LET new == [r EXCEPT !.at = "sent", !.email = a]
               IN new \in States /\ new.at = "sent" /\ new.email = a /\ new.answer = r.answer
    BY <1>2 DEF States
  <1>4. PICK e \in States : /\ errand' = [errand EXCEPT ![k] = e]
                           /\ e.at = "sent" /\ e.email = a /\ e.answer = errand[k].answer
    BY <1>0, <1>1, <1>3
  <1>5. /\ errand' \in [Errands -> States] /\ errand'[k] = e
        /\ \A j \in Errands \ {k} : errand'[j] = errand[j]
    BY <1>0, <1>4
  <1>6. errand[k].answer = "none" /\ Offers(k)
    BY <1>0 DEF Sends, CallsAreOfTheirPage
  <1>7. /\ told' \in [Errands -> Claims \union {Silent}] /\ asked' \in 0..MaxAsked
        /\ told'[k] = Silent /\ \A j \in Errands \ {k} : told'[j] = told[j]
    BY <1>0, AccountAssumption DEF Sends
  <1>8. /\ sheet' \in Sheets /\ sheet'.at = sheet.at /\ sheet'.email = sheet.email
        /\ sheet' = sheet \/ (k = "signIn" /\ sheet.at = "login")
    <2>1. CASE k = "signIn"
      <3>1. sheet' = [sheet EXCEPT !.step = "form"] /\ sheet.at = "login"
        BY <1>6, <2>1 DEF Sends, Offers, Reminders
      <3> QED  BY <1>0, <2>1, <3>1 DEF Sheets
    <2>2. CASE k # "signIn"
      BY <1>0, <2>2 DEF Sends
    <2> QED  BY <2>1, <2>2
  <1>9. OnItsPage(k)'
    <2>1. OnItsPage(k)
      BY <1>6 DEF OnItsPage, Offers
    <2> QED  BY <1>8, <2>1 DEF OnItsPage
  <1>10. \A j \in Errands : OnItsPage(j) => OnItsPage(j)'
    BY <1>8 DEF OnItsPage
  <1>11. CallsAreOfTheirPage'
    BY <1>0, <1>1, <1>4, <1>5, <1>6, <1>9, <1>10 DEF CallsAreOfTheirPage, UnderWay
  <1>12. InboxesStay'
    BY <1>0, <1>7, <1>8 DEF InboxesStay, Errands
  <1>13. \A j \in Errands : AnswerKept(j) /\ ToldFrom(j)
    BY <1>4, <1>5, <1>6, <1>7 DEF AnswerKept, ToldFrom
  <1>14. VerifyPageIsRight'
    BY <1>8, VerifyStays
  <1> QED  BY <1>5, <1>7, <1>8, <1>11, <1>12, <1>13, <1>14 DEF PageKeeps, PageTypeOK

LEMMA VisitingKeeps ==
    ASSUME AccountInv, NEW at \in Forms \union Shell, Visits(at), ApiTypeOK', ApiMoves
    PROVE  PageKeeps /\ VerifyPageIsRight'
  <1>1. errand' = Departed("left") /\ asked' = asked
    BY DEF Visits
  <1>2. CASE GoesTo(at)
    BY <1>1, <1>2, GoesToWell
  <1>3. CASE /\ \E gate \in Gates : sheet' = FormOn(at, sheet.email, gate)
             /\ told' = NothingTold /\ at = "forgot"
    <2>1. PICK gate \in Gates : sheet' = FormOn(at, sheet.email, gate)
      BY <1>3
    <2>2. gate \in BOOLEAN /\ sheet \in Sheets
      BY DEF Gates, AccountInv, AccountTypeOK
    <2>3. sheet' \in Sheets /\ sheet'.at # "verify"
      BY <1>3, <2>1, <2>2 DEF FormOn, NoCopy, Sheets, Copies, Somewhere, Forms
    <2> QED  BY <1>1, <1>3, <2>3, Leaves, VerifyStays
  <1> QED  BY <1>2, <1>3 DEF Visits

LEMMA MovingKeeps ==
    ASSUME AccountInv, NEW at \in Forms \union Shell, MovesWithin(at), ApiTypeOK', ApiMoves
    PROVE  PageKeeps /\ VerifyPageIsRight'
  <1>0. /\ sheet \in Sheets /\ errand \in [Errands -> States] /\ "banner" \in Errands
        /\ told \in [Errands -> Claims \union {Silent}] /\ asked' = asked
        /\ CallsAreOfTheirPage
    BY DEF AccountInv, AccountTypeOK, MovesWithin, Errands, Reminders
  <1>1. sheet' = [sheet EXCEPT !.at = at] /\ at \in Shell
    BY DEF MovesWithin
  <1>2. sheet' \in Sheets /\ sheet'.at = at
    BY <1>0, <1>1 DEF Sheets
  <1>3. /\ told' \in [Errands -> Claims \union {Silent}]
        /\ \A k \in Errands : told'[k] = Silent \/ (k = "banner" /\ told'[k] = told[k])
    BY <1>0 DEF MovesWithin
  <1>4. /\ errand' \in [Errands -> States]
        /\ \A k \in Errands : \/ k = "banner" /\ errand'[k] = errand[k]
                              \/ errand'[k] = Departed("left")[k]
    <2>1. errand' = [Departed("left") EXCEPT !["banner"] = errand["banner"]]
      BY DEF MovesWithin
    <2> QED  BY <1>0, <2>1, DepartedIs
  <1>5. \A k \in Errands :
            \/ k = "banner" /\ errand'[k] = errand[k]
            \/ errand'[k] = Rest
            \/ /\ errand'[k].at = errand[k].at /\ errand'[k].reader # "here"
               /\ errand'[k].email = errand[k].email /\ errand'[k].answer = errand[k].answer
               /\ errand'[k].saw = errand[k].saw
    <2> DEFINE d == Departed("left")
    <2>1. \A k \in Errands :
            \/ d[k] = Rest
            \/ /\ d[k].at = errand[k].at /\ d[k].reader # "here"
               /\ d[k].email = errand[k].email /\ d[k].answer = errand[k].answer
               /\ d[k].saw = errand[k].saw
      BY DepartedIs
    <2>2. \A k \in Errands : errand'[k] = d[k] \/ (k = "banner" /\ errand'[k] = errand[k])
      BY <1>4
    <2> HIDE DEF d
    <2> QED  BY <2>1, <2>2
  <1>6. CallsAreOfTheirPage'
    BY <1>0, <1>5, RestIs DEF CallsAreOfTheirPage, UnderWay, OnItsPage
  <1>7. InboxesStay'
    BY <1>3 DEF InboxesStay, Errands
  <1>8. \A k \in Errands : AnswerKept(k) /\ ToldFrom(k)
    BY <1>3, <1>5, RestIs DEF AnswerKept, ToldFrom
  <1>9. PageTypeOK'
    BY <1>0, <1>2, <1>3, <1>4 DEF PageTypeOK, AccountInv, AccountTypeOK
  <1>10. VerifyPageIsRight'
    BY <1>1, <1>2, VerifyStays DEF Shell
  <1> QED  BY <1>6, <1>7, <1>8, <1>9, <1>10 DEF PageKeeps

LEMMA ReloadingKeeps ==
    ASSUME AccountInv, Reloads \/ Refreshes, ApiTypeOK', ApiMoves
    PROVE  PageKeeps /\ VerifyPageIsRight'
  <1>0. sheet \in Sheets /\ VerifyPageIsRight
    BY DEF AccountInv, AccountTypeOK
  <1>1. CASE Reloads
    <2>1. told' = NothingTold /\ errand' = Departed("lost") /\ asked' = asked
      BY <1>1 DEF Reloads
    <2>2. CASE sheet.at \in {"verify", "reset"}
      <3>1. PICK step \in {"failed", "checking", "invalid", "open"} :
              /\ sheet' = Opened(sheet.at, step)
              /\ step = sheet.step \/ (step = "checking" /\ sheet.step \notin {"failed", "invalid"}) \/ sheet.at = "reset"
        <4>1. CASE sheet.step \in {"failed", "invalid"}
          BY <1>1, <2>2, <4>1 DEF Reloads
        <4>2. CASE sheet.step \notin {"failed", "invalid"}
          BY <1>1, <2>2, <4>2 DEF Reloads
        <4> QED  BY <4>1, <4>2
      <3>2. sheet' \in Sheets /\ sheet'.at = sheet.at /\ sheet'.step = step
        BY <2>2, <3>1, OpensWell
      <3>3. sheet.at = "verify" => sheet'.step = sheet.step \/ {sheet.step, sheet'.step} \subseteq {"checking", "done"}
        BY <1>0, <3>1, <3>2 DEF VerifyPageIsRight
      <3> QED  BY <2>1, <3>2, <3>3, Leaves, VerifyStays
    <2>3. CASE sheet.at \notin {"verify", "reset"}
      <3>1. sheet.at \in Forms \union Shell
        BY <1>0, <2>3 DEF Sheets
      <3>2. GoesTo(sheet.at)
        BY <1>1, <2>1, <2>3 DEF Reloads, GoesTo
      <3>3. PICK at \in Forms \union Shell : at = sheet.at
        BY <3>1
      <3> QED  BY <2>1, <3>2, <3>3, GoesToWell
    <2> QED  BY <2>2, <2>3
  <1>2. CASE Refreshes
    <2>1. CASE GoesTo("login") /\ errand' = Departed("left")
      BY <1>2, <2>1, GoesToWell DEF Refreshes, Forms
    <2>2. CASE sheet' = [sheet EXCEPT !.copy = TheCopy] /\ UNCHANGED <<told, errand>>
      <3>1. TheCopy \in Copies /\ sheet.at \in Shell /\ asked' = asked
        BY <1>2 DEF TheCopy, AccountInv, AccountTypeOK, Account, Copies, Refreshes
      <3>2. sheet' \in Sheets /\ sheet'.at = sheet.at /\ sheet'.step = sheet.step /\ sheet'.email = sheet.email
        BY <1>0, <2>2, <3>1 DEF Sheets
      <3>3. CallsAreOfTheirPage'
        BY <2>2, <3>2 DEF AccountInv, CallsAreOfTheirPage, UnderWay, OnItsPage
      <3>4. InboxesStay'
        BY <2>2, <3>2 DEF AccountInv, InboxesStay
      <3>5. PageTypeOK'
        BY <2>2, <3>1, <3>2 DEF AccountInv, AccountTypeOK, PageTypeOK
      <3>6. \A k \in Errands : AnswerKept(k) /\ ToldFrom(k)
        BY <2>2 DEF AnswerKept, ToldFrom
      <3> QED  BY <3>1, <3>2, <3>3, <3>4, <3>5, <3>6, VerifyStays DEF PageKeeps, Shell
    <2> QED  BY <1>2, <2>1, <2>2 DEF Refreshes
  <1> QED  BY <1>1, <1>2

LEMMA LandingKeeps ==
    ASSUME AccountInv, NEW mail \in mails, NEW d \in Devices, Follows(mail, d), ApiTypeOK', ApiMoves,
           account'.secret # 0, asked' = asked
    PROVE  PageKeeps /\ VerifyPageIsRight'
  <1>1. CASE UNCHANGED <<sheet, told, errand>>
    BY <1>1, PageStays
  <1>2. CASE ~UNCHANGED <<sheet, told, errand>>
    <2> DEFINE L(landing) == sheet' = landing /\ told' = NothingTold /\ errand' = Departed("lost")
    <2>1. \A landing : Lands(d, landing) => L(landing)
      BY <1>2 DEF Lands
    <2>2. \A gate \in Gates : L(Arriving("settings", gate)) \/ L(Arriving("home", gate))
              => PageKeeps /\ VerifyPageIsRight'
      BY ArrivesWell, Leaves, VerifyStays DEF Shell
    <2>3. ASSUME NEW at \in {"verify", "reset"}, NEW step \in {"form", "failed", "checking", "invalid"},
                 L(Opened(at, step)),
                 at = "verify" => step = "failed" \/ (step = "checking" /\ account'.verified)
          PROVE  PageKeeps /\ VerifyPageIsRight'
      <3>1. sheet' \in Sheets /\ sheet'.at = at /\ sheet'.step = step
        BY <2>3, OpensWell
      <3>2. VerifyPageIsRight'
        BY <2>3, <3>1 DEF VerifyPageIsRight
      <3> QED  BY <2>3, <3>1, <3>2, Leaves
    <2>4. CASE FollowsVerification(mail, d)
      <3>1. account' = [account EXCEPT !.verified = TRUE] /\ account \in Account
        BY <2>4 DEF FollowsVerification, AccountInv, AccountTypeOK
      <3>2. account'.verified
        BY <3>1 DEF Account
      <3>3. L(Opened("verify", "checking"))
        BY <2>1, <2>4 DEF FollowsVerification
      <3> HIDE DEF L
      <3> QED  BY <2>3, <3>2, <3>3
    <2>5. CASE FollowsReset(mail, d)
      <3>1. L(Opened("reset", "form"))
        BY <2>1, <2>5 DEF FollowsReset
      <3> HIDE DEF L
      <3> QED  BY <2>3, <3>1
    <2>6. CASE FollowsInVain(mail, d)
      <3>1. \/ L(Opened("verify", "failed")) \/ L(Opened("reset", "invalid"))
            \/ \E gate \in Gates : L(Arriving("settings", gate))
        BY <2>1, <2>6 DEF FollowsInVain
      <3> HIDE DEF L
      <3> QED  BY <2>2, <2>3, <3>1
    <2>7. CASE FollowsApproval(mail, d) \/ FollowsConfirmation(mail, d) \/ FollowsDeletion(mail, d)
      <3>1. \E gate \in Gates : L(Arriving("settings", gate)) \/ L(Arriving("home", gate))
        BY <2>1, <2>7 DEF FollowsApproval, FollowsConfirmation, FollowsDeletion
      <3> HIDE DEF L
      <3> QED  BY <2>2, <3>1
    <2> QED  BY <2>4, <2>5, <2>6, <2>7 DEF Follows
  <1> QED  BY <1>1, <1>2

\* One step of the pages, of the API or of somebody who follows a mailed link.
LEMMA AccountStep ==
    ASSUME AccountInv, AccountNext PROVE AccountInv'
  <1>1. /\ ApiMoves /\ ApiTypeOK' /\ AccountIsThere'
        /\ PageKeeps /\ VerifyPageIsRight'
    <2>1. CASE \E a \in Addresses : TypesAddress(a)
      <3>1. PICK a \in Addresses : TypesAddress(a)
        BY <2>1
      <3>2. UNCHANGED <<account, signedIn, mails>> /\ UNCHANGED required
        BY <3>1 DEF TypesAddress, apiSide
      <3> QED  BY <3>1, <3>2, StandsStill, TypingKeeps
    <2>2. CASE \E k \in Errands : Sends(k)
      <3>1. PICK k \in Errands : Sends(k)
        BY <2>2
      <3>2. UNCHANGED <<account, signedIn, mails>> /\ UNCHANGED required
        BY <3>1 DEF Sends, apiSide
      <3> QED  BY <3>1, <3>2, StandsStill, SendingKeeps
    <2>3. CASE Served
      <3>1. UNCHANGED sheet
        BY <2>3 DEF Served, CreatesAccount, Admits, MailsReset, ChangesPassword, MailsChange,
                    MailsDeletion, LooksUp, Reminds, Fails, Throws, Serves
      <3>2. sheet'.at # "verify" \/ (sheet.at = "verify" /\ sheet'.step = sheet.step)
        BY <3>1
      <3> QED  BY <2>3, <3>2, ServedMoves, ServedTruly, VerifyStays
    <2>4. CASE HandledBack
      <3>1. UNCHANGED <<account, signedIn, mails>> /\ UNCHANGED required
        BY <2>4 DEF HandledBack, SignUpAnswered, SignInAnswered, ForgotAnswered, ResetAnswered,
                    LookAnswered, ReminderAnswered, SettingAnswered, ComesTooLate, ComesBack, apiSide
      <3> QED  BY <2>4, <3>1, StandsStill, HandledBackKeeps
    <2>5. CASE \E at \in Forms \union Shell : Visits(at) \/ MovesWithin(at)
      <3>1. PICK at \in Forms \union Shell : Visits(at) \/ MovesWithin(at)
        BY <2>5
      <3>2. UNCHANGED <<account, signedIn, mails>> /\ UNCHANGED required
        BY <3>1 DEF Visits, MovesWithin, apiSide
      <3> QED  BY <3>1, <3>2, StandsStill, VisitingKeeps, MovingKeeps
    <2>6. CASE Reloads \/ Refreshes
      <3>1. UNCHANGED <<account, signedIn, mails>> /\ UNCHANGED required
        BY <2>6 DEF Reloads, Refreshes, apiSide
      <3> QED  BY <2>6, <3>1, StandsStill, ReloadingKeeps
    <2>7. CASE \E mail \in mails, d \in Devices : Follows(mail, d)
      BY <2>7, FollowedMoves, LandingKeeps
    <2>8. CASE SignsInAway \/ SessionGoes("here")
      <3>0. /\ account \in Account /\ signedIn \in [Devices -> 0..MaxSecrets] /\ mails \subseteq Mail
            /\ required \in BOOLEAN /\ AccountIsThere /\ account.secret \in 0..MaxSecrets
        BY DEF AccountInv, AccountTypeOK, Account
      <3>1. UNCHANGED <<required, account, mails>> /\ UNCHANGED <<sheet, told, errand, asked>>
        BY <2>8 DEF SignsInAway, SessionGoes
      <3>2. \/ signedIn' = [signedIn EXCEPT !["away"] = account.secret] /\ account.at # NoAddress
            \/ signedIn' = [signedIn EXCEPT !["here"] = 0]
        BY <2>8 DEF SignsInAway, SessionGoes
      <3>3. /\ signedIn' \in [Devices -> 0..MaxSecrets]
            /\ \A d \in Devices : signedIn'[d] \in {0, signedIn[d]} \/ signedIn'[d] >= account.secret
            /\ account.at = NoAddress => \A d \in Devices : signedIn'[d] \in {0, signedIn[d]}
        BY <3>0, <3>2, AccountAssumption DEF Devices
      <3>4. ApiMoves /\ ApiTypeOK' /\ AccountIsThere'
        BY <3>0, <3>1, <3>3 DEF ApiMoves, ApiTypeOK, AccountIsThere
      <3> QED  BY <3>1, <3>4, PageStays
    <2> QED  BY <2>1, <2>2, <2>3, <2>4, <2>5, <2>6, <2>7, <2>8 DEF AccountNext
  <1>2. /\ ApiTypeOK /\ AccountTypeOK' /\ CallsAreOfTheirPage' /\ InboxesStay'
        /\ \A k \in Errands : errand[k] \in States /\ errand'[k] \in States
        /\ \A k \in Errands : told'[k] # Silent => told'[k] \in Claims
    <2>1. ApiTypeOK /\ PageTypeOK /\ PageTypeOK'
      BY <1>1, TypesOfBoth DEF AccountInv, PageKeeps
    <2>2. AccountTypeOK' /\ CallsAreOfTheirPage' /\ InboxesStay'
      BY <1>1, <2>1 DEF PageKeeps, AccountTypeOK, ApiTypeOK, PageTypeOK
    <2>3. /\ \A k \in Errands : errand[k] \in States /\ errand'[k] \in States
          /\ \A k \in Errands : told'[k] # Silent => told'[k] \in Claims
      BY <2>1 DEF PageTypeOK
    <2> QED  BY <2>1, <2>2, <2>3
  <1>3. ASSUME NEW k \in Errands, errand'[k].answer = "yes"
        PROVE  HoldsTrue(k, errand[k].email, errand[k].saw)'
    <2>1. CASE /\ errand[k].answer = "yes" /\ errand'[k].email = errand[k].email
               /\ errand'[k].saw = errand[k].saw
      <3>1. PICK to, saw : to = errand[k].email /\ saw = errand[k].saw /\ saw \in Account
        BY <1>2 DEF States
      <3>2. HoldsTrue(k, to, saw)
        BY <2>1, <3>1 DEF AccountInv, AnswersStand
      <3>3. HoldsTrue(k, to, saw)'
        BY <1>1, <1>2, <3>1, <3>2, HoldsStays
      <3>4. to = errand'[k].email /\ saw = errand'[k].saw
        BY <2>1, <3>1
      <3> QED  BY <3>3, <3>4
    <2> QED  BY <1>1, <1>3, <2>1 DEF PageKeeps, AnswerKept
  <1>4. ASSUME NEW k \in Errands, told'[k] # Silent
        PROVE  HoldsTrue(k, told[k].to, told[k].saw)'
    <2>1. PICK to, saw : to = told'[k].to /\ saw = told'[k].saw
      OBVIOUS
    <2>2. saw \in Account
      BY <1>2, <1>4, <2>1 DEF Claims
    <2>3. HoldsTrue(k, to, saw)
      <3>1. CASE told'[k] = told[k]
        BY <1>4, <2>1, <3>1 DEF AccountInv, AnswersStand
      <3>2. CASE /\ errand[k].answer = "yes" /\ told'[k].to = errand[k].email
                 /\ told'[k].saw = errand[k].saw
        BY <2>1, <3>2 DEF AccountInv, AnswersStand
      <3> QED  BY <1>1, <1>4, <3>1, <3>2 DEF PageKeeps, ToldFrom
    <2>4. HoldsTrue(k, to, saw)'
      BY <1>1, <1>2, <2>2, <2>3, HoldsStays
    <2> QED  BY <2>1, <2>4
  <1>5. AnswersStand'
    BY <1>3, <1>4 DEF AnswersStand
  <1> QED  BY <1>1, <1>2, <1>5 DEF AccountInv

LEMMA AccountInvariant == AccountSpec => []AccountInv
  <1>1. AccountInv /\ [AccountNext]_accountVars => AccountInv'
    <2>1. ASSUME AccountInv, UNCHANGED accountVars PROVE AccountInv'
      BY <2>1 DEF AccountInv, accountVars, AccountTypeOK, AccountIsThere, VerifyPageIsRight,
                  CallsAreOfTheirPage, AnswersStand, InboxesStay, OnItsPage, UnderWay, HoldsTrue,
                  Mailed, OnlyNewSessions
    <2> QED  BY <2>1, AccountStep
  <1> QED  BY InitAccountInv, <1>1, PTL DEF AccountSpec

\* The account, its sessions, the page and its calls have the shapes that the module declares.
THEOREM AccountTypesHold == AccountSpec => []AccountTypeOK
  <1>1. AccountInv => AccountTypeOK
    BY DEF AccountInv
  <1> QED  BY <1>1, AccountInvariant, PTL

\* What the account pages say has happened did: the inbox a screen names has the mail, the page
\* of an emailed link says verified only of a verified account, and no session that an earlier
\* password began is left once a page has said the password was changed - for every number of
\* addresses, passwords and calls (settings/+page.svelte, signup, forgot-password,
\* reset-password, verify-email, server.ts).
THEOREM SaidIsTrue == AccountSpec => []SaysWhatHappened
  <1>1. AccountInv => SaysWhatHappened
    <2> SUFFICES ASSUME AccountInv PROVE SaysWhatHappened
      OBVIOUS
    <2>0. \A k \in Errands : told[k] # Silent => HoldsTrue(k, told[k].to, told[k].saw)
      BY DEF AccountInv, AnswersStand
    <2>1. InboxIsRight
      BY <2>0 DEF InboxIsRight, HoldsTrue, AccountInv, InboxesStay, Errands
    <2>2. RemindersWent
      BY <2>0 DEF RemindersWent, HoldsTrue, Errands
    <2>3. NoticesAreRight
      BY <2>0 DEF NoticesAreRight, HoldsTrue, Errands
    <2>4. sheet.at = "verify" /\ sheet.step \in {"checking", "done"} =>
              account.verified \/ account.at = NoAddress
      BY DEF AccountInv, VerifyPageIsRight
    <2>5. \A k \in {"reset", "password"} :
              told[k] # Silent => OnlyNewSessions(told[k].saw.secret)
      BY <2>0 DEF HoldsTrue, Errands
    <2> QED  BY <2>1, <2>2, <2>3, <2>4, <2>5 DEF SaysWhatHappened
  <1> QED  BY <1>1, AccountInvariant, PTL
===============================================================================
