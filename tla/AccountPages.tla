----------------------------- MODULE AccountPages -----------------------------
(***************************************************************************)
(* The pages a person's account is looked after with, and the mails they   *)
(* announce: sign-up and its inbox screen, the sign-in page's reminder,    *)
(* the page an emailed link lands on, the forgotten and the new password,  *)
(* the reminders of the signed-in shell, and the account settings.         *)
(*                                                                         *)
(* One account and one browser, "here", with one of these pages open; the  *)
(* account is also used, and mailed links are also opened, "away".  The    *)
(* calls of a page go out, are served and come back while the person types *)
(* on, leaves the page, or opens a link.  Better Auth is taken as these    *)
(* pages and packages/auth/src/server.ts use it.                           *)
(***************************************************************************)
EXTENDS Naturals

CONSTANTS
    Addresses,   \* e-mail addresses
    NoAddress,   \* no address: there is no account, or the page knows none
    Silent,      \* a page says nothing
    MaxSecrets,  \* bound on the passwords the account has had
    MaxAsked     \* bound on the calls the pages send

ASSUME AccountAssumption == /\ NoAddress \notin Addresses
                            /\ MaxSecrets \in Nat \ {0} /\ MaxAsked \in Nat

Devices == {"here", "away"}

\* Calls of the pages.  The reminder of /app's layout and that of the other pages are two.
Reminders == {"reminder", "banner"}
Errands   == {"signUp", "signIn", "forgot", "reset", "look", "change", "password", "delete"}
                \union Reminders

VARIABLES
    required,   \* REQUIRE_EMAIL_VERIFICATION
    account,    \* address, whether it is verified, and the number of its password
    signedIn,   \* of each device's session, the password it was begun under; 0: none
    mails,      \* every mail that was sent
    sheet,      \* the page that is open in this browser
    told,       \* what the page says of the last answer to each call
    errand,     \* each call: where it is, what it carries, what was answered
    asked       \* calls sent so far

apiSide  == <<required, account, signedIn, mails>>
accountVars == <<required, account, signedIn, mails, sheet, told, errand, asked>>

Somewhere == Addresses \union {NoAddress}
Account   == [at : Somewhere, verified : BOOLEAN, secret : 0..MaxSecrets]
Mail      == [kind : {"verify", "approve", "confirm", "reset", "delete"},
              to : Addresses, from : Addresses, new : Addresses]

-----------------------------------------------------------------------------
(* packages/auth/src/server.ts: what is mailed, and to whom.  The token of  *)
(* a link carries the address the account had and the one it is to get.     *)

AboutItself(kind, a) == [kind |-> kind, to |-> a, from |-> a, new |-> a]

VerificationTo(a) == AboutItself("verify", a)
ResetTo(a)        == AboutItself("reset", a)
DeletionTo(a)     == AboutItself("delete", a)

Confirmation(old, new) == [kind |-> "confirm", to |-> new, from |-> old, new |-> new]

\* A verified account approves from its current address; another one only confirms.
ChangeTo(new) ==
    IF account.verified
      THEN [kind |-> "approve", to |-> account.at, from |-> account.at, new |-> new]
    ELSE Confirmation(account.at, new)

-----------------------------------------------------------------------------
(* Pages.  `gate` is authConfig.requireEmailVerification as the (auth)      *)
(* layout loaded it, FALSE where the API did not answer; `copy` is the      *)
(* session store's user, or what the layout's load seeded it with.          *)

Shell == {"home", "settings"}
Forms == {"login", "signup", "forgot"}

TheCopy == [at |-> account.at, verified |-> account.verified]
NoCopy  == [at |-> NoAddress, verified |-> FALSE]

Opened(at, step) ==
    [at |-> at, step |-> step, email |-> NoAddress, gate |-> FALSE, copy |-> NoCopy]

FormOn(at, email, gate) ==
    [at |-> at, step |-> "form", email |-> email, gate |-> gate, copy |-> NoCopy]

ShellOn(at, copy) ==
    [at |-> at, step |-> "form", email |-> NoAddress, gate |-> FALSE, copy |-> copy]

\* (auth)/+layout.ts: the fallback when the API cannot be reached.
Gates == {required, FALSE}

\* A page that is asked for: /app needs a session, login and signup send one on to it.
Arriving(at, gate) ==
    IF signedIn'["here"] = 0 \/ at = "forgot"
      THEN FormOn(IF at \in Shell THEN "login" ELSE at, NoAddress, gate)
    ELSE ShellOn(IF at = "settings" THEN at ELSE "home", TheCopy')

\* An input for the address is shown, and nothing disables it while a call is out.
HasField == \/ sheet.at \in Forms /\ sheet.step \in {"form", "unverified"}
            \/ sheet.at = "verify" /\ sheet.step = "failed"

BannerShows    == sheet.at \in Shell /\ ~sheet.copy.verified
ChecklistShows == sheet.at = "home" /\ ~sheet.copy.verified
InboxShows     == sheet.at = "signup" /\ sheet.step = "inbox"

\* Where the button of a call is.  A reminder that was sent has taken its button away.
Offers(k) ==
    \/ k = "signUp" /\ sheet.at = "signup" /\ sheet.step = "form"
    \/ k = "signIn" /\ sheet.at = "login"
    \/ k = "forgot" /\ sheet.at = "forgot" /\ sheet.step = "form"
    \/ k = "reset"  /\ sheet.at = "reset" /\ sheet.step = "form"
    \/ k = "look"   /\ sheet.at = "verify" /\ sheet.step = "checking"
    \/ k = "banner" /\ BannerShows /\ told[k] = Silent
    \/ /\ k = "reminder" /\ told[k] = Silent
       /\ \/ InboxShows \/ ChecklistShows
          \/ sheet.at = "login" /\ sheet.step = "unverified"
          \/ sheet.at = "verify" /\ sheet.step = "failed"
    \/ k \in {"change", "password", "delete"} /\ sheet.at = "settings"

\* The address a call carries: the new one, the store's, or the field's.
Carried(k) == IF k = "change" THEN Addresses \ {sheet.copy.at}
              ELSE IF sheet.at \in Shell THEN {sheet.copy.at} ELSE {sheet.email}

NeedsAddress == {"signUp", "signIn", "forgot", "change"} \union Reminders

Rest == [at |-> "idle", reader |-> "here", email |-> NoAddress, answer |-> "none",
         saw |-> [at |-> NoAddress, verified |-> FALSE, secret |-> 0]]

\* The handler threw: what it had disabled stays so.
Stuck == [Rest EXCEPT !.at = "stuck"]

NothingTold == [k \in Errands |-> Silent]

\* Nobody has signed up yet, or somebody has, was verified long ago and is signed in elsewhere.
AccountInit ==
    /\ required \in BOOLEAN
    /\ \/ /\ account = [at |-> NoAddress, verified |-> FALSE, secret |-> 0]
          /\ mails = {} /\ signedIn = [d \in Devices |-> 0]
       \/ \E a \in Addresses :
            /\ account = [at |-> a, verified |-> TRUE, secret |-> 1]
            /\ mails = {} /\ signedIn \in {[d \in Devices |-> IF d = "away" THEN 1 ELSE h] : h \in {0, 1}}
    /\ \/ /\ signedIn["here"] = 0
          /\ \E at \in Forms, gate \in Gates : sheet = FormOn(at, NoAddress, gate)
       \/ /\ signedIn["here"] = 1
          /\ sheet = ShellOn("home", TheCopy)
    /\ told = NothingTold /\ errand = [k \in Errands |-> Rest] /\ asked = 0

\* The person types on, whatever is on its way.
TypesAddress(a) ==
    /\ HasField /\ sheet.email # a /\ sheet' = [sheet EXCEPT !.email = a]
    /\ UNCHANGED <<apiSide, told, errand, asked>>

\* The handlers clear what they said before, but login keeps that a reminder was sent.
Sends(k) ==
    /\ errand[k].at = "idle" /\ Offers(k)
    /\ IF k = "look" THEN UNCHANGED asked ELSE asked < MaxAsked /\ asked' = asked + 1
    /\ \E a \in Carried(k) :
         /\ k \in NeedsAddress => a # NoAddress
         /\ errand' = [errand EXCEPT ![k] = [@ EXCEPT !.at = "sent", !.email = a]]
    /\ told' = [told EXCEPT ![k] = Silent]
    /\ sheet' = IF k = "signIn" THEN [sheet EXCEPT !.step = "form"] ELSE sheet
    /\ UNCHANGED apiSide

-----------------------------------------------------------------------------
(* The API's side.  saw: the account as the call left it, for the           *)
(* properties to compare with.                                              *)

WithAnswer(k, answer, saw) ==
    [errand[k] EXCEPT !.at = "answered", !.answer = answer, !.saw = saw]

Serves(k, answer) ==
    /\ errand[k].at = "sent" /\ errand' = [errand EXCEPT ![k] = WithAnswer(k, answer, account')]
    /\ UNCHANGED <<required, sheet, told, asked>>

\* sendOnSignUp; without requireEmailVerification the caller is signed in as well.
CreatesAccount ==
    /\ account.secret = 0
    /\ account' = [at |-> errand["signUp"].email, verified |-> FALSE, secret |-> 1]
    /\ signedIn' = IF required THEN signedIn ELSE [signedIn EXCEPT !["here"] = 1]
    /\ mails' = mails \union {VerificationTo(errand["signUp"].email)}
    /\ Serves("signUp", "yes")

Admits ==
    /\ account.at = errand["signIn"].email /\ UNCHANGED <<account, mails>>
    /\ IF required /\ ~account.verified
         THEN UNCHANGED signedIn /\ Serves("signIn", "unverified")
       ELSE /\ signedIn' = [signedIn EXCEPT !["here"] = account.secret]
            /\ Serves("signIn", "yes")

\* Nothing is sent to a stranger or to the verified, and the answer does not say so.
Reminds(k) ==
    /\ k \in Reminders /\ UNCHANGED <<account, signedIn>>
    /\ mails' = IF account.at = errand[k].email /\ ~account.verified
                  THEN mails \union {VerificationTo(account.at)} ELSE mails
    /\ Serves(k, "yes")

MailsReset ==
    /\ UNCHANGED <<account, signedIn>>
    /\ mails' = IF account.at = errand["forgot"].email
                  THEN mails \union {ResetTo(account.at)} ELSE mails
    /\ Serves("forgot", "yes")

KeepsSessions ==                                                         \* wrong
    /\ account.at # NoAddress /\ account.secret < MaxSecrets
    /\ account' = [account EXCEPT !.secret = @ + 1]
    /\ UNCHANGED <<signedIn, mails>>

\* revokeSessionsOnPasswordReset
ResetsPassword ==
    /\ account.at # NoAddress /\ account.secret < MaxSecrets
    /\ account' = [account EXCEPT !.secret = @ + 1]
    /\ signedIn' = [d \in Devices |-> 0] /\ UNCHANGED mails

\* revokeOtherSessions
ChangesPassword ==
    /\ signedIn["here"] # 0 /\ account.secret < MaxSecrets
    /\ account' = [account EXCEPT !.secret = @ + 1]
    /\ signedIn' = [d \in Devices |-> IF d = "here" THEN account.secret + 1 ELSE 0]
    /\ UNCHANGED mails /\ Serves("password", "yes")

MailsChange ==
    /\ signedIn["here"] # 0 /\ errand["change"].email # account.at
    /\ mails' = mails \union {ChangeTo(errand["change"].email)}
    /\ UNCHANGED <<account, signedIn>> /\ Serves("change", "yes")

\* With a sender for it, the account goes only once the mailed link is used.
MailsDeletion ==
    /\ signedIn["here"] # 0 /\ mails' = mails \union {DeletionTo(account.at)}
    /\ UNCHANGED <<account, signedIn>> /\ Serves("delete", "yes")

LooksUp ==
    /\ UNCHANGED <<account, signedIn, mails>>
    /\ Serves("look", IF signedIn["here"] # 0 THEN "yes" ELSE "no")

\* A wrong password, a used link, a limit; a 5xx, before or after the call took effect.
Fails(k) ==
    /\ errand[k].at \in {"sent", "answered"}
    /\ errand' = [errand EXCEPT ![k] = WithAnswer(k, "no", Rest.saw)]
    /\ UNCHANGED <<apiSide, sheet, told, asked>>

\* No answer at all: superforms ends the submission and the look is caught; what the other
\* handlers had disabled stays so.
Throws(k) ==
    /\ errand[k].at \in {"sent", "answered"}
    /\ errand' = [errand EXCEPT ![k] =
         IF k = "look" THEN WithAnswer(k, "no", Rest.saw)
         ELSE IF @.reader # "here" \/ k \in {"signUp", "signIn", "forgot", "reset"} THEN Rest
         ELSE Stuck]
    /\ UNCHANGED <<apiSide, sheet, told, asked>>

-----------------------------------------------------------------------------
(* The page that is open gives way to another                               *)

\* "left": a navigation within the app; "lost": a new document, which no handler outlives.
\* Of the handlers whose page is left, those of the sign-ins still do something.
Departed(how) ==
    [k \in Errands |->
        LET matters == how = "left" /\ errand[k].reader # "lost" /\ k \in {"signUp", "signIn"}
        IN IF errand[k].at = "sent" \/ (errand[k].at = "answered" /\ matters)
             THEN [errand[k] EXCEPT !.reader = IF matters THEN "left" ELSE "lost"]
           ELSE Rest]

GoesTo(at) == /\ \E gate \in Gates : sheet' = Arriving(at, gate)
              /\ told' = NothingTold

\* goto, once the call that led there has been answered.
GoesHome(k) == GoesTo("home") /\ errand' = [Departed("left") EXCEPT ![k] = Rest]

\* Links, the address bar; sign-in hands its address on to the forgotten password.
Visits(at) ==
    /\ sheet.at # at /\ errand' = Departed("left") /\ UNCHANGED <<apiSide, asked>>
    /\ IF sheet.at = "login" /\ at = "forgot"
         THEN /\ \E gate \in Gates : sheet' = FormOn(at, sheet.email, gate)
              /\ told' = NothingTold
       ELSE (sheet.at \notin Shell \/ at \notin Shell) /\ GoesTo(at)

\* The layout of /app, its banner and its copy stay.
MovesWithin(at) ==
    /\ sheet.at \in Shell /\ at \in Shell /\ sheet.at # at
    /\ sheet' = [sheet EXCEPT !.at = at]
    /\ told' = [k \in Errands |-> IF k = "banner" THEN told[k] ELSE Silent]
    /\ errand' = [Departed("left") EXCEPT !["banner"] = errand["banner"]]
    /\ UNCHANGED <<apiSide, asked>>

\* The token and the address have left the address bar, an error has not.
Reloads ==
    /\ UNCHANGED <<apiSide, asked>> /\ told' = NothingTold /\ errand' = Departed("lost")
    /\ IF sheet.at \in {"verify", "reset"}
         THEN sheet' = Opened(sheet.at, IF sheet.step \in {"failed", "invalid"} THEN sheet.step
                                        ELSE IF sheet.at = "reset" THEN "open" ELSE "checking")
       ELSE \E gate \in Gates : sheet' = Arriving(sheet.at, gate)

\* useSession and the guard of /app.
Refreshes ==
    /\ sheet.at \in Shell /\ UNCHANGED <<apiSide, asked>>
    /\ IF signedIn["here"] = 0 THEN GoesTo("login") /\ errand' = Departed("left")
       ELSE sheet' = [sheet EXCEPT !.copy = TheCopy] /\ UNCHANGED <<told, errand>>

-----------------------------------------------------------------------------
(* The handlers, once a call has come back to its page                      *)

ComesBack(k) == /\ errand[k].at = "answered" /\ errand[k].reader = "here"
                /\ UNCHANGED <<apiSide, asked>>

Ends(k) == errand' = [errand EXCEPT ![k] = Rest]

\* What is said: of which address, beside which copy of the account.
Says(k) == told' = [told EXCEPT ![k] = [to |-> errand[k].email, copy |-> sheet.copy,
                                        saw |-> errand[k].saw]]

\* superforms writes what was submitted back into the form.
WritesBack(k, step) == sheet' = [sheet EXCEPT !.step = step, !.email = errand[k].email]

TurnsDown(k) == /\ errand[k].answer # "yes" /\ Ends(k) /\ UNCHANGED told
                /\ sheet' \in {sheet, [sheet EXCEPT !.email = errand[k].email]}

SignUpAnswered ==
    /\ ComesBack("signUp")
    /\ \/ errand["signUp"].answer = "yes" /\ sheet.gate
          /\ Says("signUp") /\ Ends("signUp") /\ WritesBack("signUp", "inbox")
       \/ errand["signUp"].answer = "yes" /\ ~sheet.gate /\ GoesHome("signUp")
       \/ TurnsDown("signUp")

SignInAnswered ==
    /\ ComesBack("signIn")
    /\ \/ errand["signIn"].answer = "yes" /\ GoesHome("signIn")
       \/ /\ errand["signIn"].answer = "unverified"
          /\ Ends("signIn") /\ WritesBack("signIn", "unverified") /\ UNCHANGED told
       \/ errand["signIn"].answer # "unverified" /\ TurnsDown("signIn")

ReminderAnswered(k) ==
    /\ k \in Reminders /\ ComesBack(k) /\ Ends(k) /\ UNCHANGED sheet
    /\ IF errand[k].answer = "yes" THEN Says(k) ELSE UNCHANGED told

ForgotAnswered ==
    /\ ComesBack("forgot")
    /\ \/ /\ errand["forgot"].answer = "yes"
          /\ Says("forgot") /\ Ends("forgot") /\ WritesBack("forgot", "sent")
       \/ TurnsDown("forgot")

ResetAnswered ==
    /\ ComesBack("reset") /\ Ends("reset")
    /\ IF errand["reset"].answer = "yes"
         THEN Says("reset") /\ sheet' = [sheet EXCEPT !.step = "done"]
       ELSE UNCHANGED <<told, sheet>>

\* A link that worked has signed in; without a session there is still what it came to.
LookAnswered ==
    /\ ComesBack("look")
    /\ IF errand["look"].answer = "yes" THEN GoesHome("look")
       ELSE sheet' = [sheet EXCEPT !.step = "done"] /\ Ends("look") /\ UNCHANGED told

SettingAnswered(k) ==
    /\ k \in {"change", "password", "delete"} /\ ComesBack(k) /\ Ends(k) /\ UNCHANGED sheet
    /\ IF errand[k].answer = "yes" THEN Says(k) ELSE UNCHANGED told

\* Its page is gone; a sign-in that was accepted may go on to /app all the same.
ComesTooLate(k) ==
    /\ errand[k].at = "answered" /\ errand[k].reader # "here" /\ UNCHANGED <<apiSide, asked>>
    /\ \/ Ends(k) /\ UNCHANGED <<sheet, told>>
       \/ /\ k \in {"signUp", "signIn"} /\ errand[k].answer = "yes" /\ errand[k].reader = "left"
          /\ GoesHome(k)

-----------------------------------------------------------------------------
(* Links that were mailed.  Each may be used late, or again.                *)

\* A link opened here is a new document.
Lands(d, landing) ==
    IF d = "here" THEN sheet' = landing /\ told' = NothingTold /\ errand' = Departed("lost")
    ELSE UNCHANGED <<sheet, told, errand>>

FollowsVerification(mail, d) ==
    /\ mail.kind = "verify" /\ account.at = mail.to
    /\ account' = [account EXCEPT !.verified = TRUE] /\ UNCHANGED mails
    /\ signedIn' = IF account.verified THEN signedIn
                   ELSE [signedIn EXCEPT ![d] = account.secret]
    /\ Lands(d, Opened("verify", "checking"))

FollowsApproval(mail, d) ==
    /\ mail.kind = "approve" /\ account.at = mail.from /\ UNCHANGED <<account, signedIn>>
    /\ mails' = mails \union {Confirmation(mail.from, mail.new)}
    /\ \E gate \in Gates : Lands(d, Arriving("settings", gate))

FollowsConfirmation(mail, d) ==
    /\ mail.kind = "confirm" /\ account.at = mail.from
    /\ account' = [account EXCEPT !.at = mail.new, !.verified = TRUE]
    /\ UNCHANGED <<signedIn, mails>>
    /\ \E gate \in Gates : Lands(d, Arriving("settings", gate))

FollowsReset(mail, d) ==
    /\ mail.kind = "reset"
    /\ IF d = "here" THEN UNCHANGED <<account, signedIn, mails>>
       ELSE account.at = mail.to /\ ResetsPassword
    /\ Lands(d, Opened("reset", "form"))

\* "Open the link in this browser while signed in": the callback wants the session.
FollowsDeletion(mail, d) ==
    /\ mail.kind = "delete" /\ account.at = mail.to /\ signedIn[d] # 0 /\ UNCHANGED mails
    /\ account' = [account EXCEPT !.at = NoAddress, !.verified = FALSE]
    /\ signedIn' = [e \in Devices |-> 0]
    /\ \E gate \in Gates : Lands(d, Arriving("home", gate))

\* Expired, used, or of an account that is elsewhere by now: back with an error.
FollowsInVain(mail, d) ==
    /\ d = "here" /\ UNCHANGED <<account, signedIn, mails>>
    /\ \/ mail.kind = "verify" /\ Lands(d, Opened("verify", "failed"))
       \/ mail.kind = "reset" /\ Lands(d, Opened("reset", "invalid"))
       \/ mail.kind \in {"approve", "confirm"}
          /\ \E gate \in Gates : Lands(d, Arriving("settings", gate))

Follows(mail, d) ==
    /\ UNCHANGED <<required, asked>>
    /\ \/ FollowsVerification(mail, d) \/ FollowsApproval(mail, d)
       \/ FollowsConfirmation(mail, d) \/ FollowsReset(mail, d)
       \/ FollowsDeletion(mail, d) \/ FollowsInVain(mail, d)

SignsInAway ==
    /\ account.at # NoAddress /\ (required => account.verified) /\ signedIn["away"] # account.secret
    /\ signedIn' = [signedIn EXCEPT !["away"] = account.secret]
    /\ UNCHANGED <<required, account, mails, sheet, told, errand, asked>>

\* Expired, signed out, or revoked.
SessionGoes(d) ==
    /\ signedIn[d] # 0 /\ signedIn' = [signedIn EXCEPT ![d] = 0]
    /\ UNCHANGED <<required, account, mails, sheet, told, errand, asked>>

-----------------------------------------------------------------------------
Served ==
    \/ CreatesAccount \/ Admits \/ MailsReset \/ ChangesPassword \/ MailsChange
    \/ MailsDeletion \/ LooksUp
    \/ ResetsPassword /\ Serves("reset", "yes")
    \/ \E k \in Errands : Reminds(k) \/ Fails(k) \/ Throws(k)

HandledBack ==
    \/ SignUpAnswered \/ SignInAnswered \/ ForgotAnswered \/ ResetAnswered \/ LookAnswered
    \/ \E k \in Errands : ReminderAnswered(k) \/ SettingAnswered(k) \/ ComesTooLate(k)

AccountNext ==
    \/ \E a \in Addresses : TypesAddress(a)
    \/ \E k \in Errands : Sends(k)
    \/ Served \/ HandledBack
    \/ \E at \in Forms \union Shell : Visits(at) \/ MovesWithin(at)
    \/ Reloads \/ Refreshes
    \/ \E mail \in mails, d \in Devices : Follows(mail, d)
    \/ SignsInAway
    \/ SessionGoes("here")

AccountSpec == AccountInit /\ [][AccountNext]_accountVars

-----------------------------------------------------------------------------
Copies == [at : Somewhere, verified : BOOLEAN]
Claims == [to : Somewhere, copy : Copies, saw : Account]
Sheets == [at : Forms \union Shell \union {"verify", "reset"},
           step : {"form", "inbox", "unverified", "sent", "failed", "checking", "done",
                   "invalid", "open"},
           email : Somewhere, gate : BOOLEAN, copy : Copies]
States == [at : {"idle", "sent", "answered", "stuck"}, reader : {"here", "left", "lost"},
           email : Somewhere, answer : {"none", "yes", "no", "unverified"}, saw : Account]

AccountTypeOK ==
    /\ required \in BOOLEAN /\ account \in Account /\ mails \subseteq Mail
    /\ signedIn \in [Devices -> 0..MaxSecrets] /\ asked \in 0..MaxAsked
    /\ sheet \in Sheets
    /\ told \in [Errands -> Claims \union {Silent}]
    /\ errand \in [Errands -> States]

Mailed(kind, a) == \E mail \in mails : mail.kind = kind /\ mail.to = a

\* Sessions begun under an earlier password than the one set then are gone.
OnlyNewSessions(secret) == \A d \in Devices : signedIn[d] # 0 => signedIn[d] >= secret

\* The address a screen names is the one the mail went to, whatever was typed on the way.
InboxIsRight ==
    /\ told["signUp"] # Silent => Mailed("verify", sheet.email)
    /\ told["forgot"] # Silent /\ told["forgot"].saw.at = sheet.email =>
           Mailed("reset", sheet.email)

\* "Sent": of an account that was waiting for the mail.
RemindersWent ==
    \A k \in Reminders : told[k] # Silent =>
        LET claim == told[k]
        IN claim.saw.at = claim.to /\ ~claim.saw.verified => Mailed("verify", claim.to)

\* Settings name the inbox by the page's copy of the account: right as long as the account has
\* not been verified or moved behind it.
NoticesAreRight ==
    LET change == told["change"]
    IN /\ change # Silent /\ change.copy.at = change.saw.at
            /\ change.copy.verified = change.saw.verified =>
              IF change.copy.verified THEN Mailed("approve", change.copy.at)
              ELSE Mailed("confirm", change.to)
       /\ told["delete"] # Silent => Mailed("delete", told["delete"].saw.at)

\* What the account pages say has happened: mails are in the inbox they name, an address is
\* verified once the page says so, and after "password changed" or "updated" no session lives
\* that an earlier password began - also when the person types on, leaves, reloads or opens a
\* link while the call is out, and when the call fails after it took effect (signup,
\* verify-email, forgot-password, reset-password, settings, +layout.svelte,
\* GettingStarted.svelte, server.ts).
SaysWhatHappened ==
    /\ InboxIsRight /\ RemindersWent /\ NoticesAreRight
    /\ sheet.at = "verify" /\ sheet.step \in {"checking", "done"} =>
           account.verified \/ account.at = NoAddress
    /\ \A k \in {"reset", "password"} :
           told[k] # Silent => OnlyNewSessions(told[k].saw.secret)
===============================================================================
