----------------------------- MODULE TwoFactorPage -----------------------------
(***************************************************************************)
(* Two-factor authentication on the security page of the settings: turning *)
(* it on (password, then a code of the authenticator app), off, and        *)
(* issuing new backup codes.  The account lives with the auth server, a    *)
(* library to this repository; the page learns of it from the answers it   *)
(* gets and from the session store, which follows when it follows.         *)
(*                                                                         *)
(* A set of backup codes is a number, 0 being none.  One person, one tab.  *)
(***************************************************************************)
EXTENDS Naturals

CONSTANT MaxIssued \* sets of codes issued (bounds `issued`)

ASSUME IssuedAssumption == MaxIssued \in Nat \ {0}

VARIABLES
    factor,           \* the account: [on, codes]
    issued,           \* the set of codes issued last
    twoFactorEnabled, \* what the session store says
    prompt,           \* the password prompt that is open, or "none"
    setup,            \* the codes of the enrolment on screen, or 0
    backupCodes,      \* the codes shown as the ones to keep, or 0
    call,             \* the call under way: [op, is, codes]
    lost              \* an answer that would have brought codes was lost

factorVars == <<factor, issued, twoFactorEnabled, prompt, setup, backupCodes, call, lost>>

NoCall == [op |-> "none", is |-> "none", codes |-> 0]
Kinds == {"enable", "disable", "regenerate"}

\* The forms are disabled while twoFactorBusy.
twoFactorBusy == call # NoCall

FactorInit ==
    /\ factor \in {[on |-> FALSE, codes |-> 0], [on |-> TRUE, codes |-> 1]}
    /\ issued = factor.codes
    /\ twoFactorEnabled = factor.on
    /\ prompt = "none" /\ setup = 0 /\ backupCodes = 0
    /\ call = NoCall /\ lost = FALSE

\* Behind the setup there are no other buttons; which there are says the store.
openPrompt(kind) ==
    /\ setup = 0 /\ prompt = "none"
    /\ twoFactorEnabled <=> kind \in {"disable", "regenerate"}
    /\ prompt' = kind
    /\ UNCHANGED <<factor, issued, twoFactorEnabled, setup, backupCodes, call, lost>>

closePrompt ==
    /\ prompt # "none" /\ ~twoFactorBusy
    /\ prompt' = "none"
    /\ UNCHANGED <<factor, issued, twoFactorEnabled, setup, backupCodes, call, lost>>

Asks(op) == call' = [op |-> op, is |-> "asked", codes |-> 0]

submitPassword ==
    /\ prompt # "none" /\ ~twoFactorBusy
    /\ Asks(prompt)
    /\ UNCHANGED <<factor, issued, twoFactorEnabled, prompt, setup, backupCodes, lost>>

verify ==
    /\ setup # 0 /\ ~twoFactorBusy
    /\ Asks("verify")
    /\ UNCHANGED <<factor, issued, twoFactorEnabled, prompt, setup, backupCodes, lost>>

cancelSetup ==
    /\ setup # 0 /\ ~twoFactorBusy
    /\ setup' = 0
    /\ UNCHANGED <<factor, issued, twoFactorEnabled, prompt, backupCodes, call, lost>>

-----------------------------------------------------------------------------
(* The auth server.                                                        *)

Done(codes) == call' = [call EXCEPT !.is = "done", !.codes = codes]

\* Codes are the account's as soon as they are issued; a code of the app turns the
\* second factor on.  A wrong password or code, or a session too old, is refused.
ServerActs ==
    /\ call.is = "asked"
    /\ \/ /\ call.op = "enable" \/ (call.op = "regenerate" /\ factor.on)
          /\ issued < MaxIssued
          /\ issued' = issued + 1
          /\ factor' = [factor EXCEPT !.codes = issued']
          /\ Done(issued')
       \/ /\ call.op = "verify" /\ factor.codes # 0
          /\ factor' = [factor EXCEPT !.on = TRUE]
          /\ Done(0)
          /\ UNCHANGED issued
       \/ /\ call.op = "disable"
          /\ factor' = [on |-> FALSE, codes |-> 0]
          /\ Done(0)
          /\ UNCHANGED issued
       \/ /\ call' = [call EXCEPT !.is = "refused"]
          /\ UNCHANGED <<factor, issued>>
    /\ UNCHANGED <<twoFactorEnabled, prompt, setup, backupCodes, lost>>

\* The session store is fetched again, some time.
StoreFollows ==
    /\ twoFactorEnabled # factor.on
    /\ twoFactorEnabled' = factor.on
    /\ UNCHANGED <<factor, issued, prompt, setup, backupCodes, call, lost>>

-----------------------------------------------------------------------------
(* The answers.                                                            *)

\* Mutant: the codes on screen stay while another set is being set up.
startEnableKeepingCodes ==
    /\ call.op = "enable" /\ call.is = "done"
    /\ setup' = call.codes
    /\ prompt' = "none" /\ call' = NoCall
    /\ UNCHANGED <<factor, issued, twoFactorEnabled, backupCodes, lost>>

startEnable ==
    /\ call.op = "enable" /\ call.is = "done"
    /\ setup' = call.codes
    /\ backupCodes' = 0
    /\ prompt' = "none" /\ call' = NoCall
    /\ UNCHANGED <<factor, issued, twoFactorEnabled, lost>>

Verified ==
    /\ call.op = "verify" /\ call.is = "done"
    /\ backupCodes' = setup
    /\ setup' = 0 /\ call' = NoCall
    /\ UNCHANGED <<factor, issued, twoFactorEnabled, prompt, lost>>

\* disable and regenerate: the codes on screen are dropped, or replaced.
PromptDone ==
    /\ call.op \in {"disable", "regenerate"} /\ call.is = "done"
    /\ backupCodes' = call.codes
    /\ prompt' = "none" /\ call' = NoCall
    /\ UNCHANGED <<factor, issued, twoFactorEnabled, setup, lost>>

BringsCodes == call.is = "done" /\ call.op # "verify"

\* An error, also where only the answer was lost: everything stays as it was.
Refused ==
    /\ call.is \in {"done", "refused"}
    /\ call' = NoCall
    /\ lost' = (lost \/ BringsCodes)
    /\ UNCHANGED <<factor, issued, twoFactorEnabled, prompt, setup, backupCodes>>

\* The call rejects: submitPassword's `finally` frees the form, verify has none.
Rejected ==
    /\ call.is \in {"done", "refused"}
    /\ call' = IF call.op = "verify" THEN [call EXCEPT !.is = "stuck"] ELSE NoCall
    /\ lost' = (lost \/ BringsCodes)
    /\ UNCHANGED <<factor, issued, twoFactorEnabled, prompt, setup, backupCodes>>

FactorNext ==
    \/ \E kind \in Kinds : openPrompt(kind)
    \/ closePrompt \/ submitPassword \/ verify \/ cancelSetup
    \/ ServerActs \/ StoreFollows
    \/ startEnable \/ Verified \/ PromptDone \/ Refused \/ Rejected

FactorSpec == FactorInit /\ [][FactorNext]_factorVars

-----------------------------------------------------------------------------
(* Properties.                                                             *)

\* Every variable keeps its type, and no enrolment is on screen behind a prompt.
FactorTypeOK ==
    /\ factor \in [on : BOOLEAN, codes : 0..MaxIssued]
    /\ issued \in 0..MaxIssued
    /\ twoFactorEnabled \in BOOLEAN
    /\ prompt \in Kinds \union {"none"}
    /\ setup \in 0..MaxIssued /\ backupCodes \in 0..MaxIssued
    /\ call \in [op : Kinds \union {"verify", "none"},
                 is : {"none", "asked", "done", "refused", "stuck"}, codes : 0..MaxIssued]
    /\ lost \in BOOLEAN
    /\ setup # 0 => prompt = "none"

\* The backup codes the page tells the person to keep are the ones that get them
\* in when they lose the app: the account's own, on an account whose second factor
\* is on - whatever was begun and abandoned, and however late the session store
\* is.  Not while a call is under way, nor after an answer with codes was lost.
CodesShownWork ==
    (backupCodes # 0 /\ setup = 0 /\ ~twoFactorBusy /\ ~lost)
        => factor.on /\ factor.codes = backupCodes

=============================================================================
