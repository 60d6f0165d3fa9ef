--------------------------- MODULE Rollout_proofs ----------------------------
(***************************************************************************)
(* What holds of Rollout for every set of operations and releases and      *)
(* every schema the releases lead to: however rollouts, their recovery,    *)
(* resets, reboots and interruptions are combined, no API runs on a schema *)
(* it does not fit, and a journal that is closed closes a whole rollout.   *)
(***************************************************************************)
EXTENDS Rollout, TLAPS

-----------------------------------------------------------------------------
(* The shape of the state                                                   *)

LEMMA InitTypeOK == RolloutInit => RolloutTypeOK
  <1> SUFFICES ASSUME RolloutInit PROVE RolloutTypeOK
    OBVIOUS
  <1> USE RolloutAssumption DEF RolloutInit, NoRelease
  <1>1. Installed \in Container /\ Absent \in Container
    BY DEF Installed, Absent, Container
  <1>2. api \in [Kinds -> Container]
    BY <1>1
  <1>3. \A k \in Kinds : api[k].release \in Releases \union {NoRelease} /\ api[k].met \in Nat
    BY <1>2 DEF Container
  <1>4. /\ checkout \in [Kinds -> Releases \union {NoRelease}]
        /\ pin \in [Kinds -> Releases \union {NoRelease}]
        /\ schema \in [Kinds -> Nat]
        /\ migrate \in [Kinds -> Migration]
    BY <1>3 DEF Migration
  <1>5. /\ command \in [Ops -> OpStages] /\ turn \in [Ops -> Kinds]
        /\ target \in [Ops -> Releases \union {NoRelease}]
        /\ \A p \in Ops : command[p] # "idle" <=> hostLock = p
    BY DEF OpStages
  <1> QED  BY <1>2, <1>4, <1>5 DEF RolloutTypeOK

\* The bookkeeping of an operation: lock, command, turn and target.
OpsOK ==
    /\ hostLock \in Ops \union {Free}
    /\ command \in [Ops -> OpStages] /\ turn \in [Ops -> Kinds]
    /\ target \in [Ops -> Releases \union {NoRelease}]
    /\ \A p \in Ops : command[p] # "idle" <=> hostLock = p

LEMMA EntersOK ==
    ASSUME RolloutTypeOK, NEW p \in Ops, NEW k \in Kinds, NEW r \in Releases \union {NoRelease},
           NEW s \in OpStages \ {"idle"}, BeginsWork(p, k, r, s)
    PROVE  OpsOK'
  BY RolloutAssumption DEF RolloutTypeOK, OpsOK, BeginsWork, GoesTo

LEMMA EndsOK ==
    ASSUME RolloutTypeOK, NEW p \in Ops, command[p] # "idle", OpEnds(p)
    PROVE  OpsOK'
  BY RolloutAssumption DEF RolloutTypeOK, OpsOK, OpEnds, GoesTo, OpStages

LEMMA GotoOK ==
    ASSUME RolloutTypeOK, NEW p \in Ops, command[p] # "idle",
           NEW s \in OpStages \ {"idle"}, GoesTo(p, s),
           UNCHANGED <<hostLock, turn, target>>
    PROVE  OpsOK'
  BY DEF RolloutTypeOK, OpsOK, GoesTo

LEMMA ContinuesOK ==
    ASSUME RolloutTypeOK, NEW p \in Ops, command[p] # "idle", Continues(p)
    PROVE  OpsOK'
  <1>1. CASE p \in Workflows /\ turn[p] = "demo"
    BY <1>1, RolloutAssumption DEF RolloutTypeOK, OpsOK, Continues, GoesTo, OpStages
  <1>2. CASE ~(p \in Workflows /\ turn[p] = "demo")
    BY <1>2, EndsOK DEF Continues
  <1> QED  BY <1>1, <1>2

LEMMA StateChanged ==
    ASSUME RolloutTypeOK, NEW k \in Kinds, NEW s \in {"stopped", "running", "restarting"}
    PROVE  [api EXCEPT ![k].state = s] \in [Kinds -> Container]
  BY DEF RolloutTypeOK, Container

\* The steps of deploy.sh and update.sh up to the journal.
LEMMA PrepareTypeOK ==
    ASSUME RolloutTypeOK, NEW p \in Rolls,
           Acquire(p) \/ Checkout(p) \/ Pin(p) \/ ReleaseBackup(p) \/ Begin(p)
    PROVE  RolloutTypeOK'
  <1> USE DEF hostVars, OpStages
  <1>0. p \in Ops
    BY DEF Ops, Rolls
  <1>1. CASE Acquire(p)
    <2>1. PICK r \in Releases :
            BeginsWork(p, IF p \in Deploys THEN "stack" ELSE "demo", r, "checkout")
      BY <1>1 DEF Acquire
    <2>2. (IF p \in Deploys THEN "stack" ELSE "demo") \in Kinds
      BY RolloutAssumption DEF Rolls
    <2>3. OpsOK'
      BY <1>0, <2>1, <2>2, EntersOK
    <2> QED  BY <1>1, <2>3 DEF RolloutTypeOK, OpsOK, Acquire
  <1>2. CASE Checkout(p)
    <2>1. OpsOK'
      BY <1>0, <1>2, GotoOK DEF Checkout
    <2> QED  BY <1>0, <1>2, <2>1 DEF RolloutTypeOK, OpsOK, Checkout
  <1>3. CASE Pin(p)
    <2>1. OpsOK'
      BY <1>0, <1>3, GotoOK DEF Pin
    <2> QED  BY <1>0, <1>3, <2>1 DEF RolloutTypeOK, OpsOK, Pin
  <1>4. CASE ReleaseBackup(p)
    <2>1. OpsOK'
      BY <1>0, <1>4, GotoOK DEF ReleaseBackup
    <2>2. saved' \in Nat
      BY <1>4, RolloutAssumption DEF RolloutTypeOK, ReleaseBackup
    <2> QED  BY <1>4, <2>1, <2>2 DEF RolloutTypeOK, OpsOK, ReleaseBackup
  <1>5. CASE Begin(p)
    <2>1. OpsOK'
      BY <1>0, <1>5, GotoOK DEF Begin
    <2>2. journal' \in Journal
      BY <1>0, <1>5 DEF RolloutTypeOK, Begin, Journal, Container
    <2> QED  BY <1>5, <2>1, <2>2 DEF RolloutTypeOK, OpsOK, Begin
  <1> QED  BY <1>1, <1>2, <1>3, <1>4, <1>5

\* The steps that read or write the journal.
LEMMA JournalTypeOK ==
    ASSUME RolloutTypeOK, NEW p \in Ops,
           \/ StopWriters(p) \/ Forward(p) \/ Complete(p)
           \/ Recover(p) \/ Revive(p) \/ Probe(p) \/ Abandon(p)
    PROVE  RolloutTypeOK'
  <1> USE DEF hostVars, OpStages
  <1>0. Pending => journal \in Journal /\ journal.kind \in Kinds
    BY DEF RolloutTypeOK, Pending, Journal
  <1>1. CASE StopWriters(p)
    <2>1. OpsOK'
      BY <1>1, GotoOK DEF StopWriters
    <2>2. api' \in [Kinds -> Container]
      <3>1. CASE UNCHANGED api
        BY <3>1 DEF RolloutTypeOK
      <3>2. CASE StopContainer(journal.kind)
        BY <1>0, <1>1, <3>2, StateChanged DEF StopWriters, StopContainer
      <3> QED  BY <1>1, <3>1, <3>2 DEF StopWriters
    <2> QED  BY <1>1, <2>1, <2>2 DEF RolloutTypeOK, OpsOK, StopWriters
  <1>2. CASE Forward(p)
    <2>1. OpsOK'
      BY <1>2, GotoOK DEF Forward
    <2>2. journal' \in Journal \union {NoJournal}
      BY <1>0, <1>2 DEF RolloutTypeOK, Forward, Journal
    <2> QED  BY <1>2, <2>1, <2>2 DEF RolloutTypeOK, OpsOK, Forward
  <1>3. CASE Complete(p)
    <2>1. OpsOK'
      BY <1>3, ContinuesOK DEF Complete
    <2> QED  BY <1>3, <2>1 DEF RolloutTypeOK, OpsOK, Complete
  <1>4. CASE Recover(p)
    <2>1. OpsOK'
      BY <1>0, <1>4, EntersOK DEF Recover, Journal
    <2> QED  BY <1>4, <2>1 DEF RolloutTypeOK, OpsOK, Recover
  <1>5. CASE Revive(p)
    <2>1. OpsOK'
      BY <1>5, GotoOK DEF Revive
    <2>2. api[journal.kind] \in Container
      BY <1>0, <1>5 DEF RolloutTypeOK, Revive
    <2>3. api' \in [Kinds -> Container]
      BY <1>0, <1>5, <2>2 DEF RolloutTypeOK, Revive, Container
    <2> QED  BY <1>5, <2>1, <2>3 DEF RolloutTypeOK, OpsOK, Revive
  <1>6. CASE Probe(p)
    <2>1. OpsOK'
      BY <1>6, EndsOK DEF Probe
    <2> QED  BY <1>6, <2>1 DEF RolloutTypeOK, OpsOK, Probe
  <1>7. CASE Abandon(p)
    BY <1>7 DEF RolloutTypeOK, Abandon
  <1> QED  BY <1>1, <1>2, <1>3, <1>4, <1>5, <1>6, <1>7

\* Compose, and the reset.
LEMMA ComposeTypeOK ==
    ASSUME RolloutTypeOK, NEW p \in Ops,
           \/ Up(p) \/ StartApi(p) \/ AnswersReady(p) \/ Fails(p)
           \/ p \in Resets /\ (Reset(p) \/ StopDemo(p) \/ DropDatabase(p))
    PROVE  RolloutTypeOK'
  <1> USE DEF hostVars, OpStages
  <1>0. turn[p] \in Kinds /\ (p \in Resets => "demo" \in Kinds)
    BY RolloutAssumption DEF RolloutTypeOK
  <1>1. CASE Up(p)
    <2>1. OpsOK'
      BY <1>1, GotoOK DEF Up
    <2>2. api' \in [Kinds -> Container]
      BY <1>0, <1>1 DEF RolloutTypeOK, Up, Container
    <2>3. migrate' \in [Kinds -> Migration]
      BY <1>0, <1>1 DEF RolloutTypeOK, Up, Migration
    <2> QED  BY <1>1, <2>1, <2>2, <2>3 DEF RolloutTypeOK, OpsOK, Up
  <1>2. CASE StartApi(p)
    <2>1. OpsOK'
      BY <1>2, GotoOK DEF StartApi
    <2>2. api' \in [Kinds -> Container]
      BY <1>0, <1>2 DEF RolloutTypeOK, StartApi, Container
    <2> QED  BY <1>2, <2>1, <2>2 DEF RolloutTypeOK, OpsOK, StartApi
  <1>3. CASE AnswersReady(p)
    <2>1. OpsOK'
      BY <1>3, GotoOK, EndsOK DEF AnswersReady
    <2> QED  BY <1>3, <2>1 DEF RolloutTypeOK, OpsOK, AnswersReady
  <1>4. CASE Fails(p)
    <2>1. OpsOK'
      BY <1>4, EndsOK DEF Fails
    <2> QED  BY <1>4, <2>1 DEF RolloutTypeOK, OpsOK, Fails
  <1>5. CASE p \in Resets /\ Reset(p)
    <2>1. OpsOK'
      BY <1>0, <1>5, EntersOK DEF Reset, RolloutTypeOK
    <2> QED  BY <1>5, <2>1 DEF RolloutTypeOK, OpsOK, Reset
  <1>6. CASE p \in Resets /\ StopDemo(p)
    <2>1. OpsOK'
      BY <1>6, GotoOK DEF StopDemo
    <2>2. api' \in [Kinds -> Container]
      BY <1>0, <1>6, StateChanged DEF StopDemo, StopContainer
    <2> QED  BY <1>6, <2>1, <2>2 DEF RolloutTypeOK, OpsOK, StopDemo
  <1>7. CASE p \in Resets /\ DropDatabase(p)
    <2>1. OpsOK'
      BY <1>7, GotoOK DEF DropDatabase
    <2>2. migrate' \in [Kinds -> Migration] /\ schema' \in [Kinds -> Nat]
      BY <1>0, <1>7 DEF RolloutTypeOK, DropDatabase, Migration
    <2> QED  BY <1>7, <2>1, <2>2 DEF RolloutTypeOK, OpsOK, DropDatabase
  <1> QED  BY <1>1, <1>2, <1>3, <1>4, <1>5, <1>6, <1>7

\* What happens to the host by itself.
LEMMA HostTypeOK ==
    ASSUME RolloutTypeOK, (\E k \in Kinds : Host(k)) \/ Reboot \/ RestoreReleaseSet
    PROVE  RolloutTypeOK'
  <1> USE DEF hostVars, OpStages
  <1>1. ASSUME NEW k \in Kinds, Host(k) PROVE RolloutTypeOK'
    <2>1. CASE MigrateOne(k)
      BY <2>1, RolloutAssumption DEF RolloutTypeOK, MigrateOne
    <2>2. CASE Migrated(k) \/ MigrateFails(k)
      <3>1. PICK s \in {"done", "failed"} : MigrateExits(k, s)
        BY <2>2 DEF Migrated, MigrateFails
      <3>2. migrate' = [migrate EXCEPT ![k].state = s]
        BY <3>1 DEF MigrateExits
      <3>3. migrate' \in [Kinds -> Migration]
        BY <3>2 DEF RolloutTypeOK, Migration
      <3> QED  BY <3>1, <3>3 DEF RolloutTypeOK, MigrateExits
    <2>3. CASE ApiExits(k) \/ ApiReturns(k)
      <3>1. api' \in [Kinds -> Container]
        BY <2>3, StateChanged DEF ApiExits, ApiReturns
      <3> QED  BY <2>3, <3>1 DEF RolloutTypeOK, ApiExits, ApiReturns
    <2> QED  BY <1>1, <2>1, <2>2, <2>3 DEF Host
  <1>2. CASE Reboot
    <2>1. api' \in [Kinds -> Container] /\ migrate' \in [Kinds -> Migration]
      <3>1. \A k \in Kinds : [api[k] EXCEPT !.state = "restarting"] \in Container
        BY DEF RolloutTypeOK, Container
      <3>2. \A k \in Kinds : [migrate[k] EXCEPT !.state = "failed"] \in Migration
        BY DEF RolloutTypeOK, Migration
      <3>3. api' \in [Kinds -> Container]
        BY <1>2, <3>1 DEF RolloutTypeOK, Reboot
      <3>4. migrate' \in [Kinds -> Migration]
        BY <1>2, <3>2 DEF RolloutTypeOK, Reboot
      <3> QED  BY <3>3, <3>4
    <2>2. OpsOK'
      BY <1>2, RolloutAssumption DEF OpsOK, Reboot
    <2> QED  BY <1>2, <2>1, <2>2 DEF RolloutTypeOK, OpsOK, Reboot
  <1>3. CASE RestoreReleaseSet
    <2>1. api' \in [Kinds -> Container]
      BY <1>3, StateChanged, RolloutAssumption DEF RestoreReleaseSet, StopContainer
    <2>2. schema' \in [Kinds -> Nat]
      BY <1>3, RolloutAssumption DEF RolloutTypeOK, RestoreReleaseSet
    <2> QED  BY <1>3, <2>1, <2>2 DEF RolloutTypeOK, RestoreReleaseSet
  <1> QED  BY <1>1, <1>2, <1>3

LEMMA NextTypeOK == RolloutTypeOK /\ [RolloutNext]_rolloutVars => RolloutTypeOK'
  <1> SUFFICES ASSUME RolloutTypeOK, [RolloutNext]_rolloutVars PROVE RolloutTypeOK'
    OBVIOUS
  <1>1. ASSUME NEW p \in Rolls, RollOut(p) PROVE RolloutTypeOK'
    <2>1. p \in Ops
      BY DEF Ops, Rolls
    <2> QED  BY <1>1, <2>1, PrepareTypeOK, JournalTypeOK, ComposeTypeOK DEF RollOut, Compose
  <1>2. ASSUME NEW p \in Recoveries, RecoverIt(p) \/ Abandon(p) PROVE RolloutTypeOK'
    <2>1. p \in Ops
      BY DEF Ops
    <2> QED  BY <1>2, <2>1, JournalTypeOK, ComposeTypeOK DEF RecoverIt, Compose
  <1>3. ASSUME NEW p \in Resets, ResetDemo(p) PROVE RolloutTypeOK'
    <2>1. p \in Ops
      BY DEF Ops
    <2> QED  BY <1>3, <2>1, ComposeTypeOK DEF ResetDemo, Compose
  <1>4. ASSUME NEW p \in Ops, Fails(p) PROVE RolloutTypeOK'
    BY <1>4, ComposeTypeOK
  <1>5. CASE (\E k \in Kinds : Host(k)) \/ Reboot \/ RestoreReleaseSet
    BY <1>5, HostTypeOK
  <1>6. CASE UNCHANGED rolloutVars
    BY <1>6 DEF RolloutTypeOK, rolloutVars, hostVars
  <1> QED  BY <1>1, <1>2, <1>3, <1>4, <1>5, <1>6 DEF RolloutNext

\* The state keeps its shape, and one operation at a time is past the host lock.
THEOREM TypeCorrect == RolloutSpec => []RolloutTypeOK
  <1> QED  BY InitTypeOK, NextTypeOK, PTL DEF RolloutSpec

-----------------------------------------------------------------------------
(* The inductive invariant                                                  *)

\* A container belongs to the release whose migrations were started with it.
Settled == \A k \in Kinds : migrate[k].release = api[k].release

\* The recorded revision is the one the recorded configuration runs.
OneRelease == Pending => journal.revision = journal.config

\* What is known of operation p from where it is.
Place(p) ==
    /\ command[p] \in {"checkout", "pin", "backup", "begin"} => ~Pending
    /\ command[p] \in {"pin", "backup", "begin"} => checkout[turn[p]] = target[p]
    /\ command[p] \in {"backup", "begin"} => pin[turn[p]] = target[p]
    /\ command[p] \in {"up", "wait", "ready", "complete"} /\ Pending => journal.phase = "forward-only"
    /\ command[p] \in {"revive", "probe"} /\ Pending => journal.phase = "pre-replacement"
    /\ p \in Resets /\ command[p] # "idle" => ~Pending
    /\ command[p] = "drop" => p \in Resets /\ api["demo"].state = "stopped"
    /\ command[p] = "wait" /\ migrate[turn[p]].state = "done" =>
         Level[migrate[turn[p]].release] <= schema[turn[p]]

Places == \A p \in Ops : Place(p)

Consistent == Settled /\ OneRelease /\ TargetIsKept /\ RevivalIsSafe /\ CodeFitsSchema

IInv == RolloutTypeOK /\ Places /\ Consistent

LEMMA InitIInv == RolloutInit => IInv
  <1> SUFFICES ASSUME RolloutInit PROVE IInv
    OBVIOUS
  <1>1. RolloutTypeOK
    BY InitTypeOK
  <1>2. Places
    BY DEF RolloutInit, Places, Place
  <1>3. \A k \in Kinds : api[k] \in {Installed, Absent}
    BY DEF RolloutInit
  <1>4. \A k \in Kinds : Level[api[k].release] = api[k].met
    BY <1>3, RolloutAssumption DEF Installed, Absent, NoRelease
  <1>5. CodeFitsSchema
    <2> SUFFICES ASSUME NEW k \in Kinds PROVE Fits(k)
      BY DEF CodeFitsSchema
    <2>1. schema[k] = api[k].met /\ api[k].met \in Nat
      BY <1>1 DEF RolloutInit, RolloutTypeOK, Container
    <2> QED  BY <1>4, <2>1 DEF Fits
  <1>6. Settled /\ OneRelease /\ TargetIsKept /\ RevivalIsSafe
    BY DEF RolloutInit, Settled, OneRelease, TargetIsKept, RevivalIsSafe, Pending
  <1> QED  BY <1>1, <1>2, <1>5, <1>6 DEF IInv, Consistent

\* A step of p leaves every other operation idle.
LEMMA OneAtWork ==
    ASSUME RolloutTypeOK', NEW p \in Ops, hostLock' \in {p, Free}, Place(p)'
    PROVE  Places'
  <1> SUFFICES ASSUME NEW q \in Ops, q # p PROVE Place(q)'
    BY DEF Places
  <1>1. hostLock' # q
    BY RolloutAssumption
  <1>2. command'[q] = "idle"
    BY <1>1 DEF RolloutTypeOK
  <1> QED  BY <1>2 DEF Place

\* Nothing that matters to the code on the schema changes, or less of it runs.
LEMMA Calm ==
    ASSUME IInv,
           \A k \in Kinds :
               /\ api'[k].release = api[k].release /\ api'[k].met = api[k].met
               /\ api'[k].state # "stopped" => api[k].state # "stopped"
               /\ migrate'[k].release = migrate[k].release,
           UNCHANGED <<checkout, pin, schema>>,
           journal' \in {journal, NoJournal}
    PROVE  Consistent'
  <1>1. \A k \in Kinds : Fits(k) => Fits(k)'
    BY DEF Fits
  <1>2. Pending' => Pending /\ journal' = journal /\ journal.kind \in Kinds
    BY DEF Pending, IInv, RolloutTypeOK, Journal
  <1>3. Settled' /\ CodeFitsSchema'
    BY <1>1 DEF IInv, Consistent, Settled, CodeFitsSchema
  <1>4. OneRelease' /\ TargetIsKept' /\ RevivalIsSafe'
    BY <1>1, <1>2
    DEF IInv, Consistent, OneRelease, TargetIsKept, TargetMatches, RevivalIsSafe, OldWriterThere
  <1> QED  BY <1>3, <1>4 DEF Consistent

\* The common case: the containers are not touched at all.
LEMMA HostUntouched ==
    ASSUME IInv, UNCHANGED <<api, migrate, schema, checkout, pin>>, journal' \in {journal, NoJournal}
    PROVE  Consistent'
  BY Calm

LEMMA PrepareIInv ==
    ASSUME IInv, RolloutTypeOK', NEW p \in Rolls,
           Acquire(p) \/ Checkout(p) \/ Pin(p) \/ ReleaseBackup(p) \/ Begin(p)
    PROVE  Places' /\ Consistent'
  <1> USE DEF hostVars
  <1>0. p \in Ops /\ p \notin Resets /\ Place(p) /\ RolloutTypeOK /\ Consistent
    BY RolloutAssumption DEF Ops, Rolls, IInv, Places
  <1>1. CASE Acquire(p)
    <2>1. Place(p)' /\ hostLock' = p
      BY <1>0, <1>1 DEF Acquire, BeginsWork, GoesTo, Place, Pending, RolloutTypeOK
    <2> QED  BY <1>0, <1>1, <2>1, OneAtWork, HostUntouched DEF Acquire
  <1>2. CASE Checkout(p)
    <2>1. Place(p)' /\ hostLock' = p /\ ~Pending /\ ~Pending'
      BY <1>0, <1>2 DEF Checkout, GoesTo, Place, Pending, RolloutTypeOK
    <2>2. Consistent'
      BY <1>0, <1>2, <2>1
      DEF Checkout, Consistent, Settled, OneRelease, TargetIsKept, RevivalIsSafe, CodeFitsSchema, Fits
    <2> QED  BY <1>0, <2>1, <2>2, OneAtWork
  <1>3. CASE Pin(p)
    <2>1. Place(p)' /\ hostLock' = p /\ ~Pending /\ ~Pending'
      BY <1>0, <1>3 DEF Pin, GoesTo, Place, Pending, RolloutTypeOK
    <2>2. Consistent'
      BY <1>0, <1>3, <2>1
      DEF Pin, Consistent, Settled, OneRelease, TargetIsKept, RevivalIsSafe, CodeFitsSchema, Fits
    <2> QED  BY <1>0, <2>1, <2>2, OneAtWork
  <1>4. CASE ReleaseBackup(p)
    <2>1. Place(p)' /\ hostLock' = p
      BY <1>0, <1>4 DEF ReleaseBackup, GoesTo, Place, Pending, RolloutTypeOK
    <2> QED  BY <1>0, <1>4, <2>1, OneAtWork, HostUntouched DEF ReleaseBackup
  <1>5. CASE Begin(p)
    <2>1. Place(p)' /\ hostLock' = p
      BY <1>0, <1>5 DEF Begin, GoesTo, Place, Pending, RolloutTypeOK
    <2>2. /\ journal'.kind = turn[p] /\ turn[p] \in Kinds
          /\ journal'.revision = checkout[turn[p]] /\ journal'.config = pin[turn[p]]
          /\ journal'.phase = "pre-replacement" =>
               api[turn[p]].state = "running" /\ journal'.old = api[turn[p]].release
      BY <1>0, <1>5 DEF Begin, RolloutTypeOK
    <2>3. checkout[turn[p]] = pin[turn[p]]
      BY <1>0, <1>5 DEF Begin, Place
    <2>4. UNCHANGED <<api, migrate, schema, checkout, pin>>
      BY <1>5 DEF Begin
    <2>5. Settled' /\ CodeFitsSchema' /\ (\A k \in Kinds : Fits(k) => Fits(k)')
      BY <1>0, <2>4 DEF Consistent, Settled, CodeFitsSchema, Fits
    <2>6. OneRelease' /\ TargetIsKept' /\ RevivalIsSafe'
      BY <1>0, <2>2, <2>3, <2>4, <2>5
      DEF Consistent, OneRelease, TargetIsKept, TargetMatches, RevivalIsSafe, OldWriterThere,
          CodeFitsSchema
    <2> QED  BY <1>0, <2>1, <2>5, <2>6, OneAtWork DEF Consistent
  <1> QED  BY <1>1, <1>2, <1>3, <1>4, <1>5

\* StopWriters, Forward and Complete belong to a rollout or a recovery, never to a reset:
\* a reset runs with no journal pending.
LEMMA JournalIInv ==
    ASSUME IInv, RolloutTypeOK', NEW p \in Ops,
           \/ StopWriters(p) /\ p \notin Resets
           \/ Forward(p) \/ Complete(p)
           \/ p \in Recoveries /\ (Recover(p) \/ Revive(p) \/ Probe(p) \/ Abandon(p))
    PROVE  Places' /\ Consistent'
  <1> USE DEF hostVars
  <1>0. Place(p) /\ RolloutTypeOK /\ Consistent /\ RevivalIsSafe
    BY DEF IInv, Places, Consistent
  <1>a. Pending => journal \in Journal /\ journal.kind \in Kinds
    BY <1>0 DEF RolloutTypeOK, Pending, Journal
  <1>1. CASE StopWriters(p) /\ p \notin Resets
    <2>1. Place(p)' /\ hostLock' = p
      BY <1>0, <1>1 DEF StopWriters, GoesTo, Place, Pending, RolloutTypeOK
    <2>2. \A k \in Kinds : /\ api'[k].release = api[k].release /\ api'[k].met = api[k].met
                           /\ api'[k].state # "stopped" => api[k].state # "stopped"
      <3>1. CASE UNCHANGED api
        BY <3>1
      <3>2. CASE StopContainer(journal.kind)
        BY <1>0, <1>1, <1>a, <3>2 DEF StopWriters, StopContainer, RolloutTypeOK, Container
      <3> QED  BY <1>1, <3>1, <3>2 DEF StopWriters
    <2>3. Consistent'
      BY <1>1, <2>2, Calm DEF StopWriters
    <2> QED  BY <2>1, <2>3, OneAtWork
  <1>2. CASE Forward(p)
    <2>1. hostLock' = p /\ UNCHANGED <<api, migrate, schema, checkout, pin>>
      BY <1>0, <1>2 DEF Forward, RolloutTypeOK
    <2>2. Pending /\ p \notin Resets
      BY <1>0, <1>2 DEF Forward, Place
    <2>3. journal'.phase = "forward-only"
      BY <1>2, <1>a, <2>2 DEF Forward, WithoutApi, Journal
    <2>4. Place(p)'
      BY <1>0, <1>2, <2>1, <2>2, <2>3 DEF Forward, GoesTo, Place, RolloutTypeOK
    <2>5. /\ journal'.kind = journal.kind
          /\ journal'.revision = journal.revision /\ journal'.config = journal.config
      BY <1>2, <1>a, <2>2 DEF Forward, Journal
    <2>6. Consistent'
      BY <1>0, <2>1, <2>2, <2>3, <2>5
      DEF Consistent, Settled, OneRelease, TargetIsKept, TargetMatches, RevivalIsSafe,
          CodeFitsSchema, Fits
    <2> QED  BY <2>1, <2>4, <2>6, OneAtWork
  <1>3. CASE Complete(p)
    <2>1. ~Pending' /\ UNCHANGED <<api, migrate, schema, checkout, pin>> /\ journal' = NoJournal
      BY <1>3 DEF Complete, Pending
    <2>2. command'[p] \in {"idle", "checkout"} /\ hostLock' \in {p, Free}
      BY <1>0, <1>3 DEF Complete, Continues, OpEnds, GoesTo, RolloutTypeOK
    <2>3. Place(p)'
      BY <2>1, <2>2 DEF Place
    <2> QED  BY <2>1, <2>2, <2>3, OneAtWork, HostUntouched
  <1>4. CASE p \in Recoveries /\ Recover(p)
    <2>1. p \notin Resets
      BY <1>4, RolloutAssumption
    <2>2. hostLock' = p /\ UNCHANGED <<api, migrate, schema, checkout, pin, journal>>
      BY <1>4 DEF Recover, BeginsWork
    <2>3. Place(p)'
      BY <1>0, <1>4, <1>a, <2>1, <2>2 DEF Recover, BeginsWork, GoesTo, Place, RolloutTypeOK, Journal
    <2> QED  BY <2>2, <2>3, OneAtWork, HostUntouched
  <1>5. CASE p \in Recoveries /\ Revive(p)
    <2>1. p \notin Resets
      BY <1>5, RolloutAssumption
    <2>2. /\ hostLock' = p /\ UNCHANGED <<migrate, schema, checkout, pin, journal>>
          /\ Pending /\ journal.phase = "pre-replacement"
      BY <1>0, <1>5 DEF Revive, RolloutTypeOK
    <2>3. Place(p)'
      BY <1>0, <1>5, <2>1, <2>2 DEF Revive, GoesTo, Place, RolloutTypeOK, Pending
    <2>4. \A k \in Kinds : /\ api'[k].release = api[k].release /\ api'[k].met = api[k].met
                           /\ k # journal.kind => api'[k] = api[k]
      BY <1>0, <1>5, <1>a, <2>2 DEF Revive, RolloutTypeOK, Container
    <2>5. \A k \in Kinds : Fits(k) => Fits(k)'
      BY <2>2, <2>4 DEF Fits
    <2>6. Fits(journal.kind)
      BY <1>0, <2>2 DEF RevivalIsSafe
    <2>7. CodeFitsSchema' /\ Settled'
      BY <1>0, <2>2, <2>4, <2>5, <2>6 DEF CodeFitsSchema, Consistent, Settled
    <2>8. OneRelease' /\ TargetIsKept' /\ RevivalIsSafe'
      BY <1>0, <1>a, <2>2, <2>4, <2>5
      DEF Consistent, OneRelease, TargetIsKept, TargetMatches, RevivalIsSafe, OldWriterThere, Pending
    <2> QED  BY <2>2, <2>3, <2>7, <2>8, OneAtWork DEF Consistent
  <1>6. CASE p \in Recoveries /\ Probe(p)
    <2>1. hostLock' = Free /\ journal' = NoJournal /\ UNCHANGED <<api, migrate, schema, checkout, pin>>
      BY <1>6 DEF Probe, OpEnds
    <2>2. Place(p)'
      BY <1>0, <1>6 DEF Probe, OpEnds, GoesTo, Place, RolloutTypeOK
    <2> QED  BY <2>1, <2>2, OneAtWork, HostUntouched
  <1>7. CASE p \in Recoveries /\ Abandon(p)
    <2>1. hostLock' = Free /\ journal' = NoJournal /\ UNCHANGED <<api, migrate, schema, checkout, pin>>
      BY <1>7 DEF Abandon
    <2>2. Place(p)'
      BY <1>0, <1>7 DEF Abandon, Place
    <2> QED  BY <2>1, <2>2, OneAtWork, HostUntouched
  <1> QED  BY <1>1, <1>2, <1>3, <1>4, <1>5, <1>6, <1>7

LEMMA ComposeIInv ==
    ASSUME IInv, RolloutTypeOK', NEW p \in Ops,
           \/ Up(p) \/ StartApi(p) \/ AnswersReady(p) \/ Fails(p)
           \/ p \in Resets /\ (Reset(p) \/ StopDemo(p) \/ DropDatabase(p))
    PROVE  Places' /\ Consistent'
  <1> USE DEF hostVars
  <1>0. /\ Place(p) /\ RolloutTypeOK /\ Consistent /\ RevivalIsSafe /\ CodeFitsSchema /\ Settled
        /\ turn[p] \in Kinds /\ (p \in Resets => "demo" \in Kinds)
    BY RolloutAssumption DEF IInv, Places, Consistent, RolloutTypeOK
  <1>a. Pending => journal \in Journal /\ journal.kind \in Kinds
    BY <1>0 DEF RolloutTypeOK, Pending, Journal
  <1>1. CASE Up(p)
    <2>1. /\ hostLock' = p /\ UNCHANGED <<schema, checkout, pin, journal>>
          /\ Pending => journal.phase = "forward-only"
      BY <1>0, <1>1 DEF Up, RolloutTypeOK, Place
    <2>2. migrate'[turn[p]].state = "running"
      BY <1>0, <1>1 DEF Up, RolloutTypeOK
    <2>3. Place(p)'
      BY <1>0, <1>1, <2>1, <2>2 DEF Up, GoesTo, Place, RolloutTypeOK, Pending
    <2>4. ASSUME NEW k \in Kinds
          PROVE  /\ migrate'[k].release = api'[k].release
                 /\ api'[k] = api[k] \/ api'[k].state = "stopped"
      <3>1. CASE k = turn[p]
        BY <1>0, <1>1, <3>1 DEF Up, RolloutTypeOK
      <3>2. CASE k # turn[p]
        BY <1>0, <1>1, <3>2 DEF Up, RolloutTypeOK, Settled
      <3> QED  BY <3>1, <3>2
    <2>5. Settled' /\ CodeFitsSchema'
      BY <1>0, <2>1, <2>4 DEF Settled, CodeFitsSchema, Fits
    <2>6. OneRelease' /\ TargetIsKept' /\ RevivalIsSafe'
      BY <1>0, <2>1
      DEF Consistent, OneRelease, TargetIsKept, TargetMatches, RevivalIsSafe, Pending
    <2> QED  BY <2>1, <2>3, <2>5, <2>6, OneAtWork DEF Consistent
  <1>2. CASE StartApi(p)
    <2>1. /\ hostLock' = p /\ UNCHANGED <<schema, migrate, checkout, pin, journal>>
          /\ Pending => journal.phase = "forward-only"
      BY <1>0, <1>2 DEF StartApi, RolloutTypeOK, Place
    <2>2. Place(p)'
      BY <1>0, <1>2, <2>1 DEF StartApi, GoesTo, Place, RolloutTypeOK, Pending
    <2>3. Level[api[turn[p]].release] <= schema[turn[p]]
      BY <1>0, <1>2 DEF StartApi, Place, Settled
    <2>4. /\ api'[turn[p]].release = api[turn[p]].release
          /\ api'[turn[p]].met = schema[turn[p]] /\ schema[turn[p]] \in Nat
          /\ \A k \in Kinds : k # turn[p] => api'[k] = api[k]
      BY <1>0, <1>2 DEF StartApi, RolloutTypeOK, Container
    <2>5. \A k \in Kinds : k = turn[p] => Fits(k)'
      BY <1>0, <2>1, <2>3, <2>4 DEF Fits
    <2>6. CodeFitsSchema' /\ Settled'
      BY <1>0, <2>1, <2>4, <2>5 DEF CodeFitsSchema, Settled, Fits
    <2>7. OneRelease' /\ TargetIsKept' /\ RevivalIsSafe'
      BY <1>0, <2>1
      DEF Consistent, OneRelease, TargetIsKept, TargetMatches, RevivalIsSafe, Pending
    <2> QED  BY <2>1, <2>2, <2>6, <2>7, OneAtWork DEF Consistent
  <1>3. CASE AnswersReady(p)
    <2>1. UNCHANGED <<api, migrate, schema, checkout, pin, journal>>
      BY <1>3 DEF AnswersReady
    <2>2. command'[p] \in {"idle", "complete"} /\ hostLock' \in {p, Free}
      BY <1>0, <1>3 DEF AnswersReady, OpEnds, GoesTo, RolloutTypeOK
    <2>3. command'[p] = "complete" => p \notin Resets
      BY <1>0, <1>3 DEF AnswersReady, OpEnds, GoesTo, RolloutTypeOK
    <2>4. Place(p)'
      BY <1>0, <1>3, <2>1, <2>2, <2>3 DEF AnswersReady, Place, Pending
    <2> QED  BY <2>1, <2>2, <2>4, OneAtWork, HostUntouched
  <1>4. CASE Fails(p)
    <2>1. UNCHANGED <<api, migrate, schema, checkout, pin, journal>> /\ hostLock' = Free
      BY <1>4 DEF Fails, OpEnds
    <2>2. Place(p)'
      BY <1>0, <1>4 DEF Fails, OpEnds, GoesTo, Place, RolloutTypeOK
    <2> QED  BY <2>1, <2>2, OneAtWork, HostUntouched
  <1>5. CASE p \in Resets /\ Reset(p)
    <2>1. UNCHANGED <<api, migrate, schema, checkout, pin, journal>> /\ hostLock' = p /\ ~Pending
      BY <1>5 DEF Reset, BeginsWork
    <2>2. Place(p)'
      BY <1>0, <1>5, <2>1 DEF Reset, BeginsWork, GoesTo, Place, RolloutTypeOK, Pending
    <2> QED  BY <2>1, <2>2, OneAtWork, HostUntouched
  <1>6. CASE p \in Resets /\ StopDemo(p)
    <2>1. /\ UNCHANGED <<migrate, schema, checkout, pin, journal>> /\ hostLock' = p
          /\ ~Pending /\ ~Pending'
      BY <1>0, <1>6 DEF StopDemo, Place, RolloutTypeOK, Pending
    <2>2. \A k \in Kinds : /\ api'[k].release = api[k].release /\ api'[k].met = api[k].met
                           /\ api'[k].state # "stopped" => api[k].state # "stopped"
                           /\ api'["demo"].state = "stopped"
      BY <1>0, <1>6 DEF StopDemo, StopContainer, RolloutTypeOK, Container
    <2>3. Place(p)'
      BY <1>0, <1>6, <2>1, <2>2 DEF StopDemo, GoesTo, Place, RolloutTypeOK
    <2>4. Consistent'
      BY <2>1, <2>2, Calm
    <2> QED  BY <2>1, <2>3, <2>4, OneAtWork
  <1>7. CASE p \in Resets /\ DropDatabase(p)
    <2>1. /\ UNCHANGED <<api, checkout, pin, journal>> /\ hostLock' = p
          /\ ~Pending /\ ~Pending' /\ api["demo"].state = "stopped"
      BY <1>0, <1>7 DEF DropDatabase, Place, RolloutTypeOK, Pending
    <2>2. Place(p)'
      BY <1>0, <1>7, <2>1 DEF DropDatabase, GoesTo, Place, RolloutTypeOK
    <2>3. \A k \in Kinds : /\ migrate'[k].release = migrate[k].release
                           /\ k # "demo" => schema'[k] = schema[k]
      BY <1>0, <1>7 DEF DropDatabase, RolloutTypeOK, Migration
    <2>4. Settled' /\ CodeFitsSchema'
      BY <1>0, <2>1, <2>3 DEF Settled, CodeFitsSchema, Fits
    <2>5. OneRelease' /\ TargetIsKept' /\ RevivalIsSafe'
      BY <2>1 DEF OneRelease, TargetIsKept, RevivalIsSafe
    <2> QED  BY <2>1, <2>2, <2>4, <2>5, OneAtWork DEF Consistent
  <1> QED  BY <1>1, <1>2, <1>3, <1>4, <1>5, <1>6, <1>7

LEMMA HostIInv ==
    ASSUME IInv, RolloutTypeOK', (\E k \in Kinds : Host(k)) \/ Reboot \/ RestoreReleaseSet
    PROVE  Places' /\ Consistent'
  <1> USE DEF hostVars
  <1>0. /\ Places /\ RolloutTypeOK /\ Consistent /\ RevivalIsSafe /\ CodeFitsSchema /\ Settled
    BY DEF IInv, Consistent
  <1>1. ASSUME NEW k \in Kinds, MigrateOne(k) PROVE Places' /\ Consistent'
    <2>1. /\ UNCHANGED <<command, turn, target, checkout, pin, api, migrate, journal>>
          /\ schema'[k] = schema[k] + 1 /\ schema[k] < Level[api[k].release]
          /\ \A j \in Kinds : j # k => schema'[j] = schema[j]
          /\ \A j \in Kinds : schema'[j] >= schema[j]
      BY <1>0, <1>1 DEF MigrateOne, RolloutTypeOK, Settled
    <2>2. schema \in [Kinds -> Nat] /\ schema' \in [Kinds -> Nat] /\ Level[api[k].release] \in Nat
      BY <1>0, RolloutAssumption DEF RolloutTypeOK, Container
    <2>3. ~Fits(k)
      BY <2>1, <2>2 DEF Fits
    <2>4. ASSUME NEW j \in Kinds, Fits(j) PROVE Fits(j)'
      <3>1. CASE j = k
        BY <2>3, <2>4, <3>1
      <3>2. CASE j # k
        BY <2>1, <2>4, <3>2 DEF Fits
      <3> QED  BY <3>1, <3>2
    <2>5. Consistent'
      <3>1. Pending => journal.kind \in Kinds
        BY <1>0 DEF RolloutTypeOK, Pending, Journal
      <3>2. Settled' /\ CodeFitsSchema'
        BY <1>0, <2>1, <2>4 DEF Settled, CodeFitsSchema
      <3>3. OneRelease' /\ TargetIsKept' /\ RevivalIsSafe'
        BY <1>0, <2>1, <2>4, <3>1
        DEF Consistent, OneRelease, TargetIsKept, TargetMatches, RevivalIsSafe, OldWriterThere,
            Pending
      <3> QED  BY <3>2, <3>3 DEF Consistent
    <2>6. ASSUME NEW q \in Ops PROVE Place(q)'
      <3>1. Place(q) /\ turn[q] \in Kinds /\ Level[migrate[turn[q]].release] \in Nat
        BY <1>0, RolloutAssumption DEF Places, RolloutTypeOK, Migration
      <3> QED  BY <2>1, <2>2, <3>1 DEF Place, Pending
    <2> QED  BY <2>5, <2>6 DEF Places
  <1>2. ASSUME NEW k \in Kinds, Migrated(k) \/ MigrateFails(k) PROVE Places' /\ Consistent'
    <2>1. /\ UNCHANGED <<command, turn, target, checkout, pin, api, schema, journal>>
          /\ migrate'[k].release = migrate[k].release
          /\ migrate'[k].state = "done" => schema[k] >= Level[migrate[k].release]
          /\ \A j \in Kinds : j # k => migrate'[j] = migrate[j]
      BY <1>0, <1>2 DEF Migrated, MigrateFails, MigrateExits, RolloutTypeOK, Migration
    <2>2. schema \in [Kinds -> Nat] /\ Level[migrate[k].release] \in Nat
      BY <1>0, RolloutAssumption DEF RolloutTypeOK, Migration
    <2>3. Consistent'
      BY <2>1, Calm
    <2>4. ASSUME NEW q \in Ops PROVE Place(q)'
      <3>1. Place(q) /\ turn[q] \in Kinds
        BY <1>0 DEF Places, RolloutTypeOK
      <3> QED  BY <2>1, <2>2, <3>1 DEF Place, Pending
    <2> QED  BY <2>3, <2>4 DEF Places
  <1>3. ASSUME NEW k \in Kinds, ApiExits(k) \/ ApiReturns(k) PROVE Places' /\ Consistent'
    <2>1. /\ UNCHANGED <<command, turn, target, checkout, pin, migrate, schema, journal>>
          /\ api[k].state # "stopped"
          /\ api'[k].release = api[k].release /\ api'[k].met = api[k].met
          /\ \A j \in Kinds : j # k => api'[j] = api[j]
      BY <1>0, <1>3 DEF ApiExits, ApiReturns, RolloutTypeOK, Container
    <2>2. Consistent'
      BY <2>1, Calm
    <2>3. ASSUME NEW q \in Ops PROVE Place(q)'
      <3>1. Place(q) /\ (q \in Resets => "demo" \in Kinds)
        BY <1>0, RolloutAssumption DEF Places
      <3> QED  BY <2>1, <3>1 DEF Place, Pending
    <2> QED  BY <2>2, <2>3 DEF Places
  <1>4. CASE Reboot
    <2>1. Places'
      BY <1>4 DEF Reboot, Places, Place
    <2>2. /\ UNCHANGED <<checkout, pin, schema, journal>>
          /\ \A k \in Kinds :
               /\ api'[k].release = api[k].release /\ api'[k].met = api[k].met
               /\ api'[k].state # "stopped" => api[k].state # "stopped"
               /\ migrate'[k].release = migrate[k].release
      BY <1>0, <1>4 DEF Reboot, RolloutTypeOK, Container, Migration
    <2> QED  BY <2>1, <2>2, Calm
  <1>5. CASE RestoreReleaseSet
    <2>1. /\ UNCHANGED <<hostLock, command, turn, target, checkout, pin, migrate, journal>>
          /\ hostLock = Free /\ Pending /\ journal.phase = "forward-only"
          /\ api'["stack"].state = "stopped" /\ api'["stack"].release = api["stack"].release
          /\ \A j \in Kinds : j # "stack" => api'[j] = api[j] /\ schema'[j] = schema[j]
      BY <1>0, <1>5, RolloutAssumption DEF RestoreReleaseSet, StopContainer, RolloutTypeOK, Container
    <2>2. \A q \in Ops : command'[q] = "idle"
      BY <1>0, <2>1, RolloutAssumption DEF RolloutTypeOK
    <2>3. Places'
      BY <2>2 DEF Places, Place
    <2>4. Settled' /\ CodeFitsSchema'
      BY <1>0, <2>1 DEF Settled, CodeFitsSchema, Fits
    <2>5. OneRelease' /\ TargetIsKept' /\ RevivalIsSafe'
      BY <1>0, <2>1
      DEF Consistent, OneRelease, TargetIsKept, TargetMatches, RevivalIsSafe, Pending
    <2> QED  BY <2>3, <2>4, <2>5 DEF Consistent
  <1> QED  BY <1>1, <1>2, <1>3, <1>4, <1>5 DEF Host

LEMMA NextIInv == IInv /\ [RolloutNext]_rolloutVars => IInv'
  <1> SUFFICES ASSUME IInv, [RolloutNext]_rolloutVars PROVE IInv'
    OBVIOUS
  <1>0. RolloutTypeOK /\ RolloutTypeOK'
    BY NextTypeOK DEF IInv
  <1> SUFFICES Places' /\ Consistent'
    BY <1>0 DEF IInv
  <1>1. ASSUME NEW p \in Rolls, RollOut(p) PROVE Places' /\ Consistent'
    <2>1. p \in Ops /\ p \notin Resets
      BY RolloutAssumption DEF Ops, Rolls
    <2> QED  BY <1>0, <1>1, <2>1, PrepareIInv, JournalIInv, ComposeIInv DEF RollOut, Compose
  <1>2. ASSUME NEW p \in Recoveries, RecoverIt(p) \/ Abandon(p) PROVE Places' /\ Consistent'
    <2>1. p \in Ops
      BY DEF Ops
    <2> QED  BY <1>0, <1>2, <2>1, JournalIInv, ComposeIInv DEF RecoverIt, Compose
  <1>3. ASSUME NEW p \in Resets, ResetDemo(p) PROVE Places' /\ Consistent'
    <2>1. p \in Ops
      BY DEF Ops
    <2> QED  BY <1>0, <1>3, <2>1, ComposeIInv DEF ResetDemo, Compose
  <1>4. ASSUME NEW p \in Ops, Fails(p) PROVE Places' /\ Consistent'
    BY <1>0, <1>4, ComposeIInv
  <1>5. CASE (\E k \in Kinds : Host(k)) \/ Reboot \/ RestoreReleaseSet
    BY <1>0, <1>5, HostIInv
  <1>6. CASE UNCHANGED rolloutVars
    <2>1. Places'
      BY <1>6 DEF IInv, Places, Place, Pending, rolloutVars, hostVars
    <2>2. Consistent'
      BY <1>6, HostUntouched DEF rolloutVars, hostVars
    <2> QED  BY <2>1, <2>2
  <1> QED  BY <1>1, <1>2, <1>3, <1>4, <1>5, <1>6 DEF RolloutNext

LEMMA Invariance == RolloutSpec => []IInv
  <1> QED  BY InitIInv, NextIInv, PTL DEF RolloutSpec

-----------------------------------------------------------------------------
(* The theorems                                                             *)

\* No API runs, or is restarted by the container runtime, on a schema it does not
\* fit, however rollouts, recoveries, resets, interruptions and reboots combine.
THEOREM CodeIsSafe == RolloutSpec => []CodeFitsSchema
  <1>1. IInv => CodeFitsSchema
    BY DEF IInv, Consistent
  <1> QED  BY <1>1, Invariance, PTL

\* Reviving the recorded API is safe whenever the journal says it may be revived.
THEOREM RevivalCorrect == RolloutSpec => []RevivalIsSafe
  <1>1. IInv => RevivalIsSafe
    BY DEF IInv, Consistent
  <1> QED  BY <1>1, Invariance, PTL

\* Nothing moves the checkout or the images of a pending deployment.
THEOREM TargetStays == RolloutSpec => []TargetIsKept
  <1>1. IInv => TargetIsKept
    BY DEF IInv, Consistent
  <1> QED  BY <1>1, Invariance, PTL

\* What Complete and Probe have looked at when they clear the journal.
LEMMA ClosingStep ==
    ASSUME IInv, NEW p \in Ops, Complete(p) \/ (p \in Recoveries /\ Probe(p))
    PROVE  /\ api[journal.kind].release = IF journal.phase = "forward-only" THEN journal.revision
                                                                            ELSE journal.old
           /\ Fits(journal.kind)
  <1>0. /\ Place(p) /\ RolloutTypeOK /\ CodeFitsSchema /\ RevivalIsSafe /\ TargetIsKept /\ OneRelease
    BY DEF IInv, Consistent, Places
  <1>1. CASE Complete(p)
    <2>1. Pending /\ journal.kind \in Kinds /\ journal.phase = "forward-only"
      BY <1>0, <1>1 DEF Complete, RolloutTypeOK, Pending, Journal
    <2>2. api[journal.kind].state = "running" /\ api[journal.kind].release = pin[journal.kind]
      BY <1>1 DEF Complete, CandidateServes
    <2>3. pin[journal.kind] = journal.revision
      BY <1>0, <2>1 DEF TargetIsKept, TargetMatches, OneRelease
    <2> QED  BY <1>0, <2>1, <2>2, <2>3 DEF CodeFitsSchema
  <1>2. CASE p \in Recoveries /\ Probe(p)
    <2>1. Pending /\ journal.phase = "pre-replacement"
      BY <1>0, <1>2 DEF Probe, Place
    <2> QED  BY <1>0, <2>1 DEF RevivalIsSafe, OldWriterThere
  <1> QED  BY <1>1, <1>2

\* A journal cleared by an operation closes a rollout that is whole or undone.
THEOREM ClosesWhole == RolloutSpec => JournalClosesWhole
  <1> DEFINE Whole == LET k == journal.kind IN
                        /\ api[k].release = IF journal.phase = "forward-only" THEN journal.revision
                                                                              ELSE journal.old
                        /\ Fits(k)
  <1>1. IInv /\ [RolloutNext]_rolloutVars
          => [Pending /\ journal' = NoJournal /\ hostLock # Free => Whole]_rolloutVars
    <2> SUFFICES ASSUME IInv, RolloutNext, Pending, journal' = NoJournal, hostLock # Free PROVE Whole
      BY DEF Pending
    <2>0. journal' # journal
      BY DEF Pending
    <2>1. ASSUME NEW p \in Ops, Complete(p) \/ (p \in Recoveries /\ Probe(p)) PROVE Whole
      BY <2>1, ClosingStep
    <2>2. CASE \E p \in Rolls : RollOut(p)
      <3>1. PICK p \in Rolls : RollOut(p)
        BY <2>2
      <3>2. p \in Ops
        BY DEF Ops, Rolls
      <3>3. ~Forward(p)
        BY NoJournalAssumption DEF Forward, IInv, RolloutTypeOK, Pending, Journal
      <3>4. ~Acquire(p) /\ ~Begin(p)
        BY DEF Acquire, Begin
      <3>5. ~Checkout(p) /\ ~Pin(p) /\ ~ReleaseBackup(p) /\ ~StopWriters(p) /\ ~Compose(p)
        BY <2>0 DEF Checkout, Pin, ReleaseBackup, StopWriters, Compose, Up, StartApi, AnswersReady
      <3>6. Complete(p)
        BY <3>1, <3>3, <3>4, <3>5 DEF RollOut
      <3> QED  BY <2>1, <3>2, <3>6
    <2>3. CASE \E p \in Recoveries : RecoverIt(p) \/ Abandon(p)
      <3>1. PICK p \in Recoveries : RecoverIt(p) \/ Abandon(p)
        BY <2>3
      <3>2. p \in Ops
        BY DEF Ops
      <3>3. Complete(p) \/ Probe(p)
        BY <2>0, <3>1
        DEF RecoverIt, Compose, Recover, Revive, Abandon, Up, StartApi, AnswersReady
      <3> QED  BY <2>1, <3>2, <3>3
    <2>4. ~(\E p \in Resets : ResetDemo(p))
      BY <2>0
      DEF ResetDemo, Reset, StopDemo, DropDatabase, Compose, Up, StartApi, AnswersReady
    <2>5. ~(\E p \in Ops : Fails(p))
      BY <2>0 DEF Fails
    <2>6. ~(\E k \in Kinds : Host(k)) /\ ~Reboot /\ ~RestoreReleaseSet
      BY <2>0
      DEF Host, MigrateOne, Migrated, MigrateFails, MigrateExits, ApiExits, ApiReturns, Reboot,
          RestoreReleaseSet
    <2> QED  BY <2>2, <2>3, <2>4, <2>5, <2>6 DEF RolloutNext
  <1> QED  BY <1>1, Invariance, PTL DEF RolloutSpec, JournalClosesWhole
=============================================================================
