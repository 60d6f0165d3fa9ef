------------------------------- MODULE Provision -------------------------------
(***************************************************************************)
(* A server from infra/scripts/provision.sh to a started stack: runs of    *)
(* the script, which may fail or be killed anywhere and are run again, the *)
(* owner who fills in .env between them, what infra/compose.yml makes of   *)
(* the rows, and the rules of packages/env by which the API refuses to     *)
(* start.                                                                  *)
(*                                                                         *)
(* A row of .env is one of a few values the rules tell apart; "empty" is a *)
(* row without a value.  Docker, Tailscale, git and ufw do what they are   *)
(* asked or fail.                                                          *)
(***************************************************************************)
EXTENDS Naturals, FiniteSets

CONSTANTS
    MaxRuns,   \* bound on the runs of the script
    MaxEdits,  \* bound on the rows the owner writes
    Gone       \* no .env; no API

Exposures == {"tailscale", "public"}

\* What each row can hold.
Rows == [auth         |-> {"empty", "generated", "own", "change-me", "short"},
         password     |-> {"empty", "generated", "own", "starterdough"},
         urlPassword  |-> {"generated", "own", "starterdough"},
         bind         |-> {"empty", "127.0.0.1", "0.0.0.0"},
         mode         |-> {"subdomains", "single-origin"},
         domain       |-> {"empty", "here"},
         web          |-> {"empty", "here", "elsewhere"},
         api          |-> {"empty", "here", "elsewhere"},
         cookie       |-> {"empty", "here"},
         resend       |-> {"empty", "own"},
         from         |-> {"example.com", "own"},
         demo         |-> {"empty", "true"},
         verification |-> {"empty", "false"},
         images       |-> {"empty", "own"}]

Envs == {e \in [DOMAIN Rows -> UNION {Rows[row] : row \in DOMAIN Rows}] :
           \A row \in DOMAIN Rows : e[row] \in Rows[row]}

ASSUME ProvisionAssumption == MaxRuns \in Nat /\ MaxEdits \in Nat /\ Gone \notin Envs

VARIABLES
    script,    \* the run under way: its EXPOSE, where it is
    runs,      \* how many there have been
    checkout,  \* the repository on the server
    ports,     \* ports ufw lets in
    env,       \* .env
    maker,     \* EXPOSE of the run that made it
    cut,       \* that run ended before it had filled it in
    byHand,    \* rows the owner has written
    running    \* the .env the API runs with

provisionVars == <<script, runs, checkout, ports, env, maker, cut, byHand, running>>

-----------------------------------------------------------------------------
\* .env.example.
Template == [auth |-> "empty", password |-> "empty", urlPassword |-> "starterdough",
             bind |-> "empty", mode |-> "subdomains", domain |-> "empty", web |-> "empty",
             api |-> "empty", cookie |-> "empty", resend |-> "empty",
             from |-> "example.com", demo |-> "empty", verification |-> "empty",
             images |-> "empty"]

ProvisionInit ==
    /\ script = [at |-> "over", expose |-> "tailscale"] /\ runs = 0
    /\ checkout = "none" /\ ports = {}
    /\ env = Gone /\ maker = "tailscale" /\ cut = FALSE /\ byHand = {}
    /\ running = Gone

Step(from, to) == script.at = from /\ script' = [script EXCEPT !.at = to]

BeginRun(expose) ==
    /\ script.at = "over" /\ runs < MaxRuns
    /\ script' = [at |-> "packages", expose |-> expose]
    /\ runs' = runs + 1
    /\ UNCHANGED <<checkout, ports, env, maker, cut, byHand, running>>

\* Packages, Docker, Tailscale, the deploy user: each is skipped when it is there.
Packages ==
    /\ Step("packages", "firewall")
    /\ UNCHANGED <<runs, checkout, ports, env, maker, cut, byHand, running>>

\* Rules are only ever added.
Firewall ==
    /\ Step("firewall", "clone")
    /\ ports' = ports \union {"22", "tailscale0"}
                      \union (IF script.expose = "public" THEN {"80", "443"} ELSE {})
    /\ UNCHANGED <<runs, checkout, env, maker, cut, byHand, running>>

\* A directory with .git is not cloned again.
Clone ==
    /\ Step("clone", "copy")
    /\ checkout' = IF checkout = "none" THEN "whole" ELSE checkout
    /\ UNCHANGED <<runs, ports, env, maker, cut, byHand, running>>

CopyAlways ==   \* wrong: every run makes the file anew
    /\ checkout = "whole"
    /\ Step("copy", "fill")
    /\ env' = Template /\ maker' = script.expose /\ cut' = TRUE
    /\ UNCHANGED <<runs, checkout, ports, byHand, running>>

\* An .env that is there is kept.
Copy ==
    /\ checkout = "whole" \/ env # Gone
    /\ IF env # Gone
         THEN Step("copy", "over") /\ UNCHANGED <<env, maker, cut>>
         ELSE /\ Step("copy", "fill")
              /\ env' = Template /\ maker' = script.expose /\ cut' = TRUE
    /\ UNCHANGED <<runs, checkout, ports, byHand, running>>

\* One sed, which replaces the file at once.
BindOf(expose) == IF expose = "public" THEN "0.0.0.0" ELSE "127.0.0.1"
Generated(expose) ==
    [env EXCEPT !.auth = "generated", !.password = "generated", !.urlPassword = "generated",
                !.bind = BindOf(expose), !.domain = "empty",
                !.mode = IF expose = "public" THEN "subdomains" ELSE "single-origin"]
Fill ==
    /\ Step("fill", "images")
    /\ env' = Generated(script.expose) /\ cut' = FALSE
    /\ UNCHANGED <<runs, checkout, ports, maker, byHand, running>>

\* The registry, when REPO_URL says which.
Images ==
    /\ Step("images", "over")
    /\ env' \in {env, [env EXCEPT !.images = "own"]}
    /\ UNCHANGED <<runs, checkout, ports, maker, cut, byHand, running>>

\* set -e, or the box goes down; git removes a clone that fails, not one that is
\* killed.
Stops ==
    /\ script.at # "over"
    /\ script' = [script EXCEPT !.at = "over"]
    /\ \/ UNCHANGED checkout
       \/ script.at = "clone" /\ checkout = "none" /\ checkout' = "partial"
    /\ UNCHANGED <<runs, ports, env, maker, cut, byHand, running>>

-----------------------------------------------------------------------------
\* The owner writes a row, between the runs.
WriteRow(row, v) ==
    /\ script.at = "over" /\ env # Gone
    /\ Cardinality(byHand) < MaxEdits /\ row \notin byHand
    /\ v \in Rows[row] \ {"generated", env[row]}
    /\ env' = [env EXCEPT ![row] = v]
    /\ byHand' = byHand \union {row}
    /\ UNCHANGED <<script, runs, checkout, ports, maker, cut, running>>

-----------------------------------------------------------------------------
(* The rules of packages/env, on what compose.yml hands to the API: NODE_ENV
   is production, DATABASE_URL is made from POSTGRES_PASSWORD, and an origin
   without a row is derived from DOMAIN. *)

OriginHost(row, e) == IF e[row] # "empty" THEN e[row]
                      ELSE IF e.domain # "empty" THEN e.domain ELSE "localhost"

PlaceholderSecrets(e) ==
    {row \in {"auth", "password"} : e[row] \in {"change-me", "starterdough"}}

ProductionRequirements(e) ==
    {row \in {"verification"} : e.demo = "true" /\ e.resend = "empty" /\ e.verification # "false"}
    \union {row \in {"resend"} : e.resend = "empty" /\ e.demo # "true"}
    \union {row \in {"from"} : e.from = "example.com"}

CookieDomainIssues(e) ==
    {row \in {"web", "api"} : e.cookie # "empty" /\ OriginHost(row, e) # e.cookie}

\* The schema's own rules: the secret's length.
SchemaIssues(e) == {row \in {"auth"} : e.auth = "short"}

ConfigurationIssues(e) ==
    SchemaIssues(e) \union PlaceholderSecrets(e) \union ProductionRequirements(e)
                    \union CookieDomainIssues(e)

\* ${POSTGRES_PASSWORD:?} and ${BETTER_AUTH_SECRET:?}.
Interpolates(e) == e.password # "empty" /\ e.auth # "empty"

\* `docker compose up -d`, for a checkout that has the compose file.
ComposeUp ==
    /\ script.at = "over" /\ checkout = "whole" /\ env # Gone /\ running # env
    /\ Interpolates(env)
    /\ running' = IF ConfigurationIssues(env) = {} THEN env ELSE Gone
    /\ UNCHANGED <<script, runs, checkout, ports, env, maker, cut, byHand>>

ProvisionNext ==
    \/ \E expose \in Exposures : BeginRun(expose)
    \/ Packages \/ Firewall \/ Clone \/ Copy \/ Fill \/ Images \/ Stops
    \/ \E row \in DOMAIN Rows : \E v \in Rows[row] : WriteRow(row, v)
    \/ ComposeUp

ProvisionSpec == ProvisionInit /\ [][ProvisionNext]_provisionVars

-----------------------------------------------------------------------------
ProvisionTypeOK ==
    /\ script \in [at : {"over", "packages", "firewall", "clone", "copy", "fill", "images"},
                   expose : Exposures]
    /\ runs \in 0..MaxRuns /\ checkout \in {"none", "partial", "whole"}
    /\ ports \subseteq {"22", "tailscale0", "80", "443"}
    /\ env \in Envs \union {Gone} /\ running \in Envs \union {Gone}
    /\ maker \in Exposures /\ cut \in BOOLEAN /\ byHand \subseteq DOMAIN Rows

\* However often the script is run again, with whatever EXPOSE, after whatever
\* failure: the rows the owner has not written are the ones its maker generated,
\* the host tooling's password is the database's, and Caddy is published where
\* that run's EXPOSE says, as long as the maker got past its sed; and an API that
\* starts, on a half-made file too, has real secrets, mail it can send and a
\* cookie both origins receive (provision.sh, compose.yml, configurationIssues).
ProvisionedStackIsSound ==
    /\ env # Gone /\ ~cut =>
         /\ \A row \in {"auth", "password", "urlPassword"} \ byHand : env[row] = "generated"
         /\ "bind" \notin byHand => env.bind = BindOf(maker)
         /\ \A row \in byHand : env[row] # "generated"
    /\ running # Gone =>
         /\ running.auth \in {"generated", "own"} /\ running.password \in {"generated", "own"}
         /\ running.resend = "own" \/ running.verification = "false"
         /\ running.cookie # "empty" => \A row \in {"web", "api"} :
                                           OriginHost(row, running) = running.cookie
===============================================================================
