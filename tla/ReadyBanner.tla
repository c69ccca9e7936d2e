---------------------------- MODULE ReadyBanner -----------------------------
(***************************************************************************)
(* The start of the stack of docker-compose.yml, the boot guards of        *)
(* core/server.py and the banner of core/announce.py: the door publishes   *)
(* its token and the tunnel its URL on the volume /shared, and the service *)
(* "ready" reads both there and prints them once.                          *)
(*                                                                         *)
(* The volume outlives the containers.  "docker compose up" creates all of *)
(* them anew from .env, after init-shared; a reboot of the host starts     *)
(* those that are there, each on its own (restart: unless-stopped), as     *)
(* Docker does with a container whose process ended.                       *)
(***************************************************************************)
EXTENDS Naturals, Sequences, SequencesExt

CONSTANTS Chosen,     \* the tokens an operator may write into .env
          NoToken,    \* a blank one, or no file
          Envs,       \* the .env files
          MaxUps, MaxReboots, MaxBoots, MaxTunnels  \* bounds of the counters

(* .env: the token, whether all R2 credentials are set, VIVIJURE_OFFLOAD   *)
(* after strip and lower, and whether the override file makes cloudflared  *)
(* run a named tunnel, which logs no URL.  Tokens that the door generates  *)
(* are numbers.                                                            *)
OffloadModes == {"none", "model", "sequential"}

Tokens == Chosen \cup (Nat \ {0})

EnvType == [token : Chosen \cup {NoToken}, r2 : BOOLEAN,
            offload : OffloadModes \cup {"", "other"}, named : BOOLEAN]

ASSUME BannerAssumption ==
    /\ NoToken \notin Tokens
    /\ Envs \subseteq EnvType
    /\ MaxUps \in Nat /\ MaxReboots \in Nat /\ MaxBoots \in Nat /\ MaxTunnels \in Nat

VARIABLES
    env,        \* the .env the containers were created from
    ups,        \* how often they were
    reboots,    \* how often the host was rebooted since
    tokenFile,  \* /shared/token
    cfLog,      \* /shared/cf.log: the URLs in it
    server,     \* where the door's process is
    expected,   \* its LOCAL_BACKEND_TOKEN
    boots,      \* how often it was started
    tunnel,     \* cloudflared: down, starting, up
    tunnels,    \* how many URLs it was ever given
    ready,      \* what the ready service waits for
    seen,       \* the token and the health it saw
    banner      \* what it has printed since it was started

stackVars  == <<env, ups, reboots>>
serverVars == <<tokenFile, server, expected, boots>>
tunnelVars == <<cfLog, tunnel, tunnels>>
readyVars  == <<ready, seen, banner>>
vars       == <<stackVars, serverVars, tunnelVars, readyVars>>

NoUrl    == [name |-> 0, up |-> 0]
Nothing  == [token |-> NoToken, healthy |-> FALSE]
NoBanner == [token |-> NoToken, healthy |-> FALSE, url |-> NoUrl]

Init ==
    /\ env \in Envs
    /\ ups = 0 /\ reboots = 0
    /\ tokenFile = NoToken /\ cfLog = <<>>
    /\ server = "down" /\ expected = NoToken /\ boots = 0
    /\ tunnel = "down" /\ tunnels = 0
    /\ ready = "down" /\ seen = Nothing /\ banner = NoBanner
-----------------------------------------------------------------------------
ContainersStart ==
    /\ server' = "starting" /\ expected' = NoToken
    /\ tunnel' = "starting"
    /\ ready' = "token" /\ seen' = Nothing /\ banner' = NoBanner
    /\ UNCHANGED <<tokenFile, boots, tunnels>>

(* init-shared removes the tunnel's log, not the token.  (A broken twin,   *)
(* named for its slip, stands before its operator.)                        *)
InitKeepsLog == UNCHANGED cfLog

InitShared == cfLog' = <<>>

ComposeUp ==
    /\ ups < MaxUps
    /\ env' \in Envs
    /\ ups' = ups + 1
    /\ reboots' = 0
    /\ InitShared
    /\ ContainersStart

Reboot ==
    /\ ups > 0 /\ reboots < MaxReboots
    /\ reboots' = reboots + 1
    /\ ContainersStart
    /\ UNCHANGED <<env, ups, cfLog>>
-----------------------------------------------------------------------------
(* The door: its sh command picks a token and publishes it, then the       *)
(* guards of the server look at the credentials and at VIVIJURE_OFFLOAD    *)
(* before the socket is bound.                                             *)
PickToken ==
    /\ server = "starting" /\ boots < MaxBoots
    /\ boots' = boots + 1
    /\ expected' = IF env.token = NoToken THEN boots + 1 ELSE env.token
    /\ server' = "picked"
    /\ UNCHANGED <<stackVars, tokenFile, tunnelVars, readyVars>>

PublishToken ==
    /\ server = "picked"
    /\ tokenFile' = expected
    /\ server' = "guards"
    /\ UNCHANGED <<stackVars, expected, boots, tunnelVars, readyVars>>

GuardsPass == env.r2 /\ env.offload \in OffloadModes \cup {""}

(* One that refuses sleeps, so that its message can be read, and exits. *)
Guards ==
    /\ server = "guards"
    /\ server' = IF GuardsPass THEN "serving" ELSE "ended"
    /\ UNCHANGED <<stackVars, tokenFile, expected, boots, tunnelVars, readyVars>>

ServerCrashes ==
    /\ server \in {"picked", "guards", "serving"}
    /\ server' = "ended"
    /\ UNCHANGED <<stackVars, tokenFile, expected, boots, tunnelVars, readyVars>>

ServerRestarts ==
    /\ server = "ended"
    /\ server' = "starting"
    /\ expected' = NoToken
    /\ UNCHANGED <<stackVars, tokenFile, boots, tunnelVars, readyVars>>
-----------------------------------------------------------------------------
(* cloudflared appends its URL, a new one at every start. *)
TunnelUp ==
    /\ tunnel = "starting" /\ ~env.named /\ tunnels < MaxTunnels
    /\ tunnel' = "up"
    /\ tunnels' = tunnels + 1
    /\ cfLog' = Append(cfLog, [name |-> tunnels + 1, up |-> ups])
    /\ UNCHANGED <<stackVars, serverVars, readyVars>>

TunnelRestarts ==
    /\ tunnel = "up"
    /\ tunnel' = "starting"
    /\ UNCHANGED <<stackVars, serverVars, cfLog, tunnels, readyVars>>
-----------------------------------------------------------------------------
(* The ready service: three times _wait, which answers what it polled or,  *)
(* when the last poll before the deadline saw nothing, None.               *)
SeeToken ==
    /\ ready = "token"
    /\ seen' = [seen EXCEPT !.token = tokenFile]
    /\ ready' = "health"
    /\ UNCHANGED <<stackVars, serverVars, tunnelVars, banner>>

(* A twin waits for the answer as long as it takes. *)
WaitsForever == server = "serving"

WaitEnds == TRUE

SeeHealth ==
    /\ ready = "health"
    /\ WaitEnds
    /\ seen' = [seen EXCEPT !.healthy = (server = "serving")]
    /\ ready' = "url"
    /\ UNCHANGED <<stackVars, serverVars, tunnelVars, banner>>

(* The last URL of the log; without one, a placeholder for the hostname of *)
(* a named tunnel or a hint where to look.  Twins forget the placeholder,  *)
(* or take the first URL.                                                  *)
QuickUrlOrNone == IF cfLog = <<>> THEN NoToken ELSE Last(cfLog)

FirstQuickUrl == IF cfLog = <<>> THEN NoUrl ELSE Head(cfLog)

QuickUrl == IF cfLog = <<>> THEN NoUrl ELSE Last(cfLog)

PrintBanner ==
    /\ ready = "url"
    /\ banner' = [token |-> seen.token, healthy |-> seen.healthy, url |-> QuickUrl]
    /\ ready' = "done"
    /\ UNCHANGED <<stackVars, serverVars, tunnelVars, seen>>
-----------------------------------------------------------------------------
Ready == SeeToken \/ SeeHealth \/ PrintBanner

Next ==
    \/ ComposeUp \/ Reboot
    \/ PickToken \/ PublishToken \/ Guards \/ ServerCrashes \/ ServerRestarts
    \/ TunnelUp \/ TunnelRestarts
    \/ Ready

Spec == Init /\ [][Next]_vars

(* The ready process is scheduled; its waits have deadlines. *)
LiveSpec == Spec /\ WF_vars(Ready)
-----------------------------------------------------------------------------
(* Type invariant. *)
Urls == [name : Nat, up : Nat]

TypeOK ==
    /\ env \in Envs
    /\ ups \in Nat /\ reboots \in Nat /\ boots \in Nat /\ tunnels \in Nat
    /\ tokenFile \in Tokens \cup {NoToken}
    /\ expected \in Tokens \cup {NoToken}
    /\ cfLog \in Seq(Urls)
    /\ server \in {"down", "starting", "picked", "guards", "serving", "ended"}
    /\ tunnel \in {"down", "starting", "up"}
    /\ ready \in {"down", "token", "health", "url", "done"}
    /\ seen \in [token : Tokens \cup {NoToken}, healthy : BOOLEAN]
    /\ banner \in [token : Tokens \cup {NoToken}, healthy : BOOLEAN, url : Urls]

(* What is on the volume is true of the stack that runs: a door that       *)
(* serves has a token (server.py:47: an open endpoint is never served), it *)
(* is the one in the file, and it is the operator's if he chose one; and   *)
(* until a reboot no URL of an earlier start is in the log or the banner,  *)
(* however often cloudflared restarted (the stale URL of v0.1.1).          *)
VolumeIsTrue ==
    /\ server = "serving" =>
          /\ expected # NoToken /\ tokenFile = expected
          /\ env.token \in {NoToken, expected}
    /\ reboots = 0 =>
          /\ \A i \in DOMAIN cfLog : cfLog[i].up = ups
          /\ banner.url \in {NoUrl} \cup ToSet(cfLog)

(* A banner made while cloudflared runs shows the URL that is live, the    *)
(* last one it was given, however often it, the host or the whole stack    *)
(* was restarted before ("so the banner never lies", announce.py:73).      *)
UrlIsLive ==
    [][PrintBanner /\ tunnel = "up"
          => banner'.url = [name |-> tunnels, up |-> ups]]_vars

(* The operator always gets a banner, one without a health mark if the     *)
(* guards refuse his settings, the door dies or the tunnel has no URL.     *)
BannerComes == ready = "token" ~> ready = "done"

(* A banner that says LIVE shows no token but the one of this start: "the  *)
(* container makes a strong random one for you at startup and prints it in *)
(* the ready banner" (docs/CONFIGURATION.md:60), after "a readiness gate,  *)
(* not a race" (announce.py:6).  The file of the start before satisfies    *)
(* the gate, so this does not hold.                                        *)
LiveTokenIsRight ==
    [][PrintBanner /\ seen.healthy /\ server = "serving"
          => banner'.token \in {NoToken, expected}]_vars
=============================================================================
