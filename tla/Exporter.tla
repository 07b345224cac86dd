------------------------------ MODULE Exporter ------------------------------
(***************************************************************************)
(* The life of the process (cmd/vpub-exporter/main.go): configuration,     *)
(* wiring, the HTTP server in a goroutine of its own, a signal, Shutdown   *)
(* with its timeout, and the deferred calls.  The collectors run through   *)
(* all of it and nothing waits for them.  Of these the module has the two  *)
(* Slack collectors in full, and of the service collector what it has in   *)
(* common with main: the D-Bus connection.                                 *)
(***************************************************************************)
EXTENDS Slack, Config

CONSTANTS
    Envs,       \* the environments the exporter is started in
    MaxScrapes  \* bound: scrapes in flight

ASSUME ExporterAssumption == MaxScrapes \in Nat /\ Envs \subseteq Environment

VARIABLES
    env, cfg,
    pc,         \* where run() is
    exit,       \* the exit status
    wired,      \* the goroutines started
    probe,      \* the D-Bus connection
    up,         \* service_up
    upCause,    \* history: why service_up is what it is
    server,     \* the goroutine of ListenAndServe
    errCh,      \* it holds an error
    stopping,   \* Shutdown has been called
    inFlight    \* scrapes accepted and not answered

mainVars == <<env, cfg, pc, exit, wired, probe>>
serverVars == <<server, errCh, stopping, inFlight>>
exporterVars == <<mainVars, up, upCause, serverVars>>
vars == <<slackVars, exporterVars>>

NoExit == -1
Killed == 143

ExporterTypeOK ==
    /\ SlackTypeOK
    /\ env \in Envs
    /\ pc = "wire" => cfg # NoConfig /\ cfg = Load(env)
    /\ pc \in {"load", "wire", "listen", "select", "drain", "close", "cancel", "exited"}
    /\ exit \in {NoExit, 0, 1, Killed}
    /\ probe \in {None, "open", "closed"}
    /\ up \in {0, 1} /\ upCause \in {"answer", "stop"}
    /\ server \in {None, "new", "serving", "failed", "closed"}
    /\ errCh \in BOOLEAN /\ stopping \in BOOLEAN
    /\ inFlight \in 0 .. MaxScrapes

Init ==
    /\ SlackInit
    /\ env \in Envs /\ cfg = NoConfig
    /\ env.token # Unset \/ (valid /\ msgs = 0)   \* nobody asks Slack
    /\ pc = "load" /\ exit = NoExit
    /\ wired = {} /\ probe = None
    /\ up = 0 /\ upCause = "answer"
    /\ server = None /\ errCh = FALSE /\ stopping = FALSE
    /\ inFlight = 0

Running == pc # "exited"

-----------------------------------------------------------------------------
(* run().                                                                  *)

\* Mutant of LoadConfig: the error is logged, and run() goes on.
LoadAnyway ==
    /\ pc = "load"
    /\ cfg' = Load(env)
    /\ pc' = "wire"
    /\ UNCHANGED <<slackVars, env, exit, wired, probe, up, upCause, serverVars>>

\* What it ends with is NotifyContext: signals do not kill from then on.
LoadConfig ==
    /\ pc = "load"
    /\ cfg' = Load(env)
    /\ IF cfg' = NoConfig
       THEN pc' = "exited" /\ exit' = 1
       ELSE pc' = "wire" /\ exit' = exit
    /\ UNCHANGED <<slackVars, env, wired, probe, up, upCause, serverVars>>

Goroutines(c) ==
    {"service", "logmtime", "vote_logs", "outcome_logs"}
    \cup (IF HasBridgeRPC(c) THEN {"bridge_rpc"} ELSE {})
    \cup (IF HasBridgeState(c) THEN {"bridge_state"} ELSE {})
    \cup (IF HasSlack(c) THEN {"slack_health"} ELSE {})
    \cup (IF HasSlack(c) /\ c.channel # Unset THEN {"outcome_slack"} ELSE {})
    \cup (IF DOMAIN c.targets # {} THEN {"binary_local"} ELSE {})
    \cup (IF DOMAIN c.targets # {} /\ HasBinaryRemote(c) THEN {"binary_remote"} ELSE {})
    \cup (IF c.visorDir # Unset THEN {"download_logs", "visor_log"} ELSE {})

\* Mutant of Wire: serviceProbe defers the Close itself.
WireCloses ==
    /\ pc = "wire"
    /\ probe' \in {None, "closed"}
    /\ wired' = Goroutines(cfg)
    /\ pc' = "listen"
    /\ UNCHANGED <<slackVars, env, cfg, exit, up, upCause, serverVars>>

\* Without D-Bus the probe is one that always fails.
Wire ==
    /\ pc = "wire"
    /\ probe' \in {None, "open"}
    /\ wired' = Goroutines(cfg)
    /\ pc' = "listen"
    /\ UNCHANGED <<slackVars, env, cfg, exit, up, upCause, serverVars>>

StartServer ==
    /\ pc = "listen"
    /\ server' = "new"
    /\ pc' = "select"
    /\ UNCHANGED <<slackVars, env, cfg, exit, wired, probe, up, upCause,
                   errCh, stopping, inFlight>>

\* The select, with the call of Shutdown: it closes the listener at once.
SeeSignal ==
    /\ pc = "select"
    /\ cancelled
    /\ stopping' = TRUE
    /\ server' = IF server = "serving" THEN "closed" ELSE server
    /\ pc' = "drain"
    /\ UNCHANGED <<slackVars, env, cfg, exit, wired, probe, up, upCause, errCh, inFlight>>

SeeError ==
    /\ pc = "select"
    /\ errCh
    /\ exit' = 1
    /\ pc' = "close"
    /\ UNCHANGED <<slackVars, env, cfg, wired, probe, up, upCause, serverVars>>

Drained ==
    /\ pc = "drain"
    /\ inFlight = 0
    /\ exit' = 0
    /\ pc' = "close"
    /\ UNCHANGED <<slackVars, env, cfg, wired, probe, up, upCause, serverVars>>

\* Mutant of TimesOut: the context of Shutdown has no deadline.
TimesOutNever ==
    /\ pc = "drain" /\ pc = "close"
    /\ UNCHANGED vars

\* A connection whose request has not come yet is waited for too, so that
\* none need be in flight.
TimesOut ==
    /\ pc = "drain"
    /\ exit' = 1
    /\ pc' = "close"
    /\ UNCHANGED <<slackVars, env, cfg, wired, probe, up, upCause, serverVars>>

\* The deferred calls: the connection goes before the context.
CloseProbe ==
    /\ pc = "close"
    /\ probe' = IF probe = "open" THEN "closed" ELSE probe
    /\ pc' = "cancel"
    /\ UNCHANGED <<slackVars, env, cfg, exit, wired, up, upCause, serverVars>>

CancelAndExit ==
    /\ pc = "cancel"
    /\ cancelled' = TRUE
    /\ pc' = "exited"
    /\ UNCHANGED <<slack, healthVars, countVars, tokens, counts,
                   env, cfg, exit, wired, probe, up, upCause, serverVars>>

Run ==
    \/ LoadConfig \/ Wire \/ StartServer \/ SeeSignal \/ SeeError
    \/ Drained \/ TimesOut \/ CloseProbe \/ CancelAndExit

-----------------------------------------------------------------------------
(* A signal kills the process before NotifyContext.  After it the first    *)
(* one cancels ctx, under the wiring too, which goes on; the others are    *)
(* lost.                                                                   *)
Signal ==
    /\ Running
    /\ IF pc = "load"
       THEN pc' = "exited" /\ exit' = Killed /\ UNCHANGED cancelled
       ELSE cancelled' = TRUE /\ UNCHANGED <<pc, exit>>
    /\ UNCHANGED <<slack, healthVars, countVars, tokens, counts,
                   env, cfg, wired, probe, up, upCause, serverVars>>

-----------------------------------------------------------------------------
(* The server and its clients.                                             *)

\* Mutant of Listen: it listens although Shutdown was called.
ListenAnyway ==
    /\ Running /\ server = "new"
    /\ server' = "serving"
    /\ UNCHANGED <<slackVars, mainVars, up, upCause, errCh, stopping, inFlight>>

Listen ==
    /\ Running /\ server = "new"
    /\ \/ stopping /\ server' = "closed" /\ UNCHANGED errCh
       \/ ~stopping /\ server' = "serving" /\ UNCHANGED errCh
       \/ ~stopping /\ server' = "failed" /\ errCh' = TRUE
    /\ UNCHANGED <<slackVars, mainVars, up, upCause, stopping, inFlight>>

ServeFails ==
    /\ Running /\ server = "serving"
    /\ server' = "failed" /\ errCh' = TRUE
    /\ UNCHANGED <<slackVars, mainVars, up, upCause, stopping, inFlight>>

Accept ==
    /\ Running /\ server = "serving"
    /\ inFlight < MaxScrapes
    /\ inFlight' = inFlight + 1
    /\ UNCHANGED <<slackVars, mainVars, up, upCause, server, errCh, stopping>>

Answer ==
    /\ Running /\ inFlight > 0
    /\ inFlight' = inFlight - 1
    /\ UNCHANGED <<slackVars, mainVars, up, upCause, server, errCh, stopping>>

-----------------------------------------------------------------------------
(* The collectors.                                                         *)

\* A tick of the service collector, of an active unit.
ServiceTick ==
    /\ Running /\ "service" \in wired
    /\ up' = IF probe = "open" THEN 1 ELSE 0
    /\ upCause' = IF probe = "closed" THEN "stop" ELSE "answer"
    /\ UNCHANGED <<slackVars, mainVars, serverVars>>

\* The library closes the connection when its context is done.
ConnCloses ==
    /\ Running /\ cancelled /\ probe = "open"
    /\ probe' = "closed"
    /\ UNCHANGED <<slackVars, env, cfg, pc, exit, wired, up, upCause, serverVars>>

SlackStep ==
    /\ Running
    /\ \/ wired \cap {"slack_health", "outcome_slack"} # {} /\ Change
       \/ "slack_health" \in wired /\ HealthStep
       \/ "outcome_slack" \in wired /\ CountStep
    /\ UNCHANGED exporterVars

Next ==
    \/ Run \/ Signal
    \/ Listen \/ ServeFails \/ Accept \/ Answer
    \/ ServiceTick \/ ConnCloses \/ SlackStep

Spec == Init /\ [][Next]_vars

\* main runs and Shutdown's timer fires; nothing is assumed of the clients,
\* of Slack or of D-Bus.
FairSpec == Spec /\ WF_vars(Run)

-----------------------------------------------------------------------------
(***************************************************************************)
(* A signal, or a server that fails, ends the process, whatever the        *)
(* clients and the collectors are doing.                                   *)
(***************************************************************************)
StopsInTime == (cancelled \/ errCh) ~> ~Running

(***************************************************************************)
(* "stopped cleanly" means that a signal asked for it and that every       *)
(* scrape accepted was answered: also when the signal comes before the     *)
(* server's goroutine has begun to listen.                                 *)
(***************************************************************************)
CleanExitIsClean == exit = 0 => cancelled /\ stopping /\ inFlight = 0 /\ server # "serving"

(***************************************************************************)
(* The collectors are not waited for, so they fail while the process ends: *)
(* service_up and slack_api_ok show such a failure only after the signal   *)
(* or the failure of the server, never before.                             *)
(***************************************************************************)
FailuresAreReal ==
    (upCause = "stop" \/ okCause = "stop") => cancelled \/ exit = 1

(***************************************************************************)
(* Each goroutine that is started has what its tick asks for, so that none *)
(* ticks for nothing: the early returns for an empty URL, token or channel *)
(* are never taken, and every component has a binary and log patterns.     *)
(***************************************************************************)
NoneTicksForNothing ==
    pc = "listen" =>   \* nothing of it changes later
        /\ "bridge_rpc" \in wired => \A k \in DOMAIN cfg.names : cfg.urls[cfg.names[k]] # Unset
        /\ "bridge_state" \in wired => cfg.statePath # Unset
        /\ "outcome_slack" \in wired => cfg.token # Unset /\ cfg.channel # Unset
        /\ "slack_health" \in wired => cfg.token # Unset
        /\ "binary_remote" \in wired => cfg.binaryURL # Unset
        /\ \A c \in AllComponents :
              cfg.targets[c] # Unset /\ cfg.targets[c] = ResolvedTarget(env, c)
        /\ \A k \in PatternKinds : cfg.patterns[k] # <<>> /\ Unset \notin ToSet(cfg.patterns[k])
=============================================================================
