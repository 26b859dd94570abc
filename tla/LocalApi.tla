------------------------------- MODULE LocalApi -------------------------------
(***************************************************************************)
(* The managed Local Bot API server, the clients that run against it or    *)
(* against the cloud, and the operator's migration between the two         *)
(* (infrastructure/telegram/local_api.py, telegram/bot_factory.py).  All   *)
(* of them are processes of one host that meet in files: the migration     *)
(* state, the leases and the start lock.  A step reads or writes one file, *)
(* or makes one call.                                                      *)
(***************************************************************************)
EXTENDS Naturals

CONSTANT Client     \* the processes with a bot: bot and worker

VARIABLES
  phase,      \* MigrationState.phase in the state file
  waited,     \* cloud_available_after has passed
  server,     \* the managed server: "down", "booting" or "up"
  starter,    \* who has spawned its process and waits for it to answer
  step,       \* what each client is doing
  endpoint,   \* the endpoint each client has read
  lease,      \* the endpoint in each client's live lease file
  operator,   \* the step of the migration command
  foundPhase,       \* the phase that command has read
  calls,      \* logOut calls since the last migration that was completed
  overlapped, \* clients whose start overlapped a migration or a shutdown, or that found
              \* a server which its starter was about to terminate
  overwritten \* a late normalization has overwritten the state file

clientVars == <<step, endpoint, lease>>
serverVars == <<server, starter>>
historyVars == <<calls, overlapped, overwritten>>
apiVars == <<phase, waited, serverVars, clientVars, operator, foundPhase, historyVars>>

Phases == {"cloud", "cloud_logout_pending", "cloud_logout_uncertain",
           "local_activation_pending", "local", "local_logout_pending",
           "local_logout_uncertain", "cloud_wait"}
Endpoints == {"cloud", "local"}

(* Before a client has its lease nobody knows that it starts. *)
Starting == {"normalize", "server", "boot", "wait", "kill", "check", "lease"}
ClientSteps == Starting \cup {"off", "run", "last", "stop"}
OperatorSteps == {"off", "to_local", "to_cloud", "server", "boot", "wait", "kill", "intent", "call",
                  "doubt", "activate", "verify", "probe", "finish",
                  "intent_back", "call_back", "doubt_back", "finish_back", "stop"}

ApiInit ==
  /\ phase = "cloud" /\ waited = FALSE /\ server = "down" /\ starter = "none"
  /\ step = [c \in Client |-> "off"]
  /\ endpoint = [c \in Client |-> "none"]
  /\ lease = [c \in Client |-> "none"]
  /\ operator = "off" /\ foundPhase = "none"
  /\ calls = 0 /\ overlapped = {} /\ overwritten = FALSE

NobodyLeases == \A c \in Client : lease[c] = "none"
AtRisk == {c \in Client : step[c] \in Starting}
(* Clients that have found the server and go on from that. *)
Relying == {c \in Client : endpoint[c] = "local" /\ step[c] \in {"check", "lease", "run"}}
(* Somebody has looked at the leases and acts on what he saw. *)
Disturbed == operator # "off" \/ \E c \in Client : step[c] = "stop"

Goto(c, s) == step' = [step EXCEPT ![c] = s]

-----------------------------------------------------------------------------
(* A client starts: create_telegram_runtime. *)

(* active_endpoint: a phase other than "cloud" and "local" stops the start; *)
(* a wait that is over becomes "cloud", by a write of its own.             *)
ReadEndpoint(c) ==
  /\ step[c] = "off"
  /\ overlapped' = IF Disturbed THEN overlapped \cup {c} ELSE overlapped \ {c}
  /\ \/ /\ phase = "local"
        /\ endpoint' = [endpoint EXCEPT ![c] = "local"]
        /\ Goto(c, "server")
     \/ /\ phase = "cloud"
        /\ endpoint' = [endpoint EXCEPT ![c] = "cloud"]
        /\ Goto(c, "check")
     \/ /\ phase = "cloud_wait" /\ waited
        /\ endpoint' = [endpoint EXCEPT ![c] = "cloud"]
        /\ Goto(c, "normalize")
  /\ UNCHANGED <<phase, waited, serverVars, lease, operator, foundPhase, calls, overwritten>>

Normalize(c) ==
  /\ step[c] = "normalize"
  /\ phase' = "cloud"
  /\ overwritten' = (overwritten \/ (phase # "cloud" /\ ~(phase = "cloud_wait" /\ waited)))
  /\ Goto(c, "check")
  /\ UNCHANGED <<waited, serverVars, endpoint, lease, operator, foundPhase, calls, overlapped>>

(* ensure_started: whoever has the start lock spawns a server.  A lock that *)
(* looks old is taken from its holder, and then two servers may start, of  *)
(* which one gets the port.                                                *)
Spawn(s) ==
  /\ server # "up" /\ server' = "booting"
  /\ starter' = s \/ (server = "booting" /\ UNCHANGED starter)

FindServer(c) ==
  /\ step[c] = "server"
  /\ \/ server = "up" /\ Goto(c, "check") /\ UNCHANGED serverVars
     \/ server # "up" /\ Goto(c, "wait") /\ UNCHANGED serverVars
     \/ Spawn(c) /\ Goto(c, "boot")
  /\ UNCHANGED <<phase, waited, endpoint, lease, operator, foundPhase, historyVars>>

ServerAnswers ==
  /\ server = "booting"
  /\ server' = "up"
  /\ UNCHANGED <<phase, waited, starter, clientVars, operator, foundPhase, historyVars>>

(* It exits while it starts. *)
ServerFails ==
  /\ server = "booting"
  /\ server' = "down"
  /\ UNCHANGED <<phase, waited, starter, clientVars, operator, foundPhase, historyVars>>

(* Who leaves or dies terminates nothing any more. *)
Leaves(s) == starter' = IF starter = s THEN "none" ELSE starter

(* Who waits for the server finds it, or gives up: the starter when its    *)
(* process is gone, or when its last look was in vain, and then it         *)
(* terminates the process; another after some time.                        *)
Awaited(s, at, next) ==
  \/ server = "up" /\ next = "found" /\ Leaves(s)
  \/ at = "boot" /\ (server = "down" \/ starter # s) /\ next = "off" /\ Leaves(s)
  \/ at = "boot" /\ server # "up" /\ next = "kill" /\ UNCHANGED starter
  \/ at = "wait" /\ next \in {"server", "off"} /\ UNCHANGED starter

ServerAwaited(c) ==
  /\ step[c] \in {"boot", "wait"}
  /\ \E next \in {"found", "off", "kill", "server"} :
       Awaited(c, step[c], next) /\ Goto(c, IF next = "found" THEN "check" ELSE next)
  /\ UNCHANGED <<phase, waited, server, endpoint, lease, operator, foundPhase, historyVars>>

(* The starter does not look again: the server may have answered by now,   *)
(* and others may use it.                                                  *)
Terminate(s) ==
  /\ server' = IF starter = s THEN "down" ELSE server
  /\ overlapped' = IF starter = s THEN overlapped \cup Relying ELSE overlapped
  /\ Leaves(s)

StarterKills(c) ==
  /\ step[c] = "kill"
  /\ Terminate(c)
  /\ Goto(c, "off")
  /\ UNCHANGED <<phase, waited, endpoint, lease, operator, foundPhase, calls, overwritten>>

(* register_client: the leases are read, then one's own is written. *)
CheckLeases(c) ==
  /\ step[c] = "check"
  /\ Goto(c, IF \A d \in Client : lease[d] \in {"none", endpoint[c]} THEN "lease" ELSE "off")
  /\ UNCHANGED <<phase, waited, serverVars, endpoint, lease, operator, foundPhase, historyVars>>

WriteLease(c) ==
  /\ step[c] = "lease"
  /\ lease' = [lease EXCEPT ![c] = endpoint[c]]
  /\ Goto(c, "run")
  /\ UNCHANGED <<phase, waited, serverVars, endpoint, operator, foundPhase, historyVars>>

-----------------------------------------------------------------------------
(* A client ends: close_local_api, or it dies and its lease is dead. *)

CloseLease(c) ==
  /\ step[c] = "run"
  /\ lease' = [lease EXCEPT ![c] = "none"]
  /\ Goto(c, IF endpoint[c] = "local" THEN "last" ELSE "off")
  /\ UNCHANGED <<phase, waited, serverVars, endpoint, operator, foundPhase, historyVars>>

(* stop_if_unused: whoever has no lease yet is not counted. *)
LookForOthers(c) ==
  /\ step[c] = "last"
  /\ Goto(c, IF NobodyLeases THEN "stop" ELSE "off")
  /\ overlapped' = IF NobodyLeases THEN overlapped \cup AtRisk ELSE overlapped
  /\ UNCHANGED <<phase, waited, serverVars, endpoint, lease, operator, foundPhase, calls, overwritten>>

(* stop: nothing when the record of the process is lost, as it is to a     *)
(* second starter that has given up.                                       *)
Stop == server' \in {"down", server} /\ UNCHANGED starter

StopServer(c) ==
  /\ step[c] = "stop"
  /\ Stop
  /\ Goto(c, "off")
  /\ UNCHANGED <<phase, waited, endpoint, lease, operator, foundPhase, historyVars>>

ClientDies(c) ==
  /\ step[c] # "off"
  /\ Goto(c, "off")
  /\ lease' = [lease EXCEPT ![c] = "none"]
  /\ Leaves(c)
  /\ UNCHANGED <<phase, waited, server, endpoint, operator, foundPhase, historyVars>>

-----------------------------------------------------------------------------
(* The operator's migration commands.  The phase that was read decides,    *)
(* and every logOut is preceded by a write that says it may have happened. *)

OperatorGoes(s) == operator' = s /\ UNCHANGED <<waited, clientVars, overwritten>>

\* Mutant: clients may go on.
AssertNothing(way) ==
  /\ operator = "off"
  /\ overlapped' = overlapped \cup AtRisk
  /\ OperatorGoes(way)
  /\ UNCHANGED <<phase, serverVars, foundPhase, calls>>

(* _assert_no_live_clients *)
AssertNoClients(way) ==
  /\ operator = "off"
  /\ NobodyLeases
  /\ overlapped' = overlapped \cup AtRisk
  /\ OperatorGoes(way)
  /\ UNCHANGED <<phase, serverVars, foundPhase, calls>>

ReadPhase ==
  /\ operator \in {"to_local", "to_cloud"}
  /\ foundPhase' = IF phase = "cloud_wait" /\ waited THEN "cloud" ELSE phase
  /\ phase' = foundPhase'
  /\ OperatorGoes(
       CASE operator = "to_cloud" /\ foundPhase' = "local" /\ server = "up" -> "intent_back"
         [] operator = "to_local" /\ foundPhase' # "local" -> "server"
         [] OTHER -> "off")
  /\ UNCHANGED <<serverVars, calls, overlapped>>

\* Mutant: a call that may have happened is made again.
ReadyToRepeat == CASE foundPhase \in {"cloud", "cloud_logout_pending"} -> "intent"
                   [] foundPhase = "local_activation_pending" -> "verify"
                   [] OTHER -> "off"

(* The server is made to run before the phase is looked at. *)
Ready == CASE foundPhase = "cloud" -> "intent"
           [] foundPhase = "cloud_logout_pending" -> "probe"
           [] foundPhase = "local_activation_pending" -> "verify"
           [] OTHER -> "off"

EnsureServer ==
  /\ operator = "server"
  /\ \/ server = "up" /\ OperatorGoes(Ready) /\ UNCHANGED serverVars
     \/ server # "up" /\ OperatorGoes("wait") /\ UNCHANGED serverVars
     \/ Spawn("operator") /\ OperatorGoes("boot")
  /\ UNCHANGED <<phase, foundPhase, calls, overlapped>>

OperatorKills ==
  /\ operator = "kill"
  /\ Terminate("operator")
  /\ OperatorGoes("off")
  /\ UNCHANGED <<phase, foundPhase, calls>>

AwaitServer ==
  /\ operator \in {"boot", "wait"}
  /\ \E next \in {"found", "off", "kill", "server"} :
       Awaited("operator", operator, next) /\ OperatorGoes(IF next = "found" THEN Ready ELSE next)
  /\ UNCHANGED <<phase, server, foundPhase, calls, overlapped>>

(* MigrationStore.write, one file per step. *)
WritePhase(at, p, next) ==
  /\ operator = at
  /\ phase' = p
  /\ OperatorGoes(next)
  /\ UNCHANGED <<serverVars, foundPhase, calls, overlapped>>

(* logOut is acknowledged, or its outcome is not known.      *)
CallLogout(at, known, unknown) ==
  /\ operator = at
  /\ calls' = calls + 1
  /\ OperatorGoes(known) \/ OperatorGoes(unknown)
  /\ UNCHANGED <<phase, serverVars, foundPhase, overlapped>>

(* getMe at the local server, which alone tells whether the bot is there. *)
AskLocal(at, otherwise) ==
  /\ operator = at
  /\ \/ server = "up" /\ OperatorGoes("finish")
     \/ OperatorGoes(otherwise)
  /\ UNCHANGED <<phase, serverVars, foundPhase, calls, overlapped>>

Finish ==
  /\ operator = "finish"
  /\ phase' = "local"
  /\ calls' = 0
  /\ OperatorGoes("off")
  /\ UNCHANGED <<serverVars, foundPhase, overlapped>>

FinishBack ==
  /\ operator = "finish_back"
  /\ phase' = "cloud_wait" /\ waited' = FALSE
  /\ calls' = 0
  /\ operator' = "stop"
  /\ UNCHANGED <<serverVars, clientVars, foundPhase, overlapped, overwritten>>

StopUnused ==
  /\ operator = "stop"
  /\ Stop
  /\ OperatorGoes("off")
  /\ UNCHANGED <<phase, foundPhase, calls, overlapped>>

OperatorDies ==
  /\ operator # "off"
  /\ OperatorGoes("off")
  /\ Leaves("operator")
  /\ UNCHANGED <<phase, server, foundPhase, calls, overlapped>>

TimePasses ==
  /\ phase = "cloud_wait" /\ ~waited
  /\ waited' = TRUE
  /\ UNCHANGED <<phase, serverVars, clientVars, operator, foundPhase, historyVars>>

Migration ==
  \/ \E way \in {"to_local", "to_cloud"} : AssertNoClients(way)
  \/ ReadPhase
  \/ EnsureServer
  \/ AwaitServer
  \/ OperatorKills
  \/ WritePhase("intent", "cloud_logout_pending", "call")
  \/ CallLogout("call", "activate", "doubt")
  \/ WritePhase("doubt", "cloud_logout_uncertain", "off")
  \/ WritePhase("activate", "local_activation_pending", "verify")
  \/ AskLocal("probe", "doubt")
  \/ AskLocal("verify", "off")
  \/ Finish
  \/ WritePhase("intent_back", "local_logout_pending", "call_back")
  \/ CallLogout("call_back", "finish_back", "doubt_back")
  \/ WritePhase("doubt_back", "local_logout_uncertain", "off")
  \/ FinishBack
  \/ StopUnused
  \/ OperatorDies

ClientStep(c) ==
  \/ ReadEndpoint(c) \/ Normalize(c) \/ FindServer(c) \/ ServerAwaited(c) \/ StarterKills(c)
  \/ CheckLeases(c) \/ WriteLease(c)
  \/ CloseLease(c) \/ LookForOthers(c) \/ StopServer(c) \/ ClientDies(c)

ApiNext ==
  \/ \E c \in Client : ClientStep(c)
  \/ ServerAnswers \/ ServerFails \/ TimePasses
  \/ Migration

ApiSpec == ApiInit /\ [][ApiNext]_apiVars

-----------------------------------------------------------------------------
(* Properties. *)

(* logOut is called at most once per migration, whatever dies and however  *)
(* often the command is run again: an uncertain call is never repeated     *)
(* (docs/DECISIONS.md, ADR-012).  Only a client that writes the end of a   *)
(* wait it read long ago can undo this.                                    *)
LogoutOnce == calls <= 1 \/ overwritten

(* A client that runs uses the endpoint of the state file, and for a local *)
(* one the server is there, unless its start overlapped a migration or     *)
(* another's shutdown that had looked at the leases before, or the one who *)
(* had spawned the server lost patience before it answered and terminated  *)
(* it afterwards.                                                          *)
RunningIsServed ==
  \A c \in Client :
    step[c] = "run" /\ c \notin overlapped /\ ~overwritten =>
      /\ phase = endpoint[c]
      /\ endpoint[c] = "local" => server = "up"
=============================================================================
