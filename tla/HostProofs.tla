----------------------------- MODULE HostProofs -----------------------------
(***************************************************************************)
(* Theorems about what the processes of one host share: the managed Bot    *)
(* API server, the directories of the jobs, the cookie file; and about the *)
(* way of a video from its menu to its file, the search among formats, and *)
(* the download of a social post.  They hold for every set of clients,     *)
(* jobs, sweepers, providers, formats and items and every bound.           *)
(***************************************************************************)
EXTENDS Workspaces, Cookies, LocalApi, VideoDownload, FormatSearch, PostDownload,
        FiniteSetTheorems, SequenceTheorems, TLAPS

(***************************************************************************)
(* The Local Bot API server.                                               *)
(***************************************************************************)

ApiTypeOK ==
  /\ phase \in Phases /\ waited \in BOOLEAN
  /\ server \in {"down", "booting", "up"} /\ starter \in Client \cup {"operator", "none"}
  /\ step \in [Client -> ClientSteps]
  /\ endpoint \in [Client -> Endpoints \cup {"none"}]
  /\ lease \in [Client -> Endpoints \cup {"none"}]
  /\ operator \in OperatorSteps
  /\ foundPhase \in Phases \cup {"none"}
  /\ calls \in Nat /\ overlapped \in SUBSET Client /\ overwritten \in BOOLEAN

\* What the migration command has written or read, step by step.
WrittenBefore ==
  /\ operator = "intent" => phase = "cloud"
  /\ operator = "intent_back" => phase = "local"
  /\ operator \in {"call", "doubt", "activate", "probe"} => phase = "cloud_logout_pending"
  /\ operator \in {"call_back", "doubt_back", "finish_back"} => phase = "local_logout_pending"
  /\ operator = "verify" => phase = "local_activation_pending"
  /\ operator \in {"server", "boot", "wait"}
       => foundPhase \in {phase, "cloud_wait", "local", "cloud_logout_uncertain",
                          "local_logout_pending", "local_logout_uncertain"}

\* A logOut is made from a state in which none was made before.
CallsAreMarked ==
  /\ calls <= 1
  /\ phase \in {"cloud", "local", "cloud_wait"} \/ operator \in {"call", "call_back"}
       => calls = 0

\* A client keeps the endpoint it read, and one that runs has its lease.
LeasesAreKept ==
  \A c \in Client : /\ step[c] \in Starting \cup {"run"} => endpoint[c] \in Endpoints
                    /\ step[c] = "run" => lease[c] \in Endpoints

\* Whoever looked at the leases saw the client's, or the client counts as overlapped.
Undisturbed ==
  \A c \in Client : step[c] \in Starting \cup {"run"} /\ c \notin overlapped => ~Disturbed

\* While nobody disturbs it, what a starting client has seen stays so.
Served(c) ==
  /\ step[c] = "normalize" =>
       endpoint[c] = "cloud" /\ (phase = "cloud" \/ (phase = "cloud_wait" /\ waited))
  /\ step[c] \in {"server", "boot", "wait"} => endpoint[c] = "local" /\ phase = "local"
  /\ step[c] \in {"check", "lease", "run"} =>
       phase = endpoint[c] /\ (endpoint[c] = "local" => server = "up")

StartsAreServed == \A c \in Client : c \notin overlapped => Served(c)

ApiInv ==
  /\ ApiTypeOK
  /\ LeasesAreKept
  /\ Undisturbed
  /\ overwritten \/ (WrittenBefore /\ CallsAreMarked /\ StartsAreServed)

(***************************************************************************)
(* Each conjunct over the steps of a client and of the command.            *)
(***************************************************************************)

\* The server's state, the clients' steps and the command's keep their types.
LEMMA ApiTypeStep ==
  ASSUME ApiTypeOK, ApiNext
  PROVE  ApiTypeOK'
<1> USE DEF ApiTypeOK, Phases, Endpoints, ClientSteps, Starting, OperatorSteps, clientVars,
            historyVars, serverVars, Goto, OperatorGoes
<1>1. ASSUME NEW c \in Client, ClientStep(c) PROVE ApiTypeOK'
  <2>1. CASE ReadEndpoint(c) BY <2>1 DEF ReadEndpoint
  <2>2. CASE Normalize(c) BY <2>2 DEF Normalize
  <2>3. CASE FindServer(c) BY <2>3 DEF FindServer, Spawn
  <2>4. CASE ServerAwaited(c) BY <2>4 DEF ServerAwaited, Awaited, Leaves
  <2>5. CASE CheckLeases(c) BY <2>5 DEF CheckLeases
  <2>6. CASE WriteLease(c) BY <2>6 DEF WriteLease
  <2>7. CASE CloseLease(c) BY <2>7 DEF CloseLease
  <2>8. CASE LookForOthers(c) BY <2>8 DEF LookForOthers, AtRisk
  <2>9. CASE StopServer(c) BY <2>9 DEF StopServer, Stop
  <2>10. CASE ClientDies(c) BY <2>10 DEF ClientDies, Leaves
  <2>11. CASE StarterKills(c) BY <2>11 DEF StarterKills, Terminate, Leaves, Relying
  <2> QED BY <1>1, <2>1, <2>2, <2>3, <2>4, <2>5, <2>6, <2>7, <2>8, <2>9, <2>10, <2>11
          DEF ClientStep
<1>2. CASE ServerAnswers \/ ServerFails \/ TimePasses
  <2>1. CASE ServerAnswers \/ ServerFails BY <2>1 DEF ServerAnswers, ServerFails
  <2>2. CASE TimePasses BY <2>2 DEF TimePasses
  <2> QED BY <1>2, <2>1, <2>2
<1>3. CASE Migration
  <2>1. ASSUME NEW way \in {"to_local", "to_cloud"}, AssertNoClients(way) PROVE ApiTypeOK'
    BY <2>1 DEF AssertNoClients, AtRisk
  <2>2. CASE ReadPhase BY <2>2 DEF ReadPhase
  <2>3. CASE EnsureServer \/ AwaitServer
    BY <2>3 DEF EnsureServer, Spawn, AwaitServer, Awaited, Leaves, Ready
  <2>4. CASE Finish BY <2>4 DEF Finish
  <2>5. CASE FinishBack BY <2>5 DEF FinishBack
  <2>6. CASE StopUnused \/ OperatorKills \/ OperatorDies
    BY <2>6 DEF StopUnused, Stop, OperatorKills, Terminate, Leaves, Relying, OperatorDies
  <2> QED BY <1>3, <2>1, <2>2, <2>3, <2>4, <2>5, <2>6
          DEF Migration, WritePhase, CallLogout, AskLocal
<1> QED BY <1>1, <1>2, <1>3 DEF ApiNext

\* A client that runs keeps the lease it took, and a starting one its endpoint.
LEMMA LeasesStep ==
  ASSUME ApiTypeOK, LeasesAreKept, ApiNext
  PROVE  LeasesAreKept'
<1> USE DEF ApiTypeOK, LeasesAreKept, Endpoints, Starting, clientVars, Goto, OperatorGoes
<1>1. ASSUME NEW c \in Client, ClientStep(c) PROVE LeasesAreKept'
  BY <1>1 DEF ClientStep, ReadEndpoint, Normalize, FindServer, ServerAwaited, CheckLeases,
              WriteLease, CloseLease, LookForOthers, StopServer, StarterKills, ClientDies
<1>2. CASE UNCHANGED clientVars BY <1>2
<1> QED BY <1>1, <1>2 DEF ApiNext, ServerAnswers, ServerFails, TimePasses, Migration,
       AssertNoClients, ReadPhase, EnsureServer, AwaitServer, WritePhase, CallLogout, AskLocal,
       Finish, FinishBack, StopUnused, OperatorKills, Terminate,
       OperatorDies

\* A disturbance begins with a look at the leases, which marks who is starting and is
\* refused by who runs.
LEMMA UndisturbedStep ==
  ASSUME ApiTypeOK, LeasesAreKept, Undisturbed, ApiNext
  PROVE  Undisturbed'
<1> SUFFICES ASSUME NEW k \in Client, step'[k] \in Starting \cup {"run"}, k \notin overlapped'
             PROVE  ~Disturbed'
  BY DEF Undisturbed
<1>a. step[k] \in Starting \cup {"run"} /\ k \notin overlapped => ~Disturbed
  BY DEF Undisturbed
<1>b. /\ step \in [Client -> ClientSteps]
      /\ step[k] = "run" => ~NobodyLeases
  BY DEF ApiTypeOK, LeasesAreKept, NobodyLeases, Endpoints
<1> USE <1>a, <1>b DEF Disturbed, AtRisk, clientVars, historyVars, serverVars, Goto, OperatorGoes
<1>1. ASSUME NEW c \in Client, ClientStep(c) PROVE ~Disturbed'
  <2> USE DEF Starting
  <2>1. CASE ReadEndpoint(c) BY <2>1 DEF ReadEndpoint
  <2>2. CASE Normalize(c) BY <2>2 DEF Normalize
  <2>3. CASE FindServer(c) BY <2>3 DEF FindServer, Spawn
  <2>4. CASE ServerAwaited(c) BY <2>4 DEF ServerAwaited, Awaited, Leaves
  <2>5. CASE CheckLeases(c) BY <2>5 DEF CheckLeases
  <2>6. CASE WriteLease(c) BY <2>6 DEF WriteLease
  <2>7. CASE CloseLease(c) BY <2>7 DEF CloseLease
  <2>8. CASE LookForOthers(c) BY <2>8 DEF LookForOthers
  <2>9. CASE StopServer(c) BY <2>9 DEF StopServer, Stop
  <2>10. CASE ClientDies(c) BY <2>10 DEF ClientDies, Leaves
  <2>11. CASE StarterKills(c) BY <2>11 DEF StarterKills, Terminate, Leaves, Relying
  <2> QED BY <1>1, <2>1, <2>2, <2>3, <2>4, <2>5, <2>6, <2>7, <2>8, <2>9, <2>10, <2>11
          DEF ClientStep
<1>2. ASSUME NEW way \in {"to_local", "to_cloud"}, AssertNoClients(way) PROVE ~Disturbed'
  BY <1>2 DEF AssertNoClients
<1>3. CASE ServerAnswers \/ ServerFails \/ TimePasses
  BY <1>3 DEF ServerAnswers, ServerFails, TimePasses
<1>4. CASE operator # "off" /\ UNCHANGED step /\ overlapped \subseteq overlapped'
  BY <1>4
<1> QED BY <1>1, <1>2, <1>3, <1>4 DEF ApiNext, Migration, ReadPhase, EnsureServer, AwaitServer,
       WritePhase, CallLogout, AskLocal, Finish, FinishBack, StopUnused, OperatorKills, Terminate,
       OperatorDies

\* No step of a client but a late normalization touches what the command has written.
LEMMA MigrationStep ==
  ASSUME ApiTypeOK, WrittenBefore, CallsAreMarked, ApiNext, ~overwritten'
  PROVE  WrittenBefore' /\ CallsAreMarked'
<1> USE DEF ApiTypeOK, WrittenBefore, CallsAreMarked, clientVars, historyVars, serverVars, OperatorGoes
<1>1. ASSUME NEW c \in Client, ClientStep(c) PROVE WrittenBefore' /\ CallsAreMarked'
  <2>1. CASE Normalize(c) BY <2>1 DEF Normalize
  <2>2. CASE UNCHANGED <<phase, operator, foundPhase, calls>> BY <2>2
  <2> QED BY <1>1, <2>1, <2>2 DEF ClientStep, ReadEndpoint, FindServer, ServerAwaited,
         CheckLeases, WriteLease, CloseLease, LookForOthers, StopServer, StarterKills, ClientDies
<1>2. CASE ServerAnswers \/ ServerFails \/ TimePasses
  BY <1>2 DEF ServerAnswers, ServerFails, TimePasses
<1>3. CASE Migration
  <2>1. ASSUME NEW way \in {"to_local", "to_cloud"}, AssertNoClients(way)
        PROVE  WrittenBefore' /\ CallsAreMarked'
    BY <2>1 DEF AssertNoClients
  <2>2. CASE ReadPhase BY <2>2 DEF ReadPhase, Phases
  <2>3. CASE EnsureServer BY <2>3 DEF EnsureServer, Ready, Phases
  <2>4. CASE AwaitServer BY <2>4 DEF AwaitServer, Awaited, Ready, Phases
  <2>5. CASE Finish \/ FinishBack \/ StopUnused \/ OperatorKills \/ OperatorDies
    BY <2>5 DEF Finish, FinishBack, StopUnused, OperatorKills, OperatorDies
  <2>6. CASE \/ WritePhase("intent", "cloud_logout_pending", "call")
             \/ WritePhase("doubt", "cloud_logout_uncertain", "off")
             \/ WritePhase("activate", "local_activation_pending", "verify")
             \/ WritePhase("intent_back", "local_logout_pending", "call_back")
             \/ WritePhase("doubt_back", "local_logout_uncertain", "off")
    BY <2>6 DEF WritePhase
  <2>7. CASE \/ CallLogout("call", "activate", "doubt")
             \/ CallLogout("call_back", "finish_back", "doubt_back")
    BY <2>7 DEF CallLogout
  <2>8. CASE AskLocal("probe", "doubt") \/ AskLocal("verify", "off")
    BY <2>8 DEF AskLocal
  <2> QED BY <1>3, <2>1, <2>2, <2>3, <2>4, <2>5, <2>6, <2>7, <2>8 DEF Migration
<1> QED BY <1>1, <1>2, <1>3 DEF ApiNext

\* Phase, wait and server move only under a disturbance, or towards the clients.
LEMMA ServedStep ==
  ASSUME ApiTypeOK, LeasesAreKept, Undisturbed, StartsAreServed, ApiNext, ~overwritten'
  PROVE  StartsAreServed'
<1> SUFFICES ASSUME NEW k \in Client, k \notin overlapped' PROVE Served(k)'
  BY DEF StartsAreServed
<1>a. /\ k \notin overlapped => Served(k)
      /\ step[k] \in Starting \cup {"run"} /\ k \notin overlapped => ~Disturbed
      /\ step[k] = "run" => ~NobodyLeases
  BY DEF StartsAreServed, Undisturbed, LeasesAreKept, NobodyLeases, Endpoints
<1>b. /\ step \in [Client -> ClientSteps]
      /\ endpoint \in [Client -> Endpoints \cup {"none"}]
  BY DEF ApiTypeOK
<1> USE <1>a, <1>b DEF Served, Starting, clientVars, historyVars, serverVars, Goto, OperatorGoes
<1>1. ASSUME NEW c \in Client, ClientStep(c) PROVE Served(k)'
  <2>1. CASE ReadEndpoint(c) BY <2>1 DEF ReadEndpoint
  <2>2. CASE Normalize(c)
    <3>1. phase = "cloud" \/ (phase = "cloud_wait" /\ waited)
      BY <2>2 DEF Normalize
    <3>2. CASE k = c BY <2>2, <3>2 DEF Normalize
    <3>3. CASE k # c BY <2>2, <3>1, <3>3 DEF Normalize, Endpoints
    <3> QED BY <3>2, <3>3
  <2>3. CASE FindServer(c) BY <2>3 DEF FindServer, Spawn
  <2>4. CASE ServerAwaited(c) BY <2>4 DEF ServerAwaited, Awaited, Leaves
  <2>5. CASE CheckLeases(c) BY <2>5 DEF CheckLeases
  <2>6. CASE WriteLease(c) BY <2>6 DEF WriteLease
  <2>7. CASE CloseLease(c) BY <2>7 DEF CloseLease
  <2>8. CASE LookForOthers(c) BY <2>8 DEF LookForOthers
  <2>9. CASE StopServer(c) BY <2>9 DEF StopServer, Stop, Disturbed
  <2>10. CASE ClientDies(c) BY <2>10 DEF ClientDies, Leaves
  <2>11. CASE StarterKills(c) BY <2>11 DEF StarterKills, Terminate, Leaves, Relying
  <2> QED BY <1>1, <2>1, <2>2, <2>3, <2>4, <2>5, <2>6, <2>7, <2>8, <2>9, <2>10, <2>11
          DEF ClientStep
<1>2. CASE ServerAnswers \/ ServerFails \/ TimePasses
  BY <1>2 DEF ServerAnswers, ServerFails, TimePasses
<1>3. ASSUME NEW way \in {"to_local", "to_cloud"}, AssertNoClients(way) PROVE Served(k)'
  BY <1>3 DEF AssertNoClients
<1>4. CASE operator # "off" /\ UNCHANGED <<step, endpoint>> /\ overlapped \subseteq overlapped'
  BY <1>4 DEF Disturbed
<1> QED BY <1>1, <1>2, <1>3, <1>4 DEF ApiNext, Migration, ReadPhase, EnsureServer, AwaitServer,
       WritePhase, CallLogout, AskLocal, Finish, FinishBack, StopUnused, OperatorKills, Terminate,
       OperatorDies

\* The invariant, from the lemmas above; a late normalization is never undone.
THEOREM ApiInvariant == ApiSpec => []ApiInv
<1>1. ApiInit => ApiInv
  <2> SUFFICES ASSUME ApiInit PROVE ApiInv
    OBVIOUS
  <2> USE DEF ApiInit
  <2>1. ApiTypeOK BY DEF ApiTypeOK, Phases, Endpoints, ClientSteps, OperatorSteps
  <2>2. LeasesAreKept /\ Undisturbed BY DEF LeasesAreKept, Undisturbed, Starting
  <2>3. WrittenBefore /\ CallsAreMarked BY DEF WrittenBefore, CallsAreMarked
  <2>4. StartsAreServed BY DEF StartsAreServed, Served
  <2> QED BY <2>1, <2>2, <2>3, <2>4 DEF ApiInv
<1>2. ApiInv /\ [ApiNext]_apiVars => ApiInv'
  <2>1. ASSUME ApiInv, ApiNext PROVE ApiInv'
    <3>1. overwritten => overwritten'
      BY <2>1 DEF ApiNext, ClientStep, ReadEndpoint, Normalize, FindServer, ServerAwaited,
         CheckLeases, WriteLease, CloseLease, LookForOthers, StopServer, StarterKills, ClientDies,
         ServerAnswers, ServerFails, TimePasses, Migration, AssertNoClients, ReadPhase,
         EnsureServer, AwaitServer, WritePhase, CallLogout, AskLocal, Finish, FinishBack,
         StopUnused, OperatorKills, OperatorDies, OperatorGoes, historyVars
    <3>2. ApiTypeOK' /\ LeasesAreKept' /\ Undisturbed'
      BY <2>1, ApiTypeStep, LeasesStep, UndisturbedStep DEF ApiInv
    <3>3. ASSUME ~overwritten' PROVE WrittenBefore' /\ CallsAreMarked' /\ StartsAreServed'
      <4>1. WrittenBefore /\ CallsAreMarked /\ StartsAreServed
        BY <2>1, <3>1, <3>3 DEF ApiInv
      <4> QED BY <2>1, <3>3, <4>1, MigrationStep, ServedStep DEF ApiInv
    <3> QED BY <3>2, <3>3 DEF ApiInv
  <2>2. ASSUME ApiInv, UNCHANGED apiVars PROVE ApiInv'
    BY <2>2 DEF ApiInv, ApiTypeOK, LeasesAreKept, Undisturbed, WrittenBefore, CallsAreMarked,
                StartsAreServed, Served, Disturbed, apiVars, clientVars, serverVars,
                historyVars
  <2> QED BY <2>1, <2>2
<1> QED BY <1>1, <1>2, PTL DEF ApiSpec

\* logOut is called at most once per migration, over crashes, restarts of the command
\* and clients that come and go.
THEOREM LogoutIsCalledOnce == ApiSpec => []LogoutOnce
<1>1. ApiInv => LogoutOnce BY DEF ApiInv, CallsAreMarked, LogoutOnce
<1> QED BY <1>1, ApiInvariant, PTL

\* A client that runs, undisturbed at its start and with a server its starter did not give up,
\* has the endpoint of the state file and that server (local_api.py).
THEOREM RunningClientsAreServed == ApiSpec => []RunningIsServed
<1>1. ApiInv => RunningIsServed
  BY DEF ApiInv, StartsAreServed, Served, RunningIsServed
<1> QED BY <1>1, ApiInvariant, PTL

(***************************************************************************)
(* The directories of the jobs.                                            *)
(***************************************************************************)

SweepTypeOK ==
  /\ attempt \in [Directory -> Nat] /\ starts \in Nat
  /\ state \in [Directory -> {"queued", "running", "none", "unmade"} \cup EndedStates]
  /\ stale \in SUBSET Directory
  /\ finalizer \in [Work -> [at : {"none", "look", "remove"}, decided : Nat]]
  /\ sweep \in [Sweeper -> [at : {"idle", "scan", "remove"}, todo : SUBSET Directory,
                            found : SUBSET (Directory \X Nat)]]

\* An attempt's row is running or was cancelled meanwhile, and no earlier attempt's end is
\* still to come.
AttemptsRun ==
  /\ \A d \in Directory : attempt[d] <= starts
  /\ \A w \in Work : attempt[w] # 0 => state[w] \in {"running", "cancelled"} /\ finalizer[w].at = "none"

\* What may be removed under an attempt: the directory of an inspection that outlived the
\* grace, and that of a cancelled job.
Spared(d) == ~(d \in Scratch /\ d \in stale) /\ state[d] # "cancelled"

\* A sweep found what was removable then: where an attempt is under way now, it began
\* later, or its directory is not spared.
FoundWasRemovable ==
  \A x \in Sweeper : \A d \in Directory, n \in Nat :
    <<d, n>> \in sweep[x].found =>
      /\ n <= starts
      /\ attempt[d] # 0 => n < attempt[d] \/ ~Spared(d)

WorkspacesInv ==
  /\ SweepTypeOK
  /\ AttemptsRun
  /\ FoundWasRemovable
  /\ WorkSurvives

\* How an attempt ends, or is skipped.
Outcomes == {"failed", "done", "queued", "running"}
AttemptWritten(w) ==
  \/ \E outcome \in Outcomes : AttemptEnds(w, outcome)
  \/ AttemptDelivers(w) \/ ThreadOutlasts(w) \/ AttemptSkipped(w)

\* The directories, the attempts and the sweeps keep their types.
LEMMA SweepTypeStep ==
  ASSUME SweepTypeOK, WorkspacesNext
  PROVE  SweepTypeOK'
<1> USE DEF SweepTypeOK, Directory, EndedStates, NoFinalizer, NoSweep
<1>1. ASSUME NEW w \in Work, AttemptBegins(w) PROVE SweepTypeOK'
  BY <1>1 DEF AttemptBegins, Begin
<1>2. ASSUME NEW w \in Work, FinalizerLooks(w) PROVE SweepTypeOK'
  BY <1>2 DEF FinalizerLooks
<1>3. ASSUME NEW w \in Work, FinalizerRemoves(w) \/ Cancelled(w) \/ Requeued(w) \/ Purged(w)
      PROVE  SweepTypeOK'
  BY <1>3 DEF FinalizerRemoves, Cancelled, Requeued, Purged
<1>4. ASSUME NEW w \in Work, AttemptWritten(w) PROVE SweepTypeOK'
  <2>1. ASSUME NEW outcome \in Outcomes, WritingEnds(w, outcome),
               finalizer' \in {finalizer, [finalizer EXCEPT ![w].at = "look"]}
        PROVE  SweepTypeOK'
    BY <2>1 DEF WritingEnds, Outcomes
  <2>2. CASE AttemptSkipped(w) BY <2>2 DEF AttemptSkipped
  <2> QED BY <1>4, <2>1, <2>2 DEF AttemptWritten, AttemptEnds, AttemptDelivers, ThreadOutlasts, Outcomes
<1>5. ASSUME NEW s \in Scratch, InspectionBegins(s) \/ InspectionEnds(s) PROVE SweepTypeOK'
  BY <1>5 DEF InspectionBegins, InspectionEnds, Begin
<1>6. ASSUME NEW next \in {"queued", "done"}, WorkerRestarts(next) PROVE SweepTypeOK'
  BY <1>6 DEF WorkerRestarts
<1>7. ASSUME NEW d \in Directory, GrowsStale(d) PROVE SweepTypeOK'
  BY <1>7 DEF GrowsStale
<1>8. ASSUME NEW x \in Sweeper, BeginSweep(x) \/ Scanned(x) PROVE SweepTypeOK'
  BY <1>8 DEF BeginSweep, Scanned
<1>9. ASSUME NEW x \in Sweeper, NEW d \in Directory, Scan(x, d) PROVE SweepTypeOK'
  <2> DEFINE S == [at : {"idle", "scan", "remove"}, todo : SUBSET Directory,
                   found : SUBSET (Directory \X Nat)]
             left == sweep[x].todo \ {d}
             found == IF Removable(d) THEN sweep[x].found \cup {<<d, starts>>}
                                      ELSE sweep[x].found
  <2>1. sweep \in [Sweeper -> S] OBVIOUS
  <2>2. sweep[x] \in S BY <2>1
  <2>3. left \in SUBSET Directory BY <2>2
  <2>4. found \in SUBSET (Directory \X Nat) BY <2>2 DEF Directory
  <2>5. sweep' = [sweep EXCEPT ![x] = [sweep[x] EXCEPT !.todo = left, !.found = found]]
    BY <1>9, <2>1 DEF Scan
  <2> HIDE DEF left, found
  <2>6. [sweep[x] EXCEPT !.todo = left, !.found = found] \in S BY <2>2, <2>3, <2>4
  <2> HIDE DEF S
  <2>7. sweep' \in [Sweeper -> S] BY <2>1, <2>5, <2>6
  <2> USE DEF S
  <2> QED BY <1>9, <2>7 DEF Scan
<1>10. ASSUME NEW x \in Sweeper, NEW d \in Directory, NEW n \in 0..MaxStarts, RemoveFound(x, d, n)
       PROVE  SweepTypeOK'
  <2>1. CASE sweep[x].found = {<<d, n>>} BY <1>10, <2>1 DEF RemoveFound
  <2>2. CASE sweep[x].found # {<<d, n>>}
    <3>1. sweep' = [sweep EXCEPT ![x] = [sweep[x] EXCEPT !.found = sweep[x].found \ {<<d, n>>}]]
      BY <1>10, <2>2 DEF RemoveFound
    <3> QED BY <1>10, <3>1 DEF RemoveFound
  <2> QED BY <2>1, <2>2
<1> QED BY <1>1, <1>2, <1>3, <1>4, <1>5, <1>6, <1>7, <1>8, <1>9, <1>10
        DEF WorkspacesNext, AttemptWritten, Outcomes

\* An attempt under way keeps its row running or cancelled, and no earlier attempt's end is to come.
LEMMA AttemptsRunStep ==
  ASSUME SweepTypeOK, AttemptsRun, WorkspacesNext
  PROVE  AttemptsRun'
<1> USE DirectoriesDiffer DEF SweepTypeOK, AttemptsRun, Directory, EndedStates, NoFinalizer
<1>1. ASSUME NEW w \in Work, AttemptBegins(w) PROVE AttemptsRun'
  BY <1>1 DEF AttemptBegins, Begin
<1>2. ASSUME NEW w \in Work, FinalizerLooks(w) PROVE AttemptsRun'
  BY <1>2 DEF FinalizerLooks
<1>3. ASSUME NEW w \in Work, FinalizerRemoves(w) \/ Cancelled(w) \/ Requeued(w) \/ Purged(w)
      PROVE  AttemptsRun'
  BY <1>3 DEF FinalizerRemoves, Cancelled, Requeued, Purged
<1>4. ASSUME NEW w \in Work, AttemptWritten(w) PROVE AttemptsRun'
  <2>1. ASSUME NEW outcome \in Outcomes, WritingEnds(w, outcome),
               finalizer' \in {finalizer, [finalizer EXCEPT ![w].at = "look"]}
        PROVE  AttemptsRun'
    BY <2>1 DEF WritingEnds, Outcomes
  <2>2. CASE AttemptSkipped(w) BY <2>2 DEF AttemptSkipped
  <2> QED BY <1>4, <2>1, <2>2 DEF AttemptWritten, AttemptEnds, AttemptDelivers, ThreadOutlasts, Outcomes
<1>5. ASSUME NEW s \in Scratch, InspectionBegins(s) \/ InspectionEnds(s) PROVE AttemptsRun'
  BY <1>5 DEF InspectionBegins, InspectionEnds, Begin
<1>6. ASSUME NEW next \in {"queued", "done"}, WorkerRestarts(next) PROVE AttemptsRun'
  BY <1>6 DEF WorkerRestarts
<1>7. CASE UNCHANGED <<state, attempt, starts, finalizer>> BY <1>7
<1> HIDE DEF SweepTypeOK, AttemptsRun, Directory
<1>8. ASSUME \/ \E d \in Directory : GrowsStale(d)
             \/ \E x \in Sweeper : \/ BeginSweep(x) \/ Scanned(x)
                                   \/ \E d \in Directory : Scan(x, d)
                                   \/ \E d \in Directory, n \in 0..MaxStarts : RemoveFound(x, d, n)
      PROVE  UNCHANGED <<state, attempt, starts, finalizer>>
  BY <1>8 DEF GrowsStale, BeginSweep, Scanned, Scan, RemoveFound
<1> QED BY <1>1, <1>2, <1>3, <1>4, <1>5, <1>6, <1>7, <1>8 DEF WorkspacesNext, AttemptWritten, Outcomes

\* What a sweep has found for removal stays removable until the sweep removes it.
LEMMA FoundStep ==
  ASSUME SweepTypeOK, AttemptsRun, FoundWasRemovable, WorkspacesNext
  PROVE  FoundWasRemovable'
<1> SUFFICES ASSUME NEW y \in Sweeper, NEW e \in Directory, NEW m \in Nat,
                    <<e, m>> \in sweep'[y].found
             PROVE  /\ m <= starts'
                    /\ attempt'[e] # 0 => m < attempt'[e] \/ ~Spared(e)'
  BY DEF FoundWasRemovable
<1> DEFINE Fine == /\ m <= starts'
                   /\ attempt'[e] # 0 => m < attempt'[e] \/ ~Spared(e)'
<1>a. <<e, m>> \in sweep[y].found =>
        m <= starts /\ (attempt[e] # 0 => m < attempt[e] \/ ~Spared(e))
  BY DEF FoundWasRemovable
<1> USE <1>a DEF SweepTypeOK, Spared
<1>1. ASSUME NEW d \in Directory, Begin(d), UNCHANGED sweep,
             \A f \in Directory \ {d} : state'[f] = state[f]
      PROVE  Fine
  BY <1>1 DEF Begin
<1>2. ASSUME NEW w \in Work, AttemptWritten(w) PROVE Fine
  <2>1. ASSUME NEW outcome \in Outcomes, WritingEnds(w, outcome) PROVE Fine
    BY <2>1 DEF WritingEnds, Directory
  <2>2. CASE AttemptSkipped(w) BY <2>2 DEF AttemptSkipped
  <2> QED BY <1>2, <2>1, <2>2 DEF AttemptWritten, AttemptEnds, AttemptDelivers, ThreadOutlasts, Outcomes
<1>3. ASSUME NEW s \in Scratch, InspectionEnds(s) PROVE Fine
  BY <1>3 DEF InspectionEnds, Directory
<1>4. ASSUME NEW next \in {"queued", "done"}, WorkerRestarts(next) PROVE Fine
  BY <1>4 DEF WorkerRestarts, NoSweep
<1>5. CASE /\ UNCHANGED <<attempt, starts>>
           /\ stale \subseteq stale'
           /\ \A f \in Directory : attempt[f] # 0 /\ state[f] = "cancelled" => state'[f] = "cancelled"
           /\ sweep'[y].found \subseteq sweep[y].found
  BY <1>5
<1>6. ASSUME NEW x \in Sweeper, NEW d \in Directory, Scan(x, d) PROVE Fine
  <2>1. CASE <<e, m>> \in sweep[y].found BY <1>6, <2>1 DEF Scan
  <2>2. CASE <<e, m>> \notin sweep[y].found
    <3>1. x = y /\ e = d /\ m = starts /\ Removable(d)
      BY <1>6, <2>2 DEF Scan
    <3>2. attempt[d] # 0 => ~Spared(d)
      BY <3>1, DirectoriesDiffer DEF Removable, AttemptsRun, EndedStates, Directory
    <3> QED BY <1>6, <3>1, <3>2 DEF Scan
  <2> QED BY <2>1, <2>2
<1>7. ASSUME NEW x \in Sweeper, BeginSweep(x) \/ Scanned(x) PROVE Fine
  BY <1>5, <1>7 DEF BeginSweep, Scanned
<1>8. ASSUME NEW x \in Sweeper, NEW d \in Directory, NEW n \in 0..MaxStarts, RemoveFound(x, d, n)
      PROVE  Fine
  <2>1. CASE sweep[x].found = {<<d, n>>} BY <1>5, <1>8, <2>1 DEF RemoveFound, NoSweep
  <2>2. CASE sweep[x].found # {<<d, n>>}
    <3>1. sweep' = [sweep EXCEPT ![x] = [sweep[x] EXCEPT !.found = sweep[x].found \ {<<d, n>>}]]
      BY <1>8, <2>2 DEF RemoveFound
    <3>2. sweep'[y].found \subseteq sweep[y].found
      BY <3>1
    <3> QED BY <1>5, <1>8, <3>2 DEF RemoveFound
  <2> QED BY <2>1, <2>2
<1> QED BY <1>1, <1>2, <1>3, <1>4, <1>5, <1>6, <1>7, <1>8
        DEF WorkspacesNext, AttemptWritten, Outcomes, AttemptBegins, InspectionBegins,
            FinalizerLooks, FinalizerRemoves, Cancelled, Requeued, Purged, GrowsStale, Directory

\* Only a finalizer and a sweep remove files; the finalizer's job is at rest.
LEMMA SurvivesStep ==
  ASSUME WorkspacesInv, WorkspacesNext
  PROVE  WorkSurvives'
<1> USE DEF WorkspacesInv, WorkSurvives
<1>1. ASSUME NEW w \in Work, FinalizerRemoves(w) PROVE WorkSurvives'
  BY <1>1 DEF FinalizerRemoves, RemoveFiles, AttemptsRun
<1>2. ASSUME NEW x \in Sweeper, NEW d \in Directory, NEW n \in 0..MaxStarts, RemoveFound(x, d, n)
      PROVE  WorkSurvives'
  <2>1. <<d, n>> \in sweep[x].found BY <1>2 DEF RemoveFound
  <2>2. attempt[d] # 0 => n < attempt[d] \/ ~Spared(d)
    BY <2>1 DEF FoundWasRemovable
  <2> SUFFICES ASSUME NEW m \in missed', m \notin missed
               PROVE  m.decided < m.attempt \/ m.aged \/ m.cancelled
    OBVIOUS
  <2>3. /\ attempt[d] # 0
        /\ m = [attempt |-> attempt[d], decided |-> n, aged |-> d \in Scratch /\ d \in stale,
                cancelled |-> state[d] = "cancelled"]
    BY <1>2 DEF RemoveFound, RemoveFiles
  <2> QED BY <2>2, <2>3 DEF Spared
<1>3. CASE UNCHANGED missed BY <1>3
<1> QED BY <1>1, <1>2, <1>3
        DEF WorkspacesNext, AttemptBegins, InspectionBegins, InspectionEnds, AttemptEnds,
            AttemptDelivers, ThreadOutlasts, AttemptSkipped, WritingEnds, Cancelled,
            FinalizerLooks, Requeued, Purged, WorkerRestarts, GrowsStale, BeginSweep, Scanned,
            Scan

\* Of what a sweep has found, no directory belongs to an attempt that was under way then, but
\* for one that had outlived the grace or whose job had been cancelled (infrastructure/storage/workspace.py).
THEOREM WorkspacesInvariant == WorkspacesSpec => []WorkspacesInv
<1>1. WorkspacesInit => WorkspacesInv
  BY DEF WorkspacesInit, WorkspacesInv, SweepTypeOK, AttemptsRun, FoundWasRemovable,
         WorkSurvives, NoFinalizer, NoSweep, Directory, EndedStates
<1>2. WorkspacesInv /\ [WorkspacesNext]_workVars => WorkspacesInv'
  <2>1. ASSUME WorkspacesInv, WorkspacesNext PROVE WorkspacesInv'
    BY <2>1, SweepTypeStep, AttemptsRunStep, FoundStep, SurvivesStep DEF WorkspacesInv
  <2>2. ASSUME WorkspacesInv, UNCHANGED workVars PROVE WorkspacesInv'
    BY <2>2 DEF WorkspacesInv, SweepTypeOK, AttemptsRun, FoundWasRemovable, Spared,
                WorkSurvives, workVars
  <2> QED BY <2>1, <2>2
<1> QED BY <1>1, <1>2, PTL DEF WorkspacesSpec

\* No finalizer and no sweep takes the files of an attempt that had begun when it made
\* its decision, but for an inspection that outlived the grace and a job the user cancelled.
THEOREM FilesOfAttemptsSurvive == WorkspacesSpec => []WorkSurvives
<1>1. WorkspacesInv => WorkSurvives BY DEF WorkspacesInv
<1> QED BY <1>1, WorkspacesInvariant, PTL

(***************************************************************************)
(* The cookie file.                                                        *)
(***************************************************************************)

Contents == [Provider -> Nat]
Underway == {"backup", "check", "swap"}

FileTypeOK ==
  /\ file \in [id : Nat, has : Contents, broken : BOOLEAN]
  /\ made \in Nat /\ latest \in Contents /\ raced \in BOOLEAN
  /\ merge \in [at : Underway \cup {"idle", "verify", "restore"}, of : SUBSET Provider,
                id : Nat, old : Contents \cup {<<>>}, new : Contents \cup {<<>>}]
  /\ merge.at # "idle" => merge.old \in Contents /\ merge.new \in Contents

\* While a merge is under way the file is newer than what the merge read, or the same;
\* what it swaps in differs from that in the providers of the upload only.
MergeKnows ==
  /\ merge.at \in Underway =>
       /\ merge.id <= file.id
       /\ merge.id = file.id => merge.old = file.has /\ ~file.broken
       /\ merge.at = "swap" /\ ~raced => merge.id = file.id
       /\ \A p \in Provider \ merge.of : merge.new[p] = merge.old[p]
  /\ merge.at = "verify" /\ ~raced => file.has = merge.new /\ ~file.broken
  /\ merge.at = "restore" => raced

FileInv == FileTypeOK /\ MergeKnows /\ WritesSurvive

(***************************************************************************)
(* The health rows.                                                        *)
(***************************************************************************)

Verdicts == {"unverified", "healthy", "expired", "missing", "malformed"}
Rows == [static : Verdicts, failed : BOOLEAN, notified : Verdicts \cup {"none", "auth_failed"}]
RowTable == [Watched -> Rows]
Refreshes == [at : {"idle", "load", "check", "save", "mark"}, todo : SUBSET Watched,
              loaded : RowTable \cup {<<>>}, next : (Watched \X Rows) \cup {<<>>}]

HealthTypeOK ==
  /\ row \in RowTable
  /\ refresh \in [Refresher -> Refreshes]
  /\ job \in [at : {"idle", "fetch", "save", "mark", "emit"}, of : Watched \cup {"none"},
              uses : Nat, loaded : Rows \cup {<<>>}]
  /\ job.at # "idle" => job.of \in Watched
  /\ job.at \in {"save", "mark", "emit"} => job.loaded \in Rows
  /\ refused \in SUBSET (Watched \X Nat)
  /\ told \in SUBSET Watched /\ unheard \in SUBSET Watched /\ excused \in SUBSET Watched

\* What a refresh is about to write: the row it loaded with a new verdict, and no
\* refusal if the refresh follows an upload.
RefreshKeeps ==
  \A x \in Refresher :
    /\ refresh[x].at \in {"check", "save", "mark"} => refresh[x].loaded \in RowTable
    /\ refresh[x].at \in {"save", "mark"} =>
         /\ refresh[x].next \in Watched \X Rows
         /\ refresh[x].next[1] \in refresh[x].todo
         /\ x = "upload" => ~refresh[x].next[2].failed
    /\ refresh[x].at = "save" =>
         LET old == refresh[x].loaded[refresh[x].next[1]]
             new == refresh[x].next[2]
         IN /\ new.failed = (old.failed /\ x # "upload")
            /\ new.notified = old.notified
            /\ new.static # "unverified"

\* Every content in use is known, and what a merge brings has not been used before.
ContentsAreOld ==
  /\ \A p \in Provider : file.has[p] <= made
  /\ \A p \in Watched, n \in Nat : <<p, n>> \in refused => n <= made
  /\ job.at # "idle" => job.uses <= made
  /\ merge.at # "idle" => \A p \in Provider : merge.old[p] <= made /\ merge.new[p] <= made
  /\ merge.at \in Underway =>
       \A p \in merge.of :
         /\ file.has[p] # merge.new[p]
         /\ <<p, merge.new[p]>> \notin refused
         /\ job.at # "idle" /\ job.of = p => job.uses # merge.new[p]

\* The bot starts no upload before the refresh after the last one has ended.
UploadWaits == merge.at # "idle" => refresh["upload"].at = "idle"

Marks(p) == refresh["upload"].at = "mark" /\ refresh["upload"].next[1] = p
Tells(p) == job.at \in {"mark", "emit"} /\ job.of = p

\* The row of a refused content says so, and what a row says and what was last
\* notified of it agrees with the log, but for what is being written.
TrueRow(p) ==
  /\ ~raced /\ <<p, file.has[p]>> \in refused => row[p].failed
  /\ ~raced /\ Clearing(p) => <<p, file.has[p]>> \notin refused
  /\ row[p].failed => p \in told \cup unheard \/ Tells(p)
  /\ row[p].notified = "auth_failed" => row[p].failed \/ Marks(p)

RowsAreTrue == \A p \in Watched : p \notin excused => TrueRow(p)

HealthInv == HealthTypeOK /\ RefreshKeeps /\ UploadWaits /\ ContentsAreOld /\ RowsAreTrue

\* The steps that touch the file or the merge, and those that only read them.
LEMMA FileActions ==
  ASSUME CookiesNext
  PROVE  \/ \E P \in (SUBSET Provider) \ {{}}, breaks \in BOOLEAN : EditOutside(P, breaks)
         \/ \E P \in (SUBSET Provider) \ {{}} : ReadForMerge(P)
         \/ LookAgain("backup", "check") \/ LookAgain("check", "swap")
         \/ Swap \/ Verify \/ Restore \/ BotDies
         \/ UNCHANGED <<file, made, latest, raced, merge>>
<1> USE DEF fileVars
<1>1. ASSUME NEW p \in Watched, Expire(p) \/ TakeCookies(p)
      PROVE  UNCHANGED <<file, made, latest, raced, merge>>
  BY <1>1 DEF Expire, TakeCookies
<1>2. ASSUME NEW x \in Refresher, BeginRefresh(x) \/ LoadRows(x) \/ SaveRow(x) \/ SaveAlert(x)
      PROVE  UNCHANGED <<file, made, latest, raced, merge>>
  BY <1>2 DEF BeginRefresh, LoadRows, SaveRow, SaveAlert
<1>3. ASSUME NEW x \in Refresher, NEW p \in Watched, CheckFile(x, p)
      PROVE  UNCHANGED <<file, made, latest, raced, merge>>
  BY <1>3 DEF CheckFile
<1>4. ASSUME Refuse \/ Accept \/ SaveRefusal \/ MarkAlert \/ Emit \/ WorkerDies
      PROVE  UNCHANGED <<file, made, latest, raced, merge>>
  BY <1>4 DEF Refuse, Accept, SaveRefusal, MarkAlert, Emit, WorkerDies
<1> QED BY <1>1, <1>2, <1>3, <1>4, Zenon DEF CookiesNext

\* The cookie file and the merge under way keep their types.
LEMMA FileTypeStep ==
  ASSUME FileTypeOK, CookiesNext
  PROVE  FileTypeOK'
<1> USE DEF FileTypeOK, Contents, Underway, NoMerge, fileVars, WriteFile, Happens
<1>1. ASSUME NEW P \in (SUBSET Provider) \ {{}}, NEW breaks \in BOOLEAN, EditOutside(P, breaks)
      PROVE  FileTypeOK'
  <2>1. made' \in Nat /\ raced' \in BOOLEAN /\ merge' = merge
    BY <1>1 DEF EditOutside
  <2>2. file' \in [id : Nat, has : Contents, broken : BOOLEAN]
    BY <1>1, <2>1 DEF EditOutside
  <2> QED BY <1>1, <2>1, <2>2 DEF EditOutside
<1>2. ASSUME NEW P \in (SUBSET Provider) \ {{}}, ReadForMerge(P) PROVE FileTypeOK'
  BY <1>2 DEF ReadForMerge
<1>3. ASSUME LookAgain("backup", "check") \/ LookAgain("check", "swap") PROVE FileTypeOK'
  <2>1. CASE file.id = merge.id BY <1>3, <2>1 DEF LookAgain
  <2>2. CASE file.id # merge.id BY <1>3, <2>2 DEF LookAgain
  <2> QED BY <2>1, <2>2
<1>4. CASE Swap BY <1>4 DEF Swap
<1>5. ASSUME Verify PROVE FileTypeOK'
  <2>1. merge' = NoMerge \/ merge' = [merge EXCEPT !.at = "restore"] BY <1>5 DEF Verify
  <2>2. UNCHANGED <<file, made, latest, raced>> BY <1>5 DEF Verify
  <2>3. merge' \in [at : Underway \cup {"idle", "verify", "restore"}, of : SUBSET Provider,
                    id : Nat, old : Contents \cup {<<>>}, new : Contents \cup {<<>>}]
    <3>1. CASE merge' = NoMerge BY <3>1
    <3>2. CASE merge' = [merge EXCEPT !.at = "restore"] BY <3>2
    <3> QED BY <2>1, <3>1, <3>2
  <2>4. merge.at = "verify" BY <1>5 DEF Verify
  <2>5. merge'.at # "idle" => merge'.old \in Contents /\ merge'.new \in Contents
    BY <2>1, <2>4
  <2> QED BY <2>2, <2>3, <2>5
<1>6. CASE Restore BY <1>6 DEF Restore
<1>7. CASE BotDies BY <1>7 DEF BotDies
<1>8. CASE UNCHANGED <<file, made, latest, raced, merge>> BY <1>8
<1> QED BY <1>1, <1>2, <1>3, <1>4, <1>5, <1>6, <1>7, <1>8, FileActions

\* A merge either swaps in a file made of what is there now, or finds another file, or
\* was raced by an edit.
LEMMA FileStep ==
  ASSUME FileTypeOK, MergeKnows, WritesSurvive, CookiesNext
  PROVE  MergeKnows' /\ WritesSurvive'
<1> USE DEF FileTypeOK, MergeKnows, WritesSurvive, Contents, Underway, NoMerge, fileVars,
            WriteFile
<1>1. ASSUME NEW P \in (SUBSET Provider) \ {{}}, NEW breaks \in BOOLEAN, EditOutside(P, breaks)
      PROVE  MergeKnows' /\ WritesSurvive'
  <2>1. /\ file'.id = file.id + 1 /\ file'.has = latest' /\ merge' = merge
        /\ raced' = (raced \/ merge.at \in {"swap", "verify", "restore"})
    BY <1>1 DEF EditOutside
  <2>2. merge.at \in Underway => merge.id < file'.id BY <2>1
  <2>3. merge'.at \in Underway =>
          /\ merge'.id <= file'.id
          /\ merge'.id # file'.id
          /\ merge'.at = "swap" => raced'
          /\ \A p \in Provider \ merge'.of : merge'.new[p] = merge'.old[p]
    <3>1. \A p \in Provider \ merge.of : merge.at \in Underway => merge.new[p] = merge.old[p]
      OBVIOUS
    <3>2. file'.id \in Nat /\ merge.id \in Nat BY <2>1
    <3>3. merge.at = "swap" => raced' BY <2>1
    <3>4. merge' = merge BY <2>1
    <3>5. merge.at \in Underway => merge.id <= file'.id /\ merge.id # file'.id
      BY <2>2, <3>2, SMTT(30)
    <3> HIDE DEF FileTypeOK, MergeKnows, WritesSurvive
    <3> QED BY <3>1, <3>3, <3>4, <3>5, SMTT(30)
  <2>4. merge'.at \in {"verify", "restore"} => raced' BY <2>1
  <2> QED BY <2>1, <2>3, <2>4
<1>2. ASSUME NEW P \in (SUBSET Provider) \ {{}}, ReadForMerge(P)
      PROVE  MergeKnows' /\ WritesSurvive'
  BY <1>2 DEF ReadForMerge
<1>3. ASSUME LookAgain("backup", "check") \/ LookAgain("check", "swap")
      PROVE  MergeKnows' /\ WritesSurvive'
  <2>1. CASE file.id = merge.id BY <1>3, <2>1 DEF LookAgain
  <2>2. CASE file.id # merge.id BY <1>3, <2>2 DEF LookAgain
  <2> QED BY <2>1, <2>2
<1>4. CASE Swap
  <2>1. ~raced => merge.new = [p \in Provider |-> IF p \in merge.of THEN merge.new[p]
                                                  ELSE latest[p]]
    BY <1>4 DEF Swap
  <2> QED BY <1>4, <2>1, SMTT(30) DEF Swap
<1>5. CASE Verify BY <1>5, SMTT(30) DEF Verify
<1>6. CASE Restore BY <1>6 DEF Restore
<1>7. CASE BotDies BY <1>7 DEF BotDies
<1>8. CASE UNCHANGED <<file, made, latest, raced, merge>> BY <1>8
<1>9. CASE \E P \in (SUBSET Provider) \ {{}}, breaks \in BOOLEAN : EditOutside(P, breaks)
  BY <1>1, <1>9, Zenon
<1>10. CASE \E P \in (SUBSET Provider) \ {{}} : ReadForMerge(P)
  BY <1>2, <1>10, Zenon
<1> HIDE DEF FileTypeOK, MergeKnows, WritesSurvive
<1> QED BY <1>3, <1>4, <1>5, <1>6, <1>7, <1>8, <1>9, <1>10, FileActions, Zenon

\* The rows, the refreshes, the job and the log keep their types.
LEMMA HealthTypeStep ==
  ASSUME FileTypeOK, HealthTypeOK, RefreshKeeps, CookiesNext
  PROVE  HealthTypeOK'
<1> USE DEF healthVars, NoJob, NoRefresh
<1>r. /\ NoRefresh \in Refreshes
      /\ \A x \in Refresher : refresh[x] \in Refreshes
      /\ \A x \in Refresher, p \in Watched : NextProvider(x, p) \in Refreshes
  <2>1. NoRefresh \in Refreshes BY DEF Refreshes
  <2>2. \A x \in Refresher : refresh[x] \in Refreshes BY DEF HealthTypeOK
  <2>3. ASSUME NEW r \in Refreshes, NEW p
        PROVE  [r EXCEPT !.at = "check", !.todo = @ \ {p}, !.next = <<>>] \in Refreshes
    BY DEF Refreshes
  <2>4. ASSUME NEW x \in Refresher, NEW p \in Watched PROVE NextProvider(x, p) \in Refreshes
    <3> HIDE DEF NoRefresh
    <3> QED BY <2>1, <2>2, <2>3 DEF NextProvider
  <2> QED BY <2>1, <2>2, <2>4
<1>s. \A r \in Rows : Failed(r) \in Rows /\ Alerted(r) \in Rows
  BY DEF Rows, Failed, Alerted, Combined
<1>1. CASE Verify
  <2>1. merge.of \cap Watched \in SUBSET Watched OBVIOUS
  <2> QED BY <1>1, <2>1 DEF Verify, HealthTypeOK, Refreshes
<1>2. ASSUME NEW x \in Refresher, BeginRefresh(x) \/ LoadRows(x) PROVE HealthTypeOK'
  BY <1>2 DEF BeginRefresh, LoadRows, HealthTypeOK, Refreshes
<1>3. ASSUME NEW x \in Refresher, NEW p \in Watched, CheckFile(x, p) PROVE HealthTypeOK'
  <2>1. StaticHealth(p) \in Verdicts BY DEF StaticHealth, Verdicts, FileTypeOK
  <2>2. refresh[x].loaded[p] \in Rows BY <1>3 DEF CheckFile, RefreshKeeps, RowTable
  <2>3. MergeStatic(refresh[x].loaded[p], StaticHealth(p), x = "upload") \in Rows
    BY <2>1, <2>2 DEF MergeStatic, Rows
  <2> DEFINE next == <<p, MergeStatic(refresh[x].loaded[p], StaticHealth(p), x = "upload")>>
  <2>4. next \in Watched \X Rows BY <2>3
  <2>5. /\ refresh' = [refresh EXCEPT ![x] = [refresh[x] EXCEPT !.at = "save", !.next = next]]
        /\ UNCHANGED <<row, refused, told, unheard, excused, job>>
    BY <1>3 DEF CheckFile, HealthTypeOK, Refreshes
  <2> HIDE DEF next
  <2>6. refresh' \in [Refresher -> Refreshes] BY <1>r, <2>4, <2>5 DEF HealthTypeOK, Refreshes
  <2> QED BY <2>5, <2>6 DEF HealthTypeOK
<1>4. ASSUME NEW x \in Refresher, SaveRow(x) \/ SaveAlert(x) PROVE HealthTypeOK'
  <2> DEFINE p == refresh[x].next[1]
             new == refresh[x].next[2]
  <2>1. p \in Watched /\ new \in Rows /\ Alerted(new) \in Rows
    BY <1>4, <1>s DEF SaveRow, SaveAlert, RefreshKeeps
  <2>2. /\ row' \in RowTable /\ told' \in SUBSET Watched
        /\ unheard' \in SUBSET Watched /\ excused' \in SUBSET Watched
    BY <1>4, <2>1 DEF SaveRow, SaveAlert, Save, HealthTypeOK, RowTable
  <2>3. refresh' = [refresh EXCEPT ![x].at = "mark"]
          \/ refresh' = [refresh EXCEPT ![x] = NextProvider(x, p)]
    BY <1>4 DEF SaveRow, SaveAlert
  <2>4. refresh' \in [Refresher -> Refreshes]
    <3>1. CASE refresh' = [refresh EXCEPT ![x].at = "mark"]
      <4>1. refresh \in [Refresher -> Refreshes] BY DEF HealthTypeOK
      <4>2. [refresh[x] EXCEPT !.at = "mark"] \in Refreshes BY <4>1 DEF Refreshes
      <4> QED BY <3>1, <4>1, <4>2
    <3>2. CASE refresh' = [refresh EXCEPT ![x] = NextProvider(x, p)]
      BY <1>r, <2>1, <3>2 DEF HealthTypeOK
    <3> QED BY <2>3, <3>1, <3>2
  <2>5. UNCHANGED <<refused, job>>
    BY <1>4 DEF SaveRow, SaveAlert
  <2> QED BY <2>2, <2>4, <2>5 DEF HealthTypeOK
<1>5. ASSUME NEW p \in Watched, TakeCookies(p) PROVE HealthTypeOK'
  BY WatchedAssumption, <1>5 DEF TakeCookies, HealthTypeOK, FileTypeOK, Contents
<1>6. CASE Refuse \/ Accept
  <2>1. job.of \in Watched /\ row[job.of] \in Rows
    BY <1>6 DEF Refuse, Accept, HealthTypeOK, RowTable
  <2>2. CASE Refuse BY <2>1, <2>2 DEF Refuse, HealthTypeOK
  <2>3. CASE Accept BY <2>3 DEF Accept, HealthTypeOK
  <2> QED BY <1>6, <2>2, <2>3
<1>7. CASE SaveRefusal
  <2>1. job.of \in Watched /\ Failed(job.loaded) \in Rows /\ job.uses \in Nat
    BY <1>7, <1>s DEF SaveRefusal, HealthTypeOK
  <2>2. row' \in RowTable /\ refused' \in SUBSET (Watched \X Nat)
    BY <1>7, <2>1 DEF SaveRefusal, HealthTypeOK, RowTable
  <2>3. job' = [job EXCEPT !.at = "mark"] \/ job' = NoJob
    BY <1>7 DEF SaveRefusal
  <2>4. excused' \in SUBSET Watched
    BY <1>7, <2>1 DEF SaveRefusal, HealthTypeOK
  <2>5. UNCHANGED <<refresh, told, unheard>>
    BY <1>7 DEF SaveRefusal
  <2> QED BY <1>7, <2>2, <2>3, <2>4, <2>5 DEF SaveRefusal, HealthTypeOK
<1>8. CASE MarkAlert
  <2>1. job.of \in Watched /\ Alerted(Failed(job.loaded)) \in Rows
    BY <1>8, <1>s DEF MarkAlert, HealthTypeOK
  <2> QED BY <1>8, <2>1 DEF MarkAlert, HealthTypeOK, RowTable
<1>9. CASE Emit BY <1>9 DEF Emit, HealthTypeOK
<1>10. CASE BotDies \/ WorkerDies
  <2>1. \A X \in SUBSET Refresher : HalfSaved(X) \subseteq Watched
    BY DEF HalfSaved, RefreshKeeps
  <2>2. excused' \in SUBSET Watched
    BY <1>10, <2>1 DEF BotDies, WorkerDies, HealthTypeOK
  <2>3. refresh' \in [Refresher -> Refreshes]
    BY <1>10, <1>r DEF BotDies, WorkerDies
  <2>4. UNCHANGED <<row, refused, told, unheard>> /\ (job' = job \/ job' = NoJob)
    BY <1>10 DEF BotDies, WorkerDies
  <2> QED BY <2>2, <2>3, <2>4 DEF HealthTypeOK
<1>11. CASE UNCHANGED <<healthVars, job>> BY <1>11 DEF HealthTypeOK
<1> QED BY <1>1, <1>2, <1>3, <1>4, <1>5, <1>6, <1>7, <1>8, <1>9, <1>10, <1>11
        DEF CookiesNext, EditOutside, Expire, ReadForMerge, LookAgain, Swap, Restore

\* A refresh carries the failure mark and the last notification of the row it loaded.
LEMMA RefreshStep ==
  ASSUME FileTypeOK, HealthTypeOK, RefreshKeeps, CookiesNext
  PROVE  RefreshKeeps'
<1> DEFINE Keeps(y) ==
      /\ refresh[y].at \in {"check", "save", "mark"} => refresh[y].loaded \in RowTable
      /\ refresh[y].at \in {"save", "mark"} =>
           /\ refresh[y].next \in Watched \X Rows
           /\ refresh[y].next[1] \in refresh[y].todo
           /\ y = "upload" => ~refresh[y].next[2].failed
      /\ refresh[y].at = "save" =>
           /\ refresh[y].next[2].failed
                = (refresh[y].loaded[refresh[y].next[1]].failed /\ y # "upload")
           /\ refresh[y].next[2].notified = refresh[y].loaded[refresh[y].next[1]].notified
           /\ refresh[y].next[2].static # "unverified"
<1> SUFFICES ASSUME NEW y \in Refresher PROVE Keeps(y)'
  BY DEF RefreshKeeps
<1>a. Keeps(y) BY DEF RefreshKeeps
<1>b. refresh \in [Refresher -> Refreshes] BY DEF HealthTypeOK
<1>c. \A x \in Refresher : refresh[x] \in Refreshes BY <1>b
<1>s. CASE refresh'[y] = refresh[y] BY <1>a, <1>s
<1>n. CASE refresh'[y].at \in {"idle", "load"} BY <1>n
<1>1. CASE Verify
  <2>1. refresh'[y] = refresh[y] \/ refresh'[y].at = "load"
    BY <1>1, <1>b, <1>c DEF Verify, Refreshes
  <2> QED BY <2>1, <1>s, <1>n
<1>2. ASSUME NEW x \in Refresher, BeginRefresh(x) PROVE Keeps(y)'
  <2>1. refresh'[y] = refresh[y] \/ refresh'[y].at = "load"
    BY <1>2, <1>b, <1>c DEF BeginRefresh, Refreshes
  <2> QED BY <2>1, <1>s, <1>n
<1>3. ASSUME NEW x \in Refresher, LoadRows(x) PROVE Keeps(y)'
  <2>1. refresh'[y] = refresh[y] \/ (refresh'[y].at = "check" /\ refresh'[y].loaded = row)
    BY <1>3, <1>b, <1>c DEF LoadRows, Refreshes
  <2> QED BY <2>1, <1>s DEF HealthTypeOK
<1>4. ASSUME NEW x \in Refresher, NEW p \in Watched, CheckFile(x, p) PROVE Keeps(y)'
  <2> DEFINE r == MergeStatic(refresh[x].loaded[p], StaticHealth(p), x = "upload")
  <2>1. refresh[x].loaded \in RowTable /\ refresh[x].loaded[p] \in Rows
    BY <1>4 DEF CheckFile, RefreshKeeps, RowTable
  <2>2. StaticHealth(p) \in Verdicts /\ StaticHealth(p) # "unverified"
    BY DEF StaticHealth, Verdicts, FileTypeOK
  <2>3. /\ r \in Rows
        /\ r.failed = (refresh[x].loaded[p].failed /\ x # "upload")
        /\ r.notified = refresh[x].loaded[p].notified
        /\ r.static # "unverified"
    BY <2>1, <2>2 DEF MergeStatic, Rows
  <2>4. CASE x # y BY <1>4, <1>b, <1>s, <2>4 DEF CheckFile
  <2>5. CASE x = y
    <3>1. /\ refresh'[y].at = "save" /\ refresh'[y].next = <<p, r>>
          /\ refresh'[y].loaded = refresh[y].loaded /\ refresh'[y].todo = refresh[y].todo
          /\ p \in refresh[y].todo
      BY <1>4, <1>b, <1>c, <2>5 DEF CheckFile, Refreshes
    <3> HIDE DEF r
    <3>2. refresh'[y].next[1] = p /\ refresh'[y].next[2] = r BY <3>1
    <3> QED BY <2>1, <2>3, <2>5, <3>1, <3>2
  <2> QED BY <2>4, <2>5
<1>5. ASSUME NEW x \in Refresher, SaveRow(x) \/ SaveAlert(x) PROVE Keeps(y)'
  <2>1. \/ refresh' = [refresh EXCEPT ![x] = NextProvider(x, refresh[x].next[1])]
        \/ refresh' = [refresh EXCEPT ![x].at = "mark"]
    BY <1>5 DEF SaveRow, SaveAlert
  <2>2. refresh[x].at \in {"save", "mark"}
    BY <1>5 DEF SaveRow, SaveAlert
  <2>3. CASE x # y BY <1>b, <1>s, <2>1, <2>3
  <2>4. CASE x = y /\ refresh' = [refresh EXCEPT ![x].at = "mark"]
    <3>1. /\ refresh'[y].at = "mark" /\ refresh'[y].next = refresh[y].next
          /\ refresh'[y].loaded = refresh[y].loaded /\ refresh'[y].todo = refresh[y].todo
      BY <1>b, <1>c, <2>4 DEF Refreshes
    <3> QED BY <1>a, <2>2, <2>4, <3>1
  <2>5. CASE x = y /\ refresh' = [refresh EXCEPT ![x] = NextProvider(x, refresh[x].next[1])]
    <3>1. refresh'[y] = NextProvider(y, refresh[y].next[1]) BY <1>b, <2>5
    <3>2. \/ refresh'[y].at = "idle"
          \/ refresh'[y].at = "check" /\ refresh'[y].loaded = refresh[y].loaded
      BY <1>c, <3>1 DEF NextProvider, NoRefresh, Refreshes
    <3> QED BY <1>a, <1>n, <2>2, <2>5, <3>2
  <2> QED BY <2>1, <2>3, <2>4, <2>5
<1>6. CASE BotDies \/ WorkerDies
  <2>1. refresh'[y] = refresh[y] \/ refresh'[y].at = "idle"
    BY <1>6 DEF BotDies, WorkerDies, NoRefresh
  <2> QED BY <2>1, <1>s, <1>n
<1>7. CASE UNCHANGED refresh BY <1>7, <1>s
<1> QED BY <1>1, <1>2, <1>3, <1>4, <1>5, <1>6, <1>7
        DEF CookiesNext, EditOutside, Expire, ReadForMerge, LookAgain, Swap, Restore,
            TakeCookies, Refuse, Accept, SaveRefusal, MarkAlert, Emit, healthVars

\* No merge starts while the refresh that follows the last one is under way.
LEMMA UploadWaitsStep ==
  ASSUME FileTypeOK, HealthTypeOK, UploadWaits, CookiesNext
  PROVE  UploadWaits'
<1> USE DEF UploadWaits
<1>a. /\ refresh \in [Refresher -> Refreshes] /\ "upload" \in Refresher
      /\ refresh["upload"] \in Refreshes
  BY DEF HealthTypeOK, Refresher
<1>1. ASSUME NEW P \in (SUBSET Provider) \ {{}}, NEW breaks \in BOOLEAN,
             EditOutside(P, breaks) \/ ReadForMerge(P)
      PROVE  UploadWaits'
  BY <1>1 DEF EditOutside, ReadForMerge, healthVars
<1>2. CASE LookAgain("backup", "check") \/ LookAgain("check", "swap")
  BY <1>2 DEF LookAgain, healthVars, FileTypeOK, Underway, NoMerge
<1>3. CASE Swap \/ Restore
  BY <1>3 DEF Swap, Restore, healthVars, FileTypeOK, Underway, NoMerge
<1>4. CASE Verify
  <2>1. merge'.at = "idle" \/ refresh' = refresh BY <1>4 DEF Verify, NoMerge
  <2>2. merge.at # "idle" BY <1>4 DEF Verify
  <2> QED BY <2>1, <2>2
<1>5. ASSUME NEW x \in Refresher,
             \/ BeginRefresh(x) \/ LoadRows(x) \/ SaveRow(x) \/ SaveAlert(x)
             \/ \E p \in Watched : CheckFile(x, p)
      PROVE  UploadWaits'
  <2>1. CASE x = "upload"
    <3>1. refresh["upload"].at # "idle" /\ merge' = merge
      BY RefresherAssumption, <1>5, <2>1
         DEF BeginRefresh, LoadRows, SaveRow, SaveAlert, CheckFile
    <3> QED BY <3>1
  <2>2. CASE x # "upload"
    <3>1. refresh'["upload"] = refresh["upload"] /\ merge' = merge
      BY <1>a, <1>5, <2>2 DEF BeginRefresh, LoadRows, SaveRow, SaveAlert, CheckFile
    <3> QED BY <3>1
  <2> QED BY <2>1, <2>2
<1>6. CASE BotDies BY <1>6 DEF BotDies, NoMerge
<1>7. CASE WorkerDies
  <2>1. refresh'["upload"] = refresh["upload"] /\ merge' = merge
    BY <1>a, <1>7 DEF WorkerDies
  <2> QED BY <2>1
<1>8. CASE UNCHANGED <<merge, refresh>> BY <1>8
<1> QED BY <1>1, <1>2, <1>3, <1>4, <1>5, <1>6, <1>7, <1>8
        DEF CookiesNext, Expire, TakeCookies, Refuse, Accept, SaveRefusal, MarkAlert, Emit,
            healthVars

\* What an upload brings is newer than all that any job has used.
LEMMA ContentsStep ==
  ASSUME FileTypeOK, HealthTypeOK, ContentsAreOld, CookiesNext
  PROVE  ContentsAreOld'
<1> USE WatchedAssumption DEF FileTypeOK, HealthTypeOK, ContentsAreOld, Contents, Underway,
        NoMerge, fileVars, healthVars, WriteFile, Happens
<1>n. /\ made \in Nat /\ \A p \in Provider : file.has[p] \in Nat /\ file.has[p] <= made
      /\ merge.at # "idle" =>
           \A p \in Provider : /\ merge.old[p] \in Nat /\ merge.new[p] \in Nat
                               /\ merge.old[p] <= made /\ merge.new[p] <= made
  OBVIOUS
<1>o. merge.at \in Underway =>
        \A p \in merge.of : p \in Provider /\ file.has[p] # merge.new[p]
  OBVIOUS
<1>1. ASSUME NEW P \in (SUBSET Provider) \ {{}}, NEW breaks \in BOOLEAN, EditOutside(P, breaks)
      PROVE  ContentsAreOld'
  <2>1. /\ made' = made + 1 /\ merge' = merge /\ refused' = refused /\ job' = job
        /\ \A p \in Provider : file'.has[p] = IF p \in P THEN made' ELSE file.has[p]
    BY <1>1 DEF EditOutside
  <2>2. \A p \in Provider : file'.has[p] <= made'
    <3> TAKE p \in Provider
    <3>1. CASE p \in P BY <1>n, <2>1, <3>1
    <3>2. CASE p \notin P BY <1>n, <2>1, <3>2
    <3> QED BY <3>1, <3>2
  <2>3. merge.at \in Underway => \A p \in merge.of : file'.has[p] # merge.new[p]
    <3> SUFFICES ASSUME merge.at \in Underway, NEW p \in merge.of
                 PROVE  file'.has[p] # merge.new[p]
      OBVIOUS
    <3>1. p \in Provider /\ file.has[p] # merge.new[p] BY <1>o
    <3>2. merge.new[p] <= made /\ merge.new[p] \in Nat BY <1>n, <3>1
    <3> HIDE DEF FileTypeOK, HealthTypeOK, ContentsAreOld
    <3>3. CASE p \in P
      <4>1. made \in Nat BY <1>n
      <4>2. file'.has[p] = made + 1 BY <2>1, <3>1, <3>3
      <4> QED BY <3>2, <4>1, <4>2
    <3>4. CASE p \notin P BY <2>1, <3>1, <3>4
    <3> QED BY <3>3, <3>4
  <2>4. /\ \A p \in Watched, m \in Nat : <<p, m>> \in refused' => m <= made'
        /\ job'.at # "idle" => job'.uses <= made'
    <3>1. \A m \in Nat : m <= made => m <= made' BY <1>n, <2>1
    <3>2. job.uses \in Nat BY DEF HealthTypeOK
    <3>3. /\ \A p \in Watched, m \in Nat : <<p, m>> \in refused => m <= made
          /\ job.at # "idle" => job.uses <= made
      OBVIOUS
    <3> HIDE DEF FileTypeOK, HealthTypeOK, ContentsAreOld
    <3> QED BY <2>1, <3>1, <3>2, <3>3
  <2>5. merge'.at # "idle" =>
          \A p \in Provider : merge'.old[p] <= made' /\ merge'.new[p] <= made'
    <3>1. \A m \in Nat : m <= made => m <= made' BY <1>n, <2>1
    <3>2. merge' = merge BY <2>1
    <3> HIDE DEF FileTypeOK, HealthTypeOK, ContentsAreOld
    <3> QED BY <1>n, <3>1, <3>2
  <2>6. merge.at \in Underway =>
          \A p \in merge.of : /\ <<p, merge.new[p]>> \notin refused
                              /\ job.at # "idle" /\ job.of = p => job.uses # merge.new[p]
    OBVIOUS
  <2> HIDE DEF FileTypeOK, HealthTypeOK, Underway, fileVars, healthVars
  <2>7. merge'.at \in Underway =>
          \A p \in merge'.of : /\ file'.has[p] # merge'.new[p]
                               /\ <<p, merge'.new[p]>> \notin refused'
                               /\ job'.at # "idle" /\ job'.of = p => job'.uses # merge'.new[p]
    <3> HIDE DEF ContentsAreOld
    <3> QED BY <2>1, <2>3, <2>6
  <2> QED BY <2>2, <2>4, <2>5, <2>7
<1>2. ASSUME NEW P \in (SUBSET Provider) \ {{}}, ReadForMerge(P) PROVE ContentsAreOld'
  <2>1. /\ made' = made + 1 /\ file' = file /\ refused' = refused /\ job' = job
        /\ merge'.of = P /\ merge'.old = file.has
        /\ \A p \in Provider : merge'.new[p] = IF p \in P THEN made' ELSE file.has[p]
    BY <1>2 DEF ReadForMerge
  <2>2. \A p \in Provider : merge'.old[p] <= made' /\ merge'.new[p] <= made'
    <3> TAKE p \in Provider
    <3>1. CASE p \in P BY <1>n, <2>1, <3>1
    <3>2. CASE p \notin P BY <1>n, <2>1, <3>2
    <3> QED BY <3>1, <3>2
  <2>3. \A p \in P : /\ file.has[p] # merge'.new[p] /\ <<p, merge'.new[p]>> \notin refused
                     /\ job.at # "idle" => job.uses # merge'.new[p]
    BY <2>1
  <2> QED BY <2>1, <2>2, <2>3
<1>3. ASSUME LookAgain("backup", "check") \/ LookAgain("check", "swap") PROVE ContentsAreOld'
  <2>1. /\ merge.at \in Underway /\ UNCHANGED <<file, made, refused, job>>
        /\ \/ merge' = NoMerge
           \/ merge' = [merge EXCEPT !.at = "check"] \/ merge' = [merge EXCEPT !.at = "swap"]
    BY <1>3 DEF LookAgain
  <2>2. merge'.at = "idle"
          \/ (merge'.of = merge.of /\ merge'.old = merge.old /\ merge'.new = merge.new)
    BY <2>1
  <2> QED BY <2>1, <2>2
<1>4. ASSUME Swap \/ Restore PROVE ContentsAreOld'
  <2>1. /\ merge.at # "idle" /\ UNCHANGED <<made, refused, job>>
        /\ file'.has = merge.new \/ file'.has = merge.old
        /\ merge' = NoMerge \/ merge' = [merge EXCEPT !.at = "verify"]
    BY <1>4 DEF Swap, Restore
  <2>2. \A p \in Provider : file'.has[p] <= made' BY <1>n, <2>1
  <2>3. /\ merge'.at \notin Underway
        /\ merge'.at # "idle" => merge'.old = merge.old /\ merge'.new = merge.new
    <3>1. CASE merge' = NoMerge BY <3>1
    <3>2. CASE merge' = [merge EXCEPT !.at = "verify"] BY <3>2
    <3> QED BY <2>1, <3>1, <3>2
  <2>4. merge'.at # "idle" =>
          \A p \in Provider : merge'.old[p] <= made' /\ merge'.new[p] <= made'
    BY <1>n, <2>1, <2>3
  <2>5. /\ \A p \in Watched, m \in Nat : <<p, m>> \in refused' => m <= made'
        /\ job'.at # "idle" => job'.uses <= made'
    BY <2>1
  <2> HIDE DEF FileTypeOK, HealthTypeOK, Underway, NoMerge, fileVars, healthVars
  <2> QED BY <2>2, <2>3, <2>4, <2>5
<1>5. ASSUME Verify PROVE ContentsAreOld'
  <2>1. merge' = NoMerge \/ merge' = [merge EXCEPT !.at = "restore"] BY <1>5 DEF Verify
  <2>2. merge.at = "verify" /\ UNCHANGED <<file, made, refused, job>> BY <1>5 DEF Verify
  <2>3. CASE merge' = NoMerge BY <2>2, <2>3
  <2>4. CASE merge' = [merge EXCEPT !.at = "restore"]
    <3>1. merge'.at = "restore" /\ merge'.old = merge.old /\ merge'.new = merge.new
      BY <2>4
    <3> QED BY <2>2, <3>1
  <2> QED BY <2>1, <2>3, <2>4
<1>6. CASE BotDies BY <1>6 DEF BotDies
<1>7. ASSUME NEW p \in Watched, TakeCookies(p) PROVE ContentsAreOld'
  <2>1. /\ job'.of = p /\ job'.uses = file.has[p] /\ UNCHANGED <<file, made, merge, refused>>
    BY <1>7 DEF TakeCookies, NoJob
  <2> QED BY <2>1
<1>8. CASE Refuse \/ Accept \/ MarkAlert \/ Emit \/ WorkerDies
  <2>1. UNCHANGED <<file, made, merge, refused>>
    BY <1>8 DEF Refuse, Accept, MarkAlert, Emit, WorkerDies
  <2>2. job'.at # "idle" => job.at # "idle" /\ job'.of = job.of /\ job'.uses = job.uses
    <3>1. CASE Refuse BY <3>1 DEF Refuse
    <3>2. CASE MarkAlert BY <3>2 DEF MarkAlert
    <3>3. CASE Accept \/ Emit \/ WorkerDies BY <3>3 DEF Accept, Emit, WorkerDies, NoJob
    <3> QED BY <1>8, <3>1, <3>2, <3>3
  <2> QED BY <2>1, <2>2
<1>9. CASE SaveRefusal
  <2>1. UNCHANGED <<file, made, merge>> /\ refused' = refused \cup {<<job.of, job.uses>>}
    BY <1>9 DEF SaveRefusal
  <2>2. job.at # "idle" BY <1>9 DEF SaveRefusal
  <2>3. job'.at # "idle" => job'.of = job.of /\ job'.uses = job.uses
    BY <1>9 DEF SaveRefusal, NoJob
  <2> QED BY <2>1, <2>2, <2>3
<1>10. CASE UNCHANGED <<file, made, merge, refused, job>> BY <1>10
<1>11. ASSUME NEW x \in Refresher,
              \/ BeginRefresh(x) \/ LoadRows(x) \/ SaveRow(x) \/ SaveAlert(x)
              \/ \E p \in Watched : CheckFile(x, p)
       PROVE  UNCHANGED <<file, made, merge, refused, job>>
  BY <1>11 DEF BeginRefresh, LoadRows, SaveRow, SaveAlert, CheckFile
<1>12. ASSUME NEW p \in Watched, Expire(p)
       PROVE  UNCHANGED <<file, made, merge, refused, job>>
  BY <1>12 DEF Expire
<1> HIDE DEF FileTypeOK, HealthTypeOK, ContentsAreOld
<1> QED BY <1>1, <1>2, <1>3, <1>4, <1>5, <1>6, <1>7, <1>8, <1>9, <1>10, <1>11, <1>12
        DEF CookiesNext

\* A row that nothing has cut into stays true: whatever rewrites it either keeps its
\* refusal and its notification, or belongs to an upload whose content nobody has used.
LEMMA RowsStep ==
  ASSUME RecoveryNotifications, FileTypeOK, MergeKnows, HealthInv, CookiesNext
  PROVE  RowsAreTrue'
<1> SUFFICES ASSUME NEW p \in Watched, p \notin excused' PROVE TrueRow(p)'
  BY DEF RowsAreTrue
<1>a. /\ row \in RowTable /\ row[p] \in Rows /\ p \in Provider
      /\ refresh \in [Refresher -> Refreshes] /\ "upload" \in Refresher
      /\ refresh["upload"] \in Refreshes
      /\ job.at # "idle" => job.of \in Watched
      /\ job.at \in {"save", "mark", "emit"} => job.loaded \in Rows
  BY WatchedAssumption DEF HealthInv, HealthTypeOK, RowTable, Refresher
<1>b. p \notin excused => TrueRow(p) BY DEF HealthInv, RowsAreTrue
<1>c. Marks(p) => Clearing(p)
  BY <1>a DEF Marks, Clearing, HealthInv, RefreshKeeps
\* Enough when the step leaves p's row alone.
<1>q. ASSUME TrueRow(p), row'[p] = row[p],
             ~raced' => /\ ~raced
                        /\ \/ <<p, file'.has[p]>> \notin refused'
                           \/ /\ <<p, file'.has[p]>> \in refused' => <<p, file.has[p]>> \in refused
                              /\ Clearing(p)' => Clearing(p),
             p \in told \cup unheard \/ Tells(p) => p \in told' \cup unheard' \/ Tells(p)',
             Marks(p) => Marks(p)'
      PROVE  TrueRow(p)'
  BY <1>q DEF TrueRow
<1>1. ASSUME NEW P \in (SUBSET Provider) \ {{}}, NEW breaks \in BOOLEAN, EditOutside(P, breaks)
      PROVE  TrueRow(p)'
  <2>1. /\ UNCHANGED <<row, refused, told, unheard, excused, merge, refresh, job>>
        /\ file'.has[p] = IF p \in P THEN made + 1 ELSE file.has[p]
        /\ raced => raced'
    BY <1>1, <1>a DEF EditOutside, WriteFile, healthVars
  <2>2. p \in P => <<p, file'.has[p]>> \notin refused'
    BY <2>1 DEF FileTypeOK, HealthInv, ContentsAreOld
  <2> QED BY <1>b, <1>q, <2>1, <2>2 DEF Clearing, Tells, Marks
<1>2. ASSUME NEW P \in (SUBSET Provider) \ {{}}, ReadForMerge(P) PROVE TrueRow(p)'
  <2>1. /\ UNCHANGED <<file, raced, row, refused, told, unheard, excused, refresh, job>>
        /\ merge'.at = "backup"
    BY <1>2 DEF ReadForMerge, healthVars
  <2> QED BY <1>b, <1>q, <2>1 DEF Clearing, Tells, Marks
<1>3. CASE LookAgain("backup", "check") \/ LookAgain("check", "swap")
  <2>1. UNCHANGED <<file, raced, row, refused, told, unheard, excused, refresh, job>>
    BY <1>3 DEF LookAgain, healthVars, fileVars
  <2>2. merge'.at # "verify"
    BY <1>3 DEF LookAgain, NoMerge, FileTypeOK
  <2> QED BY <1>b, <1>q, <2>1, <2>2 DEF Clearing, Tells, Marks
<1>4. CASE Swap
  <2>1. /\ UNCHANGED <<raced, row, refused, told, unheard, excused, refresh, job>>
        /\ merge.at = "swap" /\ file'.has = merge.new /\ merge'.of = merge.of
    BY <1>4 DEF Swap, WriteFile, healthVars, FileTypeOK
  <2>2. p \in merge.of => <<p, file'.has[p]>> \notin refused'
    BY <2>1 DEF HealthInv, ContentsAreOld, Underway
  <2>3. ~raced /\ p \notin merge.of => file'.has[p] = file.has[p]
    BY <1>a, <2>1 DEF MergeKnows, Underway, FileTypeOK
  <2> QED BY <1>b, <1>q, <2>1, <2>2, <2>3 DEF Clearing, Tells, Marks
<1>5. CASE Verify
  <2>1. /\ UNCHANGED <<file, raced, row, refused, told, unheard, excused, job>>
        /\ merge.at = "verify"
    BY <1>5 DEF Verify, fileVars
  <2>2. ~Marks(p) BY <2>1 DEF Marks, HealthInv, UploadWaits
  <2>3. ~raced => merge' = NoMerge /\ (refresh'["upload"].todo = merge.of \cap Watched
                                         \/ refresh' = refresh)
    BY <1>5, <1>a, <2>1 DEF Verify, MergeKnows, Refreshes
  <2>4. ~raced /\ Clearing(p)' => Clearing(p)
    BY <2>1, <2>3 DEF Clearing, NoMerge
  <2> QED BY <1>b, <1>q, <2>1, <2>2, <2>4 DEF Tells
<1>6. CASE Restore
  <2>1. /\ UNCHANGED <<raced, row, refused, told, unheard, excused, refresh, job>> /\ raced
    BY <1>6 DEF Restore, healthVars, MergeKnows, FileTypeOK
  <2> QED BY <1>b, <1>q, <2>1 DEF Tells, Marks
<1>7. ASSUME NEW q \in Watched, Expire(q) \/ TakeCookies(q) PROVE TrueRow(p)'
  <2>1. /\ UNCHANGED <<file, raced, row, refused, told, unheard, excused, refresh, merge>>
        /\ job'.at \in {"mark", "emit"} => job' = job
        /\ job.at \in {"mark", "emit"} => job' = job
    BY <1>7 DEF Expire, TakeCookies, healthVars, fileVars, NoJob
  <2> QED BY <1>b, <1>q, <2>1 DEF Clearing, Tells, Marks
<1>8. ASSUME NEW x \in Refresher,
             BeginRefresh(x) \/ LoadRows(x) \/ \E q \in Watched : CheckFile(x, q)
      PROVE  TrueRow(p)'
  <2>1. UNCHANGED <<file, raced, row, refused, told, unheard, excused, job, merge>>
    BY <1>8 DEF BeginRefresh, LoadRows, CheckFile, fileVars
  <2>2. CASE x # "upload"
    <3>1. refresh'["upload"] = refresh["upload"]
      BY <1>8, <1>a, <2>2 DEF BeginRefresh, LoadRows, CheckFile
    <3> QED BY <1>b, <1>q, <2>1, <3>1 DEF Clearing, Tells, Marks
  <2>3. CASE x = "upload"
    <3>1. /\ refresh'["upload"].todo = refresh["upload"].todo
          /\ refresh["upload"].at # "mark"
      BY <1>8, <1>a, <2>3, RefresherAssumption
         DEF BeginRefresh, LoadRows, CheckFile, Refreshes
    <3> QED BY <1>b, <1>q, <2>1, <3>1 DEF Clearing, Tells, Marks
  <2> QED BY <2>2, <2>3
<1>9. ASSUME NEW x \in Refresher, SaveRow(x) \/ SaveAlert(x) PROVE TrueRow(p)'
  <2> DEFINE q == refresh[x].next[1]
             new == refresh[x].next[2]
             old == refresh[x].loaded[q]
  <2>1. /\ UNCHANGED <<file, raced, refused, job, merge>>
        /\ q \in Watched /\ new \in Rows /\ q \in refresh[x].todo
        /\ x = "upload" => ~new.failed
    BY <1>9 DEF SaveRow, SaveAlert, fileVars, HealthInv, RefreshKeeps
  <2>2. /\ refresh' = [refresh EXCEPT ![x] = NextProvider(x, q)]
             \/ refresh' = [refresh EXCEPT ![x].at = "mark"]
        /\ SaveAlert(x) => refresh' = [refresh EXCEPT ![x] = NextProvider(x, q)]
    BY <1>9 DEF SaveRow, SaveAlert
  <2>3. x # "upload" => refresh'["upload"] = refresh["upload"]
    BY <1>a, <2>2
  <2>4. Clearing(p)' => Clearing(p)
    <3>1. CASE x # "upload" BY <2>1, <2>3, <3>1 DEF Clearing
    <3>2. CASE x = "upload"
      <4>1. refresh'["upload"].todo \subseteq refresh["upload"].todo
        <5>1. CASE refresh' = [refresh EXCEPT ![x].at = "mark"]
          BY <1>a, <3>2, <5>1 DEF Refreshes
        <5>2. CASE refresh' = [refresh EXCEPT ![x] = NextProvider(x, q)]
          <6>1. refresh'["upload"] = NextProvider("upload", q) BY <1>a, <3>2, <5>2
          <6> QED BY <1>a, <6>1 DEF NextProvider, NoRefresh, Refreshes
        <5> QED BY <2>2, <5>1, <5>2
      <4> QED BY <2>1, <4>1 DEF Clearing
    <3> QED BY <3>1, <3>2
  <2>5. refresh[x].at \in {"save", "mark"} /\ (Marks(p) /\ x = "upload" => q = p)
    BY <1>9 DEF SaveRow, SaveAlert, Marks
  <2>6. CASE q # p
    <3>1. /\ row'[p] = row[p] /\ (p \in told \cup unheard => p \in told' \cup unheard') /\ (p \notin excused)
      BY <1>9, <1>a, <2>1, <2>6 DEF SaveRow, SaveAlert, Save, RowTable
    <3>2. Marks(p) => Marks(p)' BY <2>3, <2>5, <2>6 DEF Marks
    <3> HIDE DEF q, new, old
    <3> QED BY <1>b, <1>q, <2>1, <2>4, <3>1, <3>2 DEF Tells
  <2>7. CASE q = p /\ SaveRow(x)
    <3>1. /\ row[p] = old /\ p \notin excused /\ row'[p] = new
          /\ told' = IF new.failed THEN told ELSE told \ {p}
          /\ unheard' = IF new.failed THEN unheard ELSE unheard \ {p}
          /\ refresh[x].at = "save"
      BY <1>a, <2>7 DEF SaveRow, Save, RowTable
    <3>2. /\ new.failed = (row[p].failed /\ x # "upload")
          /\ new.notified = row[p].notified /\ new.static # "unverified"
      BY <2>7, <3>1 DEF HealthInv, RefreshKeeps
    <3>3. TrueRow(p) BY <1>b, <3>1
    <3>4. CASE x # "upload"
      <4>1. row[p].failed \in BOOLEAN /\ new.failed \in BOOLEAN BY <1>a, <2>1 DEF Rows
      <4>2. new.failed = row[p].failed BY <3>2, <3>4, <4>1
      <4>3. Marks(p) => Marks(p)' BY <2>3, <3>4 DEF Marks
      <4> HIDE DEF q, new, old
      <4> QED BY <2>1, <2>4, <3>1, <3>2, <3>3, <4>2, <4>3 DEF TrueRow, Tells
    <3>5. CASE x = "upload"
      <4>1. ~new.failed /\ Clearing(p) BY <2>1, <2>7, <3>5 DEF Clearing
      <4>2. new.notified = "auth_failed" => Marks(p)'
        <5>1. SUFFICES ASSUME new.notified = "auth_failed" PROVE Marks(p)'
          OBVIOUS
        <5>2. \A due \in BOOLEAN : ShouldAlert(old.notified, Combined(new), due)
          BY RecoveryNotifications, <2>1, <3>1, <3>2, <4>1, <5>1
             DEF ShouldAlert, Combined, Rows, Verdicts
        <5>3. refresh' = [refresh EXCEPT ![x].at = "mark"]
          BY <2>7, <5>2 DEF SaveRow
        <5>4. refresh'["upload"].at = "mark" /\ refresh'["upload"].next[1] = p
          BY <1>a, <2>7, <3>5, <5>3 DEF Refreshes
        <5> QED BY <5>4 DEF Marks
      <4> HIDE DEF q, new, old
      <4> QED BY <2>1, <2>4, <3>1, <3>3, <4>1, <4>2 DEF TrueRow
    <3> QED BY <3>4, <3>5
  <2>8. CASE q = p /\ SaveAlert(x)
    <3>1. /\ row[p] = new /\ p \notin excused /\ row'[p] = Alerted(new)
          /\ told' = IF Alerted(new).failed THEN told ELSE told \ {p}
          /\ unheard' = IF Alerted(new).failed THEN unheard ELSE unheard \ {p}
      BY <1>a, <2>8 DEF SaveAlert, Save, RowTable
    <3>2. TrueRow(p) BY <1>b, <3>1
    <3>3. Alerted(new).failed = new.failed /\ Alerted(new).notified = Combined(new)
      BY <2>1 DEF Alerted, Rows
    <3>4. Combined(new) = "auth_failed" => new.failed
      BY <2>1 DEF Combined, Rows, Verdicts
    <3> HIDE DEF q, new, old
    <3> QED BY <2>1, <2>4, <3>1, <3>2, <3>3, <3>4 DEF TrueRow, Tells
  <2> QED BY <1>9, <2>6, <2>7, <2>8
<1>10. CASE Refuse \/ Accept
  <2>1. /\ UNCHANGED <<file, raced, row, refused, told, unheard, excused, refresh, merge>>
        /\ job.at = "fetch"
    BY <1>10 DEF Refuse, Accept, healthVars, fileVars
  <2> QED BY <1>b, <1>q, <2>1 DEF Clearing, Tells, Marks
<1>11. CASE SaveRefusal
  <2> DEFINE races == Clearing(p) \/ row[p] # job.loaded
  <2>1. /\ UNCHANGED <<file, raced, refresh, merge, told, unheard>>
        /\ row' = [row EXCEPT ![job.of] = Failed(job.loaded)]
        /\ refused' = refused \cup {<<job.of, job.uses>>}
        /\ job.at = "save" /\ job.loaded \in Rows
    BY <1>11, <1>a DEF SaveRefusal, fileVars
  <2>2. ~Tells(p) BY <2>1 DEF Tells
  <2>3. CASE job.of # p
    <3>1. p \notin excused BY <1>11, <2>3 DEF SaveRefusal
    <3>2. row'[p] = row[p] /\ (<<p, file'.has[p]>> \in refused' => <<p, file.has[p]>> \in refused)
      BY <1>a, <2>1, <2>3
    <3>3. (Marks(p) => Marks(p)') /\ (Clearing(p)' => Clearing(p))
      BY <2>1 DEF Marks, Clearing
    <3> HIDE DEF races
    <3> QED BY <1>b, <1>q, <2>1, <2>2, <3>1, <3>2, <3>3
  <2>4. CASE job.of = p
    <3>1. ~races
      BY <1>11, <2>4 DEF SaveRefusal
    <3>2. row'[p] = Failed(job.loaded) /\ row'[p].failed
      BY <1>a, <2>1, <2>4 DEF Failed, Rows, RowTable
    <3>3. ~Clearing(p)' BY <2>1, <3>1 DEF Clearing
    <3>4. p \in told \cup unheard \/ Tells(p)'
      <4>1. SUFFICES ASSUME p \notin told \cup unheard, job' = NoJob PROVE FALSE
        <5>1. job' = NoJob \/ (job'.at = "mark" /\ job'.of = p)
          BY <1>11, <2>4 DEF SaveRefusal, HealthInv, HealthTypeOK
        <5> QED BY <5>1 DEF Tells
      <4>2. p \notin excused
        BY <1>11, <2>4, <3>1, <4>1 DEF SaveRefusal
      <4>3. PICK due \in BOOLEAN : ~ShouldAlert(job.loaded.notified, "auth_failed", due)
        BY <1>11, <4>1 DEF SaveRefusal, NoJob, HealthInv, HealthTypeOK
      <4>4. job.loaded.notified = "auth_failed"
        BY <4>3 DEF ShouldAlert
      <4>5. row[p].failed \/ Marks(p)
        BY <1>b, <3>1, <4>2, <4>4 DEF TrueRow
      <4> QED BY <1>b, <1>c, <2>2, <3>1, <4>1, <4>2, <4>5 DEF TrueRow
    <3> HIDE DEF races
    <3> QED BY <2>1, <3>2, <3>3, <3>4 DEF TrueRow
  <2> QED BY <2>3, <2>4
<1>12. CASE MarkAlert
  <2>1. /\ UNCHANGED <<file, raced, refused, refresh, merge, told, unheard>>
        /\ row' = [row EXCEPT ![job.of] = Alerted(Failed(job.loaded))]
        /\ job.at = "mark" /\ job'.at = "emit" /\ job'.of = job.of /\ job.loaded \in Rows
        /\ p \notin excused /\ (job.of = p => row[p] = Failed(job.loaded))
    BY <1>12, <1>a DEF MarkAlert, fileVars, HealthInv, HealthTypeOK
  <2>2. CASE job.of # p
    BY <1>a, <1>b, <1>q, <2>1, <2>2 DEF Clearing, Tells, Marks
  <2>3. CASE job.of = p
    <3>1. row[p].failed /\ row'[p].failed
      BY <1>a, <2>1, <2>3 DEF Failed, Alerted, Rows
    <3> QED BY <1>b, <2>1, <2>3, <3>1 DEF TrueRow, Clearing, Tells
  <2> QED BY <2>2, <2>3
<1>13. CASE Emit
  <2>1. /\ UNCHANGED <<file, raced, refused, refresh, merge, row, excused>>
        /\ told' \cup unheard' = told \cup unheard \cup {job.of}
    BY <1>13 DEF Emit, fileVars
  <2> QED BY <1>b, <1>q, <2>1 DEF Clearing, Tells, Marks
<1>14. CASE BotDies
  <2>1. /\ UNCHANGED <<file, raced, row, refused, told, unheard, job>> /\ merge' = NoMerge
        /\ refresh'["upload"] = NoRefresh
        /\ p \notin excused /\ p \notin HalfSaved(Refresher \ {"startup"})
    BY <1>14, <1>a DEF BotDies, fileVars
  <2>2. ~Marks(p) BY <1>a, <2>1 DEF Marks, HalfSaved
  <2>3. ~Clearing(p)' BY <2>1 DEF Clearing, NoMerge, NoRefresh
  <2> QED BY <1>b, <1>q, <2>1, <2>2, <2>3 DEF Tells
<1>15. CASE WorkerDies
  <2>1. /\ UNCHANGED <<file, raced, row, refused, told, unheard, merge>>
        /\ refresh'["upload"] = refresh["upload"]
        /\ p \notin excused /\ ~Tells(p)
    BY <1>15, <1>a DEF WorkerDies, fileVars, Tells
  <2> QED BY <1>b, <1>q, <2>1 DEF Clearing, Marks
<1>16. CASE UNCHANGED cookieVars
  <2>1. UNCHANGED <<file, raced, row, refused, told, unheard, merge, refresh, job, excused>>
    BY <1>16 DEF cookieVars, fileVars, healthVars
  <2> QED BY <1>b, <1>q, <2>1 DEF Clearing, Marks, Tells
<1> QED BY <1>1, <1>2, <1>3, <1>4, <1>5, <1>6, <1>7, <1>8, <1>9, <1>10, <1>11, <1>12,
           <1>13, <1>14, <1>15 DEF CookiesNext

\* At the start the file is whole and no provider's cookies are refused.
LEMMA CookiesInitially ==
  ASSUME CookiesInit
  PROVE  FileInv /\ HealthInv
<1> USE WatchedAssumption DEF CookiesInit, NoMerge, NoJob, NoRefresh
<1>1. PICK n \in {0, 1} : file = [id |-> 0, has |-> [p \in Provider |-> n], broken |-> FALSE]
  OBVIOUS
<1>2. FileTypeOK
  <2>1. file.has \in Contents /\ latest \in Contents BY <1>1 DEF Contents
  <2>2. merge = [at |-> "idle", of |-> {}, id |-> 0, old |-> <<>>, new |-> <<>>] OBVIOUS
  <2>3. made = 1 /\ raced = FALSE OBVIOUS
  <2>4. file \in [id : Nat, has : Contents, broken : BOOLEAN] BY <1>1, <2>1
  <2>5. merge \in [at : Underway \cup {"idle", "verify", "restore"}, of : SUBSET Provider,
                   id : Nat, old : Contents \cup {<<>>}, new : Contents \cup {<<>>}]
    BY <2>2
  <2>6. merge.at = "idle" BY <2>2
  <2> HIDE DEF CookiesInit
  <2>7. made \in Nat BY <2>3
  <2>8. raced \in BOOLEAN BY <2>3, Zenon
  <2> QED BY <2>1, <2>4, <2>5, <2>6, <2>7, <2>8 DEF FileTypeOK
<1>3. MergeKnows /\ WritesSurvive
  BY <1>1 DEF MergeKnows, WritesSurvive, Underway
<1>4. row \in RowTable
  BY DEF RowTable, Rows, Verdicts
<1>5. /\ told \in SUBSET Watched
      /\ \A p \in told : file.has[p] # 0
      /\ \A p \in Watched : /\ row[p].failed <=> p \in told
                            /\ row[p].notified = "auth_failed" => p \in told
  OBVIOUS
<1>6. HealthTypeOK
  BY <1>4, <1>5 DEF HealthTypeOK, Refreshes
<1>7. RefreshKeeps /\ UploadWaits
  BY DEF RefreshKeeps, UploadWaits
<1>8. ContentsAreOld
  BY <1>1, <1>5 DEF ContentsAreOld, Underway
<1>9. RowsAreTrue
  BY <1>1, <1>5 DEF RowsAreTrue, TrueRow, Clearing, Refresher
<1> QED BY <1>2, <1>3, <1>6, <1>7, <1>8, <1>9 DEF FileInv, HealthInv

\* A merge swaps in nothing that an edit since its last look at the file would lose, and
\* takes back no more than it has swapped in (CookieManager.merge).
THEOREM FileInvariant == CookiesSpec => []FileInv
<1>1. CookiesInit => FileInv BY CookiesInitially
<1>2. FileInv /\ [CookiesNext]_cookieVars => FileInv'
  <2> SUFFICES ASSUME FileInv, [CookiesNext]_cookieVars PROVE FileInv'
    OBVIOUS
  <2>1. CASE CookiesNext BY <2>1, FileTypeStep, FileStep DEF FileInv
  <2>2. CASE UNCHANGED cookieVars
    BY <2>2 DEF FileInv, FileTypeOK, MergeKnows, WritesSurvive, cookieVars, fileVars
  <2> QED BY <2>1, <2>2
<1> QED BY <1>1, <1>2, PTL DEF CookiesSpec

\* An upload or an edit of the cookie file is undone only when an edit fell between a
\* merge's last look at the file and the end of its verification
\* (infrastructure/cookies/manager.py).
THEOREM CookiesAreKept == CookiesSpec => []WritesSurvive
<1>1. FileInv => WritesSurvive BY DEF FileInv
<1> QED BY FileInvariant, <1>1, PTL

\* The rows and the log keep agreeing with what the worker's jobs have met, whatever
\* refreshes and uploads run meanwhile; without notifications of a recovery the row would
\* still remember an alert that an upload has made void.
THEOREM HealthInvariant ==
  ASSUME RecoveryNotifications PROVE CookiesSpec => []HealthInv
<1>1. CookiesInit => HealthInv BY CookiesInitially
<1>2. FileInv /\ HealthInv /\ [CookiesNext]_cookieVars => HealthInv'
  <2> SUFFICES ASSUME FileInv, HealthInv, [CookiesNext]_cookieVars PROVE HealthInv'
    OBVIOUS
  <2>1. CASE CookiesNext
    <3>1. FileTypeOK /\ MergeKnows /\ HealthTypeOK /\ RefreshKeeps /\ UploadWaits /\ ContentsAreOld
      BY DEF FileInv, HealthInv
    <3>2. HealthTypeOK' BY <2>1, <3>1, HealthTypeStep
    <3>3. RefreshKeeps' BY <2>1, <3>1, RefreshStep
    <3>4. UploadWaits' BY <2>1, <3>1, UploadWaitsStep
    <3>5. ContentsAreOld' BY <2>1, <3>1, ContentsStep
    <3>6. RowsAreTrue' BY <2>1, <3>1, RecoveryNotifications, RowsStep
    <3> QED BY <3>2, <3>3, <3>4, <3>5, <3>6 DEF HealthInv
  <2>2. CASE UNCHANGED cookieVars
    <3> USE <2>2 DEF HealthInv, cookieVars, fileVars, healthVars
    <3>1. HealthTypeOK' BY DEF HealthTypeOK
    <3>2. RefreshKeeps' /\ UploadWaits' BY DEF RefreshKeeps, UploadWaits
    <3>3. ContentsAreOld' BY DEF ContentsAreOld
    <3>4. RowsAreTrue' BY DEF RowsAreTrue, TrueRow, Clearing, Marks, Tells
    <3> QED BY <3>1, <3>2, <3>3, <3>4
  <2> QED BY <2>1, <2>2
<1> QED BY <1>1, <1>2, FileInvariant, PTL DEF CookiesSpec

\* Cookies that a site has refused and that are still in the file are marked as refused
\* and are in the operator's log, or were sent to it in vain, unless the refusal met a refresh, an
\* upload or a death midway (cookie_health_service.py, jobs.py:_emit_cookie_health_event).
THEOREM RefusalsAreTold ==
  ASSUME RecoveryNotifications PROVE CookiesSpec => []RefusalIsTold
<1>1. HealthInv => RefusalIsTold
  BY DEF HealthInv, RowsAreTrue, TrueRow, Tells, RefusalIsTold
<1> QED BY HealthInvariant, <1>1, PTL

(***************************************************************************)
(* A video from its menu to its file.                                      *)
(***************************************************************************)

\* Every set of naturals that is not empty has a least element.
LEMMA LeastNumber ==
  ASSUME NEW T \in SUBSET Nat, T # {}
  PROVE  \E n \in T : \A m \in T : n <= m
<1> DEFINE R == OpToRel(<, Nat)
<1>1. \E x \in T : \A y \in T : ~(<<y, x>> \in R)
  <2>1. IsWellFoundedOn(R, Nat) BY NatLessThanWellFounded
  <2> HIDE DEF R
  <2> QED BY <2>1, WFMin
<1>2. ASSUME NEW x \in Nat, NEW y \in Nat, ~(<<y, x>> \in R) PROVE x <= y
  <2>1. ~(y < x)
    BY <1>2, Zenon DEF OpToRel
  <2> QED BY <2>1
<1> QED BY <1>1, <1>2

\* A finite set that a relation orders strictly, in part or wholly, has an element that
\* none of the set comes before: one with the fewest before it.
LEMMA FirstExists ==
  ASSUME NEW S, IsFiniteSet(S), S # {}, NEW R,
         \A x \in S : <<x, x>> \notin R,
         \A x, y, z \in S : <<x, y>> \in R /\ <<y, z>> \in R => <<x, z>> \in R
  PROVE  \E x \in S : \A y \in S : <<y, x>> \notin R
<1> DEFINE Before(x) == {y \in S : <<y, x>> \in R}
           Counts == {Cardinality(Before(x)) : x \in S}
<1>1. ASSUME NEW x \in S PROVE IsFiniteSet(Before(x)) /\ Cardinality(Before(x)) \in Nat
  BY FS_Subset, FS_CardinalityType
<1>2. Counts \in SUBSET Nat /\ Counts # {}
  <2> HIDE DEF Before
  <2> QED BY <1>1
<1>3. PICK n \in Counts : \A m \in Counts : n <= m
  <2> HIDE DEF Counts
  <2> QED BY <1>2, LeastNumber
<1>4. PICK x \in S : n = Cardinality(Before(x)) BY <1>3
<1>5. ASSUME NEW y \in S, <<y, x>> \in R PROVE FALSE
  <2>1. Before(y) \subseteq Before(x) /\ y \in Before(x) /\ y \notin Before(y) BY <1>5
  <2>2. Cardinality(Before(y)) \in Counts OBVIOUS
  <2> HIDE DEF Before, Counts
  <2>3. Cardinality(Before(y)) <= Cardinality(Before(x)) /\ Cardinality(Before(y)) # Cardinality(Before(x))
    BY <2>1, <1>1, FS_Subset
  <2> QED BY <2>2, <2>3, <1>1, <1>3, <1>4
<1> QED BY <1>5

\* The greatest of a finite set of naturals is one of them and no less than any.
LEMMA GreatestNumber ==
  ASSUME NEW S \in SUBSET Nat, IsFiniteSet(S), S # {}
  PROVE  Max(S) \in S /\ \A y \in S : y <= Max(S)
<1> DEFINE R == {p \in S \X S : p[1] > p[2]}
<1>1. \A x \in S : <<x, x>> \notin R OBVIOUS
<1>2. \A x, y, z \in S : <<x, y>> \in R /\ <<y, z>> \in R => <<x, z>> \in R OBVIOUS
<1>3. PICK x \in S : \A y \in S : <<y, x>> \notin R
  <2> HIDE DEF R
  <2> QED BY <1>1, <1>2, FirstExists
<1>4. ASSUME NEW y \in S PROVE x >= y
  <2>1. ~(<<y, x>>[1] > <<y, x>>[2]) BY <1>3
  <2>2. x \in Nat /\ y \in Nat OBVIOUS
  <2> QED BY <2>1, <2>2
<1> QED BY <1>4 DEF Max

\* What is known of the formats themselves.
OfferOK(o) == DOMAIN o \subseteq FormatId /\ \A i \in DOMAIN o : o[i].height \in Nat

\* A set of ids of the offer is a finite set of naturals.
LEMMA IdsAreNumbers ==
  ASSUME NEW o, OfferOK(o), NEW S \in SUBSET DOMAIN o
  PROVE  S \in SUBSET Nat /\ IsFiniteSet(S)
BY FormatAssumption, FS_Subset DEF OfferOK

\* yt-dlp's selector takes its formats from those that are available.
LEMMA BaseIsAvailable ==
  ASSUME NEW o, OfferOK(o), NEW selector, NEW available \in SUBSET DOMAIN o
  PROVE  BaseSelection(o, selector, available) \subseteq available
<1>1. ASSUME NEW S, S \subseteq available, S # {} PROVE Max(S) \in available
  BY <1>1, IdsAreNumbers, GreatestNumber
<1>2. ASSUME NEW S, S \subseteq available PROVE Merged(o, S) \subseteq available
  BY <1>2 DEF Merged
<1> DEFINE typed == {i \in available : selector.kind \in {"any", o[i].ext}}
           videos == {i \in typed : IsVideo(o[i])}
           sounds == {i \in typed : ~IsVideo(o[i]) /\ IsAudio(o[i])}
           both == {i \in videos : IsAudio(o[i])}
<1>3. videos \subseteq available /\ sounds \subseteq available /\ both \subseteq available OBVIOUS
<1>4. videos # {} /\ sounds # {} => {Max(videos), Max(sounds)} \subseteq available
  <2> HIDE DEF videos, sounds, both
  <2> QED BY <1>1, <1>3
<1>5. both # {} => {Max(both)} \subseteq available
  <2> HIDE DEF videos, sounds, both
  <2> QED BY <1>1, <1>3
<1>6. BaseSelection(o, selector, available) =
        IF selector.kind = "ids"
        THEN IF selector.ids \subseteq available THEN Merged(o, selector.ids) ELSE {}
        ELSE IF videos # {} /\ sounds # {} THEN Merged(o, {Max(videos), Max(sounds)})
        ELSE IF both # {} THEN {Max(both)} ELSE {}
  BY Zenon DEF BaseSelection
<1> HIDE DEF typed, videos, sounds, both
<1> QED BY <1>2, <1>4, <1>5, <1>6

\* A score is four naturals.
LEMMA ScoreIsNatural ==
  ASSUME NEW o, OfferOK(o), NEW s \in SUBSET DOMAIN o
  PROVE  /\ Score(o, s)[1] \in Nat /\ Score(o, s)[2] \in Nat
         /\ Score(o, s)[3] \in Nat /\ Score(o, s)[4] \in Nat
<1> DEFINE videos == {i \in s : IsVideo(o[i])}
           sounds == {i \in s : IsAudio(o[i])}
           heights == {0} \union {o[i].height : i \in videos}
<1>1. Max({0} \union videos) \in Nat /\ Max({0} \union sounds) \in Nat
  <2>1. ASSUME NEW S, S \subseteq s PROVE Max({0} \union S) \in Nat
    <3>1. S \in SUBSET Nat /\ IsFiniteSet(S) BY <2>1, IdsAreNumbers
    <3>2. IsFiniteSet({0} \union S)
      <4>1. {0} \union S = S \union {0} OBVIOUS
      <4> QED BY <3>1, <4>1, FS_AddElement
    <3>3. {0} \union S \in SUBSET Nat /\ {0} \union S # {} BY <3>1
    <3>4. Max({0} \union S) \in {0} \union S BY <3>2, <3>3, GreatestNumber
    <3> QED BY <3>3, <3>4
  <2> QED BY <2>1
<1>2. Max(heights) \in Nat
  <2> DEFINE Taller == {p \in videos \X videos : o[p[1]].height > o[p[2]].height}
  <2>1. \A i \in videos : o[i].height \in Nat BY DEF OfferOK
  <2>2. IsFiniteSet(videos) BY IdsAreNumbers
  <2> HIDE DEF videos
  <2>3. \A i \in videos : <<i, i>> \notin Taller BY <2>1
  <2>4. \A i, j, k \in videos : <<i, j>> \in Taller /\ <<j, k>> \in Taller => <<i, k>> \in Taller
    BY <2>1
  <2>5. \E n \in heights : \A m \in heights : n >= m
    <3>1. CASE videos = {} BY <3>1
    <3>2. CASE videos # {}
      <4>1. PICK i \in videos : \A j \in videos : <<j, i>> \notin Taller
        <5> HIDE DEF Taller
        <5> QED BY <2>2, <2>3, <2>4, <3>2, FirstExists
      <4>2. ASSUME NEW j \in videos PROVE o[i].height >= o[j].height
        <5>1. ~(o[<<j, i>>[1]].height > o[<<j, i>>[2]].height) BY <4>1
        <5>2. o[i].height \in Nat /\ o[j].height \in Nat BY <2>1
        <5> QED BY <5>1, <5>2
      <4> QED BY <2>1, <4>2
    <3> QED BY <3>1, <3>2
  <2>6. heights \subseteq Nat BY <2>1
  <2> HIDE DEF heights
  <2> QED BY <2>5, <2>6 DEF Max
<1>3. Score(o, s) = <<Max(heights), IF videos # {} /\ \A i \in videos : ~o[i].hdr THEN 1 ELSE 0,
                          Max({0} \union videos), Max({0} \union sounds)>>
  BY Zenon DEF Score
<1> HIDE DEF videos, sounds, heights
<1> QED BY <1>1, <1>2, <1>3

\* A score is higher where it is greater at the first place that tells two of them apart.
LEMMA HigherMeans ==
  ASSUME NEW s, NEW t
  PROVE  Higher(s, t) <=>
           \/ s[1] > t[1]
           \/ s[1] = t[1] /\ s[2] > t[2]
           \/ s[1] = t[1] /\ s[2] = t[2] /\ s[3] > t[3]
           \/ s[1] = t[1] /\ s[2] = t[2] /\ s[3] = t[3] /\ s[4] > t[4]
<1>1. 1..4 = {1, 2, 3, 4} OBVIOUS
<1> QED BY <1>1 DEF Higher

\* The order of scores is strict, and only of equal scores neither is higher.
LEMMA HigherOrders ==
  ASSUME NEW a, NEW b, NEW c,
         \A n \in 1..4 : a[n] \in Nat /\ b[n] \in Nat /\ c[n] \in Nat
  PROVE  /\ ~Higher(a, a)
         /\ Higher(a, b) /\ Higher(b, c) => Higher(a, c)
         /\ ~Higher(a, b) /\ ~Higher(b, a) => \A n \in 1..4 : a[n] = b[n]
         /\ ~Higher(a, b) /\ Higher(c, b) => Higher(c, a)
<1>1. 1..4 = {1, 2, 3, 4} OBVIOUS
<1>2. /\ a[1] \in Nat /\ a[2] \in Nat /\ a[3] \in Nat /\ a[4] \in Nat
      /\ b[1] \in Nat /\ b[2] \in Nat /\ b[3] \in Nat /\ b[4] \in Nat
      /\ c[1] \in Nat /\ c[2] \in Nat /\ c[3] \in Nat /\ c[4] \in Nat
  BY <1>1
<1>3. ~Higher(a, a) BY <1>2, HigherMeans
<1>4. Higher(a, b) /\ Higher(b, c) => Higher(a, c) BY <1>2, HigherMeans
<1>5. ~Higher(a, b) /\ ~Higher(b, a) => a[1] = b[1] /\ a[2] = b[2] /\ a[3] = b[3] /\ a[4] = b[4]
  BY <1>2, HigherMeans
<1>6. ~Higher(a, b) /\ Higher(c, b) => Higher(c, a) BY <1>2, HigherMeans
<1> QED BY <1>1, <1>3, <1>4, <1>5, <1>6

\* Of a set of selections one is highest.
LEMMA BestIsFound ==
  ASSUME NEW o, OfferOK(o), NEW selections \in SUBSET (SUBSET DOMAIN o), selections # {}
  PROVE  BestOf(o, selections) \in selections
<1> DEFINE R == {p \in selections \X selections : Higher(Score(o, p[1]), Score(o, p[2]))}
<1>3. \A s \in selections, n \in 1..4 : Score(o, s)[n] \in Nat
  <2>1. 1..4 = {1, 2, 3, 4} OBVIOUS
  <2> QED BY <2>1, ScoreIsNatural
<1>4. \A s \in selections : <<s, s>> \notin R
  BY <1>3, HigherOrders
<1>5. \A s, t, u \in selections : <<s, t>> \in R /\ <<t, u>> \in R => <<s, u>> \in R
  BY <1>3, HigherOrders
<1>6. IsFiniteSet(selections)
  <2>1. IsFiniteSet(DOMAIN o) BY IdsAreNumbers
  <2> QED BY <2>1, FS_SUBSET, FS_Subset
<1>7. PICK s \in selections : \A t \in selections : <<t, s>> \notin R
  <2> HIDE DEF R
  <2> QED BY <1>4, <1>5, <1>6, FirstExists
<1>8. \A t \in selections : ~Higher(Score(o, t), Score(o, s))
  BY <1>7
<1> QED BY <1>8, Zenon DEF BestOf

\* What bounded_format_selector finds is part of what it looks at, with a picture and a sound.
LEMMA SelectedIsSound ==
  ASSUME NEW o, OfferOK(o), NEW selector, NEW mode, NEW contract, NEW limit,
         Selected(o, selector, mode, contract, limit).reason = "found"
  PROVE  LET parts == Selected(o, selector, mode, contract, limit).parts
         IN  parts \subseteq Considered(o, mode, contract) /\ Complete(o, parts, mode)
<1> DEFINE considered == Considered(o, mode, contract)
           found == {s \in Reachable(o, selector, mode, contract, limit) : Complete(o, s, mode)}
           fitting == {s \in found : KnownSize(o, s) \in 1..limit}
           unknown == {s \in found : KnownSize(o, s) = 0}
           result == Selected(o, selector, mode, contract, limit)
<1>1. considered \subseteq DOMAIN o BY DEF Considered
<1>2. \A s \in Reachable(o, selector, mode, contract, limit) : s \subseteq considered
  <2>1. ASSUME NEW excluded PROVE BaseSelection(o, selector, considered \ excluded) \subseteq considered
    <3>1. considered \ excluded \in SUBSET DOMAIN o BY <1>1
    <3> HIDE DEF considered
    <3> QED BY <3>1, BaseIsAvailable
  <2> QED BY <2>1 DEF Reachable
<1>3. \A s \in found : s \subseteq considered /\ Complete(o, s, mode) BY <1>2
<1>4. found \in SUBSET (SUBSET DOMAIN o) BY <1>1, <1>3
<1>5. fitting # {} => BestOf(o, fitting) \in found
  <2>1. fitting \subseteq found OBVIOUS
  <2> HIDE DEF fitting, found
  <2> QED BY <2>1, <1>4, BestIsFound
<1>6. unknown # {} => BestOf(o, unknown) \in found
  <2>1. unknown \subseteq found OBVIOUS
  <2> HIDE DEF unknown, found
  <2> QED BY <2>1, <1>4, BestIsFound
<1>7. result = CASE fitting # {} -> Outcome("found", BestOf(o, fitting))
                 [] fitting = {} /\ unknown # {} -> Outcome("found", BestOf(o, unknown))
                 [] fitting \union unknown = {} ->
                      Outcome(IF found = {} \/ contract # AnyContract THEN "unavailable" ELSE "too_large", {})
  BY Zenon DEF Selected, BestWithin
<1>8. result.parts \in found
  <2> HIDE DEF fitting, unknown, found
  <2>1. fitting # {} \/ unknown # {}
    <3>1. SUFFICES ASSUME fitting = {}, unknown = {} PROVE FALSE OBVIOUS
    <3>2. result = Outcome(IF found = {} \/ contract # AnyContract THEN "unavailable" ELSE "too_large", {})
      BY <1>7, <3>1
    <3> HIDE DEF result
    <3>3. result.reason # "found" BY <3>2 DEF Outcome
    <3> QED BY <3>3 DEF result
  <2>2. \/ result = Outcome("found", BestOf(o, fitting)) /\ fitting # {}
        \/ result = Outcome("found", BestOf(o, unknown)) /\ unknown # {}
    <3>1. CASE fitting # {} BY <3>1, <1>7
    <3>2. CASE fitting = {} BY <3>2, <1>7, <2>1
    <3> QED BY <3>1, <3>2
  <2> HIDE DEF result
  <2> QED BY <2>2, <1>5, <1>6 DEF Outcome
<1> QED BY <1>3, <1>8

\* A picture that is looked at has the height of its mode, or where it may, a lower one.
LEMMA HeightFits ==
  ASSUME OfferOK(offer), NEW mode, NEW contract, NEW i \in Considered(offer, mode, contract),
         IsVideo(offer[i]), TargetHeight(mode) # 0
  PROVE  /\ offer[i].height \in Nat /\ offer[i].height <= TargetHeight(mode)
         /\ mode \in FixedModes /\ ~(contract.container = "mp4" /\ LowerAllowed)
              => offer[i].height = TargetHeight(mode)
<1>1. i \in DOMAIN offer /\ FitsHeight(offer[i], mode, contract) BY DEF Considered
<1>2. offer[i].height \in Nat BY <1>1 DEF OfferOK
<1>3. TargetHeight(mode) \in Nat BY DEF TargetHeight
<1> QED BY <1>1, <1>2, <1>3 DEF FitsHeight

\* The best video of a selection is a video of it.
LEMMA VideoIsThere ==
  ASSUME OfferOK(offer), NEW parts \in SUBSET DOMAIN offer, \E i \in parts : IsVideo(offer[i])
  PROVE  VideoOf(parts) \in parts /\ IsVideo(offer[VideoOf(parts)])
<1> DEFINE videos == {i \in parts : IsVideo(offer[i])}
<1>1. videos \in SUBSET DOMAIN offer /\ videos # {} OBVIOUS
<1>2. VideoOf(parts) = Max(videos) BY DEF VideoOf
<1>3. Max(videos) \in videos
  <2> HIDE DEF videos
  <2> QED BY <1>1, IdsAreNumbers, GreatestNumber
<1> QED BY <1>2, <1>3

\* What the inspection tries: best_original asks for no contract, and nothing else is
\* taken as the provider has it.
LEMMA PlansAreKnown ==
  ASSUME NEW mode, NEW k \in DOMAIN PlansOf(mode)
  PROVE  LET plan == PlansOf(mode)[k]
         IN  /\ plan = Plan(mode, plan.container, plan.policy, plan.codec)
             /\ plan.container \in {"mp4", "webm"}
             /\ plan.policy = "native" <=> mode = "best_original"
<1> DEFINE policy == IF mode = "best_original" THEN "native" ELSE "guaranteed"
           explicit == ExplicitAllowed /\ mode # "best_original"
           av1 == Plan(mode, "mp4", policy, "av1")
           h264 == Plan(mode, "mp4", policy, "h264")
           mp4 == Plan(mode, "mp4", "explicit", "any")
           vp9 == Plan(mode, "webm", policy, "vp9")
<1>1. PlansOf(mode) = IF explicit THEN <<av1, h264, mp4, vp9>> ELSE <<av1, h264, vp9>>
  BY Zenon DEF PlansOf
<1>2. CASE explicit
  <2> HIDE DEF av1, h264, mp4, vp9
  <2>1. PlansOf(mode)[k] \in {av1, h264, mp4, vp9} BY <1>1, <1>2
  <2> QED BY <1>2, <2>1 DEF av1, h264, mp4, vp9, Plan
<1>3. CASE ~explicit
  <2> HIDE DEF av1, h264, mp4, vp9
  <2>1. PlansOf(mode)[k] \in {av1, h264, vp9} BY <1>1, <1>3
  <2> QED BY <2>1 DEF av1, h264, vp9, Plan
<1> QED BY <1>2, <1>3

\* An option stands for the plan of its turn, which has found a video.
LEMMA OptionAt ==
  ASSUME NEW t \in DOMAIN Options
  PROVE  /\ t \in (1..Len(ModeOrder)) \X (1..4) /\ t[2] \in DOMAIN PlansOf(ModeOrder[t[1]])
         /\ HasVideo(Found(PlanAt(t)))
         /\ Options[t] = Described(PlanAt(t), Found(PlanAt(t)).parts)
         /\ Options[t].plan = PlanAt(t)
<1> DEFINE D == {u \in Turns : HasVideo(Found(PlanAt(u)))}
<1>1. Options = [u \in D |-> Described(PlanAt(u), Found(PlanAt(u)).parts)] BY Zenon DEF Options
<1> HIDE DEF D
<1>2. t \in D /\ Options[t] = Described(PlanAt(t), Found(PlanAt(t)).parts) BY <1>1, Zenon
<1>3. t \in Turns /\ HasVideo(Found(PlanAt(t))) BY <1>2, Zenon DEF D
<1>4. t \in (1..Len(ModeOrder)) \X (1..4) /\ t[2] \in DOMAIN PlansOf(ModeOrder[t[1]])
  BY <1>3 DEF Turns
<1>5. Options[t].plan = PlanAt(t) BY <1>2 DEF Described
<1> QED BY <1>2, <1>3, <1>4, <1>5

\* What looks like the view of a turn is the option of some turn.
LEMMA MatchExists ==
  ASSUME NEW t \in DOMAIN Options
  PROVE  \E u \in DOMAIN Options : /\ Matching(Options[t], Options) = Options[u]
                                   /\ Options[u].plan.mode = Options[t].plan.mode
<1> DEFINE view == Options[t]
           alike == {u \in DOMAIN Options : /\ Options[u].plan.mode = view.plan.mode
                                            /\ Options[u].plan.container = view.plan.container
                                            /\ Options[u].ids = view.ids}
           R == {p \in alike \X alike : Sooner(p[1], p[2])}
<1>1. t \in alike OBVIOUS
<1>2. alike \subseteq (1..Len(ModeOrder)) \X (1..4)
  <2>1. ASSUME NEW u \in alike PROVE u \in (1..Len(ModeOrder)) \X (1..4)
    BY OptionAt, Zenon
  <2> QED BY <2>1, Zenon
<1>3. Len(ModeOrder) \in Nat BY VideoAssumption
<1>4. IsFiniteSet(alike)
  <2>1. IsFiniteSet(1..Len(ModeOrder)) /\ IsFiniteSet(1..4)
    <3>1. ASSUME NEW n \in Nat PROVE IsFiniteSet(1..n)
      <4>1. 1 \in Int /\ n \in Int OBVIOUS
      <4> QED BY <4>1, FS_Interval
    <3> QED BY <1>3, <3>1
  <2> HIDE DEF alike
  <2>2. IsFiniteSet((1..Len(ModeOrder)) \X (1..4)) BY <2>1, FS_Product
  <2> QED BY <2>2, <1>2, FS_Subset
<1>5. PICK u \in alike : \A w \in alike : <<w, u>> \notin R
  <2>1. ASSUME NEW x \in alike PROVE x[1] \in Nat /\ x[2] \in Nat
    <3> HIDE DEF alike
    <3> QED BY <1>2, <1>3
  <2> HIDE DEF alike
  <2>2. \A x \in alike : <<x, x>> \notin R BY <2>1 DEF Sooner
  <2>3. ASSUME NEW x \in alike, NEW y \in alike, NEW z \in alike, <<x, y>> \in R, <<y, z>> \in R
        PROVE  <<x, z>> \in R
    <3>1. Sooner(x, y) /\ Sooner(y, z) BY <2>3
    <3>2. Sooner(x, z) BY <3>1, <2>1 DEF Sooner
    <3> QED BY <3>2
  <2> HIDE DEF R
  <2> QED BY <1>1, <1>4, <2>2, <2>3, FirstExists
<1>6. \A w \in alike : ~Sooner(w, u) BY <1>5
<1>7. (CHOOSE v \in alike : \A w \in alike : ~Sooner(w, v)) \in alike BY <1>5, <1>6, Zenon
<1>8. Matching(view, Options) = Options[CHOOSE v \in alike : \A w \in alike : ~Sooner(w, v)]
  BY Zenon DEF Matching
<1> QED BY <1>7, <1>8

\* What the menu offers: the codec that is shown is the one the contract asks for, and the
\* height that is shown is the one of the mode.
PickOK(p) ==
  /\ p.plan.codec = p.codec
  /\ IF p.plan.container = "mp4" THEN p.codec \in {"h264", "av1"} ELSE p.codec = "vp9"
  /\ p.plan.policy = "guaranteed" => TargetHeight(p.plan.mode) # 0
  /\ p.plan.mode \in FixedModes /\ ~(p.plan.container = "mp4" /\ LowerAllowed)
       => p.height = TargetHeight(p.plan.mode)

\* What the menu offers is sound: its codec is the contract's, its height the mode's.
LEMMA MenuIsSound ==
  ASSUME OfferOK(offer), NEW p \in Menu(Options)
  PROVE  PickOK(p)
<1>1. PICK view \in CatalogOf(Options) : p = Choice(view, Matching(view, Options).plan)
  BY DEF Menu
<1>2. PICK t \in DOMAIN Options : view = Options[t] /\ Native(view)
  BY <1>1, Zenon DEF CatalogOf
<1>3. PICK u \in DOMAIN Options : /\ Matching(view, Options) = Options[u]
                                  /\ Options[u].plan.mode = view.plan.mode
  BY <1>2, MatchExists
<1> DEFINE parts == Found(PlanAt(t)).parts
           plan == PlanAt(t)
           video == offer[VideoOf(parts)]
<1>4. /\ HasVideo(Found(plan))
      /\ Options[t] = Described(plan, parts)
      /\ Options[u].plan = PlanAt(u)
  BY OptionAt
<1>5. view.plan = plan /\ view.height = video.height
  BY <1>2, <1>4 DEF Described
<1>6. /\ t[1] \in 1..Len(ModeOrder) /\ t[2] \in DOMAIN PlansOf(ModeOrder[t[1]])
      /\ u[2] \in DOMAIN PlansOf(ModeOrder[u[1]])
  BY OptionAt
<1>7. /\ plan = Plan(plan.mode, plan.container, plan.policy, plan.codec)
      /\ plan.mode \in {"best", "best_original", "video_1080", "video_480"}
  <2>1. ModeOrder[t[1]] \in {"best", "best_original", "video_1080", "video_480"}
    BY <1>6, VideoAssumption
  <2>2. plan = Plan(ModeOrder[t[1]], plan.container, plan.policy, plan.codec)
    BY <1>6, PlansAreKnown DEF PlanAt
  <2> QED BY <2>1, <2>2 DEF Plan
<1>8. PlanAt(u).policy = "native" <=> PlanAt(u).mode = "best_original"
  <2>1. /\ PlanAt(u) = Plan(ModeOrder[u[1]], PlanAt(u).container, PlanAt(u).policy, PlanAt(u).codec)
        /\ PlanAt(u).policy = "native" <=> ModeOrder[u[1]] = "best_original"
    BY <1>6, PlansAreKnown DEF PlanAt
  <2> QED BY <2>1 DEF Plan
<1>9. PlanAt(u).mode = plan.mode BY <1>3, <1>4, <1>5
<1>10. /\ p.plan = Plan(plan.mode, plan.container, PlanAt(u).policy, view.codec)
       /\ p.codec = view.codec /\ p.height = video.height
  BY <1>1, <1>3, <1>4, <1>5 DEF Choice
<1>11. /\ p.plan.mode = plan.mode /\ p.plan.container = plan.container
       /\ p.plan.policy = PlanAt(u).policy /\ p.plan.codec = view.codec
  BY <1>10 DEF Plan
<1>12. IF plan.container = "mp4" THEN view.codec \in {"h264", "av1"} ELSE view.codec = "vp9"
  BY <1>2, <1>5 DEF Native, CodecsMatch
<1>13. PlanAt(u).policy = "guaranteed" => TargetHeight(plan.mode) # 0
  BY <1>7, <1>8, <1>9 DEF TargetHeight
<1>14. ASSUME plan.mode \in FixedModes, ~(plan.container = "mp4" /\ LowerAllowed)
       PROVE  video.height = TargetHeight(plan.mode)
  <2> DEFINE contract == ContractOf(plan)
  <2>2. parts \subseteq Considered(offer, plan.mode, contract)
    <3>1. Found(plan) = Selected(offer, SelectorOf(plan), plan.mode, contract, TransferLimit(plan.mode))
      BY DEF Found
    <3>2. Found(plan).reason = "found" BY <1>4 DEF HasVideo
    <3> QED BY <3>1, <3>2, SelectedIsSound
  <2>3. Considered(offer, plan.mode, contract) \subseteq DOMAIN offer BY DEF Considered
  <2>4. \E i \in parts : IsVideo(offer[i]) BY <1>4 DEF HasVideo
  <2> HIDE DEF parts
  <2>5. VideoOf(parts) \in parts /\ IsVideo(video) BY <2>2, <2>3, <2>4, VideoIsThere
  <2>6. ~(contract.container = "mp4" /\ LowerAllowed)
    BY <1>14 DEF ContractOf, AnyContract
  <2>7. TargetHeight(plan.mode) # 0 BY <1>14 DEF FixedModes, TargetHeight
  <2> HIDE DEF contract
  <2> QED BY <2>2, <2>5, <2>6, <2>7, <1>14, HeightFits
<1> QED BY <1>10, <1>11, <1>12, <1>13, <1>14 DEF PickOK

\* What is known of the download, step by step.
FileSteps == {"transfer", "check", "transcode", "limit", "done"}
TaskShape ==
  \E s, c, a, e, h, z : z \in Nat /\
    task = [step |-> s, file |-> [codec |-> c, audio |-> a, ext |-> e, height |-> h, size |-> z]]
PictureOK ==
  task.step \in FileSteps /\ Guarded =>
    /\ task.file.height <= TargetHeight(pick.plan.mode)
    /\ task.file.codec # "none" /\ ExactHeight => task.file.height = TargetHeight(pick.plan.mode)
    /\ pick.plan.mode # "best" => task.file.codec # "none"
StepOK ==
  /\ task.step = "transcode" => ~Guarded
  /\ task.step \in {"limit", "done"} /\ Guarded => Compatible(task.file, pick.plan)
  /\ task.step = "done" => task.file.size <= MaxFile
VideoInv ==
  /\ OfferOK(offer) /\ TaskShape
  /\ task.step # "offered" => PickOK(pick)
  /\ PictureOK /\ StepOK

\* A step that fails leaves nothing to be said of the file.
LEMMA FailStep ==
  ASSUME VideoInv, VideoFails
  PROVE  TaskShape' /\ PictureOK' /\ StepOK'
<1>1. PICK s, c, a, e, h, z : z \in Nat /\
        task = [step |-> s, file |-> [codec |-> c, audio |-> a, ext |-> e, height |-> h, size |-> z]]
  BY DEF VideoInv, TaskShape
<1>2. PICK t : t = [task EXCEPT !.step = "failed"] OBVIOUS
<1>3. t = [step |-> "failed", file |-> [codec |-> c, audio |-> a, ext |-> e, height |-> h, size |-> z]]
  BY <1>1, <1>2
<1>4. task' = t BY <1>2 DEF VideoFails
<1>5. task'.step = "failed" BY <1>3, <1>4
<1>6. TaskShape' BY <1>1, <1>3, <1>4 DEF TaskShape
<1> QED BY <1>5, <1>6 DEF PictureOK, StepOK, FileSteps

\* The lookup by ids finds a picture of the mode's height again, or only a sound.
LEMMA SelectStep ==
  ASSUME VideoInv, Select
  PROVE  TaskShape' /\ PictureOK' /\ StepOK'
<1> DEFINE contract == ContractOf(pick.plan)
           mode == pick.plan.mode
           chosen == Selected(offer, ByIds(pick.ids), mode, contract, TransferLimit(mode))
           parts == chosen.parts
           codec == IF HasVideo(chosen) THEN offer[VideoOf(parts)].codec ELSE "none"
           height == Score(offer, parts)[1]
<1>2. UNCHANGED <<offer, drifts, pick>> /\ task.step = "select" BY DEF Select, Undrifted
<1>3. CASE chosen.reason # "found"
  <2>1. VideoFails BY <1>3 DEF Select
  <2> QED BY <2>1, FailStep
<1>4. CASE chosen.reason = "found"
  <2>1. PICK a1, e1 : task' = [step |-> "transfer", file |->
          [codec |-> codec, audio |-> a1, ext |-> e1, height |-> height, size |-> 0]]
    BY <1>4, Zenon DEF Select
  <2>2. OfferOK(offer) /\ PickOK(pick) BY <1>2 DEF VideoInv
  <2>3. parts \subseteq Considered(offer, mode, contract) /\ Complete(offer, parts, mode)
    BY <1>4, <2>2, SelectedIsSound
  <2>4. parts \subseteq DOMAIN offer BY <2>3 DEF Considered
  <2>5. HasVideo(chosen) <=> \E i \in parts : IsVideo(offer[i]) BY <1>4 DEF HasVideo
  <2>6. ASSUME \E i \in parts : IsVideo(offer[i]) PROVE codec # "none"
    <3> HIDE DEF chosen, parts
    <3>1. IsVideo(offer[VideoOf(parts)]) BY <2>2, <2>4, <2>6, VideoIsThere
    <3> QED BY <2>5, <2>6, <3>1 DEF IsVideo
  <2>7. mode # "best" => codec # "none" BY <2>3, <2>6 DEF Complete
  <2> DEFINE heights == {0} \union {offer[i].height : i \in {j \in parts : IsVideo(offer[j])}}
             target == TargetHeight(mode)
  <2>8. ASSUME Guarded
        PROVE  /\ height <= target
               /\ codec # "none" /\ ExactHeight => height = target
    <3>1. target \in Nat /\ target # 0 BY <2>2, <2>8 DEF Guarded, PickOK, TargetHeight
    <3>2. contract.container = pick.plan.container BY <2>8 DEF Guarded, ContractOf
    <3> HIDE DEF chosen, parts, contract, mode
    <3>3. ASSUME NEW i \in parts, IsVideo(offer[i])
          PROVE  /\ offer[i].height \in Nat /\ offer[i].height <= target
                 /\ ExactHeight => offer[i].height = target
      <4>1. i \in Considered(offer, mode, contract) BY <2>3
      <4>2. ExactHeight => mode \in FixedModes /\ ~(contract.container = "mp4" /\ LowerAllowed)
        BY <3>2 DEF ExactHeight, mode
      <4> QED BY <2>2, <3>1, <3>3, <4>1, <4>2, HeightFits
    <3>4. height = Max(heights)
      <4>1. Score(offer, parts)[1] = Max(heights) BY DEF Score
      <4> QED BY <4>1
    <3>5. \A n \in heights : n \in Nat /\ n <= target BY <3>1, <3>3
    <3>6. \E n \in heights : \A m \in heights : n >= m
      <4>1. heights \subseteq 0..target
        <5> HIDE DEF heights, target
        <5> QED BY <3>1, <3>5
      <4>2. 0 \in heights OBVIOUS
      <4>3. IsFiniteSet(heights)
        <5>1. 0 \in Int /\ target \in Int BY <3>1
        <5>2. IsFiniteSet(0..target) BY <5>1, FS_Interval
        <5> HIDE DEF heights
        <5> QED BY <4>1, <5>2, FS_Subset
      <4> HIDE DEF heights
      <4>4. heights \in SUBSET Nat /\ heights # {} BY <3>5, <4>2
      <4>5. Max(heights) \in heights /\ \A y \in heights : y <= Max(heights) BY <4>3, <4>4, GreatestNumber
      <4> QED BY <4>4, <4>5
    <3>7. Max(heights) \in heights /\ \A n \in heights : Max(heights) >= n
      <4> HIDE DEF heights
      <4> QED BY <3>6 DEF Max
    <3>8. height <= target BY <3>4, <3>5, <3>7
    <3>9. ASSUME codec # "none", ExactHeight PROVE height = target
      <4>1. PICK i \in parts : IsVideo(offer[i]) BY <2>5, <3>9
      <4>2. offer[i].height \in heights /\ offer[i].height = target BY <3>3, <3>9, <4>1
      <4>3. Max(heights) \in Nat /\ Max(heights) >= target /\ Max(heights) <= target
        BY <3>5, <3>7, <4>2
      <4> QED BY <3>1, <3>4, <4>3
    <3> QED BY <3>8, <3>9
  <2>9. /\ task'.step = "transfer" /\ task'.file.codec = codec /\ task'.file.height = height
    BY <2>1
  <2>10. Guarded' = Guarded /\ ExactHeight' = ExactHeight /\ pick' = pick
    BY <1>2 DEF Guarded, ExactHeight
  <2> HIDE DEF codec, height
  <2>11. TaskShape' BY <2>1 DEF TaskShape
  <2>12. PictureOK' BY <2>7, <2>8, <2>9, <2>10 DEF PictureOK
  <2>13. StepOK' BY <2>9 DEF StepOK
  <2> QED BY <2>11, <2>12, <2>13
<1> QED BY <1>3, <1>4

\* A choice is one of the menu's and nothing is downloaded yet.
LEMMA ChooseStep ==
  ASSUME VideoInv, ChooseView
  PROVE  TaskShape' /\ PickOK(pick') /\ PictureOK' /\ StepOK'
<1>1. PICK s, c, a, e, h, z : z \in Nat /\
        task = [step |-> s, file |-> [codec |-> c, audio |-> a, ext |-> e, height |-> h, size |-> z]]
  BY DEF VideoInv, TaskShape
<1>2. PICK t : t = [task EXCEPT !.step = "select"] OBVIOUS
<1>3. t = [step |-> "select", file |-> [codec |-> c, audio |-> a, ext |-> e, height |-> h, size |-> z]]
  BY <1>1, <1>2
<1>4. task' = t /\ pick' \in Menu(Options) BY <1>2 DEF ChooseView
<1>5. PickOK(pick') BY <1>4, MenuIsSound DEF VideoInv
<1>6. task'.step = "select" BY <1>3, <1>4
<1>7. TaskShape' BY <1>1, <1>3, <1>4 DEF TaskShape
<1> QED BY <1>5, <1>6, <1>7 DEF PictureOK, StepOK, FileSteps

\* A step on the file: where it goes and what the file is then.
LEMMA TaskStep ==
  ASSUME VideoInv, task.step \in FileSteps, pick' = pick, NEW to \in FileSteps,
         NEW c, NEW a, NEW e, NEW h, NEW z \in Nat,
         task' = [step |-> to, file |-> [codec |-> c, audio |-> a, ext |-> e, height |-> h, size |-> z]],
         Guarded => h = task.file.height /\ (c = "none" <=> task.file.codec = "none"),
         to = "transcode" => ~Guarded,
         to \in {"limit", "done"} /\ Guarded => Compatible(task'.file, pick.plan),
         to = "done" => z <= MaxFile
  PROVE  TaskShape' /\ PictureOK' /\ StepOK'
<1>1. /\ task'.step = to /\ task'.file.codec = c /\ task'.file.height = h /\ task'.file.size = z
  OBVIOUS
<1>2. Guarded' = Guarded /\ ExactHeight' = ExactHeight BY DEF Guarded, ExactHeight
<1>3. TaskShape' BY DEF TaskShape
<1>4. PictureOK' BY <1>1, <1>2 DEF VideoInv, PictureOK
<1>5. StepOK' BY <1>1, <1>2 DEF StepOK
<1> QED BY <1>3, <1>4, <1>5

\* The streams bring a file of the announced height, and a picture if one was announced.
LEMMA TransferStep ==
  ASSUME VideoInv, Transfer
  PROVE  TaskShape' /\ PictureOK' /\ StepOK'
<1>1. PICK s, c, a, e, h, z : z \in Nat /\
        task = [step |-> s, file |-> [codec |-> c, audio |-> a, ext |-> e, height |-> h, size |-> z]]
  BY DEF VideoInv, TaskShape
<1>2. task.step = "transfer" /\ pick' = pick BY DEF Transfer, Undrifted
<1>3. PICK size \in 1..(MaxSource + 1),
           streams \in Streams(task.file) :
        IF size > TransferLimit(pick.plan.mode) THEN VideoFails
        ELSE task' = [step |-> "check", file |->
               [task.file EXCEPT !.size = size, !.codec = streams[1], !.audio = streams[2]]]
  BY DEF Transfer
<1>4. CASE size > TransferLimit(pick.plan.mode) BY <1>3, <1>4, FailStep
<1>5. CASE ~(size > TransferLimit(pick.plan.mode))
  <2>1. PICK codec, audio : codec = streams[1] /\ audio = streams[2] OBVIOUS
  <2>2. codec = "none" <=> task.file.codec = "none"
    <3>1. CASE task.file.codec = "none" BY <1>3, <2>1, <3>1 DEF Streams
    <3>2. CASE task.file.codec # "none"
      <4>1. streams \in {task.file.codec, "h264", "vp9"} \X {task.file.audio, "none", "opus"}
        BY <1>3, <3>2 DEF Streams
      <4> QED BY <2>1, <3>2, <4>1
    <3> QED BY <3>1, <3>2
  <2>3. PICK f : f = [task.file EXCEPT !.size = size, !.codec = codec, !.audio = audio] OBVIOUS
  <2>4. f = [codec |-> codec, audio |-> audio, ext |-> e, height |-> h, size |-> size]
    BY <1>1, <2>3
  <2>5. task' = [step |-> "check", file |-> f] BY <1>3, <1>5, <2>1, <2>3
  <2>6. /\ task' = [step |-> "check", file |->
                      [codec |-> codec, audio |-> audio, ext |-> e, height |-> h, size |-> size]]
        /\ h = task.file.height
    BY <1>1, <2>4, <2>5
  <2> QED BY <1>2, <1>3, <2>2, <2>6, TaskStep DEF FileSteps
<1> QED BY <1>4, <1>5

\* A file of a guaranteed choice passes when it is what was chosen; only explicit choices
\* are converted.
LEMMA CheckStep ==
  ASSUME VideoInv, Check
  PROVE  TaskShape' /\ PictureOK' /\ StepOK'
<1>1. PICK s, c, a, e, h, z : z \in Nat /\
        task = [step |-> s, file |-> [codec |-> c, audio |-> a, ext |-> e, height |-> h, size |-> z]]
  BY DEF VideoInv, TaskShape
<1>2. task.step = "check" /\ pick' = pick BY DEF Check, Undrifted
<1>3. CASE Guarded /\ ~Compatible(task.file, pick.plan)
  <2>1. VideoFails BY <1>3 DEF Check, Guarded
  <2> QED BY <2>1, FailStep
<1>4. CASE ~(Guarded /\ ~Compatible(task.file, pick.plan))
  <2>1. PICK to \in {"transcode", "limit"} :
          task' = [task EXCEPT !.step = to] /\ (to = "transcode" => pick.plan.policy = "explicit")
    <3> DEFINE next == IF /\ pick.plan.policy = "explicit" /\ task.file.codec # "none"
                          /\ ~Compatible(task.file, pick.plan) \/ task.file.size > MaxFile
                       THEN "transcode" ELSE "limit"
    <3>1. task' = [task EXCEPT !.step = next] BY <1>4 DEF Check, Guarded
    <3>2. next \in {"transcode", "limit"} /\ (next = "transcode" => pick.plan.policy = "explicit")
      OBVIOUS
    <3> HIDE DEF next
    <3> QED BY <3>1, <3>2
  <2>2. PICK t : t = [task EXCEPT !.step = to] OBVIOUS
  <2>3. t = [step |-> to, file |-> [codec |-> c, audio |-> a, ext |-> e, height |-> h, size |-> z]]
    BY <1>1, <2>2
  <2>4. task' = [step |-> to, file |-> [codec |-> c, audio |-> a, ext |-> e, height |-> h, size |-> z]]
    BY <2>1, <2>2, <2>3
  <2>5. /\ h = task.file.height /\ c = task.file.codec /\ task'.file = task.file
        /\ (to = "transcode" => ~Guarded)
        /\ (Guarded => Compatible(task.file, pick.plan))
    BY <1>1, <1>4, <2>1, <2>4 DEF Guarded
  <2>6. to \in FileSteps /\ to # "done" BY <2>1 DEF FileSteps
  <2>7. task.step \in FileSteps BY <1>2 DEF FileSteps
  <2> QED BY <1>1, <1>2, <2>4, <2>5, <2>6, <2>7, TaskStep
<1> QED BY <1>3, <1>4

\* A conversion is of an explicit choice, of which the menu promised nothing that is checked.
LEMMA TranscodeStep ==
  ASSUME VideoInv, Transcode
  PROVE  TaskShape' /\ PictureOK' /\ StepOK'
<1>1. PICK s, c, a, e, h, z : z \in Nat /\
        task = [step |-> s, file |-> [codec |-> c, audio |-> a, ext |-> e, height |-> h, size |-> z]]
  BY DEF VideoInv, TaskShape
<1>2. task.step = "transcode" /\ pick' = pick BY DEF Transcode, Undrifted
<1>3. ~Guarded BY <1>2 DEF VideoInv, StepOK
<1>4. CASE VideoFails BY <1>4, FailStep
<1>5. CASE ~VideoFails
  <2> DEFINE codec == IF pick.plan.container = "mp4" THEN "h264" ELSE "vp9"
             audio == IF task.file.audio = "none" THEN task.file.audio
                      ELSE AudioOf(pick.plan.container)
             ext == pick.plan.container
  <2>1. PICK size \in 1..MaxFile :
          task' = [step |-> "limit", file |->
            [task.file EXCEPT !.size = size, !.codec = codec, !.audio = audio, !.ext = ext]]
    BY <1>5, Zenon DEF Transcode
  <2> HIDE DEF codec, audio, ext
  <2>2. PICK f : f = [task.file EXCEPT !.size = size, !.codec = codec, !.audio = audio, !.ext = ext]
    OBVIOUS
  <2>3. f = [codec |-> codec, audio |-> audio, ext |-> ext, height |-> h, size |-> size] BY <1>1, <2>2
  <2>4. task' = [step |-> "limit", file |-> f] BY <2>1, <2>2
  <2>5. task' = [step |-> "limit", file |->
                   [codec |-> codec, audio |-> audio, ext |-> ext, height |-> h, size |-> size]]
    BY <2>3, <2>4
  <2> QED BY <1>2, <1>3, <2>5, TaskStep DEF FileSteps
<1> QED BY <1>4, <1>5

\* What is too large fails, and the rest is done as it is.
LEMMA LimitStep ==
  ASSUME VideoInv, Limit
  PROVE  TaskShape' /\ PictureOK' /\ StepOK'
<1>1. PICK s, c, a, e, h, z : z \in Nat /\
        task = [step |-> s, file |-> [codec |-> c, audio |-> a, ext |-> e, height |-> h, size |-> z]]
  BY DEF VideoInv, TaskShape
<1>2. task.step = "limit" /\ pick' = pick BY DEF Limit, Undrifted
<1>3. Guarded => Compatible(task.file, pick.plan) BY <1>2 DEF VideoInv, StepOK
<1>4. CASE task.file.size > MaxFile
  <2>1. VideoFails BY <1>4 DEF Limit
  <2> QED BY <2>1, FailStep
<1>5. CASE ~(task.file.size > MaxFile)
  <2>1. PICK t : t = [task EXCEPT !.step = "done"] OBVIOUS
  <2>2. t = [step |-> "done", file |-> [codec |-> c, audio |-> a, ext |-> e, height |-> h, size |-> z]]
    BY <1>1, <2>1
  <2>3. task' = [step |-> "done", file |-> [codec |-> c, audio |-> a, ext |-> e, height |-> h, size |-> z]]
    BY <1>5, <2>1, <2>2 DEF Limit
  <2>4. /\ h = task.file.height /\ c = task.file.codec /\ task'.file = task.file /\ z = task.file.size
    BY <1>1, <2>3
  <2>5. z <= MaxFile BY <1>1, <1>5, <2>4, VideoAssumption
  <2>6. task.step \in FileSteps /\ "done" \in FileSteps BY <1>2 DEF FileSteps
  <2>7. Guarded => Compatible(task'.file, pick.plan) BY <1>3, <2>4
  <2> HIDE DEF FileSteps
  <2> QED BY <1>1, <1>2, <2>3, <2>4, <2>5, <2>6, <2>7, TaskStep
<1> QED BY <1>4, <1>5

\* A drift of the formats leaves the choice and the download alone.
LEMMA DriftStep ==
  ASSUME VideoInv, Drift
  PROVE  VideoInv'
<1>1. pick' = pick /\ task' = task BY DEF Drift
<1>2. OfferOK(offer)'
  <2>1. CASE \E i \in DOMAIN offer : offer' = [j \in (DOMAIN offer) \ {i} |-> offer[j]]
    BY <2>1 DEF VideoInv, OfferOK
  <2>2. CASE \E other \in Offers : \E i \in (DOMAIN offer) \intersect (DOMAIN other) :
               offer' = [offer EXCEPT ![i] = other[i]]
    <3>0. PICK other \in Offers : \E i \in (DOMAIN offer) \intersect (DOMAIN other) :
            offer' = [offer EXCEPT ![i] = other[i]]
      BY <2>2
    <3>1. PICK i \in (DOMAIN offer) \intersect (DOMAIN other) : offer' = [offer EXCEPT ![i] = other[i]]
      BY <3>0
    <3>2. other[i].height \in Nat BY VideoAssumption
    <3>3. /\ DOMAIN offer' = DOMAIN offer
          /\ \A j \in DOMAIN offer : offer'[j] = IF j = i THEN other[i] ELSE offer[j]
      BY <3>1
    <3> QED BY <3>2, <3>3 DEF VideoInv, OfferOK
  <2> QED BY <2>1, <2>2 DEF Drift
<1> QED BY <1>1, <1>2 DEF VideoInv, TaskShape, PickOK, PictureOK, StepOK, Guarded, ExactHeight

\* The download keeps to the choice, and the choice to the menu, step after step
\* (infrastructure/ytdlp/engine.py, options.py, transcoder.py).
THEOREM VideoInvariant == VideoSpec => []VideoInv
<1>1. VideoInit => VideoInv
  <2> SUFFICES ASSUME VideoInit PROVE VideoInv
    OBVIOUS
  <2>1. OfferOK(offer) BY VideoAssumption DEF VideoInit, OfferOK
  <2>2. task = [step |-> "offered", file |-> [codec |-> "none", audio |-> "none", ext |-> "none",
                                             height |-> 0, size |-> 0]]
    BY DEF VideoInit, NoFile
  <2>3. TaskShape BY <2>2 DEF TaskShape
  <2>4. task.step = "offered" BY <2>2
  <2> QED BY <2>1, <2>3, <2>4 DEF VideoInv, PictureOK, StepOK, FileSteps
<1>2. VideoInv /\ [VideoNext]_videoVars => VideoInv'
  <2> SUFFICES ASSUME VideoInv, [VideoNext]_videoVars PROVE VideoInv'
    OBVIOUS
  <2>1. CASE Drift BY <2>1, DriftStep
  <2>2. CASE ChooseView
    <3>1. offer' = offer BY <2>2 DEF ChooseView
    <3>2. OfferOK(offer)' BY <3>1 DEF VideoInv, OfferOK
    <3> QED BY <2>2, <3>2, ChooseStep DEF VideoInv
  <2>3. ASSUME Undrifted, task.step # "offered", TaskShape', PictureOK', StepOK' PROVE VideoInv'
    BY <2>3 DEF VideoInv, Undrifted, OfferOK, PickOK
  <2>4. CASE Select BY <2>3, <2>4, SelectStep DEF Select
  <2>5. CASE Transfer BY <2>3, <2>5, TransferStep DEF Transfer
  <2>6. CASE Check BY <2>3, <2>6, CheckStep DEF Check
  <2>7. CASE Transcode BY <2>3, <2>7, TranscodeStep DEF Transcode
  <2>8. CASE Limit BY <2>3, <2>8, LimitStep DEF Limit
  <2>9. CASE EngineFails
    <3>1. VideoFails /\ Undrifted /\ task.step # "offered" BY <2>9 DEF EngineFails
    <3> QED BY <2>3, <3>1, FailStep
  <2>10. CASE UNCHANGED videoVars
    BY <2>10 DEF VideoInv, videoVars, OfferOK, TaskShape, PickOK, PictureOK, StepOK, Guarded, ExactHeight
  <2> QED BY <2>1, <2>2, <2>4, <2>5, <2>6, <2>7, <2>8, <2>9, <2>10 DEF VideoNext
<1> QED BY <1>1, <1>2, PTL DEF VideoSpec

\* However the provider's formats change between the menu and the download, a guaranteed
\* choice ends as the file the menu promised, within the size limit, or it fails; it may have
\* lost its sound, and only the mode best may end as a sound alone (engine.py, transcoder.py).
THEOREM OffersAreKept == VideoSpec => []OfferIsKept
<1>1. ASSUME VideoInv PROVE OfferIsKept
  <2> SUFFICES ASSUME task.step = "done" PROVE OfferIsKept
    BY DEF OfferIsKept
  <2>1. PickOK(pick) /\ PictureOK /\ StepOK BY <1>1 DEF VideoInv
  <2>2. task.file.size <= MaxFile BY <2>1 DEF StepOK
  <2>3. ASSUME Guarded, pick.plan.mode = "best" => task.file.codec # "none"
        PROVE  /\ task.file.codec = pick.codec
               /\ task.file.ext = pick.plan.container
               /\ task.file.audio \in {"none", AudioOf(pick.plan.container)}
               /\ task.file.height <= TargetHeight(pick.plan.mode)
               /\ ExactHeight => task.file.height = pick.height
    <3>1. task.step \in FileSteps BY DEF FileSteps
    <3>2. task.file.codec # "none" BY <2>1, <2>3, <3>1 DEF PictureOK
    <3>3. Compatible(task.file, pick.plan) BY <2>1, <2>3 DEF StepOK
    <3>4. /\ task.file.codec = pick.codec /\ task.file.ext = pick.plan.container
          /\ task.file.audio \in {"none", AudioOf(pick.plan.container)}
      BY <2>1, <3>2, <3>3 DEF Compatible, PickOK, AudioOf
    <3>5. /\ task.file.height <= TargetHeight(pick.plan.mode)
          /\ ExactHeight => task.file.height = TargetHeight(pick.plan.mode)
      BY <2>1, <2>3, <3>1, <3>2 DEF PictureOK
    <3>6. ExactHeight => pick.height = TargetHeight(pick.plan.mode) BY <2>1 DEF PickOK, ExactHeight
    <3> QED BY <3>4, <3>5, <3>6
  <2> QED BY <2>2, <2>3 DEF OfferIsKept
<1> QED BY <1>1, VideoInvariant, PTL

(***************************************************************************)
(* The search among formats.                                               *)
(***************************************************************************)

SizesOK(o) == \A i \in DOMAIN o : o[i].size \in Nat

\* f sums the weights over the subsets of S, the element that first says being taken first.
Sums(S, weight, first, f) ==
  \A s \in SUBSET S : f[s] = IF s = {} THEN 0 ELSE f[s \ {first[s]}] + weight[first[s]]

\* Whatever element is taken first, there is a sum over every subset of a finite set.
LEMMA SumExists ==
  ASSUME NEW S, IsFiniteSet(S), NEW weight \in [S -> Nat], NEW first,
         \A s \in (SUBSET S) \ {{}} : first[s] \in s
  PROVE  \E f \in [SUBSET S -> Nat] : Sums(S, weight, first, f)
<1> DEFINE Sum(f, s) == IF s = {} THEN 0 ELSE f[s \ {first[s]}] + weight[first[s]]
           Upto(k) == \E f \in [SUBSET S -> Nat] :
                        \A s \in SUBSET S : Cardinality(s) <= k => f[s] = Sum(f, s)
           T == {k \in Nat : ~Upto(k)}
<1>1. ASSUME NEW s \in SUBSET S
      PROVE  /\ IsFiniteSet(s) /\ Cardinality(s) \in Nat /\ (s = {} <=> Cardinality(s) = 0)
             /\ s # {} => /\ s \ {first[s]} \in SUBSET S
                          /\ Cardinality(s \ {first[s]}) = Cardinality(s) - 1
                          /\ weight[first[s]] \in Nat
  <2>1. IsFiniteSet(s) /\ Cardinality(s) \in Nat BY FS_Subset, FS_CardinalityType
  <2>2. s = {} <=> Cardinality(s) = 0 BY <2>1, FS_EmptySet
  <2>3. s # {} => Cardinality(s \ {first[s]}) = Cardinality(s) - 1 BY <2>1, FS_RemoveElement
  <2> QED BY <2>1, <2>2, <2>3
<1>2. Upto(0)
  <2> DEFINE g == [s \in SUBSET S |-> 0]
  <2>1. ASSUME NEW s \in SUBSET S, Cardinality(s) <= 0 PROVE g[s] = Sum(g, s)
    <3>1. Cardinality(s) \in Nat /\ (s = {} <=> Cardinality(s) = 0) BY <1>1
    <3>2. s = {} BY <2>1, <3>1
    <3> QED BY <3>2
  <2>2. g \in [SUBSET S -> Nat] OBVIOUS
  <2> HIDE DEF g, Sum
  <2> QED BY <2>1, <2>2
<1>3. ASSUME NEW k \in Nat, Upto(k) PROVE Upto(k + 1)
  <2>1. PICK f \in [SUBSET S -> Nat] : \A s \in SUBSET S : Cardinality(s) <= k => f[s] = Sum(f, s)
    BY <1>3
  <2> DEFINE g == [s \in SUBSET S |-> IF s = {} THEN 0 ELSE f[s \ {first[s]}] + weight[first[s]]]
  <2>2. g \in [SUBSET S -> Nat]
    <3>1. ASSUME NEW s \in SUBSET S, s # {} PROVE f[s \ {first[s]}] + weight[first[s]] \in Nat
      BY <1>1, <3>1
    <3> QED BY <3>1
  <2>3. ASSUME NEW s \in SUBSET S, Cardinality(s) <= k PROVE g[s] = f[s]
    BY <2>1, <2>3
  <2>4. ASSUME NEW s \in SUBSET S, Cardinality(s) <= k + 1 PROVE g[s] = Sum(g, s)
    <3>1. CASE s = {} BY <3>1
    <3>2. CASE s # {}
      <4>0. /\ Cardinality(s) \in Nat /\ s \ {first[s]} \in SUBSET S
            /\ Cardinality(s \ {first[s]}) = Cardinality(s) - 1
        BY <1>1, <3>2
      <4>1. s \ {first[s]} \in SUBSET S /\ Cardinality(s \ {first[s]}) <= k BY <4>0, <2>4
      <4>2. g[s \ {first[s]}] = f[s \ {first[s]}] BY <2>3, <4>1
      <4>3. g[s] = f[s \ {first[s]}] + weight[first[s]] BY <3>2
      <4> QED BY <3>2, <4>2, <4>3
    <3> QED BY <3>1, <3>2
  <2> HIDE DEF g, Sum
  <2> QED BY <2>2, <2>4
<1> HIDE DEF Upto
<1>4. T = {}
  <2> SUFFICES ASSUME T # {} PROVE FALSE OBVIOUS
  <2>1. PICK k \in T : \A m \in T : k <= m
    <3>1. T \in SUBSET Nat OBVIOUS
    <3> HIDE DEF T
    <3> QED BY <3>1, LeastNumber
  <2>2. k # 0 /\ k \in Nat BY <1>2
  <2>3. k - 1 \in Nat /\ k - 1 \notin T BY <2>1, <2>2
  <2>4. Upto((k - 1) + 1) BY <1>3, <2>3
  <2> QED BY <2>2, <2>4
<1>5. Upto(Cardinality(S)) BY <1>1, <1>4
<1>6. PICK f \in [SUBSET S -> Nat] :
        \A s \in SUBSET S : Cardinality(s) <= Cardinality(S) => f[s] = Sum(f, s)
  BY <1>5 DEF Upto
<1>7. \A s \in SUBSET S : f[s] = Sum(f, s)
  <2>1. \A s \in SUBSET S : Cardinality(s) <= Cardinality(S) BY FS_Subset
  <2> QED BY <1>6, <2>1
<1> QED BY <1>7 DEF Sums

\* The announced size of a selection is a number, and not 0 where every part announces one.
LEMMA SizeIsKnown ==
  ASSUME NEW o, OfferOK(o), SizesOK(o), NEW S \in SUBSET DOMAIN o
  PROVE  /\ KnownSize(o, S) \in Nat
         /\ S # {} /\ (\A i \in S : o[i].size # 0) => KnownSize(o, S) # 0
<1>1. CASE \E i \in S : o[i].size = 0 BY <1>1 DEF KnownSize
<1>2. CASE ~\E i \in S : o[i].size = 0
  <2> DEFINE Total(it) == [s \in SUBSET S |-> IF s = {} THEN 0 ELSE it[s \ {CHOOSE x \in s : TRUE}]
                                                                   + o[CHOOSE x \in s : TRUE].size]
             iter == CHOOSE it : it = Total(it)
             first == [s \in SUBSET S |-> CHOOSE x \in s : TRUE]
             weight == [i \in S |-> o[i].size]
  <2>1. FoldSet(LAMBDA i, sum : sum + o[i].size, 0, S) = iter[S]
    BY Zenon DEF FoldSet, MapThenFoldSet
  <2>2. KnownSize(o, S) = iter[S] BY <1>2, <2>1, Zenon DEF KnownSize
  <2>3. \A s \in SUBSET S : s # {} => (CHOOSE x \in s : TRUE) \in s OBVIOUS
  <2>4. IsFiniteSet(S) BY IdsAreNumbers
  <2>5. weight \in [S -> Nat] BY DEF SizesOK
  <2>6. PICK f \in [SUBSET S -> Nat] : Sums(S, weight, first, f)
    <3>1. \A s \in (SUBSET S) \ {{}} : first[s] \in s BY <2>3
    <3> HIDE DEF first, weight
    <3> QED BY <2>4, <2>5, <3>1, SumExists
  <2>7. f = Total(f)
    <3>1. ASSUME NEW s \in SUBSET S, s # {}
          PROVE  first[s] = (CHOOSE x \in s : TRUE) /\ weight[first[s]] = o[first[s]].size
      BY <2>3, <3>1
    <3> HIDE DEF first, weight
    <3>2. ASSUME NEW s \in SUBSET S
          PROVE  f[s] = IF s = {} THEN 0
                        ELSE f[s \ {CHOOSE x \in s : TRUE}] + o[CHOOSE x \in s : TRUE].size
      <4>1. f[s] = IF s = {} THEN 0 ELSE f[s \ {first[s]}] + weight[first[s]] BY <2>6 DEF Sums
      <4> QED BY <3>1, <4>1
    <3>3. f = [s \in SUBSET S |-> f[s]] OBVIOUS
    <3>4. Total(f) = [s \in SUBSET S |-> f[s]] BY <3>2
    <3> HIDE DEF Total
    <3> QED BY <3>3, <3>4
  <2>8. iter = Total(iter) BY <2>7, Zenon
  <2> HIDE DEF iter
  <2>9. ASSUME NEW s \in SUBSET S, s # {}
        PROVE  \E i \in s : iter[s] = iter[s \ {i}] + o[i].size
    BY <2>3, <2>8, <2>9
  <2>10. iter[{}] = 0 BY <2>8
  <2> HIDE DEF Total
  <2>11. \A s \in SUBSET S : iter[s] \in Nat
    <3> DEFINE T == {Cardinality(s) : s \in {r \in SUBSET S : iter[r] \notin Nat}}
    <3> SUFFICES ASSUME T # {} PROVE FALSE OBVIOUS
    <3>1. \A s \in SUBSET S : IsFiniteSet(s) /\ Cardinality(s) \in Nat
      BY <2>4, FS_Subset, FS_CardinalityType
    <3>2. PICK n \in T : \A m \in T : n <= m
      <4>1. T \in SUBSET Nat BY <3>1
      <4> HIDE DEF T
      <4> QED BY <4>1, LeastNumber
    <3>3. PICK s \in SUBSET S : iter[s] \notin Nat /\ n = Cardinality(s) BY <3>2
    <3>4. s # {}
      <4>1. 0 \in Nat OBVIOUS
      <4> QED BY <2>10, <3>3, <4>1, Zenon
    <3>5. PICK i \in s : iter[s] = iter[s \ {i}] + o[i].size BY <2>9, <3>4
    <3>6. Cardinality(s \ {i}) = Cardinality(s) - 1 BY <3>1, FS_RemoveElement
    <3>7. iter[s \ {i}] \in Nat
      <4>1. Cardinality(s) \in Nat /\ ~(Cardinality(s) <= Cardinality(s) - 1) BY <3>1
      <4>2. Cardinality(s \ {i}) \notin T BY <3>2, <3>3, <3>6, <4>1
      <4> QED BY <4>2
    <3>8. o[i].size \in Nat BY DEF SizesOK
    <3> QED BY <3>3, <3>5, <3>7, <3>8
  <2>12. S # {} => iter[S] # 0
    <3> SUFFICES ASSUME S # {} PROVE iter[S] # 0 OBVIOUS
    <3>1. PICK i \in S : iter[S] = iter[S \ {i}] + o[i].size BY <2>9
    <3>2. iter[S \ {i}] \in Nat /\ o[i].size \in Nat /\ o[i].size # 0 BY <1>2, <2>11 DEF SizesOK
    <3> QED BY <3>1, <3>2
  <2> QED BY <2>2, <2>11, <2>12
<1> QED BY <1>1, <1>2

\* The formats yt-dlp's selector takes its pick from, a picture and a sound of them, and
\* what a search knows of a request.
Available(e) ==
  {i \in Considered(formats, request.mode, request.contract) \ e :
     request.selector.kind \in {"any", formats[i].ext}}
PictureAt(i) == IsVideo(formats[i])
SoundAt(i) == ~IsVideo(formats[i]) /\ IsAudio(formats[i])
Whole(e) == Complete(formats, Candidate(e), request.mode)
TooBig(e) == Whole(e) /\ KnownSize(formats, Candidate(e)) > request.limit
NextOf(e) == {e \union {i} : i \in IF TooBig(e) THEN Candidate(e) ELSE {}}

SearchTypeOK ==
  /\ formats \in SearchOffers /\ request \in Requests
  /\ search \in [pending : Seq(SUBSET FormatId), visited : SUBSET (SUBSET FormatId),
                 best : SUBSET FormatId, unknown : SUBSET FormatId, complete : BOOLEAN]

\* What is known of the formats and of the request of a search.
LEMMA SearchIsTyped ==
  ASSUME SearchTypeOK
  PROVE  /\ OfferOK(formats) /\ SizesOK(formats) /\ request.limit \in Nat
         /\ DOMAIN formats \subseteq FormatId
BY SearchAssumption DEF SearchTypeOK, OfferOK, SizesOK

\* A candidate is part of what was not left out.
LEMMA CandidateIsAvailable ==
  ASSUME SearchTypeOK, NEW e
  PROVE  /\ Candidate(e) \subseteq (DOMAIN formats) \ e
         /\ Candidate(e) \in SUBSET DOMAIN formats
         /\ Candidate(e) \in SUBSET FormatId
<1>1. OfferOK(formats) /\ DOMAIN formats \subseteq FormatId BY SearchIsTyped
<1> DEFINE left == Considered(formats, request.mode, request.contract) \ e
<1>2. left \in SUBSET DOMAIN formats BY DEF Considered
<1>3. Candidate(e) \subseteq left
  <2>1. Candidate(e) = BaseSelection(formats, request.selector, left) BY Zenon DEF Candidate
  <2> HIDE DEF left
  <2> QED BY <1>1, <1>2, <2>1, BaseIsAvailable
<1> QED BY <1>1, <1>2, <1>3

\* yt-dlp's pick by type: the best picture, with the best sound unless it brings its own;
\* or where no sound stands alone, the best picture that brings one.
Shape(e, v) ==
  /\ v \in Available(e) /\ PictureAt(v)
  /\ \A w \in Available(e) : PictureAt(w) /\ (IsAudio(formats[w]) \/ \E a \in Available(e) : SoundAt(a))
       => w <= v
  /\ IF IsAudio(formats[v]) THEN Candidate(e) = {v}
     ELSE \E a \in Available(e) : /\ SoundAt(a) /\ Candidate(e) = {v, a}
                                  /\ \A b \in Available(e) : SoundAt(b) => b <= a

\* What the selector picks by type has that shape, and it picks something as soon as a
\* picture has a sound.
LEMMA CandidateHasShape ==
  ASSUME SearchTypeOK, NEW e, request.selector.kind # "ids"
  PROVE  /\ Candidate(e) # {} => \E v \in Available(e) : Shape(e, v)
         /\ \A w \in Available(e) :
              PictureAt(w) /\ (IsAudio(formats[w]) \/ \E a \in Available(e) : SoundAt(a))
                => Candidate(e) # {}
<1> DEFINE typed == Available(e)
           videos == {i \in typed : IsVideo(formats[i])}
           sounds == {i \in typed : ~IsVideo(formats[i]) /\ IsAudio(formats[i])}
           both == {i \in videos : IsAudio(formats[i])}
<1>1. Candidate(e) = IF videos # {} /\ sounds # {} THEN Merged(formats, {Max(videos), Max(sounds)})
                     ELSE IF both # {} THEN {Max(both)} ELSE {}
  BY Zenon DEF Candidate, BaseSelection, Available
<1>2. OfferOK(formats) /\ typed \in SUBSET DOMAIN formats
  BY SearchIsTyped DEF Available, Considered
<1>3. ASSUME NEW S \in SUBSET typed, S # {}
      PROVE  Max(S) \in S /\ \A i \in S : i <= Max(S)
  <2>1. S \in SUBSET Nat /\ IsFiniteSet(S) BY <1>2, IdsAreNumbers
  <2> QED BY <1>3, <2>1, GreatestNumber
<1>4. CASE videos # {} /\ sounds # {}
  <2>1. PICK v \in videos : v = Max(videos) /\ \A i \in videos : i <= v BY <1>3, <1>4
  <2>2. PICK a \in sounds : a = Max(sounds) /\ \A i \in sounds : i <= a BY <1>3, <1>4
  <2>3. Candidate(e) = Merged(formats, {v, a}) BY <1>1, <1>4, <2>1, <2>2
  <2>4. IsVideo(formats[v]) /\ ~IsVideo(formats[a]) /\ IsAudio(formats[a]) /\ v \in typed /\ a \in typed
    OBVIOUS
  <2>5. Candidate(e) = IF IsAudio(formats[v]) THEN {v} ELSE {v, a}
    <3>1. CASE IsAudio(formats[v])
      <4>1. \E i \in {v, a} : IsVideo(formats[i]) /\ IsAudio(formats[i]) BY <2>4, <3>1
      <4>2. {i \in {v, a} : IsVideo(formats[i])} = {v} BY <2>4
      <4> QED BY <2>3, <3>1, <4>1, <4>2 DEF Merged
    <3>2. CASE ~IsAudio(formats[v])
      <4>1. ~\E i \in {v, a} : IsVideo(formats[i]) /\ IsAudio(formats[i]) BY <2>4, <3>2
      <4> QED BY <2>3, <3>2, <4>1 DEF Merged
    <3> QED BY <3>1, <3>2
  <2>6. Shape(e, v) BY <2>1, <2>2, <2>4, <2>5 DEF Shape, PictureAt, SoundAt
  <2> QED BY <2>4, <2>5, <2>6
<1>5. CASE both # {} /\ ~(videos # {} /\ sounds # {})
  <2>1. PICK v \in both : v = Max(both) /\ \A i \in both : i <= v BY <1>3, <1>5
  <2>2. Candidate(e) = {v} BY <1>1, <1>5, <2>1
  <2>3. sounds = {} BY <1>5
  <2>4. Shape(e, v) BY <2>1, <2>2, <2>3 DEF Shape, PictureAt, SoundAt
  <2> QED BY <2>2, <2>4
<1>6. CASE both = {} /\ ~(videos # {} /\ sounds # {})
  <2>1. Candidate(e) = {} BY <1>1, <1>6
  <2>2. ASSUME NEW w \in typed, IsVideo(formats[w]),
               IsAudio(formats[w]) \/ \E a \in typed : SoundAt(a)
        PROVE  FALSE
    BY <1>6, <2>2 DEF SoundAt
  <2> QED BY <2>1, <2>2 DEF PictureAt
<1> QED BY <1>4, <1>5, <1>6

\* The score of a picture that brings its sound, or of a picture with a sound.
LEMMA ScoreOfPair ==
  ASSUME SearchTypeOK, NEW v \in DOMAIN formats, PictureAt(v), NEW a \in DOMAIN formats, NEW s,
         \/ IsAudio(formats[v]) /\ a = v /\ s = {v}
         \/ ~IsAudio(formats[v]) /\ SoundAt(a) /\ s = {v, a}
  PROVE  /\ Score(formats, s)[1] = formats[v].height
         /\ Score(formats, s)[2] = IF formats[v].hdr THEN 0 ELSE 1
         /\ Score(formats, s)[3] = v /\ Score(formats, s)[4] = a
<1>1. OfferOK(formats) BY SearchIsTyped
<1>2. ASSUME NEW n \in Nat PROVE Max({0} \union {n}) = n
  <2>1. {0} \union {n} \in SUBSET Nat /\ IsFiniteSet({0} \union {n})
    <3>1. IsFiniteSet({0}) BY FS_Singleton
    <3> QED BY <3>1, FS_AddElement
  <2> DEFINE m == Max({0} \union {n})
  <2>2. m \in {0} \union {n} /\ n <= m BY <2>1, GreatestNumber
  <2> QED BY <2>2
<1>3. formats[v].height \in Nat /\ v \in Nat /\ a \in Nat
  <2>1. DOMAIN formats \in SUBSET Nat BY <1>1, IdsAreNumbers
  <2> QED BY <1>1, <2>1 DEF OfferOK
<1> DEFINE videos == {i \in s : IsVideo(formats[i])}
           sounds == {i \in s : IsAudio(formats[i])}
<1>4. videos = {v} /\ sounds = {a} BY DEF PictureAt, SoundAt
<1>5. {formats[i].height : i \in videos} = {formats[v].height} BY <1>4
<1>6. Score(formats, s) =
        <<Max({0} \union {formats[i].height : i \in videos}),
          IF videos # {} /\ \A i \in videos : ~formats[i].hdr THEN 1 ELSE 0,
          Max({0} \union videos), Max({0} \union sounds)>>
  BY Zenon DEF Score
<1>7. (IF videos # {} /\ \A i \in videos : ~formats[i].hdr THEN 1 ELSE 0) = IF formats[v].hdr THEN 0 ELSE 1
  BY <1>4
<1> HIDE DEF videos, sounds
<1> QED BY <1>2, <1>3, <1>4, <1>5, <1>6, <1>7

\* Selections of the same score are the same.
LEMMA ScoreTells ==
  ASSUME SearchTypeOK, NEW e, NEW f, Candidate(e) # {}, Candidate(f) # {},
         \A n \in 1..4 : Score(formats, Candidate(e))[n] = Score(formats, Candidate(f))[n]
  PROVE  Candidate(e) = Candidate(f)
<1>1. CASE request.selector.kind = "ids"
  <2>1. ASSUME NEW g, Candidate(g) # {} PROVE Candidate(g) = Merged(formats, request.selector.ids)
    BY <1>1, <2>1 DEF Candidate, BaseSelection
  <2> QED BY <2>1
<1>2. CASE request.selector.kind # "ids"
  <2>1. ASSUME NEW g, Candidate(g) # {}
        PROVE  \E v, a \in DOMAIN formats :
                 /\ PictureAt(v)
                 /\ \/ IsAudio(formats[v]) /\ a = v /\ Candidate(g) = {v}
                    \/ ~IsAudio(formats[v]) /\ SoundAt(a) /\ Candidate(g) = {v, a}
                 /\ Score(formats, Candidate(g))[3] = v /\ Score(formats, Candidate(g))[4] = a
    <3>1. PICK v \in Available(g) : Shape(g, v) BY <1>2, <2>1, CandidateHasShape
    <3>2. Available(g) \subseteq DOMAIN formats BY DEF Available, Considered
    <3>3. PICK a \in Available(g) :
            \/ IsAudio(formats[v]) /\ a = v /\ Candidate(g) = {v}
            \/ ~IsAudio(formats[v]) /\ SoundAt(a) /\ Candidate(g) = {v, a}
      BY <3>1 DEF Shape
    <3>4. PictureAt(v) BY <3>1 DEF Shape
    <3>5. Score(formats, Candidate(g))[3] = v /\ Score(formats, Candidate(g))[4] = a
      BY <3>2, <3>3, <3>4, ScoreOfPair
    <3> QED BY <3>2, <3>3, <3>4, <3>5
  <2>2. 3 \in 1..4 /\ 4 \in 1..4 OBVIOUS
  <2> QED BY <2>1, <2>2
<1> QED BY <1>1, <1>2

\* The order that SearchFindsBest means.
NotWorse(s, t) ==
  IF TargetHeight(request.mode) = 0 THEN Score(formats, t)[1] <= Score(formats, s)[1]
  ELSE ~Higher(Score(formats, t), Score(formats, s))

\* Where pictures of a higher id are no lower, who may take the selection of f picks no
\* worse than it, and holds what it does not, unless they are the same.
LEMMA PickIsNotWorse ==
  ASSUME SearchTypeOK, HeightsGrow, NEW e, NEW f, request.selector.kind # "ids",
         Candidate(f) # {}, Candidate(f) \intersect e = {}
  PROVE  /\ Whole(e) /\ NotWorse(Candidate(e), Candidate(f))
         /\ Candidate(e) \subseteq Candidate(f) => Candidate(e) = Candidate(f)
<1>1. PICK w \in Available(f) : Shape(f, w) BY CandidateHasShape
<1>2. PICK b \in Available(f) :
        \/ IsAudio(formats[w]) /\ b = w /\ Candidate(f) = {w}
        \/ ~IsAudio(formats[w]) /\ SoundAt(b) /\ Candidate(f) = {w, b}
  BY <1>1 DEF Shape
<1>3. PictureAt(w) BY <1>1 DEF Shape
<1>4. w \in Available(e) /\ b \in Available(e)
  <2>1. Candidate(f) \subseteq Available(f) /\ w \in Candidate(f) /\ b \in Candidate(f) BY <1>2
  <2> QED BY <2>1 DEF Available
<1>5. PictureAt(w) /\ (IsAudio(formats[w]) \/ \E a \in Available(e) : SoundAt(a))
  BY <1>2, <1>3, <1>4
<1>6. PICK v \in Available(e) : Shape(e, v) BY <1>4, <1>5, CandidateHasShape
<1>7. PICK a \in Available(e) :
        \/ IsAudio(formats[v]) /\ a = v /\ Candidate(e) = {v}
        \/ ~IsAudio(formats[v]) /\ SoundAt(a) /\ Candidate(e) = {v, a}
           /\ \A c \in Available(e) : SoundAt(c) => c <= a
  BY <1>6 DEF Shape
<1>8. PictureAt(v) /\ w <= v BY <1>4, <1>5, <1>6 DEF Shape
<1>9. Available(e) \subseteq DOMAIN formats /\ Available(f) \subseteq DOMAIN formats
  BY DEF Available, Considered
<1>10. DOMAIN formats \in SUBSET Nat BY SearchIsTyped, IdsAreNumbers
<1>11. v \in Nat /\ w \in Nat /\ a \in Nat /\ b \in Nat BY <1>9, <1>10
<1>12. Whole(e)
  <2>1. v \in Candidate(e) /\ a \in Candidate(e) BY <1>7
  <2>2. IsVideo(formats[v]) /\ IsAudio(formats[a]) BY <1>7, <1>8 DEF PictureAt, SoundAt
  <2> QED BY <2>1, <2>2 DEF Whole, Complete
<1>13. Candidate(e) \subseteq Candidate(f) => Candidate(e) = Candidate(f)
  <2> SUFFICES ASSUME Candidate(e) \subseteq Candidate(f) PROVE Candidate(e) = Candidate(f) OBVIOUS
  <2>1. v = w
    <3>1. v \in Candidate(f) BY <1>7
    <3>2. SoundAt(b) => ~PictureAt(b) BY DEF SoundAt, PictureAt
    <3> QED BY <1>2, <1>8, <3>1, <3>2
  <2>2. CASE IsAudio(formats[v]) BY <1>2, <1>7, <2>1, <2>2
  <2>3. CASE ~IsAudio(formats[v])
    <3>1. Candidate(e) = {v, a} /\ Candidate(f) = {v, b} /\ SoundAt(a) BY <1>2, <1>7, <2>1, <2>3
    <3>2. a # v BY <1>8, <3>1 DEF SoundAt, PictureAt
    <3> QED BY <3>1, <3>2
  <2> QED BY <2>2, <2>3
<1>14. /\ Score(formats, Candidate(e))[1] = formats[v].height
       /\ Score(formats, Candidate(e))[2] = IF formats[v].hdr THEN 0 ELSE 1
       /\ Score(formats, Candidate(e))[3] = v /\ Score(formats, Candidate(e))[4] = a
  BY <1>7, <1>8, <1>9, ScoreOfPair
<1>15. /\ Score(formats, Candidate(f))[1] = formats[w].height
       /\ Score(formats, Candidate(f))[2] = IF formats[w].hdr THEN 0 ELSE 1
       /\ Score(formats, Candidate(f))[3] = w /\ Score(formats, Candidate(f))[4] = b
  BY <1>2, <1>3, <1>9, ScoreOfPair
<1>16. /\ formats[w].height <= formats[v].height
       /\ formats[v].height \in Nat /\ formats[w].height \in Nat
  <2>1. formats \in SearchOffers BY DEF SearchTypeOK
  <2> QED BY <1>3, <1>8, <1>9, <2>1, SearchIsTyped DEF HeightsGrow, PictureAt, OfferOK
<1>17. ASSUME TargetHeight(request.mode) # 0, formats[v].height = formats[w].height, formats[v].hdr
       PROVE  formats[w].hdr
  <2> DEFINE fitting == {i \in DOMAIN formats : MeetsContract(formats[i], request.contract)
                                              /\ FitsHeight(formats[i], request.mode, request.contract)}
             sdr == {formats[i].height : i \in {j \in fitting : IsVideo(formats[j]) /\ ~formats[j].hdr}}
  <2>1. Considered(formats, request.mode, request.contract)
          = {i \in fitting : formats[i].hdr => formats[i].height \notin sdr}
    BY <1>17, Zenon DEF Considered
  <2>2. v \in fitting /\ w \in fitting /\ formats[v].height \notin sdr
    BY <1>17, <2>1 DEF Available
  <2> QED BY <1>3, <1>17, <2>2 DEF PictureAt
<1>18. v = w => b <= a
  <2> SUFFICES ASSUME v = w PROVE b <= a OBVIOUS
  <2>1. CASE IsAudio(formats[v]) BY <1>2, <1>7, <1>11, <2>1
  <2>2. CASE ~IsAudio(formats[v]) BY <1>2, <1>4, <1>7, <2>2
  <2> QED BY <2>1, <2>2
<1>19. NotWorse(Candidate(e), Candidate(f))
  <2>1. CASE TargetHeight(request.mode) = 0 BY <1>14, <1>15, <1>16, <2>1 DEF NotWorse
  <2>2. CASE TargetHeight(request.mode) # 0
    <3> DEFINE s == Score(formats, Candidate(e))
               t == Score(formats, Candidate(f))
    <3>1. formats[v].height = formats[w].height =>
            (IF formats[w].hdr THEN 0 ELSE 1) <= (IF formats[v].hdr THEN 0 ELSE 1)
      BY <1>17, <2>2
    <3>2. /\ s[1] \in Nat /\ s[2] \in Nat /\ t[1] \in Nat /\ t[2] \in Nat
          /\ t[1] <= s[1] /\ (t[1] = s[1] => t[2] <= s[2])
      BY <1>14, <1>15, <1>16, <3>1
    <3>3. t[3] <= s[3] /\ (t[3] = s[3] => t[4] <= s[4])
      BY <1>8, <1>14, <1>15, <1>18
    <3>4. s[3] \in Nat /\ s[4] \in Nat /\ t[3] \in Nat /\ t[4] \in Nat BY <1>11, <1>14, <1>15
    <3> HIDE DEF s, t
    <3>5. ~Higher(t, s) BY <3>2, <3>3, <3>4, HigherMeans
    <3> QED BY <2>2, <3>5 DEF NotWorse, s, t
  <2> QED BY <2>1, <2>2
<1> QED BY <1>12, <1>13, <1>19

(***************************************************************************)
(* What the search knows on its way.  The queue and what was visited are   *)
(* closed under the exclusions that a selection too big asks for, and hold *)
(* nothing else; the best so far is the highest of what was visited.       *)
(***************************************************************************)
Queued == {search.pending[n] : n \in DOMAIN search.pending}
Grown ==
  \A e \in Queued \union search.visited :
    e = {} \/ \E i \in e : /\ e \ {i} \in search.visited
                           /\ TooBig(e \ {i}) /\ i \in Candidate(e \ {i})
Expanded ==
  /\ {} \in Queued \union search.visited
  /\ \A e \in search.visited : NextOf(e) \subseteq Queued \union search.visited

Visited == {Candidate(e) : e \in search.visited}
WholeOnes == {s \in Visited : Complete(formats, s, request.mode)}
Fitting == {s \in WholeOnes : Fits(s)}
Unannounced == {s \in WholeOnes : KnownSize(formats, s) = 0}
Highest(s, S) ==
  IF S = {} THEN s = {}
  ELSE s \in S /\ \A t \in S : ~Higher(Score(formats, t), Score(formats, s))
BestSoFar ==
  /\ search.complete <=> WholeOnes # {}
  /\ Highest(search.best, Fitting)
  /\ Highest(search.unknown, Unannounced)

SearchInv == SearchTypeOK /\ Grown /\ Expanded /\ BestSoFar

\* The search starts with nothing left out.
LEMMA SearchInitially ==
  ASSUME SearchInit
  PROVE  SearchInv
<1>1. SearchTypeOK
  <2>1. <<{}>> \in Seq(SUBSET FormatId) OBVIOUS
  <2> QED BY <2>1 DEF SearchInit, SearchTypeOK
<1>2. Queued = {{}} /\ search.visited = {} BY DEF SearchInit, Queued
<1>3. Grown /\ Expanded BY <1>2 DEF Grown, Expanded
<1>4. WholeOnes = {} BY <1>2 DEF WholeOnes, Visited
<1>5. BestSoFar BY <1>4 DEF BestSoFar, Highest, Fitting, Unannounced, SearchInit
<1> QED BY <1>1, <1>3, <1>5 DEF SearchInv

\* The head of the queue and the rest of it.
LEMMA QueueParts ==
  ASSUME SearchTypeOK, search.pending # <<>>
  PROVE  /\ Head(search.pending) \in SUBSET FormatId /\ Head(search.pending) \in Queued
         /\ Tail(search.pending) \in Seq(SUBSET FormatId)
         /\ Queued = {Head(search.pending)}
                       \union {Tail(search.pending)[n] : n \in DOMAIN Tail(search.pending)}
<1> DEFINE q == search.pending
<1>1. q \in Seq(SUBSET FormatId) /\ q # <<>> BY DEF SearchTypeOK
<1> HIDE DEF q
<1>2. /\ Len(q) \in Nat /\ Len(q) >= 1 /\ DOMAIN q = 1..Len(q) /\ Head(q) = q[1]
      /\ Tail(q) \in Seq(SUBSET FormatId) /\ DOMAIN Tail(q) = 1..(Len(q) - 1)
      /\ \A n \in 1..(Len(q) - 1) : Tail(q)[n] = q[n + 1]
  BY <1>1
<1>3. 1 \in DOMAIN q /\ q[1] \in SUBSET FormatId BY <1>1, <1>2
<1>4. ASSUME NEW n \in DOMAIN q PROVE n = 1 \/ \E m \in DOMAIN Tail(q) : q[n] = Tail(q)[m]
  <2> SUFFICES ASSUME n # 1 PROVE \E m \in DOMAIN Tail(q) : q[n] = Tail(q)[m] OBVIOUS
  <2>1. n - 1 \in DOMAIN Tail(q) /\ (n - 1) + 1 = n BY <1>2
  <2> QED BY <1>2, <2>1
<1>5. ASSUME NEW m \in DOMAIN Tail(q) PROVE m + 1 \in DOMAIN q /\ Tail(q)[m] = q[m + 1]
  BY <1>2
<1>6. {q[n] : n \in DOMAIN q} = {Head(q)} \union {Tail(q)[n] : n \in DOMAIN Tail(q)}
  BY <1>2, <1>3, <1>4, <1>5
<1> QED BY <1>2, <1>3, <1>6 DEF Queued, q

\* A sequence of a finite set's elements holds each of them.
LEMMA SetToSeqHolds ==
  ASSUME NEW S, IsFiniteSet(S)
  PROVE  SetToSeq(S) \in Seq(S) /\ {SetToSeq(S)[n] : n \in DOMAIN SetToSeq(S)} = S
<1> DEFINE N == 1..Cardinality(S)
<1>1. Cardinality(S) \in Nat /\ ExistsBijection(N, S) BY FS_CardinalityType
<1>2. PICK g \in Bijection(N, S) : TRUE BY <1>1 DEF ExistsBijection
<1>3. g \in [N -> S] /\ IsInjective(g)
  BY <1>2 DEF Bijection, Injection, IsInjective
<1>4. SetToSeq(S) \in [N -> S] /\ IsInjective(SetToSeq(S)) BY <1>3, Zenon DEF SetToSeq
<1> DEFINE h == SetToSeq(S)
<1>5. \A x \in S : \E n \in N : h[n] = x
  <2>1. h \in Injection(N, S) BY <1>4 DEF Injection, IsInjective
  <2>2. IsFiniteSet(N) /\ Cardinality(N) = Cardinality(S)
    <3>1. 1 \in Int /\ Cardinality(S) \in Int BY <1>1
    <3> QED BY <1>1, <3>1, FS_Interval
  <2> HIDE DEF h, N
  <2>3. h \in Surjection(N, S) BY <2>1, <2>2, FS_Injection
  <2> QED BY <2>3 DEF Surjection
<1>6. h \in Seq(S) BY <1>1, <1>4
<1> HIDE DEF h
<1> QED BY <1>4, <1>5, <1>6 DEF h

\* Nothing that the search looks at changes under it.
LEMMA SameFormats ==
  ASSUME formats' = formats, request' = request, NEW e
  PROVE  /\ Candidate(e)' = Candidate(e) /\ Whole(e)' = Whole(e)
         /\ TooBig(e)' = TooBig(e) /\ NextOf(e)' = NextOf(e)
<1>1. Candidate(e)' = Candidate(e) BY DEF Candidate
<1>2. Whole(e)' = Whole(e) BY <1>1 DEF Whole
<1>3. TooBig(e)' = TooBig(e) BY <1>1, <1>2 DEF TooBig
<1> QED BY <1>1, <1>2, <1>3 DEF NextOf

\* To pass over what was tried changes nothing that the search knows.
LEMMA SkipStep ==
  ASSUME SearchInv, Skip
  PROVE  SearchInv'
<1>1. SearchTypeOK /\ Grown /\ Expanded /\ BestSoFar BY DEF SearchInv
<1>2. /\ search.pending # <<>> /\ Head(search.pending) \in search.visited
      /\ search' = [search EXCEPT !.pending = Tail(search.pending)]
      /\ formats' = formats /\ request' = request
  BY DEF Skip, Running
<1>3. /\ search'.pending = Tail(search.pending) /\ search'.visited = search.visited
      /\ search'.best = search.best /\ search'.unknown = search.unknown
      /\ search'.complete = search.complete
  BY <1>1, <1>2 DEF SearchTypeOK
<1>4. SearchTypeOK'
  <2>1. Tail(search.pending) \in Seq(SUBSET FormatId) BY <1>1, <1>2, QueueParts
  <2> QED BY <1>1, <1>2, <2>1 DEF SearchTypeOK
<1>5. (Queued \union search.visited)' = Queued \union search.visited
  <2>1. Queued = {Head(search.pending)}
                   \union {Tail(search.pending)[n] : n \in DOMAIN Tail(search.pending)}
    BY <1>1, <1>2, QueueParts
  <2>2. Queued' = {Tail(search.pending)[n] : n \in DOMAIN Tail(search.pending)}
    BY <1>3 DEF Queued
  <2> QED BY <1>2, <1>3, <2>1, <2>2
<1>6. Grown' BY <1>1, <1>2, <1>3, <1>5, SameFormats DEF Grown
<1>7. Expanded' BY <1>1, <1>2, <1>3, <1>5, SameFormats DEF Expanded
<1>8. BestSoFar'
  <2>1. Visited' = Visited BY <1>2, <1>3, SameFormats DEF Visited
  <2>2. WholeOnes' = WholeOnes BY <1>2, <2>1 DEF WholeOnes
  <2>3. Fitting' = Fitting /\ Unannounced' = Unannounced
    BY <1>2, <2>2 DEF Fitting, Unannounced, Fits
  <2> QED BY <1>1, <1>2, <1>3, <2>2, <2>3 DEF BestSoFar, Highest
<1> QED BY <1>4, <1>6, <1>7, <1>8 DEF SearchInv

\* What a turn does with the selection it finds.
LEMMA TryDoes ==
  ASSUME SearchTypeOK, Try, NEW e, e = Head(search.pending)
  PROVE  /\ search.pending # <<>> /\ e \notin search.visited
         /\ formats' = formats /\ request' = request
         /\ search' = [pending |-> Tail(search.pending)
                                     \o (IF TooBig(e) THEN SetToSeq(NextOf(e)) ELSE <<>>),
                       visited |-> search.visited \union {e},
                       best |-> IF Whole(e) /\ Fits(Candidate(e)) /\ Improves(Candidate(e), search.best)
                                THEN Candidate(e) ELSE search.best,
                       unknown |-> IF /\ Whole(e) /\ KnownSize(formats, Candidate(e)) = 0
                                      /\ Improves(Candidate(e), search.unknown)
                                   THEN Candidate(e) ELSE search.unknown,
                       complete |-> search.complete \/ Whole(e)]
<1> DEFINE found == Candidate(e)
           size == KnownSize(formats, found)
           tried == [search EXCEPT !.pending = Tail(search.pending), !.visited = search.visited \union {e}]
<1>1. size \in Nat /\ request.limit \in Nat
  <2>1. OfferOK(formats) /\ SizesOK(formats) /\ found \in SUBSET DOMAIN formats
    BY SearchIsTyped, CandidateIsAvailable
  <2> HIDE DEF found
  <2> QED BY <2>1, SizeIsKnown, SearchIsTyped
<1>2. /\ search.pending # <<>> /\ e \notin search.visited
      /\ formats' = formats /\ request' = request
      /\ search' =
          IF ~Complete(formats, found, request.mode) THEN tried
          ELSE IF size = 0
          THEN [tried EXCEPT !.complete = TRUE,
                             !.unknown = IF Improves(found, tried.unknown) THEN found ELSE tried.unknown]
          ELSE IF size <= request.limit
          THEN [tried EXCEPT !.complete = TRUE,
                             !.best = IF Improves(found, tried.best) THEN found ELSE tried.best]
          ELSE [tried EXCEPT !.complete = TRUE,
                             !.pending = tried.pending \o SetToSeq(Expand(e, found))]
  BY DEF Try, Running
<1>3. Tail(search.pending) \in Seq(SUBSET FormatId) BY <1>2, QueueParts
<1>4. Tail(search.pending) \o <<>> = Tail(search.pending) BY <1>3
<1>5. PICK p, V, b, u, c :
        /\ search = [pending |-> p, visited |-> V, best |-> b, unknown |-> u, complete |-> c]
        /\ c \in BOOLEAN
  BY DEF SearchTypeOK
<1>6. /\ search.pending = p /\ search.visited = V /\ search.best = b /\ search.unknown = u
      /\ search.complete = c
      /\ tried = [pending |-> Tail(p), visited |-> V \union {e}, best |-> b, unknown |-> u, complete |-> c]
  <2>1. /\ search.pending = p /\ search.visited = V /\ search.best = b /\ search.unknown = u
        /\ search.complete = c
    BY <1>5
  <2>2. tried = [search EXCEPT !.pending = Tail(p), !.visited = V \union {e}] BY <2>1
  <2> HIDE DEF tried
  <2>3. tried = [pending |-> Tail(p), visited |-> V \union {e}, best |-> b, unknown |-> u, complete |-> c]
    BY <1>5, <2>2
  <2> QED BY <2>1, <2>3
<1>7. (Whole(e) <=> Complete(formats, found, request.mode))
      /\ (TooBig(e) <=> Complete(formats, found, request.mode) /\ size > request.limit)
      /\ (Fits(found) <=> size # 0 /\ size <= request.limit)
  BY <1>1 DEF Whole, TooBig, Fits
<1>8. TooBig(e) => NextOf(e) = Expand(e, found) BY DEF NextOf, Expand
<1> HIDE DEF found, size, tried
<1>9. CASE ~Complete(formats, found, request.mode)
  <2>1. search' = tried /\ ~Whole(e) /\ ~TooBig(e) BY <1>2, <1>7, <1>9
  <2>2. (c \/ Whole(e)) = c BY <1>5, <2>1
  <2> QED BY <1>2, <1>4, <1>6, <2>1, <2>2
<1>10. CASE Complete(formats, found, request.mode) /\ size = 0
  <2>1. search' = [tried EXCEPT !.complete = TRUE,
                                !.unknown = IF Improves(found, u) THEN found ELSE u]
    BY <1>2, <1>6, <1>10
  <2>2. Whole(e) /\ ~TooBig(e) /\ ~Fits(found) BY <1>1, <1>7, <1>10
  <2> QED BY <1>2, <1>4, <1>6, <1>10, <2>1, <2>2 DEF found, size
<1>11. CASE Complete(formats, found, request.mode) /\ size # 0 /\ size <= request.limit
  <2>1. search' = [tried EXCEPT !.complete = TRUE,
                                !.best = IF Improves(found, b) THEN found ELSE b]
    BY <1>2, <1>6, <1>11
  <2>2. Whole(e) /\ ~TooBig(e) /\ Fits(found) BY <1>1, <1>7, <1>11
  <2> QED BY <1>2, <1>4, <1>6, <1>11, <2>1, <2>2 DEF found, size
<1>12. CASE Complete(formats, found, request.mode) /\ size # 0 /\ size > request.limit
  <2>1. search' = [tried EXCEPT !.complete = TRUE, !.pending = Tail(p) \o SetToSeq(NextOf(e))]
    <3>1. tried.pending = Tail(p) /\ ~(size <= request.limit) /\ TooBig(e) BY <1>1, <1>6, <1>7, <1>12
    <3> QED BY <1>2, <1>8, <1>12, <3>1
  <2>2. Whole(e) /\ TooBig(e) /\ ~Fits(found) BY <1>1, <1>7, <1>12
  <2> QED BY <1>2, <1>6, <1>12, <2>1, <2>2 DEF found, size
<1> QED BY <1>1, <1>2, <1>9, <1>10, <1>11, <1>12

\* Of a set that grew by one selection the highest is that one or the highest before.
LEMMA HighestGrows ==
  ASSUME SearchTypeOK, NEW S \in SUBSET (SUBSET DOMAIN formats), {} \notin S,
         NEW s \in SUBSET DOMAIN formats, s # {}, NEW b, Highest(b, S)
  PROVE  Highest(IF Improves(s, b) THEN s ELSE b, S \union {s})
<1> DEFINE score(x) == Score(formats, x)
<1>1. ASSUME NEW x \in S \union {s}, NEW y \in S \union {s}, NEW z \in S \union {s}
      PROVE  /\ ~Higher(score(x), score(x))
             /\ ~Higher(score(x), score(y)) /\ Higher(score(z), score(y)) => Higher(score(z), score(x))
             /\ Higher(score(x), score(y)) /\ Higher(score(y), score(z)) => Higher(score(x), score(z))
  <2>1. OfferOK(formats) BY SearchIsTyped
  <2>2. 1..4 = {1, 2, 3, 4} OBVIOUS
  <2>3. \A n \in 1..4 : score(x)[n] \in Nat /\ score(y)[n] \in Nat /\ score(z)[n] \in Nat
    BY <2>1, <2>2, ScoreIsNatural
  <2> HIDE DEF score
  <2> QED BY <2>3, HigherOrders
<1>2. CASE S = {} BY <1>1, <1>2 DEF Highest, Improves
<1>3. CASE S # {}
  <2>1. b \in S /\ b # {} /\ \A t \in S : ~Higher(score(t), score(b)) BY <1>3 DEF Highest
  <2>2. Improves(s, b) <=> Higher(score(s), score(b)) BY <2>1 DEF Improves
  <2> HIDE DEF score
  <2>3. CASE Higher(score(s), score(b))
    <3>1. \A t \in S : ~Higher(score(t), score(s)) BY <1>1, <2>1, <2>3
    <3>2. ~Higher(score(s), score(s)) BY <1>1
    <3> QED BY <2>2, <2>3, <3>1, <3>2 DEF Highest, score
  <2>4. CASE ~Higher(score(s), score(b))
    <3> QED BY <2>1, <2>2, <2>4 DEF Highest, score
  <2> QED BY <2>3, <2>4
<1> QED BY <1>2, <1>3

\* What was visited is made of formats, and no whole selection is empty.
LEMMA WholeOnesAreSelections ==
  ASSUME SearchTypeOK
  PROVE  WholeOnes \in SUBSET (SUBSET DOMAIN formats) /\ {} \notin WholeOnes
<1>1. \A e : Candidate(e) \in SUBSET DOMAIN formats BY CandidateIsAvailable
<1> QED BY <1>1 DEF WholeOnes, Visited, Complete

\* A turn keeps what the search knows: it visits one more set of exclusions.
LEMMA TryStep ==
  ASSUME SearchInv, Try
  PROVE  SearchInv'
<1> DEFINE e == Head(search.pending)
           found == Candidate(e)
           more == IF TooBig(e) THEN SetToSeq(NextOf(e)) ELSE <<>>
<1>1. SearchTypeOK /\ Grown /\ Expanded /\ BestSoFar BY DEF SearchInv
<1>2. /\ search.pending # <<>> /\ e \notin search.visited
      /\ formats' = formats /\ request' = request
      /\ search'.pending = Tail(search.pending) \o more
      /\ search'.visited = search.visited \union {e}
      /\ search'.best = IF Whole(e) /\ Fits(found) /\ Improves(found, search.best)
                        THEN found ELSE search.best
      /\ search'.unknown = IF Whole(e) /\ KnownSize(formats, found) = 0 /\ Improves(found, search.unknown)
                           THEN found ELSE search.unknown
      /\ search'.complete = (search.complete \/ Whole(e))
      /\ \E p, V, b, u, c :
           search' = [pending |-> p, visited |-> V, best |-> b, unknown |-> u, complete |-> c]
  <2>1. /\ search.pending # <<>> /\ e \notin search.visited
        /\ formats' = formats /\ request' = request
        /\ search' = [pending |-> Tail(search.pending) \o more,
                      visited |-> search.visited \union {e},
                      best |-> IF Whole(e) /\ Fits(found) /\ Improves(found, search.best)
                               THEN found ELSE search.best,
                      unknown |-> IF /\ Whole(e) /\ KnownSize(formats, found) = 0
                                     /\ Improves(found, search.unknown)
                                  THEN found ELSE search.unknown,
                      complete |-> search.complete \/ Whole(e)]
    BY <1>1, TryDoes
  <2> HIDE DEF e, found, more
  <2> QED BY <2>1
<1>3. /\ e \in SUBSET FormatId /\ e \in Queued /\ Tail(search.pending) \in Seq(SUBSET FormatId)
      /\ Queued = {e} \union {Tail(search.pending)[n] : n \in DOMAIN Tail(search.pending)}
  BY <1>1, <1>2, QueueParts
<1>4. found \subseteq (DOMAIN formats) \ e /\ found \in SUBSET DOMAIN formats /\ found \in SUBSET FormatId
  BY <1>1, CandidateIsAvailable
<1> DEFINE next == NextOf(e)
<1>5. /\ next \in SUBSET (SUBSET FormatId)
      /\ more \in Seq(SUBSET FormatId) /\ {more[n] : n \in DOMAIN more} = next
  <2>1. next \in SUBSET (SUBSET FormatId) BY <1>3, <1>4 DEF NextOf
  <2>2. IsFiniteSet(next)
    <3>1. IsFiniteSet(SUBSET FormatId) BY FormatAssumption, FS_SUBSET
    <3> HIDE DEF next
    <3> QED BY <2>1, <3>1, FS_Subset
  <2>3. ~TooBig(e) => next = {} /\ more = <<>> BY DEF NextOf
  <2> HIDE DEF next
  <2>4. SetToSeq(next) \in Seq(next) /\ {SetToSeq(next)[n] : n \in DOMAIN SetToSeq(next)} = next
    BY <2>2, SetToSeqHolds
  <2>5. CASE TooBig(e)
    <3>1. more = SetToSeq(next) BY <2>5 DEF next
    <3> HIDE DEF more
    <3> QED BY <2>1, <2>4, <3>1
  <2>6. CASE ~TooBig(e) BY <2>1, <2>3, <2>6
  <2> QED BY <2>5, <2>6
<1> HIDE DEF more, next, e
<1>6. SearchTypeOK'
  <2>1. search'.pending \in Seq(SUBSET FormatId)
    <3>1. \A q, m \in Seq(SUBSET FormatId) : q \o m \in Seq(SUBSET FormatId) OBVIOUS
    <3>2. search'.pending = Tail(search.pending) \o more BY <1>2
    <3> QED BY <1>3, <1>5, <3>1, <3>2
  <2>2. search'.visited \in SUBSET (SUBSET FormatId) BY <1>1, <1>2, <1>3 DEF SearchTypeOK
  <2>3. search'.best \in SUBSET FormatId /\ search'.unknown \in SUBSET FormatId
    BY <1>1, <1>2, <1>4 DEF SearchTypeOK
  <2>4. search'.complete \in BOOLEAN BY <1>2
  <2>5. formats' \in SearchOffers /\ request' \in Requests BY <1>1, <1>2 DEF SearchTypeOK
  <2> QED BY <1>2, <2>1, <2>2, <2>3, <2>4, <2>5 DEF SearchTypeOK
<1>7. Queued' = {Tail(search.pending)[n] : n \in DOMAIN Tail(search.pending)} \union next
  <2> DEFINE q == Tail(search.pending)
  <2>1. q \in Seq(SUBSET FormatId) /\ more \in Seq(SUBSET FormatId) BY <1>3, <1>5
  <2> HIDE DEF q
  <2>2. /\ DOMAIN (q \o more) = 1..(Len(q) + Len(more)) /\ Len(q) \in Nat /\ Len(more) \in Nat
        /\ DOMAIN q = 1..Len(q) /\ DOMAIN more = 1..Len(more)
        /\ \A n \in 1..Len(q) : (q \o more)[n] = q[n]
        /\ \A n \in 1..Len(more) : (q \o more)[Len(q) + n] = more[n]
    BY <2>1
  <2>3. ASSUME NEW n \in DOMAIN (q \o more)
        PROVE  \/ n \in DOMAIN q /\ (q \o more)[n] = q[n]
               \/ \E m \in DOMAIN more : (q \o more)[n] = more[m]
    <3>1. CASE n <= Len(q) BY <2>2, <3>1
    <3>2. CASE n > Len(q)
      <4>1. n - Len(q) \in DOMAIN more /\ Len(q) + (n - Len(q)) = n BY <2>2, <3>2
      <4> QED BY <2>2, <4>1
    <3> QED BY <2>2, <3>1, <3>2
  <2>4. \A m \in DOMAIN q : m \in DOMAIN (q \o more) BY <2>2
  <2>5. \A m \in DOMAIN more : Len(q) + m \in DOMAIN (q \o more) BY <2>2
  <2>6. {(q \o more)[n] : n \in DOMAIN (q \o more)}
          = {q[n] : n \in DOMAIN q} \union {more[n] : n \in DOMAIN more}
    BY <2>2, <2>3, <2>4, <2>5
  <2>7. Queued' = {(q \o more)[n] : n \in DOMAIN (q \o more)} BY <1>2 DEF Queued, q
  <2> QED BY <1>5, <2>6, <2>7 DEF q
<1>8. (Queued \union search.visited)' = (Queued \union search.visited) \union next
  BY <1>2, <1>3, <1>7
<1>9. Grown'
  <2>1. ASSUME NEW f \in next
        PROVE  \E i \in f : f \ {i} = e /\ TooBig(e) /\ i \in Candidate(e)
    <3>1. PICK i \in Candidate(e) : TooBig(e) /\ f = e \union {i} BY <2>1 DEF next, NextOf
    <3>2. i \notin e BY <1>4, <3>1
    <3> QED BY <3>1, <3>2
  <2>2. ASSUME NEW f \in Queued \union search.visited, f # {}
        PROVE  \E i \in f : /\ f \ {i} \in search'.visited
                            /\ TooBig(f \ {i}) /\ i \in Candidate(f \ {i})
    BY <1>1, <1>2, <2>2 DEF Grown
  <2>3. ASSUME NEW f \in next
        PROVE  \E i \in f : /\ f \ {i} \in search'.visited
                            /\ TooBig(f \ {i}) /\ i \in Candidate(f \ {i})
    <3>1. PICK i \in f : f \ {i} = e /\ TooBig(e) /\ i \in Candidate(e) BY <2>1
    <3>2. e \in search'.visited BY <1>2
    <3> QED BY <3>1, <3>2
  <2>4. \A f \in (Queued \union search.visited)' : f # {} =>
          \E i \in f : /\ f \ {i} \in search'.visited
                       /\ TooBig(f \ {i}) /\ i \in Candidate(f \ {i})
    BY <1>8, <2>2, <2>3
  <2>5. ASSUME NEW f \in (Queued \union search.visited)', f # {}
        PROVE  \E i \in f : /\ f \ {i} \in search'.visited
                            /\ TooBig(f \ {i})' /\ i \in Candidate(f \ {i})'
    <3>1. PICK i \in f : /\ f \ {i} \in search'.visited
                         /\ TooBig(f \ {i}) /\ i \in Candidate(f \ {i})
      BY <2>4, <2>5
    <3>2. TooBig(f \ {i})' = TooBig(f \ {i}) /\ Candidate(f \ {i})' = Candidate(f \ {i})
      BY <1>2, SameFormats
    <3> QED BY <3>1, <3>2
  <2> QED BY <2>5, Zenon DEF Grown
<1>10. Expanded'
  <2>1. \A f \in search.visited : NextOf(f) \subseteq Queued \union search.visited
    BY <1>1 DEF Expanded
  <2>2. \A f \in search'.visited : NextOf(f) \subseteq (Queued \union search.visited)'
    BY <1>2, <1>8, <2>1 DEF next
  <2>3. {} \in (Queued \union search.visited)' BY <1>1, <1>8 DEF Expanded
  <2> QED BY <1>2, <2>2, <2>3, SameFormats DEF Expanded
<1>11. BestSoFar'
  <2>1. Visited' = Visited \union {found}
    BY <1>2, SameFormats DEF Visited
  <2>2. WholeOnes' = IF Whole(e) THEN WholeOnes \union {found} ELSE WholeOnes
    BY <1>2, <2>1 DEF WholeOnes, Whole
  <2>3. Fitting' = IF Whole(e) /\ Fits(found) THEN Fitting \union {found} ELSE Fitting
    BY <1>2, <2>2 DEF Fitting, Fits
  <2>4. Unannounced' = IF Whole(e) /\ KnownSize(formats, found) = 0
                       THEN Unannounced \union {found} ELSE Unannounced
    BY <1>2, <2>2 DEF Unannounced
  <2>5. search'.complete <=> WholeOnes' # {} BY <1>1, <1>2, <2>2 DEF BestSoFar
  <2>6. ASSUME Whole(e), NEW S, S \subseteq WholeOnes, NEW b, Highest(b, S)
        PROVE  Highest(IF Improves(found, b) THEN found ELSE b, S \union {found})
    <3>1. S \in SUBSET (SUBSET DOMAIN formats) /\ {} \notin S
      BY <1>1, <2>6, WholeOnesAreSelections
    <3>2. found # {} BY <2>6 DEF Whole, Complete
    <3> HIDE DEF found
    <3> QED BY <1>1, <1>4, <2>6, <3>1, <3>2, HighestGrows
  <2> HIDE DEF found
  <2>7. Highest(search'.best, Fitting')
    <3>1. Fitting \subseteq WholeOnes /\ Highest(search.best, Fitting)
      BY <1>1 DEF BestSoFar, Fitting
    <3>2. CASE Whole(e) /\ Fits(found)
      <4>1. search'.best = IF Improves(found, search.best) THEN found ELSE search.best BY <1>2, <3>2
      <4>2. Fitting' = Fitting \union {found} BY <2>3, <3>2
      <4> QED BY <2>6, <3>1, <3>2, <4>1, <4>2
    <3>3. CASE ~(Whole(e) /\ Fits(found))
      <4>1. search'.best = search.best /\ Fitting' = Fitting BY <1>2, <2>3, <3>3
      <4> QED BY <3>1, <4>1
    <3> QED BY <3>2, <3>3
  <2>8. Highest(search'.unknown, Unannounced')
    <3>1. Unannounced \subseteq WholeOnes /\ Highest(search.unknown, Unannounced)
      BY <1>1 DEF BestSoFar, Unannounced
    <3>2. CASE Whole(e) /\ KnownSize(formats, found) = 0
      <4>1. search'.unknown = IF Improves(found, search.unknown) THEN found ELSE search.unknown
        BY <1>2, <3>2
      <4>2. Unannounced' = Unannounced \union {found} BY <2>4, <3>2
      <4> QED BY <2>6, <3>1, <3>2, <4>1, <4>2
    <3>3. CASE ~(Whole(e) /\ KnownSize(formats, found) = 0)
      <4>1. search'.unknown = search.unknown /\ Unannounced' = Unannounced BY <1>2, <2>4, <3>3
      <4> QED BY <3>1, <4>1
    <3> QED BY <3>2, <3>3
  <2>9. (Highest(search.best, Fitting))' BY <1>2, <2>7 DEF Highest
  <2>10. (Highest(search.unknown, Unannounced))' BY <1>2, <2>8 DEF Highest
  <2> QED BY <2>5, <2>9, <2>10 DEF BestSoFar
<1> QED BY <1>6, <1>9, <1>10, <1>11 DEF SearchInv

\* The queue and the best so far, at every moment of a search.
THEOREM SearchInvariant == SearchSpec => []SearchInv
<1>1. SearchInit => SearchInv BY SearchInitially
<1>2. SearchInv /\ [SearchNext]_searchVars => SearchInv'
  <2> SUFFICES ASSUME SearchInv, [SearchNext]_searchVars PROVE SearchInv' OBVIOUS
  <2>1. CASE Skip BY <2>1, SkipStep
  <2>2. CASE Try BY <2>2, TryStep
  <2>3. CASE UNCHANGED searchVars
    <3>1. formats' = formats /\ request' = request /\ search' = search BY <2>3 DEF searchVars
    <3>2. SearchTypeOK' /\ Queued' = Queued BY <3>1 DEF SearchInv, SearchTypeOK, Queued
    <3>3. Grown' /\ Expanded' BY <3>1, <3>2, SameFormats DEF SearchInv, Grown, Expanded
    <3>4. Visited' = Visited BY <3>1, SameFormats DEF Visited
    <3>5. WholeOnes' = WholeOnes BY <3>1, <3>4 DEF WholeOnes
    <3>6. Fitting' = Fitting /\ Unannounced' = Unannounced
      BY <3>1, <3>5 DEF Fitting, Unannounced, Fits
    <3>7. BestSoFar' BY <3>1, <3>5, <3>6 DEF SearchInv, BestSoFar, Highest
    <3> QED BY <3>2, <3>3, <3>7 DEF SearchInv
  <2> QED BY <2>1, <2>2, <2>3 DEF SearchNext
<1> QED BY <1>1, <1>2, PTL DEF SearchSpec

(***************************************************************************)
(* At the end of the search: the exclusions that were visited are those of *)
(* Reachable, and the best so far is what Selected says.                   *)
(***************************************************************************)
Exhausted == Queued \subseteq search.visited

\* A set of exclusions from which n rounds of expansion lead on.
RoundsFrom(f, n) ==
  /\ f[0] = {{}}
  /\ \A k \in 1..n : f[k] = f[k - 1] \union UNION {NextOf(e) : e \in f[k - 1]}

\* There are as many rounds as one likes.
LEMMA RoundsExist ==
  ASSUME NEW n \in Nat
  PROVE  \E f : RoundsFrom(f, n) /\ f = [k \in 0..n |-> f[k]]
<1> DEFINE Upto(m) == \E f : RoundsFrom(f, m) /\ f = [k \in 0..m |-> f[k]]
           T == {m \in Nat : ~Upto(m)}
<1>1. Upto(0)
  <2> DEFINE g == [k \in 0..0 |-> {{}}]
  <2>1. g[0] = {{}} /\ g = [k \in 0..0 |-> g[k]] OBVIOUS
  <2>2. \A k \in 1..0 : FALSE OBVIOUS
  <2> HIDE DEF g
  <2> QED BY <2>1, <2>2 DEF RoundsFrom
<1>2. ASSUME NEW m \in Nat, Upto(m) PROVE Upto(m + 1)
  <2>1. PICK f : RoundsFrom(f, m) /\ f = [k \in 0..m |-> f[k]] BY <1>2
  <2> DEFINE last == f[m] \union UNION {NextOf(e) : e \in f[m]}
             g == [k \in 0..(m + 1) |-> IF k = m + 1 THEN last ELSE f[k]]
  <2>2. g[m + 1] = last /\ g[m] = f[m] /\ g[0] = f[0] /\ g = [k \in 0..(m + 1) |-> g[k]] OBVIOUS
  <2>3. ASSUME NEW k \in 1..(m + 1)
        PROVE  g[k] = g[k - 1] \union UNION {NextOf(e) : e \in g[k - 1]}
    <3>1. CASE k = m + 1
      <4>1. k - 1 = m BY <3>1
      <4> HIDE DEF g
      <4> QED BY <2>2, <3>1, <4>1
    <3>2. CASE k # m + 1
      <4>1. k \in 1..m /\ g[k] = f[k] /\ g[k - 1] = f[k - 1] BY <3>2
      <4> HIDE DEF g
      <4> QED BY <2>1, <4>1 DEF RoundsFrom
    <3> QED BY <3>1, <3>2
  <2> HIDE DEF g
  <2>4. RoundsFrom(g, m + 1)
    <3>1. g[0] = {{}} BY <2>1, <2>2 DEF RoundsFrom
    <3> QED BY <2>3, <3>1 DEF RoundsFrom
  <2> QED BY <2>2, <2>4
<1> HIDE DEF Upto
<1>3. T = {}
  <2> SUFFICES ASSUME T # {} PROVE FALSE OBVIOUS
  <2>1. PICK m \in T : \A k \in T : m <= k
    <3>1. T \in SUBSET Nat OBVIOUS
    <3> HIDE DEF T
    <3> QED BY <3>1, LeastNumber
  <2>2. m # 0 /\ m \in Nat BY <1>1
  <2>3. m - 1 \in Nat /\ m - 1 \notin T BY <2>1, <2>2
  <2>4. Upto((m - 1) + 1) BY <1>2, <2>3
  <2> QED BY <2>2, <2>4
<1> QED BY <1>3 DEF Upto

\* Reachable goes as many rounds as there are formats.
LEMMA ReachableRounds ==
  \E f : /\ RoundsFrom(f, Cardinality(FormatId))
         /\ Reachable(formats, request.selector, request.mode, request.contract, request.limit)
              = {Candidate(e) : e \in f[Cardinality(FormatId)]}
<1> DEFINE N == Cardinality(FormatId)
           Rounds(f) == [n \in 0..N |-> IF n = 0 THEN {{}}
                                        ELSE f[n - 1] \union UNION {NextOf(e) : e \in f[n - 1]}]
           Round == CHOOSE f : f = Rounds(f)
<1>1. N \in Nat BY FormatAssumption, FS_CardinalityType
<1>2. Reachable(formats, request.selector, request.mode, request.contract, request.limit)
        = {Candidate(e) : e \in Round[N]}
  BY Zenon DEF Reachable, Candidate, NextOf, TooBig, Whole
<1> HIDE DEF N
<1>3. PICK f : RoundsFrom(f, N) /\ f = [k \in 0..N |-> f[k]] BY <1>1, RoundsExist
<1>4. f = Rounds(f)
  <2>1. \A k \in 0..N : k = 0 \/ k \in 1..N BY <1>1
  <2>2. \A k \in 0..N : f[k] = IF k = 0 THEN {{}} ELSE f[k - 1] \union UNION {NextOf(e) : e \in f[k - 1]}
    BY <1>3, <2>1 DEF RoundsFrom
  <2>3. Rounds(f) = [k \in 0..N |-> f[k]] BY <2>2
  <2> HIDE DEF Rounds
  <2> QED BY <1>3, <2>3
<1>5. Round = Rounds(Round) BY <1>4, Zenon
<1> HIDE DEF Round
<1>6. RoundsFrom(Round, N)
  <2>1. 0 \in 0..N /\ \A k \in 1..N : k \in 0..N /\ k # 0 BY <1>1
  <2> QED BY <1>5, <2>1 DEF RoundsFrom
<1> QED BY <1>2, <1>6 DEF N

\* Those are the exclusions that were visited.
LEMMA VisitedIsReachable ==
  ASSUME SearchInv, Exhausted
  PROVE  Reachable(formats, request.selector, request.mode, request.contract, request.limit) = Visited
<1> DEFINE N == Cardinality(FormatId)
<1>1. SearchTypeOK /\ Grown /\ Expanded BY DEF SearchInv
<1>2. N \in Nat BY FormatAssumption, FS_CardinalityType
<1>3. PICK f : /\ RoundsFrom(f, N)
               /\ Reachable(formats, request.selector, request.mode, request.contract, request.limit)
                    = {Candidate(e) : e \in f[N]}
  BY ReachableRounds
<1>4. \A e \in search.visited : IsFiniteSet(e) /\ Cardinality(e) \in 0..N
  <2>1. ASSUME NEW e \in SUBSET FormatId PROVE IsFiniteSet(e) /\ Cardinality(e) \in 0..N
    <3>1. IsFiniteSet(e) /\ Cardinality(e) <= N BY FormatAssumption, FS_Subset
    <3>2. Cardinality(e) \in Nat BY <3>1, FS_CardinalityType
    <3> QED BY <1>2, <3>1, <3>2
  <2> QED BY <1>1, <2>1 DEF SearchTypeOK
<1>5. {} \in search.visited /\ \A e \in search.visited : NextOf(e) \subseteq search.visited
  BY <1>1 DEF Expanded, Exhausted
<1>6. ASSUME NEW e \in search.visited, e # {}
      PROVE  \E i \in e : e \ {i} \in search.visited /\ e \in NextOf(e \ {i})
  <2>1. PICK i \in e : e \ {i} \in search.visited /\ TooBig(e \ {i}) /\ i \in Candidate(e \ {i})
    BY <1>1, <1>6 DEF Grown
  <2>2. e = (e \ {i}) \union {i} OBVIOUS
  <2> QED BY <2>1, <2>2 DEF NextOf
<1> HIDE DEF N
<1>7. \A k \in 1..N : f[k] = f[k - 1] \union UNION {NextOf(e) : e \in f[k - 1]}
  BY <1>3 DEF RoundsFrom
<1>8. f[0] = {{}} BY <1>3 DEF RoundsFrom
<1>9. \A k \in 0..N : f[k] \subseteq search.visited
  <2> DEFINE T == {k \in 0..N : ~(f[k] \subseteq search.visited)}
  <2> SUFFICES ASSUME T # {} PROVE FALSE OBVIOUS
  <2>1. PICK k \in T : \A m \in T : k <= m
    <3>1. T \in SUBSET Nat BY <1>2
    <3> HIDE DEF T
    <3> QED BY <3>1, LeastNumber
  <2>2. k # 0 BY <1>5, <1>8
  <2>3. k \in 1..N /\ k - 1 \in 0..N /\ k - 1 \notin T BY <1>2, <2>1, <2>2
  <2>4. f[k - 1] \subseteq search.visited BY <2>3
  <2>5. f[k] \subseteq search.visited BY <1>5, <1>7, <2>3, <2>4
  <2> QED BY <2>5
<1>10. \A m \in 0..N : f[m] \subseteq f[N]
  <2> DEFINE T == {k \in 0..N : ~(f[N - k] \subseteq f[N])}
  <2>1. T = {}
    <3> SUFFICES ASSUME T # {} PROVE FALSE OBVIOUS
    <3>1. PICK k \in T : \A m \in T : k <= m
      <4>1. T \in SUBSET Nat BY <1>2
      <4> HIDE DEF T
      <4> QED BY <4>1, LeastNumber
    <3>2. k # 0
      <4>1. N - 0 = N BY <1>2
      <4> QED BY <4>1
    <3>3. k - 1 \in 0..N /\ k - 1 \notin T /\ N - (k - 1) \in 1..N /\ (N - (k - 1)) - 1 = N - k
      BY <1>2, <3>1, <3>2
    <3>4. f[N - (k - 1)] \subseteq f[N] BY <3>3
    <3>5. f[N - k] \subseteq f[N - (k - 1)] BY <1>7, <3>3
    <3> QED BY <3>4, <3>5
  <2>2. ASSUME NEW m \in 0..N PROVE f[m] \subseteq f[N]
    <3>1. N - m \in 0..N /\ N - (N - m) = m BY <1>2
    <3>2. f[N - (N - m)] \subseteq f[N]
      <4>1. N - m \notin T
        <5> HIDE DEF T
        <5> QED BY <2>1
      <4> QED BY <3>1, <4>1
    <3> QED BY <3>1, <3>2
  <2> QED BY <2>2
<1>11. \A e \in search.visited : e \in f[Cardinality(e)]
  <2> DEFINE bad == {e \in search.visited : e \notin f[Cardinality(e)]}
             T == {Cardinality(e) : e \in bad}
  <2> SUFFICES ASSUME T # {} PROVE FALSE OBVIOUS
  <2>1. PICK n \in T : \A m \in T : n <= m
    <3>1. T \in SUBSET Nat BY <1>2, <1>4
    <3> HIDE DEF T
    <3> QED BY <3>1, LeastNumber
  <2>2. PICK e \in bad : n = Cardinality(e) BY <2>1
  <2>3. e # {}
    <3>1. Cardinality({}) = 0 BY FS_EmptySet
    <3> QED BY <1>8, <2>2, <3>1
  <2>4. PICK i \in e : e \ {i} \in search.visited /\ e \in NextOf(e \ {i}) BY <1>6, <2>2, <2>3
  <2>5. Cardinality(e \ {i}) = n - 1 /\ n \in 0..N
    <3>1. IsFiniteSet(e) /\ Cardinality(e) \in 0..N BY <1>4, <2>2
    <3> QED BY <2>2, <3>1, FS_RemoveElement
  <2>6. e \ {i} \in f[n - 1]
    <3>1. ~(n <= n - 1) BY <1>2, <2>5
    <3>2. n - 1 \notin T BY <2>1, <3>1
    <3>3. e \ {i} \notin bad BY <2>5, <3>2
    <3> QED BY <2>4, <2>5, <3>3
  <2>7. n \in 1..N
    <3>1. Cardinality(e \ {i}) \in 0..N BY <1>4, <2>4
    <3> QED BY <1>2, <2>5, <3>1
  <2>8. e \in f[n] BY <1>7, <2>4, <2>6, <2>7
  <2> QED BY <2>2, <2>8
<1>12. f[N] = search.visited
  <2>1. N \in 0..N BY <1>2
  <2> QED BY <1>4, <1>9, <1>10, <1>11, <2>1
<1> QED BY <1>3, <1>12 DEF Visited, N

\* The best of a set of whole selections is the one that none of them scores above.
LEMMA BestIsHighest ==
  ASSUME SearchTypeOK, NEW S \in SUBSET WholeOnes, S # {}, NEW b, Highest(b, S)
  PROVE  BestOf(formats, S) = b
<1> DEFINE score(x) == Score(formats, x)
           Top(s) == \A t \in S : ~Higher(score(t), score(s))
<1>1. b \in S /\ Top(b) BY DEF Highest
<1>2. ASSUME NEW s \in S, Top(s) PROVE s = b
  <2>1. OfferOK(formats) /\ s \in SUBSET DOMAIN formats /\ b \in SUBSET DOMAIN formats
    BY <1>1, SearchIsTyped, WholeOnesAreSelections
  <2>2. 1..4 = {1, 2, 3, 4} OBVIOUS
  <2>3. \A n \in 1..4 : score(s)[n] \in Nat /\ score(b)[n] \in Nat
    BY <2>1, <2>2, ScoreIsNatural
  <2>4. ~Higher(score(s), score(b)) /\ ~Higher(score(b), score(s)) BY <1>1, <1>2
  <2> HIDE DEF score
  <2>5. \A n \in 1..4 : score(s)[n] = score(b)[n] BY <2>3, <2>4, HigherOrders
  <2>6. PICK e \in search.visited : s = Candidate(e) BY DEF WholeOnes, Visited
  <2>7. PICK f \in search.visited : b = Candidate(f) BY <1>1 DEF WholeOnes, Visited
  <2>8. s # {} /\ b # {} BY <1>1, WholeOnesAreSelections
  <2> QED BY <2>5, <2>6, <2>7, <2>8, ScoreTells DEF score
<1>3. BestOf(formats, S) = CHOOSE s \in S : Top(s) BY Zenon DEF BestOf
<1> HIDE DEF Top
<1>4. (CHOOSE s \in S : Top(s)) \in S /\ Top(CHOOSE s \in S : Top(s)) BY <1>1, Zenon
<1> QED BY <1>2, <1>3, <1>4

\* What the loop yields is what Selected says.
LEMMA ResultIsSelected ==
  ASSUME SearchInv, Exhausted
  PROVE  Result = Selected(formats, request.selector, request.mode, request.contract, request.limit)
<1>1. SearchTypeOK /\ BestSoFar BY DEF SearchInv
<1> DEFINE selected == Selected(formats, request.selector, request.mode, request.contract, request.limit)
           reason == IF WholeOnes = {} \/ request.contract # AnyContract THEN "unavailable" ELSE "too_large"
<1>2. selected = CASE Fitting # {} -> Outcome("found", BestOf(formats, Fitting))
                   [] Fitting = {} /\ Unannounced # {} -> Outcome("found", BestOf(formats, Unannounced))
                   [] Fitting \union Unannounced = {} -> Outcome(reason, {})
  BY VisitedIsReachable, Zenon DEF Selected, BestWithin, Fitting, Unannounced, WholeOnes, Fits
<1>3. Fitting \in SUBSET WholeOnes /\ Unannounced \in SUBSET WholeOnes BY DEF Fitting, Unannounced
<1>4. {} \notin WholeOnes BY <1>1, WholeOnesAreSelections
<1>5. Highest(search.best, Fitting) /\ Highest(search.unknown, Unannounced) BY <1>1 DEF BestSoFar
<1> HIDE DEF selected
<1>6. CASE Fitting # {}
  <2>1. BestOf(formats, Fitting) = search.best BY <1>1, <1>3, <1>5, <1>6, BestIsHighest
  <2>2. search.best # {} BY <1>3, <1>4, <1>5, <1>6 DEF Highest
  <2>3. selected = Outcome("found", search.best) BY <1>2, <1>6, <2>1
  <2> QED BY <2>2, <2>3 DEF Result, Outcome, selected
<1>7. CASE Fitting = {} /\ Unannounced # {}
  <2>1. BestOf(formats, Unannounced) = search.unknown BY <1>1, <1>3, <1>5, <1>7, BestIsHighest
  <2>2. search.best = {} /\ search.unknown # {} BY <1>3, <1>4, <1>5, <1>7 DEF Highest
  <2>3. selected = Outcome("found", search.unknown) BY <1>2, <1>7, <2>1
  <2> QED BY <2>2, <2>3 DEF Result, Outcome, selected
<1>8. CASE Fitting = {} /\ Unannounced = {}
  <2>1. search.best = {} /\ search.unknown = {} BY <1>5, <1>8 DEF Highest
  <2>2. search.complete <=> WholeOnes # {} BY <1>1 DEF BestSoFar
  <2>3. selected = Outcome(reason, {}) BY <1>2, <1>8
  <2> QED BY <2>1, <2>2, <2>3 DEF Result, Outcome, selected
<1> QED BY <1>6, <1>7, <1>8

\* Where every size is announced, for every selection that fits there is one that was
\* visited, fits and is no worse: an exclusion that leaves the selection whole and cannot
\* grow further.
LEMMA FittingIsMatched ==
  ASSUME SearchInv, Exhausted, HeightsGrow, \A i \in DOMAIN formats : formats[i].size # 0,
         NEW s \in Producible, Fits(s)
  PROVE  \E t \in Fitting : NotWorse(t, s)
<1>1. SearchTypeOK /\ Expanded BY DEF SearchInv
<1>2. PICK g \in SUBSET DOMAIN formats : s = Candidate(g) /\ Whole(g) BY DEF Producible, Whole
<1>3. {} \in search.visited /\ \A e \in search.visited : NextOf(e) \subseteq search.visited
  BY <1>1 DEF Expanded, Exhausted
<1>4. \A e : Candidate(e) \subseteq (DOMAIN formats) \ e /\ Candidate(e) \in SUBSET DOMAIN formats
  BY <1>1, CandidateIsAvailable
<1>5. s # {} /\ s \in SUBSET DOMAIN formats BY <1>2, <1>4 DEF Whole, Complete
<1>6. CASE request.selector.kind = "ids"
  <2>1. ASSUME NEW e, request.selector.ids \subseteq Considered(formats, request.mode, request.contract) \ e
        PROVE  Candidate(e) = Merged(formats, request.selector.ids)
    BY <1>6, <2>1 DEF Candidate, BaseSelection
  <2>2. request.selector.ids \subseteq Considered(formats, request.mode, request.contract) \ g
    BY <1>2, <1>5, <1>6 DEF Candidate, BaseSelection
  <2>3. Candidate({}) = s BY <1>2, <2>1, <2>2
  <2>4. s \in Fitting BY <1>2, <1>3, <2>3 DEF Fitting, WholeOnes, Visited, Whole
  <2>5. NotWorse(s, s)
    <3>1. OfferOK(formats) BY <1>1, SearchIsTyped
    <3>2. /\ Score(formats, s)[1] \in Nat /\ Score(formats, s)[2] \in Nat
          /\ Score(formats, s)[3] \in Nat /\ Score(formats, s)[4] \in Nat
      BY <1>5, <3>1, ScoreIsNatural
    <3> QED BY <3>2, HigherMeans DEF NotWorse
  <2> QED BY <2>4, <2>5
<1>7. CASE request.selector.kind # "ids"
  <2> DEFINE apart == {e \in search.visited : s \intersect e = {}}
             R == {p \in apart \X apart : Cardinality(p[1]) > Cardinality(p[2])}
  <2>1. {} \in apart BY <1>3
  <2>2. IsFiniteSet(apart) /\ \A e \in apart : IsFiniteSet(e) /\ Cardinality(e) \in Nat
    <3>1. apart \in SUBSET (SUBSET FormatId) BY <1>1 DEF SearchTypeOK
    <3>2. IsFiniteSet(SUBSET FormatId) BY FormatAssumption, FS_SUBSET
    <3> HIDE DEF apart
    <3>3. IsFiniteSet(apart) BY <3>1, <3>2, FS_Subset
    <3>4. ASSUME NEW e \in SUBSET FormatId PROVE IsFiniteSet(e) /\ Cardinality(e) \in Nat
      BY FormatAssumption, FS_Subset, FS_CardinalityType
    <3> QED BY <3>1, <3>3, <3>4
  <2>3. PICK e \in apart : \A f \in apart : ~(Cardinality(f) > Cardinality(e))
    <3> HIDE DEF apart
    <3>1. \A x \in apart : <<x, x>> \notin R BY <2>2
    <3>2. \A x, y, z \in apart : <<x, y>> \in R /\ <<y, z>> \in R => <<x, z>> \in R BY <2>2
    <3>3. PICK x \in apart : \A y \in apart : <<y, x>> \notin R
      <4> HIDE DEF R
      <4> QED BY <2>1, <2>2, <3>1, <3>2, FirstExists
    <3> QED BY <3>3
  <2>4. /\ Whole(e) /\ NotWorse(Candidate(e), s)
        /\ Candidate(e) \subseteq s => Candidate(e) = s
    BY <1>1, <1>2, <1>5, <1>7, <2>3, PickIsNotWorse
  <2>5. ~TooBig(e)
    <3> SUFFICES ASSUME TooBig(e) PROVE FALSE OBVIOUS
    <3>1. ~(Candidate(e) \subseteq s)
      <4>1. KnownSize(formats, Candidate(e)) > request.limit BY DEF TooBig
      <4>2. KnownSize(formats, s) \in 1..request.limit BY DEF Fits
      <4>3. request.limit \in Nat BY <1>1, SearchIsTyped
      <4> QED BY <2>4, <4>1, <4>2, <4>3
    <3>2. PICK i \in Candidate(e) : i \notin s BY <3>1
    <3>3. e \union {i} \in search.visited BY <1>3, <2>3, <3>2 DEF NextOf
    <3>4. e \union {i} \in apart BY <2>3, <3>2, <3>3
    <3>5. i \notin e BY <1>4, <3>2
    <3>6. Cardinality(e \union {i}) = Cardinality(e) + 1 /\ Cardinality(e) \in Nat
      BY <2>2, <2>3, <3>5, FS_AddElement
    <3>7. Cardinality(e \union {i}) > Cardinality(e) BY <3>6
    <3> QED BY <2>3, <3>4, <3>7
  <2>6. Fits(Candidate(e))
    <3>1. OfferOK(formats) /\ SizesOK(formats) /\ request.limit \in Nat BY <1>1, SearchIsTyped
    <3>2. Candidate(e) # {} /\ Candidate(e) \in SUBSET DOMAIN formats
      BY <1>4, <2>4 DEF Whole, Complete
    <3>3. KnownSize(formats, Candidate(e)) \in Nat /\ KnownSize(formats, Candidate(e)) # 0
      BY <3>1, <3>2, SizeIsKnown
    <3>4. ~(KnownSize(formats, Candidate(e)) > request.limit) BY <2>4, <2>5 DEF TooBig
    <3> QED BY <3>1, <3>3, <3>4 DEF Fits
  <2>7. Candidate(e) \in Fitting BY <2>3, <2>4, <2>6 DEF Fitting, WholeOnes, Visited, Whole
  <2> QED BY <2>4, <2>7
<1> QED BY <1>6, <1>7

\* A search that stops for want of turns has visited every set of exclusions.
LEMMA SearchExhausts ==
  ASSUME SearchInv, TurnsSuffice, ~Running
  PROVE  Exhausted
<1>1. SearchTypeOK BY DEF SearchInv
<1>2. CASE search.pending = <<>> BY <1>2 DEF Exhausted, Queued
<1>3. CASE search.pending # <<>>
  <2>1. search.visited \in SUBSET (SUBSET FormatId) BY <1>1 DEF SearchTypeOK
  <2>2. IsFiniteSet(SUBSET FormatId) BY FormatAssumption, FS_SUBSET
  <2>3. /\ IsFiniteSet(search.visited)
        /\ Cardinality(search.visited) <= Cardinality(SUBSET FormatId)
        /\ Cardinality(SUBSET FormatId) = Cardinality(search.visited) => SUBSET FormatId = search.visited
    BY <2>1, <2>2, FS_Subset
  <2>4. Cardinality(search.visited) \in Nat /\ Cardinality(SUBSET FormatId) \in Nat
    BY <2>2, <2>3, FS_CardinalityType
  <2>5. ~(Cardinality(search.visited) < MaxVisits) BY <1>3 DEF Running
  <2>6. SUBSET FormatId = search.visited
    BY <2>3, <2>4, <2>5, SearchAssumption DEF TurnsSuffice
  <2>7. Queued \in SUBSET (SUBSET FormatId)
    <3>1. search.pending \in Seq(SUBSET FormatId) BY <1>1 DEF SearchTypeOK
    <3> QED BY <3>1 DEF Queued
  <2> QED BY <2>6, <2>7 DEF Exhausted
<1> QED BY <1>2, <1>3

\* What was visited bears on everything that could be produced.
LEMMA SearchIsBestAtEnd ==
  ASSUME SearchInv, HeightsGrow, TurnsSuffice
  PROVE  SearchFindsBest
<1> SUFFICES ASSUME ~Running PROVE SearchFindsBest BY DEF SearchFindsBest
<1>1. Exhausted /\ SearchTypeOK /\ BestSoFar BY SearchExhausts DEF SearchInv
<1>2. Result = Selected(formats, request.selector, request.mode, request.contract, request.limit)
  BY <1>1, ResultIsSelected
<1>3. ASSUME \A i \in DOMAIN formats : formats[i].size # 0, NEW s \in Producible, Fits(s)
      PROVE  /\ Result.reason = "found" /\ Fits(Result.parts)
             /\ NotWorse(Result.parts, s)
  <2>1. PICK t \in Fitting : NotWorse(t, s) BY <1>1, <1>3, FittingIsMatched
  <2>2. search.best \in Fitting /\ ~Higher(Score(formats, t), Score(formats, search.best))
    BY <1>1, <2>1 DEF BestSoFar, Highest
  <2>3. Fitting \in SUBSET WholeOnes BY DEF Fitting
  <2>4. WholeOnes \in SUBSET (SUBSET DOMAIN formats) /\ {} \notin WholeOnes
    BY <1>1, WholeOnesAreSelections
  <2>5. search.best # {} BY <2>2, <2>3, <2>4
  <2>6. Result.reason = "found" /\ Result.parts = search.best BY <2>5 DEF Result
  <2>7. Fits(search.best) BY <2>2 DEF Fitting
  <2>8. NotWorse(search.best, s)
    <3> DEFINE a == Score(formats, t)
               b == Score(formats, search.best)
               c == Score(formats, s)
    <3>1. OfferOK(formats) BY <1>1, SearchIsTyped
    <3>2. s \in SUBSET DOMAIN formats BY <1>1, CandidateIsAvailable DEF Producible
    <3>3. /\ a[1] \in Nat /\ a[2] \in Nat /\ a[3] \in Nat /\ a[4] \in Nat
          /\ b[1] \in Nat /\ b[2] \in Nat /\ b[3] \in Nat /\ b[4] \in Nat
          /\ c[1] \in Nat /\ c[2] \in Nat /\ c[3] \in Nat /\ c[4] \in Nat
      BY <2>1, <2>2, <2>3, <2>4, <3>1, <3>2, ScoreIsNatural
    <3>4. ~Higher(a, b) BY <2>2
    <3>5. IF TargetHeight(request.mode) = 0 THEN c[1] <= a[1] ELSE ~Higher(c, a)
      BY <2>1 DEF NotWorse
    <3> HIDE DEF a, b, c
    <3>6. a[1] <= b[1] BY <3>3, <3>4, HigherMeans
    <3>7. IF TargetHeight(request.mode) = 0 THEN c[1] <= b[1] ELSE ~Higher(c, b)
      BY <3>3, <3>4, <3>5, <3>6, HigherMeans
    <3> QED BY <3>7 DEF NotWorse, b, c
  <2> QED BY <2>6, <2>7, <2>8
<1> QED BY <1>2, <1>3 DEF SearchFindsBest, NotWorse

\* A search that ends before its turns do, whatever it was offered, yields what Selected
\* says: the queue comes to every exclusion that rounds of expansion come to.
THEOREM SearchAgrees ==
  SearchSpec =>
    [](search.pending = <<>> =>
         Result = Selected(formats, request.selector, request.mode, request.contract, request.limit))
<1>1. SearchInv => (search.pending = <<>> =>
         Result = Selected(formats, request.selector, request.mode, request.contract, request.limit))
  <2>1. search.pending = <<>> => Exhausted BY DEF Exhausted, Queued
  <2> QED BY <2>1, ResultIsSelected
<1> QED BY <1>1, SearchInvariant, PTL

\* Whatever the provider offers, a search that is given turns enough and pictures whose
\* heights grow with their ids ends with the selection that Selected describes, and
\* finds one that fits, as high as any, where there is one.
THEOREM SearchesFindBest ==
  ASSUME HeightsGrow, TurnsSuffice
  PROVE  SearchSpec => []SearchFindsBest
<1>1. SearchInv => SearchFindsBest BY SearchIsBestAtEnd
<1> QED BY <1>1, SearchInvariant, PTL

(***************************************************************************)
(* The download of a social post.                                          *)
(***************************************************************************)

\* How many of the places are not above one of them.
Rank(places, s) == Cardinality({t \in places : t <= s})

\* A place is a number.
LEMMA PlacesAreNumbers ==
  ASSUME NEW n \in Nat, NEW S \in SUBSET (1..n)
  PROVE  \A s \in S : s \in Nat
OBVIOUS

\* The ranks of n places are the numbers up to n, and they grow with the place.
LEMMA RanksGrow ==
  ASSUME NEW n \in Nat, NEW S \in SUBSET (1..n)
  PROVE  /\ IsFiniteSet(S) /\ Cardinality(S) \in Nat
         /\ \A s \in S : Rank(S, s) \in 1..Cardinality(S)
         /\ \A s, t \in S : s < t => Rank(S, s) < Rank(S, t)
<1> DEFINE Upto(s) == {t \in S : t <= s}
<1>0. \A s \in S : s \in Nat BY PlacesAreNumbers
<1>1. IsFiniteSet(S) /\ Cardinality(S) \in Nat
  <2>1. IsFiniteSet(1..n) BY FS_Interval
  <2>2. IsFiniteSet(S) BY <2>1, FS_Subset
  <2> QED BY <2>2, FS_CardinalityType
<1>2. ASSUME NEW s \in S
      PROVE  IsFiniteSet(Upto(s)) /\ Cardinality(Upto(s)) \in 1..Cardinality(S)
  <2>1. IsFiniteSet(Upto(s)) /\ Cardinality(Upto(s)) <= Cardinality(S) BY <1>1, FS_Subset
  <2>2. Cardinality(Upto(s)) \in Nat BY <2>1, FS_CardinalityType
  <2>3. s \in Upto(s) BY <1>0
  <2> HIDE DEF Upto
  <2>4. Cardinality(Upto(s)) # 0
    <3>1. Upto(s) # {} BY <2>3
    <3> QED BY <2>1, <3>1, FS_EmptySet
  <2> QED BY <1>1, <2>1, <2>2, <2>4
<1>3. ASSUME NEW s \in S, NEW t \in S, s < t
      PROVE  Cardinality(Upto(s)) < Cardinality(Upto(t))
  <2>1. Upto(s) \subseteq Upto(t) /\ t \in Upto(t) /\ t \notin Upto(s)
    <3>1. \A k \in S : k \in Int /\ (k <= s => k <= t) BY <1>0, <1>3
    <3>2. s \in Int /\ t \in Int /\ t <= t /\ ~(t <= s) BY <1>0, <1>3
    <3> QED BY <3>1, <3>2
  <2>2. IsFiniteSet(Upto(t)) BY <1>2
  <2>3. Cardinality(Upto(s)) \in Nat /\ Cardinality(Upto(t)) \in Nat BY <1>1, <1>2
  <2>4. Cardinality(Upto(s)) <= Cardinality(Upto(t)) /\ Cardinality(Upto(s)) # Cardinality(Upto(t))
    <3> HIDE DEF Upto
    <3> QED BY <2>1, <2>2, FS_Subset
  <2> HIDE DEF Upto
  <2> QED BY <2>3, <2>4
<1> QED BY <1>1, <1>2, <1>3 DEF Rank

\* The nth of the places is the one of rank n, and the places are met in order.
LEMMA NthHasRank ==
  ASSUME NEW n \in Nat, NEW S \in SUBSET (1..n)
  PROVE  /\ \A m \in 1..Cardinality(S) : Nth(S, m) \in S /\ Rank(S, Nth(S, m)) = m
         /\ \A s \in S : Nth(S, Rank(S, s)) = s
         /\ \A m, k \in 1..Cardinality(S) : m < k => Nth(S, m) < Nth(S, k)
<1> DEFINE c == Cardinality(S)
           rank == [s \in S |-> Rank(S, s)]
<1>0. \A s \in S : s \in Nat BY PlacesAreNumbers
<1>1. IsFiniteSet(S) /\ c \in Nat /\ \A s \in S : Rank(S, s) \in 1..c
  BY RanksGrow
<1>2. \A s, t \in S : s < t => Rank(S, s) < Rank(S, t)
  BY RanksGrow
<1>3. \A s, t \in S : Rank(S, s) = Rank(S, t) => s = t
  <2> SUFFICES ASSUME NEW s \in S, NEW t \in S, s # t PROVE Rank(S, s) # Rank(S, t) OBVIOUS
  <2>1. s < t \/ t < s BY <1>0
  <2>2. Rank(S, s) \in Nat /\ Rank(S, t) \in Nat BY <1>1
  <2> QED BY <1>2, <2>1, <2>2
<1>4. rank \in Injection(S, 1..c)
  BY <1>1, <1>3 DEF Injection, IsInjective
<1>5. IsFiniteSet(1..c) /\ Cardinality(1..c) = c BY <1>1, FS_Interval
<1>6. rank \in Surjection(S, 1..c) BY <1>1, <1>4, <1>5, FS_Injection
<1>7. \A m \in 1..c : \E s \in S : Rank(S, s) = m BY <1>6 DEF Surjection
<1>8. \A m : Nth(S, m) = CHOOSE s \in S : Rank(S, s) = m BY DEF Nth, Rank
<1>9. ASSUME NEW m \in 1..c PROVE Nth(S, m) \in S /\ Rank(S, Nth(S, m)) = m
  BY <1>7, <1>8
<1>10. ASSUME NEW s \in S PROVE Nth(S, Rank(S, s)) = s
  BY <1>1, <1>3, <1>9
<1>11. ASSUME NEW m \in 1..c, NEW k \in 1..c, m < k PROVE Nth(S, m) < Nth(S, k)
  <2>1. Nth(S, m) \in S /\ Rank(S, Nth(S, m)) = m /\ Nth(S, k) \in S /\ Rank(S, Nth(S, k)) = k
    BY <1>9
  <2>2. m \in Int /\ k \in Int /\ ~(k < m) /\ k # m BY <1>1, <1>11
  <2>3. Nth(S, m) \in Nat /\ Nth(S, k) \in Nat BY <1>0, <2>1
  <2>4. CASE Nth(S, k) < Nth(S, m) BY <1>2, <2>1, <2>2, <2>4
  <2>5. CASE Nth(S, k) = Nth(S, m) BY <2>1, <2>2, <2>5
  <2> QED BY <2>3, <2>4, <2>5
<1> QED BY <1>9, <1>10, <1>11

\* Among all the numbers up to n each is at its own place.
LEMMA RanksOfAll ==
  ASSUME NEW n \in Nat
  PROVE  Cardinality(1..n) = n /\ \A s \in 1..n : Rank(1..n, s) = s /\ Nth(1..n, s) = s
<1>1. Cardinality(1..n) = n BY FS_Interval
<1>2. ASSUME NEW s \in 1..n PROVE Rank(1..n, s) = s
  <2>1. {t \in 1..n : t <= s} = 1..s OBVIOUS
  <2>2. Cardinality(1..s) = s
    <3>1. s \in Nat OBVIOUS
    <3> QED BY <3>1, FS_Interval
  <2> QED BY <2>1, <2>2 DEF Rank
<1>3. ASSUME NEW s \in 1..n PROVE Nth(1..n, s) = s
  <2>1. Nth(1..n, Rank(1..n, s)) = s BY NthHasRank
  <2> QED BY <1>2, <2>1
<1> QED BY <1>1, <1>2, <1>3

\* What a sequence holds at some of its places is a sequence of that many.
LEMMA AtIsSequence ==
  ASSUME NEW T, NEW items \in Seq(T), NEW S \in SUBSET DOMAIN items
  PROVE  /\ At(items, S) \in Seq(T) /\ Len(At(items, S)) = Cardinality(S)
         /\ DOMAIN At(items, S) = 1..Cardinality(S)
         /\ \A n \in 1..Cardinality(S) : At(items, S)[n] = items[Nth(S, n)]
<1>1. Len(items) \in Nat /\ DOMAIN items = 1..Len(items) /\ \A s \in DOMAIN items : items[s] \in T
  OBVIOUS
<1>2. Cardinality(S) \in Nat BY <1>1, RanksGrow
<1>3. \A n \in 1..Cardinality(S) : Nth(S, n) \in S
  BY <1>1, NthHasRank
<1>4. At(items, S) \in [1..Cardinality(S) -> T]
  BY <1>1, <1>3 DEF At
<1> QED BY <1>2, <1>4 DEF At

\* All the places of a sequence hold the sequence.
LEMMA AtAllPlaces ==
  ASSUME NEW T, NEW items \in Seq(T)
  PROVE  At(items, DOMAIN items) = items
<1>1. Len(items) \in Nat /\ DOMAIN items = 1..Len(items) OBVIOUS
<1>2. Cardinality(1..Len(items)) = Len(items) /\ \A s \in 1..Len(items) : Nth(1..Len(items), s) = s
  BY <1>1, RanksOfAll
<1>3. At(items, DOMAIN items) = [n \in 1..Len(items) |-> items[n]]
  BY <1>1, <1>2 DEF At
<1> QED BY <1>1, <1>3

\* Two places that share out the numbers up to n.
LEMMA PlacesAddUp ==
  ASSUME NEW n \in Nat, NEW S \in SUBSET (1..n)
  PROVE  Cardinality(S) + Cardinality((1..n) \ S) = n
<1>1. IsFiniteSet(1..n) /\ Cardinality(1..n) = n BY FS_Interval
<1>2. IsFiniteSet(S) /\ IsFiniteSet((1..n) \ S) BY <1>1, FS_Subset
<1>3. Cardinality(S \cup ((1..n) \ S)) =
      Cardinality(S) + Cardinality((1..n) \ S) - Cardinality(S \cap ((1..n) \ S))
  BY <1>2, FS_Union
<1>4. S \cup ((1..n) \ S) = 1..n /\ S \cap ((1..n) \ S) = {} OBVIOUS
<1>5. Cardinality({}) = 0 BY FS_EmptySet
<1>6. Cardinality(S) \in Nat /\ Cardinality((1..n) \ S) \in Nat BY <1>2, FS_CardinalityType
<1>7. n = Cardinality(S) + Cardinality((1..n) \ S) - 0 BY <1>1, <1>3, <1>4, <1>5
<1> QED BY <1>6, <1>7

\* Artifacts of distinct slots are sorted so that the nth has the nth of the slots.
LEMMA SortsBySlot ==
  ASSUME NEW n \in Nat, NEW S \in SUBSET (1..n), NEW a,
         DOMAIN a = 1..Cardinality(S), \A m \in DOMAIN a : a[m].slot \in S,
         \A m, k \in DOMAIN a : a[m].slot = a[k].slot => m = k
  PROVE  /\ DOMAIN BySlot(a) = DOMAIN a
         /\ \A i \in DOMAIN a : \E m \in DOMAIN a : a[m].slot = Nth(S, i) /\ BySlot(a)[i] = a[m]
<1> DEFINE N == Cardinality(S)
           slotOf == [m \in 1..N |-> a[m].slot]
           upTo(m) == {k \in 1..N : slotOf[k] <= slotOf[m]}
<1>0. \A s \in S : s \in Nat BY PlacesAreNumbers
<1>1. IsFiniteSet(S) /\ N \in Nat BY RanksGrow
<1>2. IsFiniteSet(1..N) /\ Cardinality(1..N) = N BY <1>1, FS_Interval
<1>3. slotOf \in Injection(1..N, S) BY DEF Injection, IsInjective
<1>4. slotOf \in Surjection(1..N, S) BY <1>1, <1>2, <1>3, FS_Injection
<1>5. ASSUME NEW m \in 1..N PROVE Cardinality(upTo(m)) = Rank(S, slotOf[m])
  <2> DEFINE T == {t \in S : t <= slotOf[m]}
             g == [k \in upTo(m) |-> slotOf[k]]
  <2>1. g \in Injection(upTo(m), T)
    <3>1. \A k \in upTo(m) : slotOf[k] \in T
      <4>1. \A k \in 1..N : slotOf[k] \in S OBVIOUS
      <4> HIDE DEF slotOf
      <4> QED BY <4>1
    <3>2. \A k, j \in upTo(m) : slotOf[k] = slotOf[j] => k = j OBVIOUS
    <3> HIDE DEF T, upTo, slotOf
    <3>3. g \in [upTo(m) -> T] /\ \A k \in upTo(m) : g[k] = slotOf[k] BY <3>1
    <3> HIDE DEF g
    <3> QED BY <3>2, <3>3 DEF Injection, IsInjective
  <2>2. \A t \in T : \E k \in upTo(m) : g[k] = t BY <1>4 DEF Surjection
  <2>3. g \in Bijection(upTo(m), T)
    <3> HIDE DEF g, T, upTo
    <3> QED BY <2>1, <2>2 DEF Bijection, Injection, Surjection
  <2>4. IsFiniteSet(upTo(m)) BY <1>2, FS_Subset
  <2> HIDE DEF g, T, upTo
  <2>5. Cardinality(T) = Cardinality(upTo(m)) BY <2>3, <2>4, FS_Bijection DEF ExistsBijection
  <2> QED BY <2>5 DEF Rank, T
<1>6. ASSUME NEW i \in 1..N
      PROVE  \E m \in 1..N : a[m].slot = Nth(S, i) /\ BySlot(a)[i] = a[m]
  <2> DEFINE least(m) == {k \in DOMAIN a : \/ a[k].slot < a[m].slot
                                           \/ a[k].slot = a[m].slot /\ k <= m}
             chosen == CHOOSE m \in DOMAIN a : Cardinality(least(m)) = i
  <2>1. ASSUME NEW m \in 1..N PROVE least(m) = upTo(m)
    <3>1. \A k \in 1..N : slotOf[k] = a[k].slot /\ a[k].slot \in Nat BY <1>0
    <3>2. \A k \in 1..N : (a[k].slot < a[m].slot \/ (a[k].slot = a[m].slot /\ k <= m))
                            <=> a[k].slot <= a[m].slot
      <4> SUFFICES ASSUME NEW k \in 1..N
                   PROVE  (a[k].slot < a[m].slot \/ (a[k].slot = a[m].slot /\ k <= m))
                            <=> a[k].slot <= a[m].slot
        OBVIOUS
      <4>1. a[k].slot = a[m].slot => k <= m BY <1>1
      <4>2. a[k].slot \in Nat /\ a[m].slot \in Nat BY <3>1
      <4> QED BY <4>1, <4>2
    <3> QED BY <3>1, <3>2
  <2>2. \A m \in 1..N : Cardinality(least(m)) = Rank(S, slotOf[m]) BY <1>5, <2>1
  <2>3. Nth(S, i) \in S /\ Rank(S, Nth(S, i)) = i /\ \A s \in S : Nth(S, Rank(S, s)) = s
    BY NthHasRank
  <2>4. PICK m \in 1..N : slotOf[m] = Nth(S, i) BY <1>4, <2>3 DEF Surjection
  <2>5. Cardinality(least(m)) = i BY <2>2, <2>3, <2>4
  <2> HIDE DEF least
  <2>6. chosen \in 1..N /\ Cardinality(least(chosen)) = i BY <2>5
  <2>7. slotOf[chosen] \in S /\ Rank(S, slotOf[chosen]) = i
    <3>1. slotOf[chosen] \in S BY <2>6
    <3> QED BY <2>2, <2>6, <3>1
  <2>8. slotOf[chosen] = Nth(S, i) BY <2>3, <2>7
  <2>9. BySlot(a)[i] = a[chosen] BY DEF BySlot, least
  <2> HIDE DEF chosen
  <2> QED BY <2>6, <2>8, <2>9
<1>7. DOMAIN BySlot(a) = DOMAIN a BY DEF BySlot
<1> HIDE DEF N
<1> QED BY <1>6, <1>7 DEF N

\* The places of one kind.
OfKind(items, kind) == {s \in DOMAIN items : Kind(items[s]) = kind}

\* Whoever puts the items of a list at the places of a kind, in its order, gets the list back.
LEMMA OnlyIs ==
  ASSUME NEW T, NEW items \in Seq(T), NEW kind, NEW S, S = OfKind(items, kind),
         NEW part \in Seq(T), Len(part) = Cardinality(S),
         \A s \in S : items[s] = part[Rank(S, s)]
  PROVE  Only(items, kind) = part
<1>1. Len(items) \in Nat /\ DOMAIN items = 1..Len(items) /\ S \in SUBSET (1..Len(items)) BY DEF OfKind
<1>2. Only(items, kind) = At(items, S) BY DEF Only, OfKind
<1>3. /\ DOMAIN At(items, S) = 1..Cardinality(S) /\ At(items, S) \in Seq(T)
      /\ \A n \in 1..Cardinality(S) : At(items, S)[n] = items[Nth(S, n)]
  BY <1>1, AtIsSequence
<1>4. \A n \in 1..Cardinality(S) : Nth(S, n) \in S /\ Rank(S, Nth(S, n)) = n
  BY <1>1, NthHasRank
<1>5. DOMAIN part = 1..Cardinality(S) /\ part = [n \in 1..Cardinality(S) |-> part[n]]
  <2>1. DOMAIN part = 1..Len(part) /\ part = [n \in 1..Len(part) |-> part[n]] OBVIOUS
  <2> QED BY <2>1
<1>6. \A n \in 1..Cardinality(S) : At(items, S)[n] = part[n] BY <1>3, <1>4
<1>7. At(items, S) = [n \in 1..Cardinality(S) |-> At(items, S)[n]] BY DEF At
<1> QED BY <1>2, <1>5, <1>6, <1>7

\* The items of one kind, as a list: as many as the places, and where they come from.
LEMMA OnlyHolds ==
  ASSUME NEW T, NEW items \in Seq(T), NEW kind, NEW S, S = OfKind(items, kind)
  PROVE  /\ Only(items, kind) \in Seq(T) /\ Len(Only(items, kind)) = Cardinality(S)
         /\ Cardinality(S) \in Nat
         /\ \A n \in 1..Cardinality(S) : Kind(Only(items, kind)[n]) = kind
         /\ \A s \in S : /\ Rank(S, s) \in 1..Cardinality(S)
                         /\ Only(items, kind)[Rank(S, s)] = items[s]
<1>1. Len(items) \in Nat /\ DOMAIN items = 1..Len(items) /\ S \in SUBSET (1..Len(items)) BY DEF OfKind
<1>2. /\ Only(items, kind) = At(items, S)
      /\ \A s \in S : Kind(items[s]) = kind
  BY DEF Only, OfKind
<1>3. /\ At(items, S) \in Seq(T) /\ Len(At(items, S)) = Cardinality(S)
      /\ \A n \in 1..Cardinality(S) : At(items, S)[n] = items[Nth(S, n)]
  BY <1>1, AtIsSequence
<1>4. /\ \A n \in 1..Cardinality(S) : Nth(S, n) \in S
      /\ \A s \in S : Nth(S, Rank(S, s)) = s
  BY <1>1, NthHasRank
<1>5. Cardinality(S) \in Nat /\ \A s \in S : Rank(S, s) \in 1..Cardinality(S) BY <1>1, RanksGrow
<1> QED BY <1>2, <1>3, <1>4, <1>5

\* What the job holds on its way.
Kinds == {"image", "video"}
AssetIds == (Item \cup {"post"}) \X Nat \X Kinds
PostSteps == {"new", "choose", "inspect", "gallery", "discover", "child", "done", "failed"}
PostModes == {"images", "zip", "videos", "video", "all", "stories"}

PlanAsset == [kind : Kinds, id : AssetIds]
Artifact == [slot : Nat, item : Item]
Plans == Seq(PlanAsset)
Lists == Seq(Artifact)
Fetches ==
  [step : PostSteps, mode : PostModes \cup {"none"}, ids : SUBSET AssetIds, plan : Plans,
   children : Seq(Item), artifacts : Lists, tries : Nat]

\* The post is never empty, and the job holds assets and artifacts of it.
PostTypeOK ==
  /\ post \in Seq(Item) /\ post # <<>>
  /\ edits \in Nat
  /\ seen \in [{"inspect", "gallery", "videos"} -> Seq(Item)]
  /\ fetch \in Fetches

\* The plan of a running download is of the version its inspection met.
PlanIsMet ==
  fetch.step \in {"gallery", "discover", "child"} => fetch.plan = Assets(seen["inspect"])

\* A story is only offered whole.
StoriesAreWhole == source = "stories" => fetch.mode \in {"none", "stories"}

\* Before the engines run nothing is downloaded.
NothingYet ==
  fetch.step \in {"new", "choose", "inspect", "discover"} =>
    fetch.artifacts = <<>> /\ fetch.children = <<>>

\* The videos taken so far are the first of one version, at the slots of the plan's.
VideosTaken ==
  /\ DiscoveryMatches(seen["videos"])
  /\ fetch.children = Only(seen["videos"], "video")
  /\ \A n \in DOMAIN fetch.artifacts :
       fetch.artifacts[n] = [slot |-> Nth(SlotsOf(fetch.plan, "video"), n), item |-> fetch.children[n]]

\* Which engine is reached with what.
RoutesAreKept ==
  /\ fetch.step = "discover" => Route(fetch.plan) = "discover" /\ seen["gallery"] = <<>>
  /\ fetch.step = "child" =>
       /\ Route(fetch.plan) = "discover" /\ seen["gallery"] = <<>>
       /\ VideosTaken /\ Len(fetch.artifacts) < Len(fetch.children)
  /\ fetch.step = "gallery" =>
       \/ /\ Route(fetch.plan) = "gallery" /\ seen["videos"] = <<>>
          /\ fetch.artifacts = <<>>
       \/ /\ Route(fetch.plan) = "discover" /\ fetch.mode = "all"
          /\ VideosTaken /\ Len(fetch.artifacts) = Len(fetch.children)

\* What holds of a job through every change of the post, and of what it ends with.
PostInv ==
  PostTypeOK /\ PlanIsMet /\ StoriesAreWhole /\ NothingYet /\ RoutesAreKept /\ OneVersion

\* What a mode asks for, by the places it is at.
WantedAt(items, mode) ==
  {s \in DOMAIN items : /\ mode \in ImageModes => Kind(items[s]) = "image"
                        /\ mode \in VideoModes => Kind(items[s]) = "video"}

\* Each mode takes the items at those places.
LEMMA WantedIsAt ==
  ASSUME NEW T, NEW items \in Seq(T), NEW mode
  PROVE  Wanted(items, mode) = At(items, WantedAt(items, mode))
<1>1. CASE mode \in ImageModes
  <2>1. mode \notin VideoModes BY <1>1 DEF ImageModes, VideoModes
  <2>2. \A s : s \in WantedAt(items, mode) <=> s \in DOMAIN items /\ Kind(items[s]) = "image"
    BY <1>1, <2>1 DEF WantedAt
  <2>3. WantedAt(items, mode) = {s \in DOMAIN items : Kind(items[s]) = "image"} BY <2>2
  <2> QED BY <1>1, <2>3 DEF Wanted, Only
<1>2. CASE mode \notin ImageModes /\ mode \in VideoModes
  <2>1. WantedAt(items, mode) = {s \in DOMAIN items : Kind(items[s]) = "video"}
    BY <1>2 DEF WantedAt
  <2> QED BY <1>2, <2>1 DEF Wanted, Only
<1>3. CASE mode \notin ImageModes /\ mode \notin VideoModes
  <2>1. WantedAt(items, mode) = DOMAIN items BY <1>3 DEF WantedAt
  <2>2. At(items, DOMAIN items) = items BY AtAllPlaces
  <2> QED BY <1>3, <2>1, <2>2 DEF Wanted
<1> QED BY <1>1, <1>2, <1>3

\* What may be taken for it, by its places.
TakableAt(items, mode) ==
  {s \in DOMAIN items : /\ mode \in ImageModes => Kind(items[s]) = "image"
                        /\ mode \in VideoModes => PassesFor(items[s], "video")}
LEMMA TakableIsAt ==
  ASSUME NEW T, NEW items \in Seq(T), NEW mode
  PROVE  Takable(items, mode) = At(items, TakableAt(items, mode))
<1>1. CASE mode \in VideoModes
  <2>1. mode \notin ImageModes BY <1>1 DEF ImageModes, VideoModes
  <2>2. TakableAt(items, mode) = {s \in DOMAIN items : PassesFor(items[s], "video")}
    BY <1>1, <2>1 DEF TakableAt
  <2> QED BY <1>1, <2>2 DEF Takable
<1>2. CASE mode \notin VideoModes
  <2>1. TakableAt(items, mode) = WantedAt(items, mode) BY <1>2 DEF TakableAt, WantedAt
  <2> QED BY <1>2, <2>1, WantedIsAt DEF Takable
<1> QED BY <1>1, <1>2

\* One item is wanted when its kind is.
LEMMA OneIsWanted ==
  ASSUME NEW T, NEW item \in T, NEW mode,
         mode \in ImageModes => Kind(item) = "image", mode \in VideoModes => Kind(item) = "video"
  PROVE  Wanted(<<item>>, mode) # <<>>
<1> DEFINE one == <<item>>
<1>1. one \in Seq(T) /\ Len(one) = 1 /\ DOMAIN one = 1..1 /\ one[1] = item OBVIOUS
<1> HIDE DEF one
<1>2. WantedAt(one, mode) = DOMAIN one
  <2>1. \A s : s \in DOMAIN one => one[s] = item BY <1>1
  <2>2. \A s : s \in WantedAt(one, mode) <=> s \in DOMAIN one BY <2>1 DEF WantedAt
  <2> QED BY <2>2 DEF WantedAt
<1>3. At(one, DOMAIN one) = one BY <1>1, AtAllPlaces
<1>4. Wanted(one, mode) = one BY <1>1, <1>2, <1>3, WantedIsAt
<1>5. one # <<>> BY DEF one
<1> QED BY <1>4, <1>5 DEF one

\* The plan of a post has an asset for each item, of its kind.
LEMMA AssetsArePlan ==
  ASSUME NEW items \in Seq(Item)
  PROVE  /\ Assets(items) \in Plans
         /\ Len(Assets(items)) = Len(items) /\ DOMAIN Assets(items) = DOMAIN items
         /\ \A s \in DOMAIN items : Assets(items)[s].kind = Kind(items[s])
<1>1. Len(items) \in Nat /\ DOMAIN items = 1..Len(items) OBVIOUS
<1>2. ASSUME NEW s \in 1..Len(items)
      PROVE  [kind |-> Kind(items[s]), id |-> AssetId(items, s)] \in PlanAsset
  <2>1. Kind(items[s]) \in Kinds BY DEF Kind, Kinds
  <2>2. items[1] \in Item BY <1>1
  <2>3. s \in Nat OBVIOUS
  <2>4. AssetId(items, s) \in AssetIds BY <2>1, <2>2, <2>3 DEF AssetId, AssetIds
  <2> QED BY <2>1, <2>4 DEF PlanAsset
<1>3. Assets(items) \in [1..Len(items) -> PlanAsset] BY <1>2 DEF Assets
<1>4. Assets(items) \in Plans
  <2> DEFINE plan == Assets(items)
  <2>1. plan \in [1..Len(items) -> PlanAsset] BY <1>3
  <2> HIDE DEF plan
  <2>2. plan \in Seq(PlanAsset) BY <1>1, <2>1
  <2> QED BY <2>2 DEF Plans, plan
<1>5. Len(Assets(items)) = Len(items) BY <1>1 DEF Assets
<1> QED BY <1>1, <1>4, <1>5 DEF Assets

\* Every failure leaves the job failed or before another inspection.
LEMMA FailLeaves ==
  ASSUME PostTypeOK, NEW retryable, Fail(retryable)
  PROVE  /\ fetch'.step \in {"inspect", "failed"} /\ fetch'.mode = fetch.mode
         /\ fetch'.step = "inspect" => fetch'.artifacts = <<>> /\ fetch'.children = <<>>
         /\ fetch' \in Fetches
<1>1. fetch \in Fetches BY DEF PostTypeOK
<1>2. <<>> \in Plans /\ <<>> \in Seq(Item) /\ <<>> \in Lists BY DEF Plans, Lists
<1>3. CASE fetch' = [fetch EXCEPT !.step = "failed"] BY <1>1, <1>3 DEF Fetches, PostSteps
<1>4. CASE fetch' = [NoFetch EXCEPT !.step = "inspect", !.mode = fetch.mode, !.ids = fetch.ids,
                                    !.tries = fetch.tries]
  BY <1>1, <1>2, <1>4 DEF Fetches, PostSteps, NoFetch
<1> QED BY <1>3, <1>4 DEF Fail

\* A change of the post leaves it a post.
LEMMA EditStep == ASSUME PostTypeOK, Edit PROVE PostTypeOK'
<1>1. Len(post) \in Nat /\ DOMAIN post = 1..Len(post) /\ Len(post) >= 1 BY DEF PostTypeOK
<1>2. ASSUME NEW s \in DOMAIN post, Len(post) > 1, post' = At(post, DOMAIN post \ {s})
      PROVE  post' \in Seq(Item) /\ post' # <<>>
  <2>1. IsFiniteSet(1..Len(post)) /\ Cardinality(1..Len(post)) = Len(post) BY <1>1, FS_Interval
  <2>2. Cardinality((1..Len(post)) \ {s}) = Len(post) - 1
    <3> DEFINE all == 1..Len(post)
    <3>1. IsFiniteSet(all) /\ Cardinality(all) = Len(post) /\ s \in all BY <1>1, <2>1
    <3> HIDE DEF all
    <3>2. Cardinality(all \ {s}) = Len(post) - 1 BY <3>1, FS_RemoveElement
    <3> QED BY <3>2 DEF all
  <2>3. At(post, DOMAIN post \ {s}) \in Seq(Item)
        /\ Len(At(post, DOMAIN post \ {s})) = Cardinality(DOMAIN post \ {s})
    BY AtIsSequence DEF PostTypeOK
  <2>4. Len(post') # 0 BY <1>1, <1>2, <2>2, <2>3
  <2> QED BY <1>2, <2>3, <2>4
<1>3. ASSUME NEW i \in Item, post' = Append(post, i) \/ post' = Append(Tail(post), i)
      PROVE  post' \in Seq(Item) /\ post' # <<>>
  <2>1. Tail(post) \in Seq(Item) BY <1>1 DEF PostTypeOK
  <2>2. CASE post' = Append(post, i) BY <1>1, <2>2 DEF PostTypeOK
  <2>3. CASE post' = Append(Tail(post), i)
    <3>1. post' \in Seq(Item) /\ Len(post') = Len(Tail(post)) + 1 BY <2>1, <2>3
    <3>2. Len(Tail(post)) \in Nat BY <2>1
    <3>3. Len(post') # 0 BY <3>1, <3>2
    <3> QED BY <3>1, <3>3
  <2> QED BY <1>3, <2>2, <2>3
<1>4. post' \in Seq(Item) /\ post' # <<>> BY <1>2, <1>3 DEF Edit
<1> QED BY <1>4 DEF Edit, PostTypeOK

\* The slots of a plan are those of its videos and those of its images.
LEMMA SlotsSplit ==
  ASSUME NEW plan \in Plans
  PROVE  /\ Len(plan) \in Nat /\ DOMAIN plan = 1..Len(plan)
         /\ SlotsOf(plan, "video") \in SUBSET (1..Len(plan))
         /\ SlotsOf(plan, "image") = (1..Len(plan)) \ SlotsOf(plan, "video")
<1>1. Len(plan) \in Nat /\ DOMAIN plan = 1..Len(plan) /\ \A s \in DOMAIN plan : plan[s].kind \in Kinds
  <2>1. \A s \in 1..Len(plan) : plan[s] \in PlanAsset BY ElementOfSeq DEF Plans
  <2>2. Len(plan) \in Nat /\ DOMAIN plan = 1..Len(plan) BY LenProperties DEF Plans
  <2> QED BY <2>1, <2>2 DEF PlanAsset
<1> QED BY <1>1 DEF SlotsOf, Kinds

\* The items of d come from the version, in its order.
Follows(d, version) ==
  \A m, k \in DOMAIN d : \E i, j \in DOMAIN version :
    version[i] = d[m] /\ version[j] = d[k] /\ (m < k => i < j)

\* A version has an item for each slot of E, and d has those of the slots of K.
Part(d, K, version, E, n) ==
  /\ n \in Nat /\ E \in SUBSET (1..n) /\ K \in SUBSET E
  /\ version \in Seq(Item) /\ Len(version) = Cardinality(E)
  /\ d = [m \in 1..Cardinality(K) |-> version[Rank(E, Nth(K, m))]]

\* Whoever takes the items of some slots has them in the version's order, and the whole
\* version if that is all of them.
LEMMA PartIsInOrder ==
  ASSUME NEW n, NEW E, NEW K, NEW version, NEW d, Part(d, K, version, E, n)
  PROVE  Follows(d, version) /\ (K = E => d = version)
<1> n \in Nat /\ E \in SUBSET (1..n) /\ K \in SUBSET E BY DEF Part
<1>0. /\ version \in Seq(Item) /\ Len(version) = Cardinality(E)
      /\ d = [m \in 1..Cardinality(K) |-> version[Rank(E, Nth(K, m))]]
  BY DEF Part
<1>1. K \in SUBSET (1..n) /\ DOMAIN version = 1..Cardinality(E) /\ DOMAIN d = 1..Cardinality(K)
  BY <1>0, LenProperties
<1>2. /\ \A m \in 1..Cardinality(K) : Nth(K, m) \in K
      /\ \A m, k \in 1..Cardinality(K) : m < k => Nth(K, m) < Nth(K, k)
  BY <1>1, NthHasRank
<1>3. /\ \A s \in E : Rank(E, s) \in 1..Cardinality(E)
      /\ \A s, t \in E : s < t => Rank(E, s) < Rank(E, t)
  BY RanksGrow
<1>4. ASSUME NEW m \in DOMAIN d, NEW k \in DOMAIN d
      PROVE  \E i, j \in DOMAIN version :
               version[i] = d[m] /\ version[j] = d[k] /\ (m < k => i < j)
  <2>1. Nth(K, m) \in E /\ Nth(K, k) \in E BY <1>1, <1>2
  <2>2. Rank(E, Nth(K, m)) \in DOMAIN version /\ Rank(E, Nth(K, k)) \in DOMAIN version
    BY <1>1, <1>3, <2>1
  <2>3. m < k => Rank(E, Nth(K, m)) < Rank(E, Nth(K, k)) BY <1>1, <1>2, <1>3, <2>1
  <2>4. version[Rank(E, Nth(K, m))] = d[m] /\ version[Rank(E, Nth(K, k))] = d[k] BY <1>0, <1>1
  <2> QED BY <2>2, <2>3, <2>4
<1>5. ASSUME K = E PROVE d = version
  <2>1. \A m \in 1..Cardinality(E) : Rank(E, Nth(E, m)) = m BY NthHasRank
  <2>2. version = [m \in 1..Len(version) |-> version[m]] BY <1>0
  <2>3. version = [m \in 1..Cardinality(E) |-> version[m]] BY <1>0, <2>2
  <2> QED BY <1>0, <1>5, <2>1, <2>3
<1> QED BY <1>4, <1>5 DEF Follows

\* A list of artifacts that stands for a set of slots, in order.
Stands(a, slots) ==
  /\ a \in Lists /\ Len(a) = Cardinality(slots)
  /\ \A m \in 1..Cardinality(slots) : a[m].slot = Nth(slots, m)

\* Artifacts that come in the order of their slots are already sorted.
LEMMA SortedStays ==
  ASSUME NEW n \in Nat, NEW K \in SUBSET (1..n), NEW p, Stands(p, K)
  PROVE  BySlot(p) = p
<1>0. /\ p \in Lists /\ Len(p) = Cardinality(K)
      /\ \A m \in 1..Cardinality(K) : p[m].slot = Nth(K, m)
  BY DEF Stands
<1>1. DOMAIN p = 1..Cardinality(K)
  <2>1. DOMAIN p = 1..Len(p) BY <1>0 DEF Lists
  <2> QED BY <1>0, <2>1
<1>2. \A m \in 1..Cardinality(K) : Nth(K, m) \in K /\ Rank(K, Nth(K, m)) = m
  BY NthHasRank
<1>3. \A m, k \in DOMAIN p : p[m].slot = p[k].slot => m = k BY <1>0, <1>1, <1>2
<1>4. \A m \in DOMAIN p : p[m].slot \in K BY <1>0, <1>1, <1>2
<1>5. /\ DOMAIN BySlot(p) = DOMAIN p
      /\ \A i \in DOMAIN p : \E m \in DOMAIN p : p[m].slot = Nth(K, i) /\ BySlot(p)[i] = p[m]
  BY <1>1, <1>3, <1>4, SortsBySlot
<1>6. \A i \in DOMAIN p : BySlot(p)[i] = p[i]
  <2> SUFFICES ASSUME NEW i \in DOMAIN p PROVE BySlot(p)[i] = p[i] OBVIOUS
  <2>1. PICK m \in DOMAIN p : p[m].slot = Nth(K, i) /\ BySlot(p)[i] = p[m] BY <1>5
  <2>2. p[i].slot = Nth(K, i) BY <1>0, <1>1
  <2>3. m = i BY <1>3, <2>1, <2>2
  <2> QED BY <2>1, <2>3
<1>7. BySlot(p) = [i \in DOMAIN p |-> BySlot(p)[i]] BY DEF BySlot
<1>8. p = [i \in DOMAIN p |-> p[i]] BY <1>0 DEF Lists
<1> QED BY <1>6, <1>7, <1>8

\* V and I divide n slots between them.
Split(n, V, I) == n \in Nat /\ V \in SUBSET (1..n) /\ I = (1..n) \ V

\* The videos and the images of a mixed post, sorted, are at their slots.
LEMMA MixedIsSorted ==
  ASSUME NEW n, NEW V, NEW I, Split(n, V, I), NEW a, Stands(a, V), NEW p, Stands(p, I)
  PROVE  /\ BySlot(a \o p) \in Lists /\ Len(BySlot(a \o p)) = n
         /\ \A s \in V : BySlot(a \o p)[s] = a[Rank(V, s)]
         /\ \A s \in I : BySlot(a \o p)[s] = p[Rank(I, s)]
<1> DEFINE c == a \o p
           v == Cardinality(V)
           w == Cardinality(I)
<1> n \in Nat /\ V \in SUBSET (1..n) /\ I = (1..n) \ V BY DEF Split
<1>0. I \in SUBSET (1..n) /\ \A s \in 1..n : s \in V <=> s \notin I OBVIOUS
<1>1. v \in Nat /\ w \in Nat /\ v + w = n
  BY <1>0, RanksGrow, PlacesAddUp
<1>a. /\ a \in Lists /\ Len(a) = v /\ p \in Lists /\ Len(p) = w
      /\ \A m \in 1..v : a[m].slot = Nth(V, m)
      /\ \A m \in 1..w : p[m].slot = Nth(I, m)
  BY DEF Stands
<1>2. /\ \A m \in 1..v : Nth(V, m) \in V /\ Rank(V, Nth(V, m)) = m
      /\ \A m \in 1..w : Nth(I, m) \in I /\ Rank(I, Nth(I, m)) = m
  <2>1. \A m \in 1..v : Nth(V, m) \in V /\ Rank(V, Nth(V, m)) = m BY NthHasRank
  <2>2. \A m \in 1..w : Nth(I, m) \in I /\ Rank(I, Nth(I, m)) = m BY <1>0, NthHasRank
  <2> QED BY <2>1, <2>2
<1>3. /\ c \in Lists /\ Len(c) = n /\ DOMAIN c = 1..n
      /\ \A m \in 1..n : c[m] = IF m <= v THEN a[m] ELSE p[m - v]
  <2>0. a \in Seq(Artifact) /\ p \in Seq(Artifact) BY <1>a DEF Lists
  <2>1. /\ a \o p \in Seq(Artifact) /\ Len(a \o p) = Len(a) + Len(p)
        /\ \A m \in 1..Len(a) + Len(p) : (a \o p)[m] = IF m <= Len(a) THEN a[m] ELSE p[m - Len(a)]
    BY <2>0, ConcatProperties
  <2>2. DOMAIN c = 1..Len(c) BY <2>1, LenProperties
  <2> QED BY <1>1, <1>a, <2>1, <2>2 DEF Lists
<1> HIDE DEF c, v, w
<1>4. ASSUME NEW m \in 1..n
      PROVE  \/ m \in 1..v /\ c[m] = a[m] /\ c[m].slot = Nth(V, m) /\ c[m].slot \in V
             \/ m - v \in 1..w /\ c[m] = p[m - v] /\ c[m].slot = Nth(I, m - v) /\ c[m].slot \in I
  <2>1. CASE m <= v
    <3>1. m \in 1..v /\ c[m] = a[m] BY <1>1, <1>3, <2>1
    <3>2. a[m].slot = Nth(V, m) BY <1>a, <3>1
    <3> QED BY <1>2, <3>1, <3>2
  <2>2. CASE ~(m <= v)
    <3>0. c[m] = p[m - v] BY <1>3, <2>2
    <3>1. m - v \in 1..w BY <1>1, <2>2
    <3>2. p[m - v].slot = Nth(I, m - v) BY <1>a, <3>1
    <3> QED BY <1>2, <3>0, <3>1, <3>2
  <2> QED BY <2>1, <2>2
<1>5. ASSUME NEW m \in 1..n
      PROVE  /\ c[m].slot \in 1..n
             /\ c[m].slot \in V => m = Rank(V, c[m].slot) /\ c[m] = a[Rank(V, c[m].slot)]
             /\ c[m].slot \in I => m = v + Rank(I, c[m].slot) /\ c[m] = p[Rank(I, c[m].slot)]
  <2>1. CASE m \in 1..v /\ c[m] = a[m] /\ c[m].slot = Nth(V, m) /\ c[m].slot \in V
    BY <1>0, <1>2, <2>1
  <2>2. CASE m - v \in 1..w /\ c[m] = p[m - v] /\ c[m].slot = Nth(I, m - v) /\ c[m].slot \in I
    <3>1. c[m].slot \notin V /\ c[m].slot \in 1..n BY <1>0, <2>2
    <3>2. Rank(I, c[m].slot) = m - v BY <1>2, <2>2
    <3> QED BY <1>1, <2>2, <3>1, <3>2
  <2> QED BY <1>4, <2>1, <2>2
<1>6. ASSUME NEW m \in 1..n, NEW k \in 1..n, c[m].slot = c[k].slot PROVE m = k
  <2>1. CASE c[m].slot \in V BY <1>5, <1>6, <2>1
  <2>2. CASE c[m].slot \in I BY <1>5, <1>6, <2>2
  <2> QED BY <1>0, <1>5, <2>1, <2>2
<1>7. Cardinality(1..n) = n /\ \A s \in 1..n : Nth(1..n, s) = s BY RanksOfAll
<1>8. /\ DOMAIN BySlot(c) = 1..n
      /\ \A s \in 1..n : \E m \in 1..n : c[m].slot = s /\ BySlot(c)[s] = c[m]
  <2> DEFINE all == 1..n
  <2>1. /\ all \in SUBSET (1..n) /\ DOMAIN c = 1..Cardinality(all)
        /\ \A m \in DOMAIN c : c[m].slot \in all
        /\ \A m, k \in DOMAIN c : c[m].slot = c[k].slot => m = k
    BY <1>3, <1>5, <1>6, <1>7
  <2> HIDE DEF all
  <2>2. /\ DOMAIN BySlot(c) = DOMAIN c
        /\ \A s \in DOMAIN c : \E m \in DOMAIN c : c[m].slot = Nth(all, s) /\ BySlot(c)[s] = c[m]
    BY <2>1, SortsBySlot
  <2>3. \A s \in 1..n : Nth(all, s) = s BY <1>7 DEF all
  <2>4. ASSUME NEW s \in 1..n PROVE \E m \in 1..n : c[m].slot = s /\ BySlot(c)[s] = c[m]
    <3>1. PICK m \in DOMAIN c : c[m].slot = Nth(all, s) /\ BySlot(c)[s] = c[m] BY <1>3, <2>2
    <3>2. m \in 1..n /\ c[m].slot = s BY <1>3, <2>3, <3>1
    <3> QED BY <3>1, <3>2
  <2>5. DOMAIN BySlot(c) = 1..n BY <1>3, <2>2
  <2> QED BY <2>4, <2>5
<1>9. BySlot(c) \in Lists /\ Len(BySlot(c)) = n
  <2>1. \A m \in 1..n : c[m] \in Artifact BY <1>3, ElementOfSeq DEF Lists
  <2>2. BySlot(c) = [s \in DOMAIN BySlot(c) |-> BySlot(c)[s]] BY DEF BySlot
  <2>3. BySlot(c) \in [1..n -> Artifact] BY <1>8, <2>1, <2>2
  <2>4. BySlot(c) \in Seq(Artifact) /\ Len(BySlot(c)) = n BY <2>3
  <2> QED BY <2>4 DEF Lists
<1>10. ASSUME NEW s \in V PROVE BySlot(c)[s] = a[Rank(V, s)]
  <2>1. PICK m \in 1..n : c[m].slot = s /\ BySlot(c)[s] = c[m] BY <1>8
  <2>2. c[m] = a[Rank(V, s)] BY <1>5, <2>1
  <2> QED BY <2>1, <2>2
<1>11. ASSUME NEW s \in I PROVE BySlot(c)[s] = p[Rank(I, s)]
  <2>0. s \in 1..n BY <1>0
  <2>1. PICK m \in 1..n : c[m].slot = s /\ BySlot(c)[s] = c[m] BY <1>8, <2>0
  <2>2. c[m] = p[Rank(I, s)] BY <1>5, <2>1
  <2> QED BY <2>1, <2>2
<1> QED BY <1>9, <1>10, <1>11 DEF c

\* The videos that are taken are those of one version, at the slots of the plan's videos.
LEMMA VideosHeld ==
  ASSUME PostTypeOK, VideosTaken, NEW V, V = SlotsOf(fetch.plan, "video")
  PROVE  /\ V \in SUBSET (1..Len(fetch.plan)) /\ Len(fetch.plan) \in Nat
         /\ fetch.children \in Seq(Item) /\ Len(fetch.children) = Cardinality(V)
         /\ Cardinality(V) \in Nat
         /\ \A m \in 1..Cardinality(V) : Kind(fetch.children[m]) = "video"
         /\ Len(seen["videos"]) = Len(fetch.plan)
         /\ \A s \in 1..Len(fetch.plan) : s \in V <=> Kind(seen["videos"][s]) = "video"
         /\ \A s \in V : /\ Rank(V, s) \in 1..Cardinality(V)
                        /\ fetch.children[Rank(V, s)] = seen["videos"][s]
<1> DEFINE entries == seen["videos"]
<1>1. entries \in Seq(Item) /\ fetch.plan \in Plans BY DEF PostTypeOK, Fetches
<1>2. DOMAIN entries = 1..Len(entries) BY <1>1, LenProperties
<1>3. /\ Len(entries) = Len(fetch.plan) /\ V = OfKind(entries, "video")
      /\ fetch.children = Only(entries, "video")
  BY DEF VideosTaken, DiscoveryMatches, OfKind
<1>4. V \in SUBSET (1..Len(fetch.plan)) /\ Len(fetch.plan) \in Nat BY <1>1, SlotsSplit
<1> HIDE DEF entries
<1>5. /\ Only(entries, "video") \in Seq(Item) /\ Len(Only(entries, "video")) = Cardinality(V)
      /\ Cardinality(V) \in Nat
      /\ \A n \in 1..Cardinality(V) : Kind(Only(entries, "video")[n]) = "video"
      /\ \A s \in V : /\ Rank(V, s) \in 1..Cardinality(V)
                     /\ Only(entries, "video")[Rank(V, s)] = entries[s]
  BY <1>1, <1>3, OnlyHolds
<1>6. \A s \in 1..Len(fetch.plan) : s \in V <=> Kind(entries[s]) = "video"
  BY <1>2, <1>3 DEF OfKind
<1> QED BY <1>3, <1>4, <1>5, <1>6 DEF entries

\* The files that are kept, paired by their positions with the slots of the plan.
LEMMA PairsHold ==
  ASSUME PostTypeOK, NEW files \in Seq(Item), FilesMatch(files), NEW E, NEW K, E = Expected, K = Kept
  PROVE  /\ E \in SUBSET (1..Len(fetch.plan)) /\ Len(fetch.plan) \in Nat /\ K \in SUBSET E
         /\ Len(files) = Cardinality(E)
         /\ Pairs(files) \in Lists /\ Len(Pairs(files)) = Cardinality(K)
         /\ \A m \in 1..Cardinality(K) :
              Pairs(files)[m] = [slot |-> Nth(K, m), item |-> files[Rank(E, Nth(K, m))]]
<1> DEFINE plan == fetch.plan
<1>1. plan \in Plans BY DEF PostTypeOK, Fetches
<1>2. Len(plan) \in Nat /\ DOMAIN plan = 1..Len(plan) BY <1>1, SlotsSplit
<1>3. E \in SUBSET (1..Len(plan)) BY <1>2 DEF Expected, SlotsOf
<1>4. K \in SUBSET E
  <2>1. CASE ImagesOnly
    <3>1. E = SlotsOf(plan, "image") BY <2>1 DEF Expected
    <3>2. CASE Mixed BY <3>1, <3>2 DEF Kept
    <3>3. CASE ~Mixed
      <4>1. fetch.mode \in ImageModes BY <2>1, <3>3 DEF ImagesOnly
      <4>2. K = Planned(plan) BY <3>3 DEF Kept
      <4> QED BY <3>1, <4>1, <4>2 DEF Planned, SlotsOf
    <3> QED BY <3>2, <3>3
  <2>2. CASE ~ImagesOnly
    <3>1. E = DOMAIN plan BY <2>2 DEF Expected
    <3> QED BY <3>1 DEF Kept, SlotsOf, Planned
  <2> QED BY <2>1, <2>2
<1>5. Len(files) = Cardinality(E) /\ DOMAIN files = 1..Cardinality(E)
  BY LenProperties DEF FilesMatch
<1>6. K \in SUBSET (1..Len(plan)) BY <1>3, <1>4
<1>7. \A m \in 1..Cardinality(K) : Nth(K, m) \in K BY <1>2, <1>6, NthHasRank
<1>8. \A s \in E : Rank(E, s) \in 1..Cardinality(E) BY <1>2, <1>3, RanksGrow
<1>9. Cardinality(K) \in Nat BY <1>2, <1>6, RanksGrow
<1>10. Pairs(files) = [m \in 1..Cardinality(K) |->
                         [slot |-> Nth(K, m), item |-> files[Rank(E, Nth(K, m))]]]
  BY DEF Pairs, InOrder, Position, Rank
<1>11. ASSUME NEW m \in 1..Cardinality(K)
       PROVE  [slot |-> Nth(K, m), item |-> files[Rank(E, Nth(K, m))]] \in Artifact
  <2>1. Nth(K, m) \in E /\ Nth(K, m) \in Nat
    <3>1. Nth(K, m) \in K BY <1>7
    <3>2. Nth(K, m) \in 1..Len(plan) BY <1>6, <3>1
    <3> QED BY <1>2, <1>4, <3>1, <3>2
  <2>2. Rank(E, Nth(K, m)) \in 1..Len(files) BY <1>5, <1>8, <2>1
  <2>3. files[Rank(E, Nth(K, m))] \in Item BY <2>2, ElementOfSeq
  <2> QED BY <2>1, <2>3 DEF Artifact
<1>12. Pairs(files) \in [1..Cardinality(K) -> Artifact] BY <1>10, <1>11
<1>13. Pairs(files) \in Lists /\ Len(Pairs(files)) = Cardinality(K)
  <2> DEFINE pairs == Pairs(files)
  <2>1. pairs \in [1..Cardinality(K) -> Artifact] BY <1>12
  <2> HIDE DEF pairs
  <2>2. pairs \in Seq(Artifact) /\ Len(pairs) = Cardinality(K) BY <1>9, <2>1
  <2> QED BY <2>2 DEF Lists, pairs
<1> QED BY <1>2, <1>3, <1>4, <1>5, <1>10, <1>13

\* The last child of a post whose videos alone are wanted ends the download with them.
LEMMA ChildDelivers ==
  ASSUME PostInv, DownloadChild
  PROVE  /\ fetch' \in Fetches /\ VideosTaken' /\ OneVersion'
         /\ fetch'.step = "child" => Len(fetch'.artifacts) < Len(fetch'.children)
         /\ fetch'.step = "gallery" => fetch.mode = "all" /\ Len(fetch'.artifacts) = Len(fetch'.children)
<1> DEFINE V == SlotsOf(fetch.plan, "video")
           a == fetch.artifacts
           n == Len(a) + 1
           child == [slot |-> Nth(V, n), item |-> fetch.children[n]]
<1>0. PostTypeOK /\ fetch \in Fetches /\ fetch.step = "child" BY DEF PostInv, PostTypeOK, DownloadChild
<1>1. /\ VideosTaken /\ Len(a) < Len(fetch.children) /\ Route(fetch.plan) = "discover"
      /\ seen["gallery"] = <<>>
  BY <1>0 DEF PostInv, RoutesAreKept
<1>2. /\ V \in SUBSET (1..Len(fetch.plan)) /\ Len(fetch.plan) \in Nat
      /\ fetch.children \in Seq(Item) /\ Len(fetch.children) = Cardinality(V) /\ Cardinality(V) \in Nat
      /\ \A m \in 1..Cardinality(V) : Kind(fetch.children[m]) = "video"
      /\ Len(seen["videos"]) = Len(fetch.plan)
  BY <1>0, <1>1, VideosHeld
<1>3. a \in Seq(Artifact) /\ Len(a) \in Nat /\ DOMAIN a = 1..Len(a)
  BY <1>0, LenProperties DEF Fetches, Lists
<1>4. n \in 1..Cardinality(V) BY <1>1, <1>2, <1>3
<1>5. InOrder(V)[n] = Nth(V, n) BY <1>4 DEF InOrder
<1>6. Nth(V, n) \in Nat /\ fetch.children[n] \in Item
  <2>1. Nth(V, n) \in V BY <1>2, <1>4, NthHasRank
  <2> QED BY <1>2, <1>4, <2>1, ElementOfSeq
<1>7. child \in Artifact BY <1>6 DEF Artifact
<1> DEFINE next == IF n # Len(fetch.children) THEN "child" ELSE IF fetch.mode = "all" THEN "gallery" ELSE "done"
<1>8. /\ fetch' = [fetch EXCEPT !.artifacts = Append(a, child), !.step = next]
      /\ source' = source /\ seen' = seen
  BY <1>5 DEF DownloadChild, Rest
<1> HIDE DEF child, next
<1>9. /\ Append(a, child) \in Seq(Artifact) /\ Len(Append(a, child)) = n
      /\ \A i \in 1..Len(a) : Append(a, child)[i] = a[i]
      /\ Append(a, child)[n] = child
  BY <1>3, <1>7, AppendProperties
<1>10. /\ fetch' \in Fetches /\ fetch'.artifacts = Append(a, child) /\ fetch'.step = next
       /\ fetch'.plan = fetch.plan /\ fetch'.children = fetch.children /\ fetch'.mode = fetch.mode
       /\ fetch'.ids = fetch.ids
  <2>1. next \in PostSteps BY DEF next, PostSteps
  <2>2. Append(a, child) \in Lists BY <1>9 DEF Lists
  <2> QED BY <1>0, <1>8, <2>1, <2>2 DEF Fetches
<1>11. DOMAIN fetch'.artifacts = 1..n BY <1>9, <1>10, LenProperties
<1>12. \A m \in 1..n : fetch'.artifacts[m] = [slot |-> Nth(V, m), item |-> fetch.children[m]]
  <2>1. \A m \in 1..Len(a) : a[m] = [slot |-> Nth(V, m), item |-> fetch.children[m]]
    BY <1>1, <1>3 DEF VideosTaken
  <2>2. \A m \in 1..n : m \in 1..Len(a) \/ m = n BY <1>3
  <2> QED BY <1>9, <1>10, <2>1, <2>2 DEF child
<1>13. VideosTaken'
  BY <1>1, <1>8, <1>10, <1>11, <1>12 DEF VideosTaken, DiscoveryMatches
<1>14. ASSUME next = "done" PROVE OneVersion'
  <2> DEFINE d == fetch.children
  <2>1. n = Len(d) /\ fetch.mode # "all" BY <1>14 DEF next
  <2>2. Delivered' = d
    <3>1. Delivered' = [m \in 1..n |-> fetch'.artifacts[m].item] BY <1>11 DEF Delivered
    <3>2. ASSUME NEW m \in 1..n PROVE fetch'.artifacts[m].item = d[m]
      <4>1. fetch'.artifacts[m] = [slot |-> Nth(V, m), item |-> d[m]] BY <1>12
      <4> QED BY <4>1
    <3>3. d = [m \in 1..n |-> d[m]] BY <1>2, <2>1
    <3> QED BY <3>1, <3>2, <3>3
  <2> DEFINE all == 1..Len(d)
  <2>3. Only(d, "video") = d
    <3>1. DOMAIN d = all BY <1>2, LenProperties
    <3>2. all = OfKind(d, "video") BY <1>2, <3>1 DEF OfKind
    <3>3. Cardinality(all) = Len(d) /\ \A s \in all : d[s] = d[Rank(all, s)] BY <1>2, RanksOfAll
    <3> HIDE DEF all
    <3> QED BY <1>2, <3>2, <3>3, OnlyIs
  <2>4. Only(d, "image") = <<>>
    <3>1. DOMAIN d = all BY <1>2, LenProperties
    <3>2. {} = OfKind(d, "image") BY <1>2, <3>1 DEF OfKind
    <3>3. Cardinality({}) = 0 BY FS_EmptySet
    <3>4. <<>> \in Seq(Item) /\ Len(<<>>) = 0 BY EmptySeq
    <3> QED BY <1>2, <3>2, <3>3, <3>4, OnlyIs
  <2>5. seen["videos"] # <<>>
    <3>1. Nth(V, n) \in 1..Len(fetch.plan) BY <1>2, <1>4, NthHasRank
    <3>2. Len(fetch.plan) # 0 BY <1>2, <3>1
    <3> QED BY <1>2, <3>2
  <2>6. Only(d, "video") = Only(seen["videos"], "video")
    <3>1. d = Only(seen["videos"], "video") BY <1>1 DEF VideosTaken
    <3> QED BY <2>3, <3>1
  <2>7. fetch'.mode # "all" BY <1>10, <2>1
  <2> HIDE DEF d
  <2> QED BY <1>1, <1>8, <2>2, <2>4, <2>5, <2>6, <2>7 DEF OneVersion
<1>15. next # "done" => OneVersion' BY <1>10 DEF OneVersion
<1>16. Len(fetch'.artifacts) = n /\ n <= Len(fetch'.children) BY <1>2, <1>4, <1>9, <1>10
<1>17. next = "child" => n < Len(fetch'.children) BY <1>2, <1>3, <1>10, <1>16 DEF next
<1>18. next = "gallery" => fetch.mode = "all" /\ n = Len(fetch'.children) BY <1>10 DEF next
<1>19. OneVersion' BY <1>14, <1>15
<1> QED BY <1>10, <1>13, <1>16, <1>17, <1>18, <1>19

\* A gallery run that ends the download was of the right count and kinds.
LEMMA GalleryEnds ==
  ASSUME PostTypeOK, RunGallery, fetch'.step = "done",
         NEW files, files = IF ImagesOnly THEN Only(post, "image") ELSE post
  PROVE  /\ Kept # {} /\ FilesMatch(files) /\ KindsMatch(files)
         /\ fetch' = [fetch EXCEPT !.step = "done", !.artifacts = BySlot(fetch.artifacts \o Pairs(files))]
         /\ seen' = [seen EXCEPT !["gallery"] = post] /\ source' = source
<1>1. ~Fail(FALSE)
  <2>1. Fail(FALSE) => fetch'.step \in {"inspect", "failed"} BY FailLeaves
  <2> QED BY <2>1
<1> QED BY <1>1 DEF RunGallery, Rest, Met

\* The gallery completes a mixed post: its own videos and images, each at its slot.
LEMMA MixedDelivers ==
  ASSUME PostInv, RunGallery, fetch'.step = "done", Mixed
  PROVE  fetch'.artifacts \in Lists /\ OneVersion'
<1> DEFINE plan == fetch.plan
           V == SlotsOf(plan, "video")
           I == SlotsOf(plan, "image")
           a == fetch.artifacts
           entries == seen["videos"]
           files == Only(post, "image")
           F == OfKind(post, "image")
           sorted == BySlot(a \o Pairs(files))
           d == [n \in DOMAIN sorted |-> sorted[n].item]
<1>0. /\ PostTypeOK /\ fetch \in Fetches /\ fetch.step = "gallery" /\ post \in Seq(Item)
      /\ seen \in [{"inspect", "gallery", "videos"} -> Seq(Item)]
  BY DEF PostInv, PostTypeOK, RunGallery
<1>1. /\ Route(plan) = "discover" /\ fetch.mode = "all" /\ VideosTaken
      /\ Len(a) = Len(fetch.children)
  BY <1>0 DEF PostInv, RoutesAreKept, Mixed
<1>2. /\ V \in SUBSET (1..Len(plan)) /\ Len(plan) \in Nat
      /\ fetch.children \in Seq(Item) /\ Len(fetch.children) = Cardinality(V)
      /\ Cardinality(V) \in Nat
      /\ \A m \in 1..Cardinality(V) : Kind(fetch.children[m]) = "video"
      /\ Len(entries) = Len(plan)
      /\ \A s \in 1..Len(plan) : s \in V <=> Kind(entries[s]) = "video"
      /\ \A s \in V : /\ Rank(V, s) \in 1..Cardinality(V)
                     /\ fetch.children[Rank(V, s)] = entries[s]
  BY <1>0, <1>1, VideosHeld
<1>3. I = (1..Len(plan)) \ V /\ I \in SUBSET (1..Len(plan))
  <2>1. plan \in Plans BY <1>0 DEF Fetches
  <2> QED BY <2>1, SlotsSplit
<1>4. ImagesOnly /\ Kept = I /\ Expected = I
  <2>1. source = "instagram" /\ V # {} BY <1>1 DEF Route
  <2> QED BY <2>1 DEF ImagesOnly, Instagram, Kept, Expected
<1>5. /\ FilesMatch(files) /\ fetch' = [fetch EXCEPT !.step = "done", !.artifacts = sorted]
      /\ seen' = [seen EXCEPT !["gallery"] = post] /\ source' = source
  <2>1. files = IF ImagesOnly THEN Only(post, "image") ELSE post BY <1>4
  <2> HIDE DEF files
  <2>2. /\ Kept # {} /\ FilesMatch(files) /\ KindsMatch(files)
        /\ fetch' = [fetch EXCEPT !.step = "done", !.artifacts = BySlot(fetch.artifacts \o Pairs(files))]
        /\ seen' = [seen EXCEPT !["gallery"] = post] /\ source' = source
    BY <1>0, <2>1, GalleryEnds
  <2> QED BY <2>2
<1>6. /\ files \in Seq(Item) /\ Len(files) = Cardinality(F) /\ Cardinality(F) \in Nat
      /\ \A n \in 1..Cardinality(F) : Kind(files[n]) = "image"
      /\ \A s \in F : Rank(F, s) \in 1..Cardinality(F) /\ files[Rank(F, s)] = post[s]
  BY <1>0, OnlyHolds
<1>7. /\ Len(files) = Cardinality(I)
      /\ Pairs(files) \in Lists /\ Len(Pairs(files)) = Cardinality(I)
      /\ \A m \in 1..Cardinality(I) :
           Pairs(files)[m] = [slot |-> Nth(I, m), item |-> files[Rank(I, Nth(I, m))]]
  BY <1>0, <1>4, <1>5, <1>6, PairsHold
<1>8. /\ a \in Lists /\ Len(a) = Cardinality(V)
      /\ \A m \in 1..Cardinality(V) : a[m] = [slot |-> Nth(V, m), item |-> fetch.children[m]]
  <2>1. a \in Seq(Artifact) BY <1>0 DEF Fetches, Lists
  <2>2. DOMAIN a = 1..Cardinality(V) BY <1>1, <1>2, <2>1, LenProperties
  <2> QED BY <1>1, <1>2, <2>1, <2>2 DEF VideosTaken, Lists
<1>9. /\ sorted \in Lists /\ Len(sorted) = Len(plan)
      /\ \A s \in V : sorted[s] = a[Rank(V, s)]
      /\ \A s \in I : sorted[s] = Pairs(files)[Rank(I, s)]
  <2> DEFINE p == Pairs(files)
  <2>1. ASSUME NEW m \in 1..Cardinality(V) PROVE a[m].slot = Nth(V, m)
    <3>1. a[m] = [slot |-> Nth(V, m), item |-> fetch.children[m]] BY <1>8
    <3> QED BY <3>1
  <2>2. ASSUME NEW m \in 1..Cardinality(I) PROVE p[m].slot = Nth(I, m)
    <3>1. p[m] = [slot |-> Nth(I, m), item |-> files[Rank(I, Nth(I, m))]] BY <1>7
    <3> QED BY <3>1
  <2>3. p \in Lists /\ Len(p) = Cardinality(I) BY <1>7
  <2> DEFINE n == Len(plan)
  <2>5. Split(n, V, I) BY <1>2, <1>3 DEF Split
  <2>6. Stands(a, V) BY <1>8, <2>1 DEF Stands
  <2>7. Stands(p, I) BY <2>2, <2>3 DEF Stands
  <2> HIDE DEF V, I, a, plan, p, n
  <2>4. /\ BySlot(a \o p) \in Lists /\ Len(BySlot(a \o p)) = n
        /\ \A s \in V : BySlot(a \o p)[s] = a[Rank(V, s)]
        /\ \A s \in I : BySlot(a \o p)[s] = p[Rank(I, s)]
    BY <2>5, <2>6, <2>7, MixedIsSorted
  <2> QED BY <2>4 DEF p, n
<1>10. DOMAIN sorted = 1..Len(plan) /\ \A s \in 1..Len(plan) : sorted[s] \in Artifact
  BY <1>9, LenProperties, ElementOfSeq DEF Lists
<1>11. /\ \A s \in I : Rank(I, s) \in 1..Cardinality(I) /\ Nth(I, Rank(I, s)) = s
  BY <1>2, <1>3, RanksGrow, NthHasRank
<1> HIDE DEF sorted, files, F
<1>12. ASSUME NEW s \in V PROVE d[s] = fetch.children[Rank(V, s)]
  <2>1. s \in DOMAIN sorted BY <1>2, <1>10
  <2>2. sorted[s] = [slot |-> Nth(V, Rank(V, s)), item |-> fetch.children[Rank(V, s)]]
    BY <1>2, <1>8, <1>9
  <2> QED BY <2>1, <2>2
<1>13. ASSUME NEW s \in I PROVE d[s] = files[Rank(I, s)]
  <2>1. s \in DOMAIN sorted BY <1>3, <1>10
  <2>2. sorted[s] = [slot |-> Nth(I, Rank(I, s)), item |-> files[Rank(I, Nth(I, Rank(I, s)))]]
    BY <1>7, <1>9, <1>11
  <2> QED BY <1>11, <2>1, <2>2
<1>14. d \in Seq(Item) /\ Len(d) = Len(plan) /\ DOMAIN d = 1..Len(plan)
  <2>1. \A s \in 1..Len(plan) : sorted[s].item \in Item BY <1>10 DEF Artifact
  <2>2. d \in [1..Len(plan) -> Item] BY <1>10, <2>1
  <2> HIDE DEF d
  <2> QED BY <1>2, <2>2
<1> HIDE DEF d
<1>15. Len(files) = Cardinality(I) /\ \A s \in I : Kind(d[s]) = "image"
  BY <1>6, <1>7, <1>11, <1>13
<1>16. \A s \in V : Kind(d[s]) = "video" BY <1>2, <1>12
<1>17. V = OfKind(d, "video") /\ I = OfKind(d, "image")
  BY <1>3, <1>2, <1>14, <1>15, <1>16 DEF OfKind
<1>18. Only(d, "video") = fetch.children
  BY <1>2, <1>12, <1>14, <1>17, OnlyIs
<1>19. Only(d, "image") = files
  BY <1>6, <1>7, <1>13, <1>14, <1>17, OnlyIs
<1>20. ASSUME post = entries PROVE d = entries
  <2>1. I = F
    <3>1. DOMAIN post = 1..Len(plan) BY <1>0, <1>2, <1>20, LenProperties
    <3>2. \A s \in 1..Len(plan) : s \in I <=> Kind(post[s]) = "image"
      <4>1. \A s \in 1..Len(plan) : Kind(post[s]) \in Kinds BY DEF Kind, Kinds
      <4> QED BY <1>2, <1>3, <1>20, <4>1 DEF Kinds
    <3> QED BY <1>3, <3>1, <3>2 DEF F, OfKind
  <2>2. ASSUME NEW s \in 1..Len(plan) PROVE d[s] = entries[s]
    <3>1. CASE s \in V BY <1>2, <1>12, <3>1
    <3>2. CASE s \in I BY <1>6, <1>13, <1>20, <2>1, <3>2
    <3> QED BY <1>3, <3>1, <3>2
  <2>3. entries \in Seq(Item) BY <1>0
  <2> HIDE DEF entries
  <2> QED BY <1>2, <1>14, <2>2, <2>3, SeqEqual
<1>21. /\ Delivered' = d /\ fetch'.mode = "all" /\ fetch'.artifacts = sorted
       /\ seen'["videos"] = entries /\ seen'["gallery"] = post
  <2>1. fetch'.artifacts = sorted /\ fetch'.mode = fetch.mode BY <1>0, <1>5 DEF Fetches
  <2>2. Delivered' = d BY <2>1 DEF Delivered, d
  <2> QED BY <1>0, <1>1, <1>5, <2>1, <2>2
<1>22. entries # <<>>
  <2>1. V # {} BY <1>1 DEF Route
  <2>2. Len(plan) # 0 BY <1>2, <2>1
  <2> QED BY <1>2, <2>2
<1>23. fetch.children = Only(entries, "video") BY <1>1 DEF VideosTaken
<1>24. OneVersion'
  <2>1. Only(Delivered', "video") = Only(seen'["videos"], "video") BY <1>18, <1>21, <1>23
  <2>2. Only(Delivered', "image") = Only(seen'["gallery"], "image") BY <1>19, <1>21 DEF files
  <2>3. seen'["gallery"] = seen'["videos"] => Delivered' = seen'["videos"] BY <1>20, <1>21
  <2>4. seen'["videos"] # <<>> /\ fetch'.mode = "all" BY <1>21, <1>22
  <2> QED BY <2>1, <2>2, <2>3, <2>4 DEF OneVersion
<1> QED BY <1>9, <1>21, <1>24

\* Where no video was taken before, the gallery's files are of one version: those that the
\* choice names, and all that the mode asks for if it names them all.
LEMMA PlainDelivers ==
  ASSUME PostInv, RunGallery, fetch'.step = "done", ~Mixed
  PROVE  fetch'.artifacts \in Lists /\ OneVersion'
<1> DEFINE plan == fetch.plan
           mode == fetch.mode
           met == seen["inspect"]
           files == IF ImagesOnly THEN Only(post, "image") ELSE post
           E == Expected
           K == Planned(plan)
           P == Pairs(files)
           W == WantedAt(post, mode)
           T == TakableAt(post, mode)
           version == Wanted(post, mode)
           takable == Takable(post, mode)
           d == [m \in 1..Cardinality(K) |-> files[Rank(E, Nth(K, m))]]
<1>0. /\ PostTypeOK /\ fetch \in Fetches /\ fetch.step = "gallery" /\ post \in Seq(Item)
      /\ seen \in [{"inspect", "gallery", "videos"} -> Seq(Item)]
  BY DEF PostInv, PostTypeOK, RunGallery
<1>1. plan \in Plans /\ met \in Seq(Item) /\ plan = Assets(met)
  BY <1>0 DEF Fetches, PostInv, PlanIsMet
<1>2. Len(plan) \in Nat /\ DOMAIN plan = 1..Len(plan) BY <1>1, SlotsSplit
<1>3. fetch.artifacts = <<>> /\ Route(plan) = "gallery" /\ seen["videos"] = <<>>
  <2>1. ASSUME Route(plan) = "discover", VideosTaken, Len(fetch.artifacts) = Len(fetch.children)
        PROVE  FALSE
    <3> DEFINE V == SlotsOf(plan, "video")
    <3>1. V \in SUBSET (1..Len(plan)) /\ Len(fetch.children) = Cardinality(V) BY <1>0, <2>1, VideosHeld
    <3>2. IsFiniteSet(V) BY <1>2, <3>1, RanksGrow
    <3>3. V # {} BY <2>1 DEF Route
    <3>4. Cardinality(V) # 0 BY <3>2, <3>3, FS_EmptySet
    <3>5. fetch.artifacts = <<>> BY DEF Mixed
    <3> QED BY <2>1, <3>1, <3>4, <3>5
  <2> QED BY <1>0, <2>1 DEF PostInv, RoutesAreKept
<1>4. Kept = K BY DEF Kept
<1>5. /\ K # {} /\ FilesMatch(files) /\ KindsMatch(files)
      /\ fetch' = [fetch EXCEPT !.step = "done", !.artifacts = BySlot(fetch.artifacts \o P)]
      /\ seen' = [seen EXCEPT !["gallery"] = post] /\ source' = source
  <2> DEFINE g == IF ImagesOnly THEN Only(post, "image") ELSE post
  <2>1. /\ Kept # {} /\ FilesMatch(g) /\ KindsMatch(g)
        /\ fetch' = [fetch EXCEPT !.step = "done", !.artifacts = BySlot(fetch.artifacts \o Pairs(g))]
        /\ seen' = [seen EXCEPT !["gallery"] = post] /\ source' = source
    BY <1>0, GalleryEnds
  <2> QED BY <1>4, <2>1
<1>6. files \in Seq(Item)
  <2>1. Only(post, "image") \in Seq(Item) BY <1>0, OnlyHolds
  <2> QED BY <1>0, <2>1
<1>7. /\ E \in SUBSET (1..Len(plan)) /\ K \in SUBSET E /\ Len(files) = Cardinality(E)
      /\ P \in Lists /\ Len(P) = Cardinality(K)
      /\ \A m \in 1..Cardinality(K) :
           P[m] = [slot |-> Nth(K, m), item |-> files[Rank(E, Nth(K, m))]]
  <2> HIDE DEF files, E, K
  <2> QED BY <1>0, <1>4, <1>5, <1>6, PairsHold DEF E
<1>8. BySlot(fetch.artifacts \o P) = P
  <2>1. ASSUME NEW m \in 1..Cardinality(K) PROVE P[m].slot = Nth(K, m)
    <3>1. P[m] = [slot |-> Nth(K, m), item |-> files[Rank(E, Nth(K, m))]] BY <1>7
    <3> QED BY <3>1
  <2> HIDE DEF P, K, E, files
  <2>2. Stands(P, K) BY <1>7, <2>1 DEF Stands
  <2>3. BySlot(P) = P BY <1>2, <1>7, <2>2, SortedStays
  <2>4. <<>> \o P = P BY <1>7, ConcatEmptySeq DEF Lists
  <2> QED BY <1>3, <2>3, <2>4
<1>9. /\ fetch'.artifacts = P /\ fetch'.mode = mode /\ fetch'.plan = plan /\ fetch'.ids = fetch.ids
      /\ seen'["gallery"] = post /\ seen'["videos"] = <<>> /\ seen'["inspect"] = met
  BY <1>0, <1>3, <1>5, <1>8 DEF Fetches
<1> HIDE DEF P
<1>10. Delivered' = d
  <2>1. DOMAIN P = 1..Cardinality(K) BY <1>7, LenProperties DEF Lists
  <2>2. ASSUME NEW m \in 1..Cardinality(K) PROVE P[m].item = files[Rank(E, Nth(K, m))]
    <3>1. P[m] = [slot |-> Nth(K, m), item |-> files[Rank(E, Nth(K, m))]] BY <1>7
    <3> QED BY <3>1
  <2> HIDE DEF files, E, K
  <2> QED BY <1>9, <2>1, <2>2 DEF Delivered
\* A choice of all that the mode asks for leaves out no slot whose kind it asks for.
<1>11. ASSUME WholeChoice', NEW s \in DOMAIN plan,
              mode \in ImageModes => plan[s].kind = "image",
              mode \in VideoModes => plan[s].kind = "video"
       PROVE  s \in K
  <2>1. /\ DOMAIN met = DOMAIN plan /\ plan[s].kind = Kind(met[s]) BY <1>1, AssetsArePlan
  <2>2. met[s] \in Item BY <1>1, <2>1
  <2>3. Wanted(<<met[s]>>, mode) # <<>> BY <1>11, <2>1, <2>2, OneIsWanted
  <2>4. fetch.ids = {} \/ plan[s].id \in fetch.ids BY <1>9, <1>11, <2>3 DEF WholeChoice
  <2> QED BY <1>11, <2>4 DEF Planned
<1>12. ImagesOnly => /\ Follows(d, takable)
                     /\ WholeChoice' => d = version
  <2> SUFFICES ASSUME ImagesOnly PROVE Follows(d, takable) /\ (WholeChoice' => d = version)
    OBVIOUS
  <2>1. mode \in ImageModes BY DEF ImagesOnly
  <2>2. version = files /\ takable = files
    <3>1. mode \notin VideoModes BY <2>1 DEF ImageModes, VideoModes
    <3> QED BY <2>1, <3>1 DEF Wanted, Takable
  <2>3. E = SlotsOf(plan, "image") BY DEF Expected
  <2>4. WholeChoice' => K = E
    <3> SUFFICES ASSUME WholeChoice', NEW s \in E PROVE s \in K BY <1>7
    <3>1. s \in DOMAIN plan /\ plan[s].kind = "image" BY <2>3 DEF SlotsOf
    <3>2. mode \notin VideoModes BY <2>1 DEF ImageModes, VideoModes
    <3> QED BY <1>11, <3>1, <3>2
  <2>5. Part(d, K, files, E, Len(plan)) BY <1>2, <1>6, <1>7 DEF Part
  <2> HIDE DEF d, E, K, files, version, takable
  <2>7. Follows(d, files) /\ (K = E => d = files) BY <2>5, PartIsInOrder
  <2> QED BY <2>2, <2>4, <2>7
<1>13. ~ImagesOnly => /\ Follows(d, takable)
                      /\ K = W => d = version
                      /\ DOMAIN post = DOMAIN plan
  <2> SUFFICES ASSUME ~ImagesOnly
               PROVE  /\ Follows(d, takable) /\ (K = W => d = version)
                      /\ DOMAIN post = DOMAIN plan
    OBVIOUS
  <2>1. files = post /\ E = 1..Len(plan) BY <1>2 DEF Expected
  <2>2. /\ Cardinality(E) = Len(plan) /\ \A s \in E : Rank(E, s) = s
    BY <1>2, <2>1, RanksOfAll
  <2>3. Len(post) = Len(plan) /\ DOMAIN post = 1..Len(plan)
    BY <1>0, <1>7, <2>1, <2>2, LenProperties
  <2>4. K \in SUBSET T
    <3> SUFFICES ASSUME NEW s \in K PROVE s \in T OBVIOUS
    <3>1. s \in E BY <1>7
    <3>2. Position(s) = s BY <2>2, <3>1 DEF Position, Rank
    <3>3. PassesFor(post[s], plan[s].kind) BY <1>4, <1>5, <2>1, <3>2 DEF KindsMatch
    <3>4. /\ mode \in ImageModes => plan[s].kind = "image"
          /\ mode \in VideoModes => plan[s].kind = "video"
      BY DEF Planned
    <3>5. mode \in ImageModes => Kind(post[s]) = "image" BY <3>3, <3>4 DEF PassesFor
    <3>6. mode \in VideoModes => PassesFor(post[s], "video") BY <3>3, <3>4
    <3> QED BY <2>1, <2>3, <3>1, <3>5, <3>6 DEF TakableAt
  <2>5. T \in SUBSET DOMAIN post BY DEF TakableAt
  <2>6. takable = At(post, T) BY <1>0, TakableIsAt
  <2>7. /\ takable \in Seq(Item) /\ Len(takable) = Cardinality(T)
        /\ \A n \in 1..Cardinality(T) : takable[n] = post[Nth(T, n)]
    <3> HIDE DEF T, takable
    <3> QED BY <1>0, <2>5, <2>6, AtIsSequence
  <2>8. /\ \A s \in T : Rank(T, s) \in 1..Cardinality(T) /\ Nth(T, Rank(T, s)) = s
        /\ \A m \in 1..Cardinality(K) : Nth(K, m) \in K
    <3>1. T \in SUBSET (1..Len(plan)) /\ K \in SUBSET (1..Len(plan)) BY <2>3, <2>4, <2>5
    <3> HIDE DEF T, K
    <3> QED BY <1>2, <3>1, RanksGrow, NthHasRank
  <2>9. ASSUME NEW m \in 1..Cardinality(K)
        PROVE  d[m] = takable[Rank(T, Nth(K, m))] /\ d[m] = post[Nth(K, m)]
    <3>1. Nth(K, m) \in K /\ Nth(K, m) \in T /\ Nth(K, m) \in E BY <1>7, <2>4, <2>8
    <3>2. d[m] = post[Nth(K, m)] BY <2>1, <2>2, <3>1
    <3> QED BY <2>7, <2>8, <3>1, <3>2
  <2>10. /\ d = [m \in 1..Cardinality(K) |-> takable[Rank(T, Nth(K, m))]]
         /\ d = [m \in 1..Cardinality(K) |-> post[Nth(K, m)]]
    BY <2>9
  <2>11. K = W => d = version
    <3>1. version = At(post, W) BY <1>0, WantedIsAt
    <3> HIDE DEF d, E, K, W, files, version
    <3> QED BY <2>10, <3>1 DEF At
  <2> HIDE DEF d, E, K, files, takable, T
  <2>12. Follows(d, takable)
    <3>1. T \in SUBSET (1..Len(plan)) BY <2>3, <2>5
    <3>2. Part(d, K, takable, T, Len(plan)) BY <1>2, <2>4, <2>7, <2>10, <3>1 DEF Part
    <3> QED BY <3>2, PartIsInOrder
  <2> QED BY <1>2, <2>3, <2>11, <2>12
<1>14. ASSUME ~ImagesOnly, WholeChoice', (Instagram' /\ fetch'.mode # "video") \/ SameKinds(seen["gallery"])'
       PROVE  d = version
  <2>0. ASSUME SameKinds(seen["gallery"])', NEW s \in DOMAIN plan PROVE Kind(post[s]) = plan[s].kind
    <3> DEFINE f == [t \in DOMAIN post |-> Kind(post[t])]
               g == [t \in DOMAIN plan |-> plan[t].kind]
    <3>1. f[s] = Kind(post[s]) /\ g[s] = plan[s].kind BY <1>13, <1>14, <2>0
    <3>2. f = g BY <1>9, <2>0 DEF SameKinds
    <3> HIDE DEF f, g
    <3> QED BY <3>1, <3>2
  <2>3. ASSUME Instagram', fetch'.mode # "video" PROVE mode \notin ImageModes \union VideoModes
    <3>1. Instagram /\ mode # "video" BY <1>5, <1>9, <2>3 DEF Instagram
    <3>2. mode \notin ImageModes BY <1>14, <3>1 DEF ImagesOnly
    <3>3. mode # "videos"
      <4> SUFFICES ASSUME mode = "videos" PROVE FALSE OBVIOUS
      <4>1. source = "instagram" BY <3>1 DEF PostInv, StoriesAreWhole, Instagram
      <4>2. SlotsOf(plan, "video") = {} BY <1>3, <4>1 DEF Route
      <4>3. K = {} BY <4>2 DEF Planned, VideoModes, SlotsOf
      <4> QED BY <1>5, <4>3
    <3> QED BY <3>1, <3>2, <3>3 DEF VideoModes
  <2>1. ASSUME NEW s \in W PROVE s \in K
    <3>1. /\ s \in DOMAIN plan
          /\ mode \in ImageModes => Kind(post[s]) = "image"
          /\ mode \in VideoModes => Kind(post[s]) = "video"
      BY <1>13, <1>14 DEF WantedAt
    <3>2. CASE SameKinds(seen["gallery"])'
      <4>1. Kind(post[s]) = plan[s].kind BY <2>0, <3>1, <3>2
      <4> QED BY <1>11, <1>14, <3>1, <4>1
    <3>3. CASE Instagram' /\ fetch'.mode # "video"
      <4>1. mode \notin ImageModes /\ mode \notin VideoModes BY <2>3, <3>3
      <4> QED BY <1>11, <1>14, <3>1, <4>1
    <3> QED BY <1>14, <3>2, <3>3
  <2>4. ASSUME NEW s \in K PROVE s \in W
    <3>1. /\ s \in DOMAIN plan
          /\ mode \in ImageModes => plan[s].kind = "image"
          /\ mode \in VideoModes => plan[s].kind = "video"
      BY DEF Planned
    <3>2. CASE SameKinds(seen["gallery"])'
      <4>1. Kind(post[s]) = plan[s].kind BY <2>0, <3>1, <3>2
      <4> QED BY <1>13, <1>14, <3>1, <4>1 DEF WantedAt
    <3>3. CASE Instagram' /\ fetch'.mode # "video"
      <4>1. mode \notin ImageModes /\ mode \notin VideoModes BY <2>3, <3>3
      <4> QED BY <1>13, <1>14, <3>1, <4>1 DEF WantedAt
    <3> QED BY <1>14, <3>2, <3>3
  <2>2. K = W BY <2>1, <2>4
  <2> QED BY <1>13, <1>14, <2>2
<1>15. OneVersion'
  <2> HIDE DEF d, K, W, T, files, E
  <2>1. /\ Wanted(seen'["gallery"], fetch'.mode) = version
        /\ Takable(seen'["gallery"], fetch'.mode) = takable
    BY <1>9
  <2>2. Follows(d, takable) BY <1>12, <1>13
  <2>3. WholeChoice' /\ ((Instagram' /\ fetch'.mode # "video") \/ SameKinds(seen["gallery"])')
        => d = version
    BY <1>12, <1>14
  <2> HIDE DEF version, takable
  <2> QED BY <1>9, <1>10, <2>1, <2>2, <2>3 DEF OneVersion, Follows
<1> QED BY <1>7, <1>9, <1>15

\* At first the job knows nothing of the post.
LEMMA PostInitially == ASSUME PostInit PROVE PostInv
<1>1. post \in Seq(Item) /\ post # <<>>
  <2>1. PICK n \in 1..MaxItems : post \in [1..n -> Item] BY DEF PostInit, Posts
  <2>2. n \in Nat /\ n # 0 BY PostAssumption
  <2>3. post \in Seq(Item) /\ Len(post) = n BY <2>1, <2>2
  <2> QED BY <2>2, <2>3
<1>2. <<>> \in Seq(Item) /\ <<>> \in Plans /\ <<>> \in Lists BY DEF Plans, Lists
<1>3. seen \in [{"inspect", "gallery", "videos"} -> Seq(Item)] BY <1>2 DEF PostInit
<1>4. /\ fetch \in Fetches /\ fetch.step = "new" /\ fetch.mode = "none"
      /\ fetch.artifacts = <<>> /\ fetch.children = <<>>
  BY <1>2 DEF PostInit, NoFetch, Fetches, PostSteps
<1>5. PostTypeOK BY <1>1, <1>3, <1>4 DEF PostTypeOK, PostInit
<1> QED BY <1>4, <1>5
  DEF PostInv, PlanIsMet, StoriesAreWhole, NothingYet, RoutesAreKept, OneVersion

\* What the job knows is of no version but those it met: a change of the post leaves it.
LEMMA FetchStays ==
  ASSUME PostInv, PostTypeOK', source' = source, seen' = seen, fetch' = fetch
  PROVE  PostInv'
<1>1. PlanIsMet' /\ StoriesAreWhole' /\ NothingYet'
  BY DEF PostInv, PlanIsMet, StoriesAreWhole, NothingYet, Assets, AssetId
<1>2. RoutesAreKept'
  BY DEF PostInv, RoutesAreKept, Route, VideosTaken, DiscoveryMatches
<1>3. Delivered' = Delivered BY DEF Delivered
<1>4. (WholeChoice' <=> WholeChoice) /\ (Instagram' <=> Instagram) BY DEF WholeChoice, Instagram
<1>5. SameKinds(seen["gallery"])' <=> SameKinds(seen["gallery"]) BY DEF SameKinds
<1>6. OneVersion' BY <1>3, <1>4, <1>5 DEF PostInv, OneVersion
<1> QED BY <1>1, <1>2, <1>6 DEF PostInv

\* A failed call leaves nothing of the attempt behind it.
LEMMA FailuresStep ==
  ASSUME PostInv, NEW retryable, Fail(retryable), source' = source, post' = post, edits' = edits,
         seen' \in [{"inspect", "gallery", "videos"} -> Seq(Item)]
  PROVE  PostInv'
<1>1. PostTypeOK BY DEF PostInv
<1>2. /\ fetch'.step \in {"inspect", "failed"} /\ fetch'.mode = fetch.mode
      /\ fetch'.step = "inspect" => fetch'.artifacts = <<>> /\ fetch'.children = <<>>
      /\ fetch' \in Fetches
  BY <1>1, FailLeaves
<1>3. PostTypeOK' BY <1>1, <1>2 DEF PostTypeOK
<1>4. StoriesAreWhole' BY <1>2 DEF PostInv, StoriesAreWhole
<1> QED BY <1>2, <1>3, <1>4 DEF PostInv, PlanIsMet, NothingYet, RoutesAreKept, OneVersion

\* The inspection shows the post and takes nothing of it.
LEMMA ShowStep == ASSUME PostInv, Show PROVE PostInv'
<1>1. PostTypeOK /\ fetch \in Fetches /\ post \in Seq(Item) BY DEF PostInv, PostTypeOK
<1>2. Assets(post) \in Plans BY <1>1, AssetsArePlan
<1>3. /\ fetch' \in Fetches /\ fetch'.step = "choose" /\ fetch'.mode = fetch.mode
      /\ fetch'.artifacts = <<>> /\ fetch'.children = <<>>
  BY <1>1, <1>2 DEF Show, Fetches, PostSteps, PostInv, NothingYet
<1>4. PostTypeOK' BY <1>1, <1>3 DEF PostTypeOK, Show, Rest
<1>5. StoriesAreWhole' BY <1>3 DEF PostInv, StoriesAreWhole, Show, Rest
<1> QED BY <1>3, <1>4, <1>5 DEF PostInv, PlanIsMet, NothingYet, RoutesAreKept, OneVersion

\* A choice names assets of what was shown; a story is chosen whole.
LEMMA ChosenStep == ASSUME PostInv, NEW mode \in PostModes, Choose(mode) PROVE PostInv'
<1>1. PostTypeOK /\ fetch \in Fetches /\ fetch.plan \in Plans BY DEF PostInv, PostTypeOK, Fetches
<1>2. OptionIds(fetch.plan, mode) \in SUBSET AssetIds
  <2>1. \A s \in 1..Len(fetch.plan) : fetch.plan[s] \in PlanAsset
    BY <1>1, ElementOfSeq DEF Plans
  <2>2. DOMAIN fetch.plan = 1..Len(fetch.plan) BY <1>1, SlotsSplit
  <2>3. \A s \in DOMAIN fetch.plan : fetch.plan[s].id \in AssetIds BY <2>1, <2>2 DEF PlanAsset
  <2> QED BY <2>3 DEF OptionIds
<1>3. <<>> \in Plans BY DEF Plans
<1>4. fetch' = [fetch EXCEPT !.step = "inspect", !.mode = mode,
                             !.ids = OptionIds(fetch.plan, mode), !.plan = <<>>]
  BY DEF Choose
<1>5. /\ fetch' \in Fetches /\ fetch'.step = "inspect" /\ fetch'.mode = mode
      /\ fetch'.artifacts = fetch.artifacts /\ fetch'.children = fetch.children
  BY <1>1, <1>2, <1>3, <1>4 DEF Fetches, PostSteps
<1>6. PostTypeOK' BY <1>1, <1>5 DEF PostTypeOK, Choose, Rest
<1>7. StoriesAreWhole'
  <2>1. source = "stories" => mode = "stories" BY DEF Choose, Offered, Collections
  <2> QED BY <1>5, <2>1 DEF StoriesAreWhole, Choose, Rest
<1>8. NothingYet' BY <1>5 DEF NothingYet, PostInv, Choose
<1> QED BY <1>5, <1>6, <1>7, <1>8 DEF PostInv, PlanIsMet, RoutesAreKept, OneVersion

\* The download starts from the version it inspects, and from nothing else.
LEMMA InspectStep == ASSUME PostInv, Inspect PROVE PostInv'
<1>1. /\ PostTypeOK /\ fetch \in Fetches /\ post \in Seq(Item) /\ fetch.step = "inspect"
      /\ seen \in [{"inspect", "gallery", "videos"} -> Seq(Item)]
  BY DEF PostInv, PostTypeOK, Inspect
<1>2. Assets(post) \in Plans BY <1>1, AssetsArePlan
<1>3. Route(Assets(post)) \in {"discover", "gallery"} BY DEF Route
<1>4. /\ fetch' \in Fetches /\ fetch'.step \in {"failed", Route(Assets(post))}
      /\ fetch'.mode = fetch.mode /\ fetch'.plan = Assets(post)
      /\ fetch'.artifacts = <<>> /\ fetch'.children = <<>>
  <2> DEFINE next == IF Len(post) > MaxItems THEN "failed" ELSE Route(Assets(post))
  <2>1. fetch' = [fetch EXCEPT !.tries = @ + 1, !.plan = Assets(post), !.step = next]
    BY DEF Inspect
  <2>2. next \in PostSteps /\ next \in {"failed", Route(Assets(post))} BY <1>3 DEF PostSteps
  <2> HIDE DEF next
  <2> DEFINE plan == Assets(post)
             more == fetch.tries + 1
  <2>3. plan \in Plans /\ more \in Nat BY <1>1, <1>2 DEF Fetches
  <2>4. fetch' = [fetch EXCEPT !.tries = more, !.plan = plan, !.step = next] BY <1>1, <2>1 DEF Fetches
  <2> HIDE DEF plan, more
  <2>5. fetch' \in Fetches BY <1>1, <2>2, <2>3, <2>4 DEF Fetches
  <2>6. /\ fetch'.step = next /\ fetch'.mode = fetch.mode /\ fetch'.plan = plan
        /\ fetch'.artifacts = fetch.artifacts /\ fetch'.children = fetch.children
    BY <1>1, <2>4 DEF Fetches
  <2>7. /\ fetch' \in Fetches /\ fetch'.step = next /\ fetch'.mode = fetch.mode
        /\ fetch'.plan = Assets(post)
        /\ fetch'.artifacts = fetch.artifacts /\ fetch'.children = fetch.children
    BY <2>5, <2>6 DEF plan
  <2>8. fetch.artifacts = <<>> /\ fetch.children = <<>> BY <1>1 DEF PostInv, NothingYet
  <2> QED BY <2>2, <2>7, <2>8
<1>5. <<>> \in Seq(Item) BY EmptySeq
<1>6. /\ seen' \in [{"inspect", "gallery", "videos"} -> Seq(Item)]
      /\ seen'["inspect"] = post /\ seen'["gallery"] = <<>> /\ seen'["videos"] = <<>>
  BY <1>1, <1>5 DEF Inspect
<1>7. source' = source /\ post' = post /\ edits' = edits BY DEF Inspect, Rest
<1>8. PostTypeOK' BY <1>1, <1>4, <1>6, <1>7 DEF PostTypeOK
<1>9. PlanIsMet' BY <1>4, <1>6, <1>7 DEF PlanIsMet, Assets, AssetId
<1>10. StoriesAreWhole' /\ NothingYet'
  BY <1>4, <1>7 DEF PostInv, StoriesAreWhole, NothingYet
<1>11. Route(fetch.plan)' = Route(Assets(post))
  BY <1>4, <1>7 DEF Route
<1>12. RoutesAreKept'
  BY <1>3, <1>4, <1>6, <1>11 DEF RoutesAreKept
<1>13. OneVersion' BY <1>3, <1>4 DEF OneVersion
<1> QED BY <1>8, <1>9, <1>10, <1>12, <1>13 DEF PostInv

\* The videos to take are those of the version that yt-dlp met, if it agrees with the plan.
LEMMA DiscoverStep == ASSUME PostInv, Discover PROVE PostInv'
<1>1. /\ PostTypeOK /\ fetch \in Fetches /\ post \in Seq(Item) /\ fetch.step = "discover"
      /\ seen \in [{"inspect", "gallery", "videos"} -> Seq(Item)]
  BY DEF PostInv, PostTypeOK, Discover
<1>2. source' = source /\ post' = post /\ edits' = edits BY DEF Discover, Rest
<1>3. /\ seen' \in [{"inspect", "gallery", "videos"} -> Seq(Item)]
      /\ seen'["inspect"] = seen["inspect"] /\ seen'["gallery"] = seen["gallery"]
      /\ seen'["videos"] = post
  BY <1>1 DEF Discover, Met
<1>4. CASE Fail(FALSE) BY <1>2, <1>3, <1>4, FailuresStep
<1>5. CASE DiscoveryMatches(post) /\
           fetch' = [fetch EXCEPT !.step = "child", !.children = Only(post, "video")]
  <2> DEFINE V == SlotsOf(fetch.plan, "video")
             F == OfKind(post, "video")
  <2>1. /\ Only(post, "video") \in Seq(Item) /\ Len(Only(post, "video")) = Cardinality(F)
        /\ Cardinality(F) \in Nat
    BY <1>1, OnlyHolds
  <2>2. /\ fetch' \in Fetches /\ fetch'.step = "child" /\ fetch'.children = Only(post, "video")
        /\ fetch'.plan = fetch.plan /\ fetch'.mode = fetch.mode /\ fetch'.artifacts = <<>>
    BY <1>1, <1>5, <2>1 DEF Fetches, PostSteps, PostInv, NothingYet
  <2>3. Route(fetch.plan) = "discover" /\ seen["gallery"] = <<>> BY <1>1 DEF PostInv, RoutesAreKept
  <2>4. VideosTaken'
    BY <1>3, <1>5, <2>2 DEF VideosTaken, DiscoveryMatches
  <2>5. Len(fetch'.artifacts) < Len(fetch'.children)
    <3>1. F = V BY <1>5 DEF DiscoveryMatches, OfKind
    <3>2. V # {} BY <2>3 DEF Route
    <3>3. DOMAIN post = 1..Len(post) /\ Len(post) \in Nat BY <1>1, LenProperties
    <3>4. IsFiniteSet(F) BY <3>3, RanksGrow DEF OfKind
    <3>5. Cardinality(F) # 0 BY <3>1, <3>2, <3>4, FS_EmptySet
    <3> QED BY <2>1, <2>2, <3>5
  <2>6. Route(fetch.plan)' = "discover" BY <1>2, <2>2, <2>3 DEF Route
  <2>7. PostTypeOK' BY <1>1, <1>2, <1>3, <2>2 DEF PostTypeOK
  <2>8. PlanIsMet' BY <1>1, <1>2, <1>3, <2>2 DEF PlanIsMet, PostInv, Assets, AssetId
  <2>9. StoriesAreWhole' BY <1>2, <2>2 DEF PostInv, StoriesAreWhole
  <2>10. RoutesAreKept' BY <1>3, <2>2, <2>3, <2>4, <2>5, <2>6 DEF RoutesAreKept
  <2> QED BY <2>2, <2>7, <2>8, <2>9, <2>10 DEF PostInv, NothingYet, OneVersion
<1> QED BY <1>4, <1>5 DEF Discover

\* Each child goes to its slot, and the last one ends the videos.
LEMMA ChildStep == ASSUME PostInv, DownloadChild PROVE PostInv'
<1>1. /\ PostTypeOK /\ fetch \in Fetches /\ fetch.step = "child" BY DEF PostInv, PostTypeOK, DownloadChild
<1>2. /\ fetch' \in Fetches /\ VideosTaken' /\ OneVersion'
      /\ fetch'.step = "child" => Len(fetch'.artifacts) < Len(fetch'.children)
      /\ fetch'.step = "gallery" => fetch.mode = "all" /\ Len(fetch'.artifacts) = Len(fetch'.children)
  BY ChildDelivers
<1>3. source' = source /\ post' = post /\ edits' = edits /\ seen' = seen BY DEF DownloadChild, Rest
<1>4. /\ fetch'.step \in {"child", "gallery", "done"} /\ fetch'.mode = fetch.mode
      /\ fetch'.plan = fetch.plan
  BY <1>1 DEF DownloadChild, Fetches
<1>5. PostTypeOK' BY <1>1, <1>2, <1>3 DEF PostTypeOK
<1>6. PlanIsMet' BY <1>1, <1>3, <1>4 DEF PlanIsMet, PostInv, Assets, AssetId
<1>7. StoriesAreWhole' BY <1>3, <1>4 DEF PostInv, StoriesAreWhole
<1>8. Route(fetch.plan)' = "discover" /\ seen'["gallery"] = <<>>
  BY <1>1, <1>3, <1>4 DEF Route, PostInv, RoutesAreKept
<1>9. RoutesAreKept' BY <1>2, <1>4, <1>8 DEF RoutesAreKept
<1> QED BY <1>2, <1>4, <1>5, <1>6, <1>7, <1>9 DEF PostInv, NothingYet

\* The files of gallery-dl end the download, with the videos that came before them.
LEMMA GalleryStep == ASSUME PostInv, RunGallery PROVE PostInv'
<1>1. /\ PostTypeOK /\ fetch \in Fetches /\ post \in Seq(Item) /\ fetch.step = "gallery"
      /\ seen \in [{"inspect", "gallery", "videos"} -> Seq(Item)]
  BY DEF PostInv, PostTypeOK, RunGallery
<1>2. source' = source /\ post' = post /\ edits' = edits BY DEF RunGallery, Rest
<1>3. seen' \in [{"inspect", "gallery", "videos"} -> Seq(Item)] BY <1>1 DEF RunGallery, Met
<1>4. CASE Fail(FALSE) BY <1>2, <1>3, <1>4, FailuresStep
<1>5. CASE ~Fail(FALSE)
  <2>1. \E artifacts : fetch' = [fetch EXCEPT !.step = "done", !.artifacts = artifacts]
    BY <1>5 DEF RunGallery
  <2>2. fetch'.step = "done" /\ fetch'.mode = fetch.mode BY <1>1, <2>1 DEF Fetches
  <2>3. fetch'.artifacts \in Lists /\ OneVersion'
    BY <2>2, MixedDelivers, PlainDelivers
  <2>4. fetch' \in Fetches BY <1>1, <2>1, <2>3 DEF Fetches, PostSteps
  <2>5. PostTypeOK' BY <1>1, <1>2, <1>3, <2>4 DEF PostTypeOK
  <2>6. StoriesAreWhole' BY <1>2, <2>2 DEF PostInv, StoriesAreWhole
  <2> QED BY <2>2, <2>3, <2>5, <2>6 DEF PostInv, PlanIsMet, NothingYet, RoutesAreKept
<1> QED BY <1>4, <1>5

\* A job may follow the post through every version it has: its plan is of the version its
\* inspection met, its videos are of one version, and what it ends with is.
THEOREM PostInvariant == PostSpec => []PostInv
<1>1. PostInit => PostInv BY PostInitially
<1>2. PostInv /\ [PostNext]_postVars => PostInv'
  <2> SUFFICES ASSUME PostInv, [PostNext]_postVars PROVE PostInv' OBVIOUS
  <2>1. CASE Edit
    <3>1. PostTypeOK' BY <2>1, EditStep DEF PostInv
    <3>2. source' = source /\ seen' = seen /\ fetch' = fetch BY <2>1 DEF Edit
    <3> QED BY <3>1, <3>2, FetchStays
  <2>2. CASE Show BY <2>2, ShowStep
  <2>3. CASE \E mode \in {"images", "zip", "videos", "video", "all", "stories"} : Choose(mode)
    BY <2>3, ChosenStep DEF PostModes
  <2>4. CASE Inspect BY <2>4, InspectStep
  <2>5. CASE CallFails \/ ChildMissing
    <3>1. seen' \in [{"inspect", "gallery", "videos"} -> Seq(Item)]
      BY <2>5 DEF CallFails, ChildMissing, PostInv, PostTypeOK
    <3>2. PICK retryable \in BOOLEAN : Fail(retryable) BY <2>5 DEF CallFails, ChildMissing
    <3>3. source' = source /\ post' = post /\ edits' = edits
      BY <2>5 DEF CallFails, ChildMissing, Rest
    <3> QED BY <3>1, <3>2, <3>3, FailuresStep
  <2>6. CASE Discover BY <2>6, DiscoverStep
  <2>7. CASE DownloadChild BY <2>7, ChildStep
  <2>8. CASE RunGallery BY <2>8, GalleryStep
  <2>9. CASE UNCHANGED postVars
    <3>1. /\ source' = source /\ post' = post /\ edits' = edits /\ seen' = seen /\ fetch' = fetch
      BY <2>9 DEF postVars
    <3>2. PostTypeOK' BY <3>1 DEF PostInv, PostTypeOK
    <3> QED BY <3>1, <3>2, FetchStays
  <2> QED BY <2>1, <2>2, <2>3, <2>4, <2>5, <2>6, <2>7, <2>8, <2>9 DEF PostNext
<1> QED BY <1>1, <1>2, PTL DEF PostSpec

\* Whichever changes of the post come between the calls, a download ends with one version
\* of it, in its order, though perhaps with a measured image where a video stood (adapter.py).
THEOREM DownloadsAreOfOneVersion == PostSpec => []OneVersion
<1>1. PostInv => OneVersion BY DEF PostInv
<1> QED BY <1>1, PostInvariant, PTL
=============================================================================
