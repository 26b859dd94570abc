------------------------- MODULE InstagramSessions -------------------------
(* The Instagram session of one user: the vault row with its generation, the   *)
(* lease that lends it to one job at a time, and the jobs that try it first    *)
(* and fall back to the operator's cookie. Every query names the owner, so     *)
(* users do not meet; one of them is enough.                                   *)
EXTENDS Naturals, FiniteSets

CONSTANTS
  Login,        \* logins of the user; each brings a session of its own
  Job,          \* jobs for Instagram links of the user
  Private,      \* the jobs accepted for private media
  Inspected,    \* the inspection that continues as a download, or the download itself
  LeaseTime,    \* ticks until a lease ends by itself
  MaxTime,      \* bound on the clock
  MaxTries,     \* starts of a job before a retryable error fails it
  MaxLeaves,    \* bound on the user's disconnections
  MaxDeaths     \* bound on the deaths of a process

ASSUME SessionsAssumption ==
  /\ Private \subseteq Job
  /\ Inspected \in [Job -> Job]
  /\ \A j \in Job : j \in Private <=> Inspected[j] \in Private
  /\ \A n \in {LeaseTime, MaxTime, MaxTries, MaxLeaves, MaxDeaths} : n \in Nat
  /\ LeaseTime > 0

VARIABLES
  credential,   \* the vault row
  connecting,   \* per login, where store_session stands and the generation it read
  leaving,      \* the disconnection under way, the generation it read, their number
  lease,        \* per job, the lease it took last: its generation and its end
  job,          \* per job, its row: status, phase of the credential, frozen generation
  attempt,      \* per job, the attempt that runs in a worker thread
  refused,      \* sessions Instagram refused to a job
  issued,       \* generations and the sessions saved under them, so far
  now, deaths

sessionVars == <<credential, connecting, leaving, lease, job, attempt, refused, issued, now, deaths>>
vaultVars == <<credential, connecting, leaving, issued>>

NoCredential == [state |-> "none", generation |-> 0, session |-> "none"]
NoLease == [generation |-> 0, until |-> 0]
Idle == [step |-> "idle", generation |-> 0, session |-> "none", error |-> "none"]
NewRow == [status |-> "new", phase |-> "not_started", generation |-> 0, tries |-> 0]

Steps == {"idle", "choose", "open", "lease", "use", "release", "mark", "switch", "operator"}

Public(j) == j \notin Private
Active(j) == job[j].status = "active"
Live(j) == lease[j].until > now
Connected(g) == credential.state = "connected" /\ credential.generation = g

SessionsInit ==
  /\ credential = NoCredential
  /\ connecting = [l \in Login |-> [step |-> "new", generation |-> 0]]
  /\ lease = [j \in Job |-> NoLease]
  /\ job = [j \in Job |-> NewRow]
  /\ attempt = [j \in Job |-> Idle]
  /\ leaving = [step |-> "off", generation |-> 0, count |-> 0]
  /\ refused = {} /\ issued = {}
  /\ now = 0 /\ deaths = 0

(* CredentialVault.store_session and disconnect: the row is read, and later    *)
(* written whole in a transaction of its own.                                  *)
ReadForStore(l) ==
  /\ connecting[l].step = "new"
  /\ connecting' = [connecting EXCEPT ![l] = [step |-> "read", generation |-> credential.generation]]
  /\ UNCHANGED <<credential, leaving, issued, lease, job, attempt, refused, now, deaths>>

\* Two first logins insert different ids for one owner, and the second one fails.
StoreSession(l) ==
  LET read == connecting[l].generation IN
  /\ connecting[l].step = "read"
  /\ connecting' = [connecting EXCEPT ![l].step = "done"]
  /\ IF read = 0 /\ credential # NoCredential
     THEN UNCHANGED <<credential, issued>>
     ELSE /\ credential' = [state |-> "connected", generation |-> read + 1, session |-> l]
          /\ issued' = issued \union {<<read + 1, l>>}
  /\ UNCHANGED <<leaving, lease, job, attempt, refused, now, deaths>>

ReadForDisconnect ==
  /\ leaving.step = "off" /\ leaving.count < MaxLeaves /\ credential # NoCredential
  /\ leaving' = [step |-> "read", generation |-> credential.generation, count |-> leaving.count + 1]
  /\ UNCHANGED <<credential, connecting, issued, lease, job, attempt, refused, now, deaths>>

Disconnect ==
  /\ leaving.step = "read"
  /\ leaving' = [leaving EXCEPT !.step = "off"]
  /\ credential' = [state |-> "disconnected", generation |-> leaving.generation, session |-> "none"]
  /\ UNCHANGED <<connecting, issued, lease, job, attempt, refused, now, deaths>>

\* Mutant of MarkSessionInvalid: the generation is not compared.
MarkAnyGeneration(g) ==
  credential' = IF credential.state = "connected"
                THEN [credential EXCEPT !.state = "expired"] ELSE credential

\* Mutant: rows of an earlier generation are expired, not the one that failed.
MarkOlderGeneration(g) ==
  credential' = IF credential.state = "connected" /\ credential.generation < g
                THEN [credential EXCEPT !.state = "expired"] ELSE credential

\* Expires the row only while it holds the generation that failed.
MarkSessionInvalid(g) ==
  credential' = IF Connected(g) THEN [credential EXCEPT !.state = "expired"] ELSE credential

(* A link is accepted; for private media only on a connected session, whose    *)
(* generation the row keeps. A download that continues an inspection copies    *)
(* what the inspection decided.                                                *)
Accept(j) ==
  /\ job[j].status = "new" /\ Inspected[j] = j
  /\ j \in Private => credential.state = "connected"
  /\ job' = [job EXCEPT ![j] = [NewRow EXCEPT
       !.status = "active", !.generation = IF j \in Private THEN credential.generation ELSE 0]]
  /\ UNCHANGED <<vaultVars, lease, attempt, refused, now, deaths>>

Continue(j) ==
  /\ job[j].status = "new" /\ Inspected[j] # j
  /\ job[Inspected[j]].status = "succeeded"
  /\ job' = [job EXCEPT ![j] = [job[Inspected[j]] EXCEPT !.status = "active", !.tries = 0]]
  /\ UNCHANGED <<vaultVars, lease, attempt, refused, now, deaths>>

Cancel(j) ==
  /\ Active(j)
  /\ job' = [job EXCEPT ![j].status = "cancelled"]
  /\ UNCHANGED <<vaultVars, lease, attempt, refused, now, deaths>>

Goto(j, step) == attempt' = [attempt EXCEPT ![j].step = step]

\* The attempt raises; a retryable error leaves the row to a later try.
Raise(j, retryable) ==
  /\ attempt' = [attempt EXCEPT ![j] = Idle]
  /\ job' = [job EXCEPT ![j].status =
       IF @ # "active" THEN @
       ELSE IF retryable /\ job[j].tries < MaxTries THEN "active" ELSE "failed"]

\* The owner's session is what fails: try to go on with the operator's.
RaiseInvalid(j) == attempt' = [attempt EXCEPT ![j].step = "mark"] /\ UNCHANGED job

\* connected_generation is read before the row of the job is.
Begin(j) ==
  /\ attempt[j].step = "idle" /\ Active(j)
  /\ job' = [job EXCEPT ![j].tries = @ + 1]
  /\ attempt' = [attempt EXCEPT ![j] = [Idle EXCEPT
       !.step = IF Public(j) THEN "choose" ELSE "open",
       !.generation = IF credential.state = "connected" THEN credential.generation ELSE 0]]
  /\ UNCHANGED <<vaultVars, lease, refused, now, deaths>>

\* select_public_instagram_credential: the first attempt decides for all of them.
Frozen(j) ==
  IF job[j].phase = "not_started" /\ Active(j)
  THEN [job[j] EXCEPT !.generation = attempt[j].generation,
                      !.phase = IF attempt[j].generation = 0 THEN "operator" ELSE "user"]
  ELSE job[j]

Choose(j) ==
  /\ attempt[j].step = "choose"
  /\ job' = [job EXCEPT ![j] = Frozen(j)]
  /\ attempt' = [attempt EXCEPT ![j] =
       IF ~Active(j) THEN Idle
       ELSE [Idle EXCEPT !.step = IF Frozen(j).phase = "operator" THEN "operator" ELSE "open"]]
  /\ UNCHANGED <<vaultVars, lease, refused, now, deaths>>

\* The materializer reads the row, and keeps its envelope.
Open(j) ==
  /\ attempt[j].step = "open"
  /\ IF Connected(job[j].generation)
     THEN /\ attempt' = [attempt EXCEPT ![j] = [Idle EXCEPT
               !.step = "lease", !.generation = credential.generation,
               !.session = credential.session]]
          /\ UNCHANGED job
     ELSE RaiseInvalid(j)
  /\ UNCHANGED <<vaultVars, lease, refused, now, deaths>>

\* Mutant: only a lease of the same generation keeps others out.
LeaseBusyByGeneration(j) == \E i \in Job : Live(i) /\ lease[i].generation = attempt[j].generation

\* A lease of any generation keeps others out.
LeaseBusy(j) == \E i \in Job : Live(i)

\* CredentialLeaseBusyError is neither a reason to fall back nor retryable.
AcquireLease(j) ==
  /\ attempt[j].step = "lease"
  /\ IF ~Connected(attempt[j].generation)
     THEN RaiseInvalid(j) /\ UNCHANGED lease
     ELSE IF LeaseBusy(j)
     THEN Raise(j, FALSE) /\ UNCHANGED lease
     ELSE /\ lease' = [lease EXCEPT ![j] =
               [generation |-> attempt[j].generation, until |-> now + LeaseTime]]
          /\ Goto(j, "use") /\ UNCHANGED job
  /\ UNCHANGED <<vaultVars, refused, now, deaths>>

\* The engine runs with the cookie file of the session.
Use(j, error) ==
  /\ attempt[j].step = "use"
  /\ attempt' = [attempt EXCEPT ![j].step = "release", ![j].error = error]
  /\ refused' = IF error = "refused" THEN refused \union {attempt[j].session} ELSE refused
  /\ UNCHANGED <<vaultVars, lease, job, now, deaths>>

Succeed(j) ==
  /\ attempt' = [attempt EXCEPT ![j] = Idle]
  /\ job' = [job EXCEPT ![j].status = IF @ = "active" THEN "succeeded" ELSE @]

\* The file is removed and the lease given back on every path.
Release(j) ==
  /\ attempt[j].step = "release"
  /\ lease' = [lease EXCEPT ![j] = NoLease]
  /\ \/ attempt[j].error = "none" /\ Succeed(j)
     \/ attempt[j].error = "refused" /\ RaiseInvalid(j)
     \/ attempt[j].error = "other" /\ \E retryable \in BOOLEAN : Raise(j, retryable)
  /\ UNCHANGED <<vaultVars, refused, now, deaths>>

Mark(j) ==
  /\ attempt[j].step = "mark"
  /\ MarkSessionInvalid(job[j].generation)
  /\ IF Public(j) THEN Goto(j, "switch") /\ UNCHANGED job ELSE Raise(j, FALSE)
  /\ UNCHANGED <<connecting, leaving, issued, lease, refused, now, deaths>>

\* switch_public_instagram_to_operator, once per job and not for a cancelled one.
Switch(j) ==
  /\ attempt[j].step = "switch"
  /\ IF Active(j) /\ job[j].phase = "user"
     THEN job' = [job EXCEPT ![j].phase = "operator"] /\ Goto(j, "operator")
     ELSE Raise(j, FALSE)
  /\ UNCHANGED <<vaultVars, lease, refused, now, deaths>>

UseOperator(j) ==
  /\ attempt[j].step = "operator"
  /\ Succeed(j) \/ \E retryable \in BOOLEAN : Raise(j, retryable)
  /\ UNCHANGED <<vaultVars, lease, refused, now, deaths>>

Tick ==
  /\ now < MaxTime /\ now' = now + 1
  /\ UNCHANGED <<vaultVars, lease, job, attempt, refused, deaths>>

\* Leases and cookie files of a dead worker stay; its jobs are tried again.
WorkerDies ==
  /\ deaths < MaxDeaths /\ deaths' = deaths + 1
  /\ \E j \in Job : attempt[j] # Idle
  /\ attempt' = [j \in Job |-> Idle]
  /\ UNCHANGED <<vaultVars, lease, job, refused, now>>

AttemptStep(j) ==
  \/ Begin(j) \/ Choose(j) \/ Open(j) \/ AcquireLease(j)
  \/ \E error \in {"none", "refused", "other"} : Use(j, error)
  \/ Release(j) \/ Mark(j) \/ Switch(j) \/ UseOperator(j)

StoreStep(l) == ReadForStore(l) \/ StoreSession(l)

SessionsNext ==
  \/ \E l \in Login : StoreStep(l)
  \/ \E j \in Job : Accept(j) \/ Continue(j) \/ Cancel(j) \/ AttemptStep(j)
  \/ ReadForDisconnect \/ Disconnect \/ WorkerDies \/ Tick

SessionsSpec == SessionsInit /\ [][SessionsNext]_sessionVars

-----------------------------------------------------------------------------
Holding(j) == attempt[j].step \in {"use", "release"}

(* One job at a time uses the user's session, over reconnects and deaths,      *)
(* except that an attempt may outlast its lease.                               *)
SessionsAreExclusive ==
  \A i, j \in Job : (i # j /\ Holding(i) /\ Holding(j)) => ~Live(i) \/ ~Live(j)

\* Overlapping logins and disconnections may save two sessions under one generation.
Twins(g) == \E l1, l2 \in Login : l1 # l2 /\ {<<g, l1>>, <<g, l2>>} \subseteq issued

(* A session is shown as expired only when Instagram refused that session: a   *)
(* job that fails late does not expire a session connected since then, short   *)
(* of two sessions saved under one generation.                                 *)
ExpiredWasRefused ==
  credential.state = "expired" =>
    credential.session \in refused \/ Twins(credential.generation)

(* A job goes over to the operator's cookie only when it is public and the     *)
(* session it was to use is gone: expired, disconnected or replaced.           *)
OperatorIsLastResort ==
  \A j \in Job : job[j].phase = "operator" =>
    Public(j) /\ (~Connected(job[j].generation) \/ Twins(job[j].generation))
=============================================================================
