--------------------------- MODULE RecoveryBatches ---------------------------
(***************************************************************************)
(* Batched recovery of failed jobs: the bot remediates the providers of    *)
(* an accepted cookie file, the worker goes on in every maintenance pass   *)
(* and looks once, at its start, for failures of an older version          *)
(* (application/services/job_recovery_service.py).  One transaction of the *)
(* jobs table or one call of Redis is one step, so that passes of the two  *)
(* processes overlap.  A job's run is a single step here; JobLifecycle has *)
(* its parts.                                                              *)
(***************************************************************************)
EXTENDS Integers, FiniteSets, SequencesExt

CONSTANTS
  Job, Site,
  SiteOf,     \* the cookie provider of a job's link
  OwnerOf,        \* the user of a job
  FailedFirst,    \* the jobs in the order in which they failed
  FailedFor,      \* the classes in which they may have failed
  MarkedFirst,    \* the sites that may be marked already, in their order
  TrayJobs,       \* highlight trays, which recovery cannot enqueue
  BatchSize,      \* remediation_batch_size, startup_recovery_batch_size
  WindowFactor,   \* rows read per place of a batch (8 in the code)
  PerUser,        \* max_recovery_per_user
  Threshold,      \* queue_pressure_threshold
  MaxRecovery,    \* max_recovery_attempts
  ReconcileSize,  \* reconciliation_batch_size
  MaxVersion,     \* bound: deployed versions
  MaxIncidents       \* bound: uploads, starts of the worker and jobs that grow too old, together

ASSUME RecoveryAssumption ==
  /\ FailedFirst \in Seq(Job)
  /\ \A i, k \in DOMAIN FailedFirst : FailedFirst[i] = FailedFirst[k] => i = k
  /\ FailedFor \subseteq [Job -> {"cookie", "app_fix"}]
  /\ {BatchSize, WindowFactor, PerUser, Threshold, MaxRecovery, ReconcileSize} \subseteq Nat \ {0}

VARIABLES
  rows,      \* the job rows: status, class, attempts, failedOn, triedOn
  order,     \* the jobs by updated_at, the oldest first
  aged,      \* jobs last written before the age limit
  markers,   \* cookie_remediation_state, by available_since
  entries,   \* outstanding entries of the ARQ queue
  pass,      \* what the bot and the worker are doing
  version,   \* of the running application
  forgotten, \* jobs still due when a marker went that no list could show
  incidents  \* uploads, starts and jobs grown too old so far

recoveryVars == <<rows, order, aged, markers, entries, pass, version, forgotten, incidents>>

Process == {"bot", "worker"}
Classes == {"cookie", "app_fix"}
Incident == incidents < MaxIncidents /\ incidents' = incidents + 1

(* A row no query of recovery reads any more. *)
Retired == [status |-> "retired", class |-> "none", attempts |-> 0, failedOn |-> 0, triedOn |-> 0]
Idle == [at |-> "idle", goal |-> "none", todo |-> <<>>, limit |-> 0, found |-> <<>>,
         shown |-> {}]

(* Jobs that failed before, each for one of the two reasons. *)
RecoveryInit ==
  /\ \E classes \in FailedFor :
       rows = [j \in Job |-> [status |-> "failed", class |-> classes[j], attempts |-> 0,
                              failedOn |-> 1, triedOn |-> 0]]
  /\ order = FailedFirst
  /\ aged = {}
  /\ markers \in MarkedFirst
  /\ forgotten = {}
  /\ entries = {}
  /\ pass = [x \in Process |-> Idle]
  /\ version = 1
  /\ incidents = 0

-----------------------------------------------------------------------------
(* A list without one of its entries; no list holds an entry twice. *)
Without(js, j) ==
  IF \E i \in DOMAIN js : js[i] = j THEN RemoveAt(js, CHOOSE i \in DOMAIN js : js[i] = j) ELSE js

(* Queries choose places of the order: their first n, and the jobs there. *)
FirstOf(S, n) == {i \in S : Cardinality({k \in S : k <= i}) <= n}
JobsAt(S) ==
  [n \in 1..Cardinality(S) |-> order[CHOOSE i \in S : Cardinality({k \in S : k <= i}) = n]]

(* The transactions. *)

(* A write of a row renews its updated_at. *)
Touch(j) ==
  /\ order' = Append(Without(order, j), j)
  /\ aged' = aged \ {j}

\* Mutant: without the limit of attempts.
RecoverableAgain(j, class) ==
  /\ rows[j].status = "failed"
  /\ rows[j].class = class
  /\ j \notin aged

Recoverable(j, class) ==
  /\ rows[j].status = "failed"
  /\ rows[j].class = class
  /\ rows[j].attempts < MaxRecovery
  /\ j \notin aged

Due(class) == {n \in DOMAIN order : Recoverable(order[n], class)}

OfOneUser(S, i) == {k \in S : k <= i /\ OwnerOf[order[k]] = OwnerOf[order[i]]}

\* Mutant: one row of a user too few.
CapBelowPerUser(S) == {i \in S : Cardinality(OfOneUser(S, i)) < PerUser}

(* At most PerUser rows of a user, the oldest first. *)
CapPerUser(S) == {i \in S : Cardinality(OfOneUser(S, i)) <= PerUser}

(* The window is cut before the provider is looked at. *)
CookieWindow(limit) == FirstOf(Due("cookie"), limit * WindowFactor)
CookieCandidates(p, limit) ==
  JobsAt(FirstOf(CapPerUser({n \in CookieWindow(limit) : SiteOf[order[n]] = p}), limit))

AppFixCandidates(limit) ==
  LET due == {n \in Due("app_fix") : /\ rows[order[n]].failedOn # version
                                     /\ rows[order[n]].triedOn # version}
  IN JobsAt(FirstOf(CapPerUser(FirstOf(due, limit * WindowFactor)), limit))

(* Whatever a window may show, of whichever site. *)
InSight(limit) == {order[n] : n \in CookieWindow(limit)}

(* Requeued by recovery and not yet run, whatever the queue knows. *)
PendingRequeues ==
  JobsAt(FirstOf({n \in DOMAIN order : rows[order[n]].status = "queued" /\ rows[order[n]].attempts > 0},
                 ReconcileSize))

MarkRequeued(j) ==
  /\ rows' = [rows EXCEPT ![j].status = "queued", ![j].attempts = @ + 1,
                          ![j].triedOn = version]
  /\ Touch(j)

Unmark(p) == markers' = Without(markers, p)
MarkAvailable(p) == markers' = Append(Without(markers, p), p)

-----------------------------------------------------------------------------
(* A pass, process x.  The goals are "remediate" (the bot after an upload), *)
(* "maintain" and "app_fix" (the worker), and "reconcile" (its start).      *)

Set(x, fields) == pass' = [pass EXCEPT ![x] = fields]

(* After a provider's batch: remediation measures the queue again for the  *)
(* next one, maintenance keeps the limit it began with.                    *)
AfterBatch(x) ==
  LET todo == Tail(pass[x].todo)
  IN CASE pass[x].goal = "app_fix" ->
            [Idle EXCEPT !.at = "pending", !.goal = "reconcile"]
       [] pass[x].goal = "reconcile" -> Idle
       [] pass[x].goal = "remediate" /\ todo # <<>> ->
            [pass[x] EXCEPT !.at = "mark", !.todo = todo, !.found = <<>>, !.shown = {}]
       [] pass[x].goal = "maintain" /\ todo # <<>> ->
            [pass[x] EXCEPT !.at = "list", !.todo = todo, !.found = <<>>, !.shown = {}]
       [] OTHER -> Idle

Headroom == Threshold - Cardinality(entries)

UploadAccepted(ps) ==
  /\ pass["bot"].at = "idle"
  /\ Incident
  /\ Set("bot", [Idle EXCEPT !.at = "mark", !.goal = "remediate", !.todo = ps])
  /\ UNCHANGED <<rows, order, aged, markers, entries, version, forgotten>>

MarkProvider ==
  /\ pass["bot"].at = "mark"
  /\ MarkAvailable(Head(pass["bot"].todo))
  /\ forgotten' = {j \in forgotten : SiteOf[j] # Head(pass["bot"].todo)}
  /\ Set("bot", [pass["bot"] EXCEPT !.at = "measure"])
  /\ UNCHANGED <<rows, order, aged, entries, version, incidents>>

BeginMaintenance ==
  /\ pass["worker"].at = "idle"
  /\ Set("worker", [Idle EXCEPT !.at = "measure", !.goal = "maintain"])
  /\ UNCHANGED <<rows, order, aged, markers, entries, version, forgotten, incidents>>

WithLimit(x, limit) ==
  IF pass[x].goal # "maintain" THEN [pass[x] EXCEPT !.at = "list", !.limit = limit]
  ELSE IF markers = <<>> THEN Idle
  ELSE [pass[x] EXCEPT !.at = "list", !.limit = limit, !.todo = markers]

Deferred(x) == IF pass[x].goal = "maintain" THEN Idle ELSE AfterBatch(x)

(* A probe that fails is no reason to wait. *)
MeasureQueue(x) ==
  /\ pass[x].at = "measure"
  /\ \/ Headroom <= 0 /\ Set(x, Deferred(x))
     \/ Headroom > 0 /\ Set(x, WithLimit(x, IF Headroom < BatchSize THEN Headroom ELSE BatchSize))
     \/ Set(x, WithLimit(x, BatchSize))
  /\ UNCHANGED <<rows, order, aged, markers, entries, version, forgotten, incidents>>

(* What was read: the job and the attempts it had then. *)
Read(js) == [i \in DOMAIN js |-> [job |-> js[i], attempts |-> rows[js[i]].attempts]]

ListCandidates(x) ==
  /\ pass[x].at = "list"
  /\ LET js == IF pass[x].goal = "app_fix" THEN AppFixCandidates(pass[x].limit)
               ELSE CookieCandidates(Head(pass[x].todo), pass[x].limit)
     IN Set(x, IF js # <<>> THEN [pass[x] EXCEPT !.at = "requeue", !.found = Read(js)]
               ELSE IF pass[x].goal = "app_fix" THEN AfterBatch(x)
               ELSE [pass[x] EXCEPT !.at = "clear", !.shown = InSight(pass[x].limit)])
  /\ UNCHANGED <<rows, order, aged, markers, entries, version, forgotten, incidents>>

(* A transaction of its own: what the list showed may have changed. *)
ClearMarker(x) ==
  /\ pass[x].at = "clear"
  /\ LET p == Head(pass[x].todo)
     IN /\ Unmark(p)
        /\ forgotten' = forgotten \cup
             {j \in Job \ pass[x].shown : SiteOf[j] = p /\ Recoverable(j, "cookie")}
  /\ Set(x, AfterBatch(x))
  /\ UNCHANGED <<rows, order, aged, entries, version, incidents>>

NextFound(x) ==
  IF Len(pass[x].found) = 1 THEN AfterBatch(x)
  ELSE [pass[x] EXCEPT !.at = IF pass[x].goal = "reconcile" THEN "probe" ELSE "requeue",
                       !.found = Tail(@)]

Requeue(x) ==
  /\ pass[x].at = "requeue"
  /\ LET j == Head(pass[x].found).job
     IN \/ /\ rows[j].status = "failed"
           /\ MarkRequeued(j)
           /\ Set(x, [pass[x] EXCEPT !.at = "enqueue"])
        \/ /\ rows[j].status # "failed"
           /\ Set(x, NextFound(x))
           /\ UNCHANGED <<rows, order, aged>>
  /\ UNCHANGED <<markers, entries, version, forgotten, incidents>>

(* The enqueue lands and, in a recovery batch, the owner is told, which    *)
(* renews updated_at again.                                                *)
EnqueueLands(x) ==
  /\ pass[x].at = "enqueue"
  /\ LET j == Head(pass[x].found).job
     IN /\ j \notin TrayJobs
        /\ entries' = entries \cup {j}
        /\ IF pass[x].goal = "reconcile" \/ rows[j] = Retired THEN UNCHANGED <<order, aged>>
           ELSE Touch(j)
  /\ Set(x, NextFound(x))
  /\ UNCHANGED <<rows, markers, version, forgotten, incidents>>

(* Redis raises, or the row is a tray: the row stays queued. *)
EnqueueFails(x) ==
  /\ pass[x].at = "enqueue"
  /\ Set(x, NextFound(x))
  /\ UNCHANGED <<rows, order, aged, markers, entries, version, forgotten, incidents>>

ListRequeues ==
  /\ pass["worker"].at = "pending"
  /\ LET js == PendingRequeues
     IN Set("worker", IF js = <<>> THEN Idle
                      ELSE [pass["worker"] EXCEPT !.at = "probe", !.found = Read(js)])
  /\ UNCHANGED <<rows, order, aged, markers, entries, version, forgotten, incidents>>

(* Only a row ARQ does not know is enqueued again, whatever the pressure. *)
ProbeRequeue ==
  /\ pass["worker"].at = "probe"
  /\ Set("worker", IF Head(pass["worker"].found).job \in entries THEN NextFound("worker")
                   ELSE [pass["worker"] EXCEPT !.at = "enqueue"])
  /\ UNCHANGED <<rows, order, aged, markers, entries, version, forgotten, incidents>>

-----------------------------------------------------------------------------
(* Around the passes. *)

(* A queued job is taken and fails again, or is through with recovery:     *)
(* it succeeds, is cancelled or fails for another reason.                  *)
FailsAgain(j, class) ==
  /\ j \in entries
  /\ rows[j].status = "queued"
  /\ rows' = [rows EXCEPT ![j].status = "failed", ![j].class = class, ![j].failedOn = version]
  /\ entries' = entries \ {j}
  /\ Touch(j)
  /\ UNCHANGED <<markers, pass, version, forgotten, incidents>>

Retires(j) ==
  /\ j \in entries
  /\ rows[j].status = "queued"
  /\ rows' = [rows EXCEPT ![j] = Retired]
  /\ entries' = entries \ {j}
  /\ order' = Without(order, j)
  /\ aged' = aged \ {j}
  /\ UNCHANGED <<markers, pass, version, forgotten, incidents>>

(* An entry enqueued twice finds a row that is no longer queued. *)
EntryEnds(j) ==
  /\ j \in entries
  /\ rows[j].status # "queued"
  /\ entries' = entries \ {j}
  /\ UNCHANGED <<rows, order, aged, markers, pass, version, forgotten, incidents>>

GrowOld(j) ==
  /\ rows[j].status = "failed"
  /\ j \notin aged
  /\ Incident
  /\ aged' = aged \cup {j}
  /\ UNCHANGED <<rows, order, markers, entries, pass, version, forgotten>>

NewBot ==
  /\ pass["bot"].at # "idle"
  /\ Set("bot", Idle)
  /\ UNCHANGED <<rows, order, aged, markers, entries, version, forgotten, incidents>>

(* The worker dies and starts again, perhaps as a newer version: app-fix   *)
(* recovery first, then the requeues that never reached the queue.         *)
NewWorker(v) ==
  /\ v >= version
  /\ Incident
  /\ version' = v
  /\ Set("worker", [Idle EXCEPT !.at = "measure", !.goal = "app_fix"])
  /\ UNCHANGED <<rows, order, aged, markers, entries, forgotten>>

PassStep(x) ==
  \/ MeasureQueue(x)
  \/ ListCandidates(x)
  \/ ClearMarker(x)
  \/ Requeue(x)
  \/ EnqueueLands(x)
  \/ EnqueueFails(x)
WorkerProgress ==
  \/ BeginMaintenance
  \/ ListRequeues
  \/ ProbeRequeue
  \/ PassStep("worker")
BotProgress == MarkProvider \/ PassStep("bot")
RunsEnd ==
  \/ \E j \in Job, c \in Classes : FailsAgain(j, c)
  \/ \E j \in Job : Retires(j) \/ EntryEnds(j)
RecoveryNext ==
  \/ WorkerProgress
  \/ BotProgress
  \/ RunsEnd
  \/ \E S \in (SUBSET Site) \ {{}} : \E ps \in SetToSeqs(S) : UploadAccepted(ps)
  \/ \E j \in Job : GrowOld(j)
  \/ NewBot
  \/ \E v \in 1..MaxVersion : NewWorker(v)

(* Maintenance comes round and goes on while the worker lives, and the     *)
(* worker works its queue off.  The bot may stop for good.                 *)
RecoveryFairness == WF_recoveryVars(WorkerProgress) /\ WF_recoveryVars(RunsEnd)
RecoverySpec == RecoveryInit /\ [][RecoveryNext]_recoveryVars /\ RecoveryFairness

-----------------------------------------------------------------------------
(* Properties. *)

Marked(p) == \E i \in DOMAIN markers : markers[i] = p

(* A failed job whose site got a fresh cookie is tried again by some later *)
(* pass, unless it grows too old, whatever the queue pressure, the other   *)
(* sites, users and deaths of a process (recover_maintenance_batch goes on *)
(* until the marker is cleared).  Forgotten is only a job that the last    *)
(* list could not show: it failed later, or rows of other sites filled the *)
(* window.                                                                 *)
BacklogDrains ==
  \A j \in Job : (Recoverable(j, "cookie") /\ Marked(SiteOf[j]))
                   ~> (~Recoverable(j, "cookie") \/ j \in forgotten)

(* A job is recovered at most MaxRecovery times, unless two passes listed  *)
(* it at once and the other one's attempt has already failed again (the    *)
(* UPDATE of mark_recovery_requeued looks at the status only).             *)
RecoveryIsBounded ==
  [][\A j \in Job : rows'[j].attempts > MaxRecovery =>
       \/ rows'[j].attempts = rows[j].attempts
       \/ \E x \in Process : /\ pass[x].at = "requeue"
                             /\ Head(pass[x].found).job = j
                             /\ Head(pass[x].found).attempts < rows[j].attempts]_recoveryVars
=============================================================================
