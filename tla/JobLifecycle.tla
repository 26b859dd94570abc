---------------------------- MODULE JobLifecycle ----------------------------
(***************************************************************************)
(* One request's life, from the Telegram handler that accepts it to the    *)
(* outcome the user is told.  Three actors share the jobs table (JobStore) *)
(* and the ARQ queue (ArqQueue):                                           *)
(*   - the bot, which handles one update at a time (durable_poll feeds the *)
(*     dispatcher sequentially) and stops between any two of its steps;    *)
(*   - the worker process: its startup sequence, its maintenance, and one  *)
(*     attempt per ARQ entry (the process_*_job coroutines);               *)
(*   - time: expiring Redis keys and the retention purge.                  *)
(* Each action is one SQLite transaction or one Redis command together     *)
(* with the local step around it, so every crash point of the code lies    *)
(* between two actions.                                                    *)
(***************************************************************************)
EXTENDS JobStore, ArqQueue

CONSTANTS
  Continuations, \* downloads an inspection's automatic continuation may ask for
  Faults,        \* which of the failures below may happen
  MaxStops       \* bound: crashes and shutdowns of either process

FaultKinds ==
  {"enqueue_error", "ambiguous_enqueue", "timeout", "tail_error", "lost_quarantine"}

ASSUME ContinuationsAssumption ==
  Continuations \subseteq {j \in Job : Kind[j] = "download"}
ASSUME FaultsAssumption == Faults \subseteq FaultKinds
ASSUME MaxStopsAssumption == MaxStops \in Nat

VARIABLES
  botStep,    \* what the running handler still has to do for job j
  worker,     \* phase of the worker process
  todo,       \* jobs the startup sequence has yet to look at
  owed,       \* jobs the worker's recovery marked and has yet to enqueue
  reoffered,  \* downloads a continuation found or created and has yet to enqueue
  pc,         \* where the attempt on job j stands
  stops,      \* crashes and shutdowns so far
  uploads,    \* history: delivery runs with an upload that may have landed (0, 1, 2 = more)
  excused     \* history: job j met one of the events after which it may upload again

botVars == <<botStep>>
workerVars == <<worker, todo, owed, reoffered, pc>>
historyVars == <<uploads, excused>>
vars == <<storeVars, queueVars, botVars, workerVars, stops, historyVars>>

BotSteps == {"idle", "accepted", "resubmitting", "enqueue_failed", "uncounted",
             "aborting", "finalizing", "deleting", "remediating"}
WorkerPhases == {"down", "requeueing", "recovering", "reconciling", "up"}
BeforeUpload == {"loaded", "running", "delivering"}
Attempting == BeforeUpload \union {"uploading"}
Failing == {"failing", "giving_up", "failed", "classified"}
Interruptible == Attempting \union Failing \union {"retrying"}
AttemptSteps == Interruptible \union {"idle", "finishing"}

TypeOK ==
  /\ StoreTypeOK
  /\ QueueTypeOK
  /\ botStep \in [Job -> BotSteps]
  /\ worker \in WorkerPhases
  /\ todo \subseteq Job
  /\ owed \subseteq Job
  /\ reoffered \subseteq Job
  /\ pc \in [Job -> AttemptSteps]
  /\ stops \in 0..MaxStops
  /\ uploads \in [Job -> 0..2]
  /\ excused \in [Job -> BOOLEAN]

Init ==
  /\ StoreInit
  /\ QueueInit
  /\ botStep = [j \in Job |-> "idle"]
  /\ worker = "down"
  /\ todo = {}
  /\ owed = {}
  /\ reoffered = {}
  /\ pc = [j \in Job |-> "idle"]
  /\ stops = 0
  /\ uploads = [j \in Job |-> 0]
  /\ excused = [j \in Job |-> FALSE]

BotFree == \A j \in Job : botStep[j] = "idle"
BotGoes(j, s) == botStep' = [botStep EXCEPT ![j] = s]
AttemptGoes(j, s) == pc' = [pc EXCEPT ![j] = s]
Excuse(jobs) == excused' = [j \in Job |-> excused[j] \/ j \in jobs]

(***************************************************************************)
(* The bot: accepting a request.  The row is committed before the job is   *)
(* offered to ARQ.                                                         *)
(***************************************************************************)
Accept(j) ==
  /\ BotFree
  /\ CreateJob(j)
  /\ BotGoes(j, "accepted")
  /\ UNCHANGED <<queueVars, workerVars, stops, historyVars>>

EnqueueNew(j) ==
  /\ botStep[j] = "accepted"
  /\ Enqueue(j)
  /\ BotGoes(j, "idle")
  /\ UNCHANGED <<storeVars, workerVars, stops, historyVars>>

\* enqueue_* raised; with an ambiguous Redis error the job may be queued all the same.
EnqueueRaises(j) ==
  /\ botStep[j] = "accepted"
  /\ \/ "enqueue_error" \in Faults /\ UNCHANGED queueVars
     \/ "ambiguous_enqueue" \in Faults /\ Enqueue(j)
  /\ BotGoes(j, "enqueue_failed")
  /\ UNCHANGED <<storeVars, workerVars, stops, historyVars>>

\* The handler fails the row it created.  A row that left "queued" meanwhile was
\* started by someone else's enqueue, and is overwritten.
MarkEnqueueFailed(j) ==
  /\ botStep[j] = "enqueue_failed"
  /\ Transition(j, "failed")
  /\ BotGoes(j, IF Kind[j] = "download" THEN "uncounted" ELSE "idle")
  /\ Excuse(IF status[j] = "queued" THEN {} ELSE {j})
  /\ UNCHANGED <<queueVars, workerVars, stops, uploads>>

CountFailure(j) ==
  /\ botStep[j] = "uncounted"
  /\ RecordDownloadOutcome(j)
  /\ BotGoes(j, "idle")
  /\ UNCHANGED <<queueVars, workerVars, stops, historyVars>>

\* The same URL again: the handler finds the active row and offers it to ARQ once more.
Resubmit(j) ==
  /\ BotFree
  /\ Kind[j] # "download"
  /\ status[j] \in ActiveStatuses /\ status[j] # "delivery_uncertain"
  /\ BotGoes(j, "resubmitting")
  /\ UNCHANGED <<storeVars, queueVars, workerVars, stops, historyVars>>

EnqueueAgain(j) ==
  /\ botStep[j] = "resubmitting"
  /\ \/ Enqueue(j)
     \/ "enqueue_error" \in Faults /\ UNCHANGED queueVars
  /\ BotGoes(j, "idle")
  /\ UNCHANGED <<storeVars, workerVars, stops, historyVars>>

(***************************************************************************)
(* The bot: cancelling.  SQLite first, then ARQ's abort, then a status     *)
(* read, then the deletion of the job's keys.                              *)
(***************************************************************************)
Cancel(j) ==
  /\ BotFree
  /\ \/ CancelJob(j)
     \/ AlreadyCancelled(j) /\ UNCHANGED storeVars
  /\ BotGoes(j, "aborting")
  /\ UNCHANGED <<queueVars, workerVars, stops, historyVars>>

AskAbort(j) ==
  /\ botStep[j] = "aborting"
  /\ RequestAbort(j)
  /\ BotGoes(j, "finalizing")
  /\ UNCHANGED <<storeVars, workerVars, stops, historyVars>>

ReadFinalStatus(j) ==
  /\ botStep[j] = "finalizing"
  /\ BotGoes(j, IF ArqInProgress(j) THEN "idle" ELSE "deleting")
  /\ UNCHANGED <<storeVars, queueVars, workerVars, stops, historyVars>>

DeleteAbortedKeys(j) ==
  /\ botStep[j] = "deleting"
  /\ DeleteKeys(j)
  /\ BotGoes(j, "idle")
  /\ UNCHANGED <<storeVars, workerVars, stops, historyVars>>

(***************************************************************************)
(* The bot: an administrator's /resolve, and the recovery batch that runs  *)
(* after an administrator replaced a provider's cookies.                   *)
(***************************************************************************)
Resolve(j) ==
  /\ BotFree
  /\ status[j] = "delivery_uncertain"
  /\ Transition(j, "failed")
  /\ BotGoes(j, "uncounted")
  /\ Excuse({j})
  /\ UNCHANGED <<queueVars, workerVars, stops, uploads>>

RemediateCookies(j) ==
  /\ BotFree
  /\ RecoveryCandidate(j, {"after_cookie_change"})
  /\ MarkRecoveryRequeued(j)
  /\ BotGoes(j, "remediating")
  /\ UNCHANGED <<queueVars, workerVars, stops, historyVars>>

\* JobRecoveryService._enqueue: knows inspections and downloads only, and an
\* exception of the queue is logged and swallowed.
EnqueueRecovered(j) ==
  \/ Kind[j] # "highlight_tray" /\ Enqueue(j)
  \/ /\ Kind[j] = "highlight_tray" \/ "enqueue_error" \in Faults
     /\ UNCHANGED queueVars

EnqueueRemediated(j) ==
  /\ botStep[j] = "remediating"
  /\ EnqueueRecovered(j)
  /\ BotGoes(j, "idle")
  /\ UNCHANGED <<storeVars, workerVars, stops, historyVars>>

BotCrash ==
  /\ stops < MaxStops /\ ~BotFree
  /\ stops' = stops + 1
  /\ botStep' = [j \in Job |-> "idle"]
  /\ UNCHANGED <<storeVars, queueVars, workerVars, historyVars>>

(***************************************************************************)
(* The worker: starting.  Reconciling the table is one transaction; the    *)
(* jobs it queued again are then offered to ARQ one by one, a recovery     *)
(* batch follows, and last the jobs an earlier recovery left without an    *)
(* ARQ job are offered again.  Only then does the worker take entries.     *)
(***************************************************************************)
WorkerStart ==
  /\ worker = "down"
  /\ ReconcileAbandoned
  /\ worker' = "requeueing"
  /\ todo' = {j \in Job : Abandoned(j) /\ status[j] = "running"}
  /\ UNCHANGED <<queueVars, botVars, owed, reoffered, pc, stops, historyVars>>

\* The branch is on the kind, then on record.mode: a highlight tray has neither.
StartupEnqueue(j) ==
  /\ worker = "requeueing" /\ j \in todo
  /\ IF Kind[j] = "highlight_tray" THEN UNCHANGED queueVars ELSE Enqueue(j)
  /\ todo' = todo \ {j}
  /\ UNCHANGED <<storeVars, botVars, worker, owed, reoffered, pc, stops, historyVars>>

BeginRecovery ==
  /\ worker = "requeueing" /\ todo = {}
  /\ worker' = "recovering"
  /\ UNCHANGED <<storeVars, queueVars, botVars, todo, owed, reoffered, pc, stops, historyVars>>

MarkOwed(j, classes) ==
  /\ owed = {}
  /\ RecoveryCandidate(j, classes)
  /\ MarkRecoveryRequeued(j)
  /\ owed' = {j}
  /\ UNCHANGED <<queueVars, botVars, worker, todo, reoffered, pc, stops, historyVars>>

RecoverAfterAppFix(j) == worker = "recovering" /\ MarkOwed(j, {"after_app_fix"})
RecoverInMaintenance(j) == worker = "up" /\ MarkOwed(j, {"after_cookie_change"})

EnqueueOwed(j) ==
  /\ j \in owed
  /\ EnqueueRecovered(j)
  /\ owed' = {}
  /\ UNCHANGED <<storeVars, botVars, worker, todo, reoffered, pc, stops, historyVars>>

BeginReconciling ==
  /\ worker = "recovering" /\ owed = {}
  /\ worker' = "reconciling"
  /\ todo' = RecoveryRequeues
  /\ UNCHANGED <<storeVars, queueVars, botVars, owed, reoffered, pc, stops, historyVars>>

ReconcileRequeue(j) ==
  /\ worker = "reconciling" /\ j \in todo
  /\ IF ArqNotFound(j) THEN EnqueueRecovered(j) ELSE UNCHANGED queueVars
  /\ todo' = todo \ {j}
  /\ UNCHANGED <<storeVars, botVars, worker, owed, reoffered, pc, stops, historyVars>>

BecomeReady ==
  /\ worker = "reconciling" /\ todo = {}
  /\ worker' = "up"
  /\ UNCHANGED <<storeVars, queueVars, botVars, todo, owed, reoffered, pc, stops, historyVars>>

(***************************************************************************)
(* The worker: the automatic continuation of an Instagram inspection       *)
(* creates the download, or finds it active, and enqueues it either way.   *)
(***************************************************************************)
Continue(j) ==
  /\ worker = "up" /\ j \in Continuations
  /\ \/ CreateJob(j)
     \/ status[j] \in ActiveStatuses /\ UNCHANGED storeVars
  /\ reoffered' = reoffered \union {j}
  /\ UNCHANGED <<queueVars, botVars, worker, todo, owed, pc, stops, historyVars>>

EnqueueContinuation(j) ==
  /\ j \in reoffered
  /\ Enqueue(j)
  /\ reoffered' = reoffered \ {j}
  /\ UNCHANGED <<storeVars, botVars, worker, todo, owed, pc, stops, historyVars>>

(***************************************************************************)
(* The worker: one attempt.  The record is read once, at the start; only   *)
(* the statuses below end the attempt there.  A missing row ends it too    *)
(* (the handler's own transition raises, which fails the ARQ job).         *)
(***************************************************************************)

SkippedStatuses(j) ==
  {"succeeded", "cancelled"} \union
  (IF Kind[j] = "download" THEN {"delivery_uncertain"} ELSE {})

Start(j) ==
  /\ worker = "up" /\ pc[j] = "idle"
  /\ ArqStart(j)
  /\ AttemptGoes(j, IF status[j] \in SkippedStatuses(j) \/ ~Exists(j)
                    THEN "finishing" ELSE "loaded")
  /\ UNCHANGED <<storeVars, botVars, worker, todo, owed, reoffered, stops, historyVars>>

\* A second start beside a running attempt: possible once an abort deleted the keys.
StartBeside(j) ==
  /\ worker = "up" /\ pc[j] # "idle"
  /\ Startable(j) /\ tries[j] < MaxTries
  /\ status[j] \in SkippedStatuses(j) \/ ~Exists(j)
  /\ ArqFinish(j)
  /\ UNCHANGED <<storeVars, botVars, workerVars, stops, historyVars>>

Refuse(j) ==
  /\ worker = "up" /\ pc[j] = "idle"
  /\ ArqRefuse(j)
  /\ UNCHANGED <<storeVars, botVars, workerVars, stops, historyVars>>

\* What every step inside an attempt leaves alone.
AttemptFrame == UNCHANGED <<queueVars, botVars, worker, todo, owed, reoffered, stops>>

BeginRunning(j) ==
  /\ pc[j] = "loaded"
  /\ Transition(j, "running")
  /\ AttemptGoes(j, "running")
  /\ AttemptFrame /\ UNCHANGED historyVars

\* The probe caches its answer for half a second, so an attempt may also go on.
SeeCancel(j) ==
  /\ pc[j] \in Attempting /\ cancelRequested[j]
  /\ FinalizeCancelled(j)
  /\ AttemptGoes(j, "finishing")
  /\ AttemptFrame /\ UNCHANGED historyVars

\* Inspections and trays: the selection is published, then the row succeeds.
Publish(j) ==
  /\ pc[j] = "running" /\ Kind[j] # "download"
  /\ Transition(j, "succeeded")
  /\ AttemptGoes(j, "finishing")
  /\ AttemptFrame /\ UNCHANGED historyVars

StartDelivery(j) ==
  /\ pc[j] = "running" /\ Kind[j] = "download"
  /\ Transition(j, "delivering")
  /\ AttemptGoes(j, "delivering")
  /\ AttemptFrame /\ UNCHANGED historyVars

\* The first call to Telegram that may have put a file in the chat.
Upload(j) ==
  /\ pc[j] = "delivering"
  /\ uploads' = [uploads EXCEPT ![j] = IF @ = 2 THEN 2 ELSE @ + 1]
  /\ AttemptGoes(j, "uploading")
  /\ AttemptFrame /\ UNCHANGED <<storeVars, excused>>

Complete(j) ==
  /\ pc[j] = "uploading"
  /\ CompleteDownload(j)
  /\ AttemptGoes(j, "finishing")
  /\ AttemptFrame /\ UNCHANGED historyVars

\* except DeliveryError: the outcome at Telegram is unknown.
Quarantine(j) ==
  /\ pc[j] \in {"delivering", "uploading"}
  /\ Transition(j, "delivery_uncertain")
  /\ AttemptGoes(j, "finishing")
  /\ AttemptFrame /\ UNCHANGED historyVars

\* The same, when that UPDATE raises too: quarantine_persisted is False.
LoseQuarantine(j) ==
  /\ "lost_quarantine" \in Faults
  /\ pc[j] \in {"delivering", "uploading"}
  /\ AttemptGoes(j, "finishing")
  /\ Excuse(IF pc[j] = "uploading" THEN {j} ELSE {})
  /\ AttemptFrame /\ UNCHANGED <<storeVars, uploads>>

(***************************************************************************)
(* The worker: failing.  Any other exception, before an upload or (a tail  *)
(* error: the store or the disk failing between two uploads or after the   *)
(* last, or a collection whose items all failed) after one.                *)
(***************************************************************************)
Fail(j) ==
  /\ \/ pc[j] \in BeforeUpload
     \/ pc[j] = "uploading" /\ "tail_error" \in Faults
  /\ AttemptGoes(j, "failing")
  /\ Excuse(IF pc[j] = "uploading" THEN {j} ELSE {})
  /\ AttemptFrame /\ UNCHANGED <<storeVars, uploads>>

FailureSeesCancel(j) ==
  /\ pc[j] = "failing" /\ cancelRequested[j]
  /\ FinalizeCancelled(j)
  /\ AttemptGoes(j, "finishing")
  /\ AttemptFrame /\ UNCHANGED historyVars

FailureGoesOn(j) ==
  /\ pc[j] = "failing" /\ ~cancelRequested[j]
  /\ AttemptGoes(j, "giving_up")
  /\ AttemptFrame /\ UNCHANGED <<storeVars, historyVars>>

CommitRetryUnbounded(j) ==
  /\ pc[j] = "giving_up"
  /\ Transition(j, "retrying")
  /\ AttemptGoes(j, "retrying")
  /\ AttemptFrame /\ UNCHANGED historyVars

CommitRetry(j) ==
  /\ pc[j] = "giving_up" /\ tries[j] < MaxTries
  /\ Transition(j, "retrying")
  /\ AttemptGoes(j, "retrying")
  /\ AttemptFrame /\ UNCHANGED historyVars

\* Not retryable, a cooldown past the retry window, or the last try.
CommitFailed(j) ==
  /\ pc[j] = "giving_up"
  /\ Transition(j, "failed")
  /\ AttemptGoes(j, "failed")
  /\ AttemptFrame /\ UNCHANGED historyVars

ClassifyFailure(j) ==
  /\ pc[j] = "failed"
  /\ \E class \in RecoverabilityClasses : RecordRecoverableFailure(j, class)
  /\ AttemptGoes(j, "classified")
  /\ AttemptFrame /\ UNCHANGED historyVars

CountFailedAttempt(j) ==
  /\ pc[j] = "classified"
  /\ IF Kind[j] = "download" THEN RecordDownloadOutcome(j) ELSE UNCHANGED storeVars
  /\ AttemptGoes(j, "finishing")
  /\ AttemptFrame /\ UNCHANGED historyVars

(***************************************************************************)
(* The worker: the end of an attempt as ARQ sees it.                       *)
(***************************************************************************)
Finish(j) ==
  /\ pc[j] = "finishing"
  /\ ArqFinish(j)
  /\ AttemptGoes(j, "idle")
  /\ UNCHANGED <<storeVars, botVars, worker, todo, owed, reoffered, stops, historyVars>>

Defer(j) ==
  /\ pc[j] = "retrying"
  /\ ArqRequeue(j)
  /\ AttemptGoes(j, "idle")
  /\ UNCHANGED <<storeVars, botVars, worker, todo, owed, reoffered, stops, historyVars>>

\* A user's abort reaches the attempt as CancelledError; the row is cancelled already.
Abort(j) ==
  /\ j \in aborting /\ pc[j] \in Interruptible
  /\ AttemptGoes(j, "finishing")
  /\ AttemptFrame /\ UNCHANGED <<storeVars, historyVars>>

\* job_timeout: CancelledError inside, TimeoutError outside.  The handler re-raises
\* without touching the row, and ARQ finishes the job.
JobTimeout(j) ==
  /\ "timeout" \in Faults
  /\ pc[j] \in Interruptible
  /\ ArqFinish(j)
  /\ AttemptGoes(j, "idle")
  /\ Excuse(IF pc[j] = "uploading" THEN {j} ELSE {})
  /\ UNCHANGED <<storeVars, botVars, worker, todo, owed, reoffered, stops, uploads>>

(***************************************************************************)
(* The worker process stops.  A crash leaves the in-progress keys to their *)
(* TTL.  A shutdown cancels the attempts: one whose job the user cancelled *)
(* returns (the tray handler has no such branch), the others go back to    *)
(* the queue, their retry counter kept.                                    *)
(***************************************************************************)
WorkerStops ==
  /\ stops < MaxStops
  /\ stops' = stops + 1
  /\ worker' = "down"
  /\ todo' = {}
  /\ owed' = {}
  /\ reoffered' = {}
  /\ pc' = [j \in Job |-> "idle"]
  /\ UNCHANGED <<storeVars, botVars, historyVars>>

Crash ==
  /\ worker # "down"
  /\ WorkerStops
  /\ UNCHANGED queueVars

ReturnsOnShutdown(j) ==
  pc[j] \in Attempting /\ cancelRequested[j] /\ Kind[j] # "highlight_tray"

Shutdown ==
  /\ worker = "up"
  /\ WorkerStops
  /\ ArqShutdown({j \in Job : pc[j] # "idle"}, {j \in Job : ReturnsOnShutdown(j)})

(***************************************************************************)
(* Time.  The in-progress TTL is longer than the job timeout, so the key   *)
(* outlives the attempt.  Retention is at least a day: a row is purged     *)
(* only when nothing about its job is still going on.                      *)
(***************************************************************************)
ExpireInProgressEarly(j) ==
  /\ InProgressExpires(j)
  /\ UNCHANGED <<storeVars, botVars, workerVars, stops, historyVars>>

ExpireInProgress(j) ==
  /\ pc[j] = "idle"
  /\ InProgressExpires(j)
  /\ UNCHANGED <<storeVars, botVars, workerVars, stops, historyVars>>

ExpireResult(j) ==
  /\ ResultExpires(j)
  /\ UNCHANGED <<storeVars, botVars, workerVars, stops, historyVars>>

AtRest(j) ==
  /\ botStep[j] = "idle" /\ pc[j] = "idle"
  /\ j \notin entry \union inProgress \union todo \union owed \union reoffered

Purge(j) ==
  /\ worker = "up" /\ AtRest(j)
  /\ PurgeExpired(j)
  /\ UNCHANGED <<queueVars, botVars, workerVars, stops, historyVars>>

(***************************************************************************)
(* The whole system.                                                       *)
(***************************************************************************)
BotContinues(j) ==
  \/ EnqueueNew(j) \/ EnqueueRaises(j) \/ MarkEnqueueFailed(j) \/ CountFailure(j)
  \/ EnqueueAgain(j) \/ AskAbort(j) \/ ReadFinalStatus(j) \/ DeleteAbortedKeys(j)
  \/ EnqueueRemediated(j)

BotStarts(j) ==
  \/ Accept(j) \/ Resubmit(j) \/ Cancel(j) \/ Resolve(j) \/ RemediateCookies(j)

Startup ==
  \/ WorkerStart \/ BeginRecovery \/ BeginReconciling \/ BecomeReady
  \/ \E j \in Job : StartupEnqueue(j) \/ EnqueueOwed(j) \/ ReconcileRequeue(j)

AttemptStep(j) ==
  \/ BeginRunning(j) \/ SeeCancel(j) \/ Publish(j) \/ StartDelivery(j) \/ Upload(j)
  \/ Complete(j) \/ Quarantine(j) \/ LoseQuarantine(j)
  \/ Fail(j) \/ FailureSeesCancel(j) \/ FailureGoesOn(j) \/ CommitRetry(j)
  \/ CommitFailed(j) \/ ClassifyFailure(j) \/ CountFailedAttempt(j)
  \/ Finish(j) \/ Defer(j) \/ Abort(j) \/ JobTimeout(j)

Take(j) == Start(j) \/ StartBeside(j) \/ Refuse(j)

Next ==
  \/ \E j \in Job : BotStarts(j) \/ BotContinues(j)
  \/ BotCrash
  \/ Startup
  \/ \E j \in Job : RecoverAfterAppFix(j) \/ RecoverInMaintenance(j)
  \/ \E j \in Job : Continue(j) \/ EnqueueContinuation(j)
  \/ \E j \in Job : Take(j) \/ AttemptStep(j)
  \/ Crash \/ Shutdown
  \/ \E j \in Job : ExpireInProgress(j) \/ ExpireResult(j) \/ Purge(j)

Spec == Init /\ [][Next]_vars

(***************************************************************************)
(* Fairness the deployment provides: the containers restart (restart:      *)
(* unless-stopped), coroutines run on, job_timeout bounds every attempt,   *)
(* Redis expires the in-progress key.  Nothing is assumed of users,        *)
(* administrators, the retention purge or the expiry of results.           *)
(***************************************************************************)
Fairness ==
  /\ WF_vars(Startup)
  /\ \A j \in Job : /\ WF_vars(BotContinues(j))
                    /\ WF_vars(Take(j))
                    /\ WF_vars(AttemptStep(j))
                    /\ WF_vars(ExpireInProgress(j))

FairSpec == Spec /\ Fairness

(***************************************************************************)
(* Safety.                                                                 *)
(***************************************************************************)

\* A committed cancellation is the last word: whatever the worker, a retry, the
\* startup reconciliation or a recovery batch does later, the row stays cancelled
\* until it is purged (cancel_job against every other UPDATE of the table).
CancelIsFinal ==
  [][\A j \in Job : status[j] = "cancelled" => status'[j] \in {"cancelled", "purged"}]_vars

\* Crashes, shutdowns, retries, resubmissions, cancellations and recoveries never
\* make a job upload twice: a second delivery run needs an operator's /resolve, a
\* job timeout or an unexpected error after an upload, a quarantine that could not
\* be written, or an enqueue failure that overwrote a started job.
RepeatUploadExplained == \A j \in Job : uploads[j] > 1 => excused[j]

\* Nothing reaches Telegram before the row says so: an upload starts only while the
\* row is delivering, or was cancelled under a running attempt (ADR-008).
UploadsAreMarked ==
  [][\A j \in Job : uploads'[j] # uploads[j] =>
        status[j] \in {"delivering", "cancelled"} \/ excused[j]]_vars

\* A running attempt owns its job's ARQ entry and in-progress key, so no second
\* attempt can work on the job; only a cancellation takes the keys from under it.
AttemptHoldsEntry ==
  \A j \in Job : pc[j] # "idle" =>
    j \in entry \intersect inProgress \/ status[j] = "cancelled"

(***************************************************************************)
(* Why the safety properties hold: the facts every step preserves.         *)
(***************************************************************************)

\* The flag and the status of a cancellation are written by one UPDATE.
CancelFlagged ==
  \A j \in Job :
    /\ status[j] = "cancelled" => cancelRequested[j]
    /\ cancelRequested[j] => status[j] \in {"cancelled", "purged"}

\* ARQ is asked to abort only what the table has cancelled: SQLite comes first.
AbortsAreCancelled ==
  \A j \in Job : j \in aborting \/ botStep[j] = "aborting" => cancelRequested[j]

\* Attempts die with their process.
AttemptsNeedWorker == \A j \in Job : pc[j] # "idle" => worker = "up"

\* The row is marked before the delivery begins, and only a cancellation unmarks it.
Marked(j) ==
  pc[j] \in {"delivering", "uploading"} =>
    /\ Kind[j] = "download"
    /\ status[j] \in {"delivering", "cancelled"} \/ excused[j]

DeliveringIsMarked == \A j \in Job : Marked(j)

\* After its one upload a job rests in statuses from which nothing starts it again;
\* the row is still delivering only while the attempt runs or until the next startup.
Shelved(j) ==
  uploads[j] > 0 /\ ~excused[j] =>
    /\ uploads[j] = 1 /\ Kind[j] = "download"
    /\ status[j] \in {"delivering", "delivery_uncertain", "succeeded", "cancelled", "purged"}
    /\ pc[j] \in {"idle", "uploading", "finishing"}
    /\ status[j] = "delivering" => pc[j] = "uploading" \/ worker = "down"

UploadedIsShelved == \A j \in Job : Shelved(j)

SafetyInv ==
  /\ TypeOK
  /\ CancelFlagged
  /\ AbortsAreCancelled
  /\ AttemptsNeedWorker
  /\ DeliveringIsMarked
  /\ UploadedIsShelved

(***************************************************************************)
(* Liveness.                                                               *)
(***************************************************************************)

\* No entry stays in the queue for ever: it is run, refused, or deleted, however often
\* the worker is stopped in between.
EntriesDrain == \A j \in Job : j \in entry ~> j \notin entry

\* While no process dies, an accepted request reaches an outcome, over refused enqueues, retries
\* and errors after the upload.  What a lost quarantine left behind waits for the next start of
\* the worker.
LeftToNextStart(j) == pc[j] = "idle" /\ j \notin entry /\ status[j] = "delivering"
RequestsSettle ==
  \A j \in Job : status[j] = "queued" /\ recoveryAttempts[j] = 0
                ~> \/ status[j] \in TerminalStatuses \union {"purged"}
                   \/ stops > 0 \/ LeftToNextStart(j)

(***************************************************************************)
(* The promise to the user (JobPromise), seen through the jobs table.      *)
(***************************************************************************)
OutcomeOf(s) ==
  CASE s = "unborn" -> "absent"
    [] s = "purged" -> "gone"
    [] s = "delivery_uncertain" -> "review"
    [] s \in CancellableStatuses -> "accepted"
    [] OTHER -> s

Promise ==
  INSTANCE JobPromise WITH
    Request <- Job,
    Counted <- {j \in Job : Kind[j] = "download"},
    outcome <- [j \in Job |-> OutcomeOf(status[j])],
    counted <- {j \in Job : usage[j] # "none"}

\* Every behaviour of bot, worker, queue and crashes keeps the promise of JobPromise:
\* success is final and counted, cancellation is final, review ends in failure.  An
\* enqueue failure that overwrites a started job is excluded (Faults, Continuations).
KeepsPromise == Promise!Spec

(***************************************************************************)
(* What the documentation says of the whole, and the code does not do.     *)
(***************************************************************************)

\* docs/ARCHITECTURE.md:258 "Interrupted `running` jobs are requeued on startup." and
\* :267 "an ordinary shutdown leaves a healthy pre-delivery job recoverable": such a
\* job is run to an outcome.
InterruptedJobsSettle ==
  \A j \in Job : status[j] = "running" /\ worker = "down"
                ~> status[j] \in TerminalStatuses \union {"purged"}
=============================================================================
