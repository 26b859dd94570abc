------------------------- MODULE JobLifecycleProofs -------------------------
(***************************************************************************)
(* Theorems about JobLifecycle for every set of jobs, every assignment of  *)
(* kinds and keys, every bound and every set of faults.  The argument has  *)
(* three layers: what a transaction does to the table (and an ARQ command  *)
(* to the keys), that every step of every actor is made of those, and what *)
(* the actors keep between their steps.                                    *)
(***************************************************************************)
EXTENDS JobLifecycle, TLAPS

(***************************************************************************)
(* The table and the keys by themselves.                                   *)
(***************************************************************************)

\* Every transaction of the jobs table keeps the columns' types.
LEMMA StoreTypes ==
  ASSUME StoreTypeOK, [StoreNext]_storeVars
  PROVE  StoreTypeOK'
<1> USE DEF StoreTypeOK, Statuses, ActiveStatuses, TerminalStatuses, storeVars
<1>1. CASE ReconcileAbandoned BY <1>1 DEF ReconcileAbandoned, ReconciledStatus
<1>2. CASE UNCHANGED storeVars BY <1>2
<1>3. ASSUME NEW j \in Job, StoreStep(j) PROVE StoreTypeOK'
  <2>1. CASE CreateJob(j) BY <2>1 DEF CreateJob
  <2>2. CASE CancelJob(j) BY <2>2 DEF CancelJob
  <2>3. CASE FinalizeCancelled(j) BY <2>3 DEF FinalizeCancelled, CancelJob
  <2>4. CASE \E s \in Statuses \ {"cancelled"} : Transition(j, s) BY <2>4 DEF Transition
  <2>5. CASE RecordDownloadOutcome(j) BY <2>5 DEF RecordDownloadOutcome, UsageAfter
  <2>6. CASE CompleteDownload(j) BY <2>6 DEF CompleteDownload, UsageAfter
  <2>7. CASE \E class \in RecoverabilityClasses : RecordRecoverableFailure(j, class)
    BY <2>7 DEF RecordRecoverableFailure
  <2>8. CASE MarkRecoveryRequeued(j)
    BY <2>8 DEF MarkRecoveryRequeued
  <2>9. CASE PurgeExpired(j) BY <2>9 DEF PurgeExpired
  <2> QED BY <1>3, <2>1, <2>2, <2>3, <2>4, <2>5, <2>6, <2>7, <2>8, <2>9 DEF StoreStep
<1> QED BY <1>1, <1>2, <1>3 DEF StoreNext

\* Flag and status of a cancellation agree after every transaction, a set flag stays
\* set, and a cancelled row can only be purged.
LEMMA StoreCancels ==
  ASSUME StoreTypeOK, CancelFlagged, [StoreNext]_storeVars
  PROVE  /\ CancelFlagged'
         /\ \A k \in Job : cancelRequested[k] => cancelRequested'[k]
         /\ \A k \in Job : status[k] = "cancelled" => status'[k] \in {"cancelled", "purged"}
<1> DEFINE Goal == /\ CancelFlagged'
                   /\ \A k \in Job : cancelRequested[k] => cancelRequested'[k]
                   /\ \A k \in Job : status[k] = "cancelled"
                                       => status'[k] \in {"cancelled", "purged"}
<1> USE DEF StoreTypeOK, CancelFlagged, Statuses, ActiveStatuses, CancellableStatuses,
            TerminalStatuses, storeVars
<1>1. CASE ReconcileAbandoned
  BY <1>1 DEF ReconcileAbandoned, ReconciledStatus, Abandoned
<1>2. CASE UNCHANGED storeVars BY <1>2
<1>3. ASSUME NEW j \in Job, StoreStep(j) PROVE Goal
  <2>1. CASE CreateJob(j) BY <2>1 DEF CreateJob
  <2>2. CASE CancelJob(j) BY <2>2 DEF CancelJob
  <2>3. CASE FinalizeCancelled(j) BY <2>3 DEF FinalizeCancelled, CancelJob
  <2>4. CASE \E s \in Statuses \ {"cancelled"} : Transition(j, s)
    BY <2>4 DEF Transition, CancelWins, Exists
  <2>5. CASE RecordDownloadOutcome(j) BY <2>5 DEF RecordDownloadOutcome
  <2>6. CASE CompleteDownload(j) BY <2>6 DEF CompleteDownload, CancelWins
  <2>7. CASE \E class \in RecoverabilityClasses : RecordRecoverableFailure(j, class)
    BY <2>7 DEF RecordRecoverableFailure
  <2>8. CASE MarkRecoveryRequeued(j)
    BY <2>8 DEF MarkRecoveryRequeued
  <2>9. CASE PurgeExpired(j) BY <2>9 DEF PurgeExpired
  <2> QED BY <1>3, <2>1, <2>2, <2>3, <2>4, <2>5, <2>6, <2>7, <2>8, <2>9 DEF StoreStep
<1> QED BY <1>1, <1>2, <1>3 DEF StoreNext

\* Every ARQ command the code issues, and ARQ's own steps, keep the keys' types.
LEMMA QueueTypes ==
  ASSUME QueueTypeOK, [QueueNext]_queueVars
  PROVE  QueueTypeOK'
<1> USE MaxTriesAssumption DEF QueueTypeOK, queueVars
<1>1. CASE \E running, done \in SUBSET Job : ArqShutdown(running, done)
  BY <1>1 DEF ArqShutdown
<1>2. CASE UNCHANGED queueVars BY <1>2
<1>3. ASSUME NEW j \in Job, QueueStep(j) PROVE QueueTypeOK'
  <2>1. CASE Enqueue(j) BY <2>1 DEF Enqueue
  <2>2. CASE ArqStart(j) BY <2>2 DEF ArqStart
  <2>3. CASE ArqFinish(j) BY <2>3 DEF ArqFinish
  <2>4. CASE ArqRefuse(j) BY <2>4 DEF ArqRefuse, ArqFinish
  <2>5. CASE ArqRequeue(j) BY <2>5 DEF ArqRequeue
  <2>6. CASE InProgressExpires(j) BY <2>6 DEF InProgressExpires
  <2>7. CASE ResultExpires(j) BY <2>7 DEF ResultExpires
  <2>8. CASE RequestAbort(j) BY <2>8 DEF RequestAbort
  <2>9. CASE DeleteKeys(j) BY <2>9 DEF DeleteKeys
  <2> QED BY <1>3, <2>1, <2>2, <2>3, <2>4, <2>5, <2>6, <2>7, <2>8, <2>9 DEF QueueStep
<1> QED BY <1>1, <1>2, <1>3 DEF QueueNext

(***************************************************************************)
(* Every step of the system is one transaction or none, and one command or *)
(* none.                                                                   *)
(***************************************************************************)

\* Every step of the lifecycle is one transaction of the jobs table, or leaves it alone.
LEMMA StepsAreTransactions ==
  ASSUME Next
  PROVE  [StoreNext]_storeVars
<1> USE DEF StoreNext, StoreStep, Statuses, ActiveStatuses, TerminalStatuses
<1>1. ASSUME NEW j \in Job, BotStarts(j) PROVE [StoreNext]_storeVars
  BY <1>1 DEF BotStarts, Accept, Resubmit, Cancel, Resolve, RemediateCookies
<1>2. ASSUME NEW j \in Job, BotContinues(j) PROVE [StoreNext]_storeVars
  BY <1>2 DEF BotContinues, EnqueueNew, EnqueueRaises, MarkEnqueueFailed, CountFailure,
              EnqueueAgain, AskAbort, ReadFinalStatus, DeleteAbortedKeys, EnqueueRemediated
<1>3. CASE Startup
  BY <1>3 DEF Startup, WorkerStart, BeginRecovery, BeginReconciling, BecomeReady,
              StartupEnqueue, EnqueueOwed, ReconcileRequeue
<1>4. ASSUME NEW j \in Job,
             \/ RecoverAfterAppFix(j) \/ RecoverInMaintenance(j)
             \/ Continue(j) \/ EnqueueContinuation(j)
             \/ ExpireInProgress(j) \/ ExpireResult(j) \/ Purge(j)
      PROVE  [StoreNext]_storeVars
  BY <1>4 DEF RecoverAfterAppFix, RecoverInMaintenance, MarkOwed, Continue,
              EnqueueContinuation, ExpireInProgress, ExpireResult, Purge
<1>5. ASSUME NEW j \in Job, Take(j) PROVE [StoreNext]_storeVars
  BY <1>5 DEF Take, Start, StartBeside, Refuse
<1>6. ASSUME NEW j \in Job, AttemptStep(j) PROVE [StoreNext]_storeVars
  BY <1>6 DEF AttemptStep, BeginRunning, SeeCancel, Publish, StartDelivery, Upload, Complete,
              Quarantine, LoseQuarantine, Fail, FailureSeesCancel, FailureGoesOn, CommitRetry,
              CommitFailed, ClassifyFailure, CountFailedAttempt, Finish, Defer, Abort,
              JobTimeout
<1>7. CASE BotCrash \/ Crash \/ Shutdown
  BY <1>7 DEF BotCrash, Crash, Shutdown, WorkerStops
<1> QED BY <1>1, <1>2, <1>3, <1>4, <1>5, <1>6, <1>7 DEF Next

\* Every step of the lifecycle is one command to the queue, or leaves it alone.
LEMMA StepsAreCommands ==
  ASSUME Next
  PROVE  [QueueNext]_queueVars
<1> USE DEF QueueNext, QueueStep
<1>1. ASSUME NEW j \in Job, BotStarts(j) PROVE [QueueNext]_queueVars
  BY <1>1 DEF BotStarts, Accept, Resubmit, Cancel, Resolve, RemediateCookies
<1>2. ASSUME NEW j \in Job, BotContinues(j) PROVE [QueueNext]_queueVars
  BY <1>2 DEF BotContinues, EnqueueNew, EnqueueRaises, MarkEnqueueFailed, CountFailure,
              EnqueueAgain, AskAbort, ReadFinalStatus, DeleteAbortedKeys, EnqueueRemediated,
              EnqueueRecovered
<1>3. CASE Startup
  BY <1>3 DEF Startup, WorkerStart, BeginRecovery, BeginReconciling, BecomeReady,
              StartupEnqueue, EnqueueOwed, ReconcileRequeue, EnqueueRecovered
<1>4. ASSUME NEW j \in Job,
             \/ RecoverAfterAppFix(j) \/ RecoverInMaintenance(j)
             \/ Continue(j) \/ EnqueueContinuation(j)
             \/ ExpireInProgress(j) \/ ExpireResult(j) \/ Purge(j)
      PROVE  [QueueNext]_queueVars
  BY <1>4 DEF RecoverAfterAppFix, RecoverInMaintenance, MarkOwed, Continue,
              EnqueueContinuation, ExpireInProgress, ExpireResult, Purge
<1>5. ASSUME NEW j \in Job, Take(j) PROVE [QueueNext]_queueVars
  BY <1>5 DEF Take, Start, StartBeside, Refuse
<1>6. ASSUME NEW j \in Job, AttemptStep(j) PROVE [QueueNext]_queueVars
  BY <1>6 DEF AttemptStep, AttemptFrame, BeginRunning, SeeCancel, Publish, StartDelivery,
              Upload, Complete, Quarantine, LoseQuarantine, Fail, FailureSeesCancel,
              FailureGoesOn, CommitRetry, CommitFailed, ClassifyFailure, CountFailedAttempt,
              Finish, Defer, Abort, JobTimeout
<1>7. CASE BotCrash \/ Crash \/ Shutdown
  BY <1>7 DEF BotCrash, Crash, Shutdown, ReturnsOnShutdown
<1> QED BY <1>1, <1>2, <1>3, <1>4, <1>5, <1>6, <1>7 DEF Next

(***************************************************************************)
(* Type correctness of the actors' own state, and so of the system.        *)
(***************************************************************************)

\* Every variable keeps its type: the columns and keys because every step is one of
\* their transactions and commands, the rest action by action.
THEOREM TypeCorrect == Spec => []TypeOK
<1>1. Init => TypeOK
  BY MaxTriesAssumption, MaxStopsAssumption
     DEF Init, StoreInit, QueueInit, TypeOK, StoreTypeOK, QueueTypeOK, BotSteps,
         WorkerPhases, AttemptSteps, Interruptible, RecoverabilityClasses
<1>2. TypeOK /\ [Next]_vars => TypeOK'
  <2> SUFFICES ASSUME TypeOK, Next PROVE TypeOK'
    BY DEF TypeOK, StoreTypeOK, QueueTypeOK, vars, storeVars, queueVars, botVars,
           workerVars, historyVars
  <2>1. StoreTypeOK' /\ QueueTypeOK'
    BY StoreTypes, QueueTypes, StepsAreTransactions, StepsAreCommands DEF TypeOK
  <2> USE MaxStopsAssumption
      DEF TypeOK, botVars, workerVars, historyVars, BotSteps, WorkerPhases, BotGoes, Excuse
  <2>2. ASSUME NEW j \in Job, BotStarts(j) PROVE TypeOK'
    BY <2>1, <2>2 DEF BotStarts, Accept, Resubmit, Cancel, Resolve, RemediateCookies
  <2>3. ASSUME NEW j \in Job, BotContinues(j) PROVE TypeOK'
    <3>1. CASE MarkEnqueueFailed(j) BY <2>1, <3>1 DEF MarkEnqueueFailed
    <3>2. CASE ~MarkEnqueueFailed(j)
      BY <2>1, <2>3, <3>2
         DEF BotContinues, EnqueueNew, EnqueueRaises, CountFailure, EnqueueAgain, AskAbort,
             ReadFinalStatus, DeleteAbortedKeys, EnqueueRemediated
    <3> QED BY <3>1, <3>2
  <2>4. CASE Startup
    BY <2>1, <2>4 DEF Startup, WorkerStart, BeginRecovery, BeginReconciling, BecomeReady,
                      StartupEnqueue, EnqueueOwed, ReconcileRequeue, RecoveryRequeues
  <2>5. ASSUME NEW j \in Job,
               \/ RecoverAfterAppFix(j) \/ RecoverInMaintenance(j)
               \/ Continue(j) \/ EnqueueContinuation(j)
               \/ ExpireInProgress(j) \/ ExpireResult(j) \/ Purge(j)
        PROVE  TypeOK'
    BY <2>1, <2>5 DEF RecoverAfterAppFix, RecoverInMaintenance, MarkOwed, Continue,
                      EnqueueContinuation, ExpireInProgress, ExpireResult, Purge
  <2>6. ASSUME NEW j \in Job, Take(j) PROVE TypeOK'
    BY <2>1, <2>6 DEF Take, Start, StartBeside, Refuse, AttemptGoes, AttemptSteps,
                      Interruptible, Attempting, BeforeUpload
  <2>7. ASSUME NEW j \in Job, AttemptStep(j) PROVE TypeOK'
    <3> USE DEF AttemptFrame, AttemptGoes, AttemptSteps, Interruptible, Attempting,
                BeforeUpload, Failing
    <3>1. CASE Upload(j) BY <2>1, <3>1 DEF Upload
    <3>2. CASE LoseQuarantine(j) BY <2>1, <3>2 DEF LoseQuarantine
    <3>3. CASE Fail(j) BY <2>1, <3>3 DEF Fail
    <3>4. CASE JobTimeout(j) BY <2>1, <3>4 DEF JobTimeout
    <3>5. CASE ~(Upload(j) \/ LoseQuarantine(j) \/ Fail(j) \/ JobTimeout(j))
      BY <2>1, <2>7, <3>5
         DEF AttemptStep, BeginRunning, SeeCancel, Publish, StartDelivery, Complete, Quarantine,
             FailureSeesCancel, FailureGoesOn, CommitRetry, CommitFailed, ClassifyFailure,
             CountFailedAttempt, Finish, Defer, Abort
    <3> QED BY <3>1, <3>2, <3>3, <3>4, <3>5
  <2>8. CASE BotCrash BY <2>1, <2>8 DEF BotCrash
  <2>9. CASE Crash \/ Shutdown
    BY <2>1, <2>9 DEF Crash, Shutdown, WorkerStops, AttemptSteps, Interruptible
  <2> QED BY <2>2, <2>3, <2>4, <2>5, <2>6, <2>7, <2>8, <2>9 DEF Next
<1> QED BY <1>1, <1>2, PTL DEF Spec

(***************************************************************************)
(* What the actors keep between their steps.                               *)
(***************************************************************************)

\* Aborts follow cancellations: only Cancel asks for one, after its transaction, and no
\* transaction takes the flag back.
LEMMA AbortsStep ==
  ASSUME SafetyInv, Next
  PROVE  AbortsAreCancelled'
<1>1. \A j \in Job : cancelRequested[j] => cancelRequested'[j]
  BY StoreCancels, StepsAreTransactions DEF SafetyInv, TypeOK
<1> SUFFICES ASSUME NEW k \in Job, k \in aborting' \/ botStep'[k] = "aborting",
                    ~cancelRequested'[k]
             PROVE  FALSE
  BY DEF AbortsAreCancelled
<1> USE <1>1 DEF SafetyInv, TypeOK, AbortsAreCancelled, queueVars, botVars, workerVars, BotGoes
<1>2. ASSUME NEW j \in Job, BotStarts(j) PROVE FALSE
  <2>1. CASE Cancel(j)
    BY <2>1 DEF Cancel, CancelJob, AlreadyCancelled, storeVars, StoreTypeOK
  <2>2. CASE ~Cancel(j)
    BY <1>2, <2>2 DEF BotStarts, Accept, Resubmit, Resolve, RemediateCookies
  <2> QED BY <2>1, <2>2
<1>3. ASSUME NEW j \in Job, BotContinues(j) PROVE FALSE
  BY <1>3 DEF BotContinues, EnqueueNew, EnqueueRaises, MarkEnqueueFailed, CountFailure,
              EnqueueAgain, AskAbort, ReadFinalStatus, DeleteAbortedKeys, EnqueueRemediated,
              EnqueueRecovered, Enqueue, RequestAbort, DeleteKeys
<1>4. CASE Startup
  BY <1>4 DEF Startup, WorkerStart, BeginRecovery, BeginReconciling, BecomeReady,
              StartupEnqueue, EnqueueOwed, ReconcileRequeue, EnqueueRecovered, Enqueue
<1>5. ASSUME NEW j \in Job,
             \/ RecoverAfterAppFix(j) \/ RecoverInMaintenance(j)
             \/ Continue(j) \/ EnqueueContinuation(j)
             \/ ExpireInProgress(j) \/ ExpireResult(j) \/ Purge(j)
      PROVE  FALSE
  BY <1>5 DEF RecoverAfterAppFix, RecoverInMaintenance, MarkOwed, Continue,
              EnqueueContinuation, ExpireInProgress, ExpireResult, Purge,
              Enqueue, InProgressExpires, ResultExpires
<1>6. ASSUME NEW j \in Job, Take(j) PROVE FALSE
  BY <1>6 DEF Take, Start, StartBeside, Refuse, ArqStart, ArqRefuse, ArqFinish
<1>7. ASSUME NEW j \in Job, AttemptStep(j) PROVE FALSE
  BY <1>7 DEF AttemptStep, AttemptFrame, BeginRunning, SeeCancel, Publish, StartDelivery,
              Upload, Complete, Quarantine, LoseQuarantine, Fail, FailureSeesCancel,
              FailureGoesOn, CommitRetry, CommitFailed, ClassifyFailure, CountFailedAttempt,
              Finish, Defer, Abort, JobTimeout, ArqFinish, ArqRequeue
<1>8. CASE BotCrash \/ Crash \/ Shutdown
  BY <1>8 DEF BotCrash, Crash, Shutdown, WorkerStops, ArqShutdown
<1> QED BY <1>2, <1>3, <1>4, <1>5, <1>6, <1>7, <1>8 DEF Next

\* Attempts exist only in a worker that is up: they start in one, and a stop ends them.
LEMMA WorkerStep ==
  ASSUME SafetyInv, Next
  PROVE  AttemptsNeedWorker'
<1> USE DEF SafetyInv, TypeOK, AttemptsNeedWorker, workerVars, AttemptGoes
<1>1. ASSUME NEW j \in Job, BotStarts(j) \/ BotContinues(j) PROVE AttemptsNeedWorker'
  BY <1>1 DEF BotStarts, BotContinues, Accept, Resubmit, Cancel, Resolve, RemediateCookies,
              EnqueueNew, EnqueueRaises, MarkEnqueueFailed, CountFailure, EnqueueAgain,
              AskAbort, ReadFinalStatus, DeleteAbortedKeys, EnqueueRemediated
<1>2. CASE Startup
  BY <1>2 DEF Startup, WorkerStart, BeginRecovery, BeginReconciling, BecomeReady,
              StartupEnqueue, EnqueueOwed, ReconcileRequeue
<1>3. ASSUME NEW j \in Job,
             \/ RecoverAfterAppFix(j) \/ RecoverInMaintenance(j)
             \/ Continue(j) \/ EnqueueContinuation(j)
             \/ ExpireInProgress(j) \/ ExpireResult(j) \/ Purge(j)
      PROVE  AttemptsNeedWorker'
  BY <1>3 DEF RecoverAfterAppFix, RecoverInMaintenance, MarkOwed, Continue,
              EnqueueContinuation, ExpireInProgress, ExpireResult, Purge
<1>4. ASSUME NEW j \in Job, Take(j) PROVE AttemptsNeedWorker'
  BY <1>4 DEF Take, Start, StartBeside, Refuse
<1>5. ASSUME NEW j \in Job, AttemptStep(j) PROVE AttemptsNeedWorker'
  BY <1>5 DEF AttemptStep, AttemptFrame, BeginRunning, SeeCancel, Publish, StartDelivery,
              Upload, Complete, Quarantine, LoseQuarantine, Fail, FailureSeesCancel,
              FailureGoesOn, CommitRetry, CommitFailed, ClassifyFailure, CountFailedAttempt,
              Finish, Defer, Abort, JobTimeout, Attempting, BeforeUpload, Failing, Interruptible
<1>6. CASE BotCrash \/ Crash \/ Shutdown
  BY <1>6 DEF BotCrash, Crash, Shutdown, WorkerStops
<1> QED BY <1>1, <1>2, <1>3, <1>4, <1>5, <1>6 DEF Next

\* Marks and shelves hold: the row is marked before an upload, and after an upload it
\* rests where no attempt, startup or recovery picks it up.
LEMMA DeliveryStep ==
  ASSUME SafetyInv, Next
  PROVE  DeliveringIsMarked' /\ UploadedIsShelved'
<1> SUFFICES ASSUME NEW k \in Job PROVE Marked(k)' /\ Shelved(k)'
  BY DEF DeliveringIsMarked, UploadedIsShelved
<1>a. /\ Marked(k) /\ Shelved(k)
      /\ cancelRequested[k] => status[k] \in {"cancelled", "purged"}
      /\ k \in aborting => cancelRequested[k]
      /\ pc[k] # "idle" => worker = "up"
  BY DEF SafetyInv, DeliveringIsMarked, UploadedIsShelved, CancelFlagged, AbortsAreCancelled,
         AttemptsNeedWorker
<1>b. /\ status \in [Job -> Statuses \union {"unborn", "purged"}]
      /\ cancelRequested \in [Job -> BOOLEAN]
      /\ pc \in [Job -> AttemptSteps]
      /\ uploads \in [Job -> 0..2]
      /\ excused \in [Job -> BOOLEAN]
  BY DEF SafetyInv, TypeOK, StoreTypeOK
<1> USE <1>a, <1>b DEF Marked, Shelved, storeVars, workerVars, historyVars, AttemptGoes, Excuse
<1>1. ASSUME NEW j \in Job, BotStarts(j) PROVE Marked(k)' /\ Shelved(k)'
  <2>1. CASE Accept(j) BY <2>1 DEF Accept, CreateJob
  <2>2. CASE Resubmit(j) BY <2>2 DEF Resubmit
  <2>3. CASE Cancel(j) BY <2>3 DEF Cancel, CancelJob, AlreadyCancelled
  <2>4. CASE Resolve(j) BY <2>4 DEF Resolve, Transition
  <2>5. CASE RemediateCookies(j)
    BY <2>5 DEF RemediateCookies, RecoveryCandidate, MarkRecoveryRequeued
  <2> QED BY <1>1, <2>1, <2>2, <2>3, <2>4, <2>5 DEF BotStarts
<1>2. ASSUME NEW j \in Job, BotContinues(j) PROVE Marked(k)' /\ Shelved(k)'
  <2>1. CASE MarkEnqueueFailed(j)
    <3>1. CASE k = j BY <2>1, <3>1 DEF MarkEnqueueFailed, Transition
    <3>2. CASE k # j BY <2>1, <3>2 DEF MarkEnqueueFailed, Transition
    <3> QED BY <3>1, <3>2
  <2>2. CASE ~MarkEnqueueFailed(j)
    BY <1>2, <2>2
       DEF BotContinues, EnqueueNew, EnqueueRaises, CountFailure, RecordDownloadOutcome,
           EnqueueAgain, AskAbort, ReadFinalStatus, DeleteAbortedKeys, EnqueueRemediated
  <2> QED BY <2>1, <2>2
<1>3. CASE Startup
  <2>1. CASE WorkerStart
    BY <2>1 DEF WorkerStart, ReconcileAbandoned, ReconciledStatus, Abandoned,
                CancellableStatuses, ActiveStatuses
  <2>2. CASE ~WorkerStart
    BY <1>3, <2>2 DEF Startup, BeginRecovery, BeginReconciling, BecomeReady, StartupEnqueue,
                      EnqueueOwed, ReconcileRequeue
  <2> QED BY <2>1, <2>2
<1>4. ASSUME NEW j \in Job, RecoverAfterAppFix(j) \/ RecoverInMaintenance(j)
      PROVE  Marked(k)' /\ Shelved(k)'
  BY <1>4 DEF RecoverAfterAppFix, RecoverInMaintenance, MarkOwed, RecoveryCandidate,
              MarkRecoveryRequeued
<1>5. ASSUME NEW j \in Job, Continue(j) \/ EnqueueContinuation(j)
      PROVE  Marked(k)' /\ Shelved(k)'
  BY <1>5 DEF Continue, EnqueueContinuation, CreateJob
<1>6. ASSUME NEW j \in Job, Take(j) PROVE Marked(k)' /\ Shelved(k)'
  BY <1>6 DEF Take, Start, StartBeside, Refuse, SkippedStatuses, Exists, Statuses,
              ActiveStatuses, TerminalStatuses
<1>7. ASSUME NEW j \in Job, AttemptStep(j) PROVE Marked(k)' /\ Shelved(k)'
  <2> USE DEF AttemptFrame
  <2>1. CASE BeginRunning(j) BY <2>1 DEF BeginRunning, Transition
  <2>2. CASE SeeCancel(j)
    BY <2>2 DEF SeeCancel, FinalizeCancelled, CancelJob, Attempting, BeforeUpload
  <2>3. CASE Publish(j) BY <2>3 DEF Publish, Transition
  <2>4. CASE StartDelivery(j)
    BY <2>4 DEF StartDelivery, Transition, CancelWins, Exists, Statuses, ActiveStatuses,
                TerminalStatuses
  <2>5. CASE Upload(j)
    <3>1. CASE k = j BY <2>5, <3>1 DEF Upload
    <3>2. CASE k # j BY <2>5, <3>2 DEF Upload
    <3> QED BY <3>1, <3>2
  <2>6. CASE Complete(j) BY <2>6 DEF Complete, CompleteDownload
  <2>7. CASE Quarantine(j) BY <2>7 DEF Quarantine, Transition, CancelWins
  <2>8. CASE LoseQuarantine(j)
    <3>1. CASE pc[j] = "uploading" BY <2>8, <3>1 DEF LoseQuarantine
    <3>2. CASE pc[j] # "uploading" BY <2>8, <3>2 DEF LoseQuarantine
    <3> QED BY <3>1, <3>2
  <2>9. CASE Fail(j)
    <3>1. CASE pc[j] = "uploading" BY <2>9, <3>1 DEF Fail
    <3>2. CASE pc[j] # "uploading" BY <2>9, <3>2 DEF Fail, BeforeUpload
    <3> QED BY <3>1, <3>2
  <2>10. CASE FailureSeesCancel(j)
    BY <2>10 DEF FailureSeesCancel, FinalizeCancelled, CancelJob
  <2>11. CASE FailureGoesOn(j) BY <2>11 DEF FailureGoesOn
  <2>12. CASE CommitRetry(j) BY <2>12 DEF CommitRetry, Transition
  <2>13. CASE CommitFailed(j) BY <2>13 DEF CommitFailed, Transition
  <2>14. CASE ClassifyFailure(j) BY <2>14 DEF ClassifyFailure, RecordRecoverableFailure
  <2>15. CASE CountFailedAttempt(j) BY <2>15 DEF CountFailedAttempt, RecordDownloadOutcome
  <2>16. CASE Finish(j) BY <2>16 DEF Finish
  <2>17. CASE Defer(j) BY <2>17 DEF Defer
  <2>18. CASE Abort(j)
    BY <2>18 DEF Abort, Interruptible, Attempting, BeforeUpload, Failing
  <2>19. CASE JobTimeout(j)
    <3>1. CASE pc[j] = "uploading" BY <2>19, <3>1 DEF JobTimeout
    <3>2. CASE pc[j] # "uploading"
      BY <2>19, <3>2 DEF JobTimeout, Interruptible, Attempting, BeforeUpload, Failing
    <3> QED BY <3>1, <3>2
  <2> QED BY <1>7, <2>1, <2>2, <2>3, <2>4, <2>5, <2>6, <2>7, <2>8, <2>9, <2>10, <2>11, <2>12,
             <2>13, <2>14, <2>15, <2>16, <2>17, <2>18, <2>19 DEF AttemptStep
<1>8. CASE BotCrash BY <1>8 DEF BotCrash
<1>9. CASE Crash \/ Shutdown BY <1>9 DEF Crash, Shutdown, WorkerStops
<1>10. ASSUME NEW j \in Job, ExpireInProgress(j) \/ ExpireResult(j) \/ Purge(j)
       PROVE  Marked(k)' /\ Shelved(k)'
  BY <1>10 DEF ExpireInProgress, ExpireResult, Purge, PurgeExpired, AtRest
<1> QED BY <1>1, <1>2, <1>3, <1>4, <1>5, <1>6, <1>7, <1>8, <1>9, <1>10 DEF Next

\* The strengthened invariant, from the lemmas above.
THEOREM SafetyInvariant == Spec => []SafetyInv
<1>1. Init => SafetyInv
  BY MaxTriesAssumption, MaxStopsAssumption
     DEF Init, StoreInit, QueueInit, SafetyInv, CancelFlagged, AbortsAreCancelled,
         AttemptsNeedWorker, DeliveringIsMarked, UploadedIsShelved, Marked, Shelved, TypeOK,
         StoreTypeOK, QueueTypeOK, BotSteps, WorkerPhases, AttemptSteps, Interruptible, RecoverabilityClasses
<1>2. TypeOK' /\ SafetyInv /\ [Next]_vars => SafetyInv'
  <2>1. ASSUME TypeOK', SafetyInv, Next PROVE SafetyInv'
    BY <2>1, StoreCancels, StepsAreTransactions, AbortsStep, WorkerStep, DeliveryStep
       DEF SafetyInv, TypeOK
  <2>2. ASSUME SafetyInv, UNCHANGED vars PROVE SafetyInv'
    BY <2>2 DEF SafetyInv, CancelFlagged, AbortsAreCancelled, AttemptsNeedWorker,
                DeliveringIsMarked, UploadedIsShelved, Marked, Shelved, TypeOK, StoreTypeOK,
                QueueTypeOK, vars, storeVars, queueVars, botVars, workerVars, historyVars
  <2> QED BY <2>1, <2>2
<1> QED BY <1>1, <1>2, TypeCorrect, PTL DEF Spec

(***************************************************************************)
(* The properties.                                                         *)
(***************************************************************************)

\* A committed cancellation is the last word, whoever acts on the row later.
THEOREM CancellationIsFinal == Spec => CancelIsFinal
<1>1. SafetyInv /\ [Next]_vars =>
        [\A j \in Job : status[j] = "cancelled" => status'[j] \in {"cancelled", "purged"}]_vars
  BY StoreCancels, StepsAreTransactions DEF SafetyInv, TypeOK
<1> QED BY <1>1, SafetyInvariant, PTL DEF Spec, CancelIsFinal

\* No job uploads in two delivery runs unless one of the named events happened to it.
THEOREM UploadsOnce == Spec => []RepeatUploadExplained
<1>1. SafetyInv => RepeatUploadExplained
  BY DEF SafetyInv, TypeOK, UploadedIsShelved, Shelved, RepeatUploadExplained
<1> QED BY <1>1, SafetyInvariant, PTL

\* The row says "delivering" before Telegram sees the first byte.
THEOREM MarkedBeforeUpload == Spec => UploadsAreMarked
<1>1. SafetyInv /\ [Next]_vars =>
        [\A j \in Job : uploads'[j] # uploads[j] =>
            status[j] \in {"delivering", "cancelled"} \/ excused[j]]_vars
  <2> SUFFICES ASSUME SafetyInv, Next, NEW k \in Job, uploads'[k] # uploads[k]
               PROVE  status[k] \in {"delivering", "cancelled"} \/ excused[k]
    OBVIOUS
  <2>1. PICK j \in Job : Upload(j)
    BY DEF Next, BotStarts, BotContinues, Startup, Take, AttemptStep, AttemptFrame, historyVars,
           Accept, Resubmit, Cancel, Resolve, RemediateCookies, EnqueueNew, EnqueueRaises,
           MarkEnqueueFailed, CountFailure, EnqueueAgain, AskAbort, ReadFinalStatus,
           DeleteAbortedKeys, EnqueueRemediated, WorkerStart, BeginRecovery, BeginReconciling,
           BecomeReady, StartupEnqueue, EnqueueOwed, ReconcileRequeue, RecoverAfterAppFix,
           RecoverInMaintenance, MarkOwed, Continue, EnqueueContinuation, Start, StartBeside,
           Refuse, BeginRunning, SeeCancel, Publish, StartDelivery, Complete, Quarantine,
           LoseQuarantine, Fail, FailureSeesCancel, FailureGoesOn, CommitRetry, CommitFailed,
           ClassifyFailure, CountFailedAttempt, Finish, Defer, Abort, JobTimeout, BotCrash,
           Crash, Shutdown, WorkerStops, ExpireInProgress, ExpireResult, Purge
  <2> QED BY <2>1 DEF Upload, SafetyInv, TypeOK, DeliveringIsMarked, Marked
<1> QED BY <1>1, SafetyInvariant, PTL DEF Spec, UploadsAreMarked

(***************************************************************************)
(* Which attempt owns an entry.                                            *)
(***************************************************************************)

\* Nothing goes on about a job that has no row: every handler, attempt and entry of a
\* job begins after its INSERT and is over before the retention purge.
OutOfTable == \A j \in Job : status[j] \in {"unborn", "purged"} => AtRest(j)

\* The keys are deleted only in the course of a cancellation that was committed.
DeletesAreCancelled ==
  \A j \in Job : botStep[j] \in {"finalizing", "deleting"} => cancelRequested[j]

HoldInv == OutOfTable /\ DeletesAreCancelled /\ AttemptHoldsEntry

\* A row that left the table, or never entered it, has nothing going on: handlers,
\* startup and recovery act on rows they found, attempts on entries those put there.
LEMMA OutOfTableStep ==
  ASSUME SafetyInv, HoldInv, Next
  PROVE  OutOfTable'
<1> SUFFICES ASSUME NEW k \in Job, status'[k] \in {"unborn", "purged"} PROVE AtRest(k)'
  BY DEF OutOfTable
<1>a. /\ status[k] \in {"unborn", "purged"} => AtRest(k)
      /\ cancelRequested[k] => status[k] \in {"cancelled", "purged"}
      /\ status \in [Job -> Statuses \union {"unborn", "purged"}]
      /\ pc \in [Job -> AttemptSteps]
      /\ botStep \in [Job -> BotSteps]
  BY DEF SafetyInv, TypeOK, StoreTypeOK, HoldInv, OutOfTable, CancelFlagged
<1> USE <1>a DEF AtRest, storeVars, queueVars, botVars, workerVars, AttemptGoes, BotGoes
<1>1. ASSUME NEW j \in Job, BotStarts(j) PROVE AtRest(k)'
  <2>1. CASE Accept(j) BY <2>1 DEF Accept, CreateJob
  <2>2. CASE Resubmit(j) BY <2>2 DEF Resubmit, ActiveStatuses
  <2>3. CASE Cancel(j)
    BY <2>3 DEF Cancel, CancelJob, AlreadyCancelled, CancellableStatuses, ActiveStatuses
  <2>4. CASE Resolve(j) BY <2>4 DEF Resolve, Transition
  <2>5. CASE RemediateCookies(j)
    BY <2>5 DEF RemediateCookies, RecoveryCandidate, MarkRecoveryRequeued
  <2> QED BY <1>1, <2>1, <2>2, <2>3, <2>4, <2>5 DEF BotStarts
<1>2. ASSUME NEW j \in Job, BotContinues(j) PROVE AtRest(k)'
  <2> USE DEF Enqueue, EnqueueRecovered
  <2>1. CASE EnqueueNew(j) BY <2>1 DEF EnqueueNew
  <2>2. CASE EnqueueRaises(j) BY <2>2 DEF EnqueueRaises
  <2>3. CASE MarkEnqueueFailed(j) BY <2>3 DEF MarkEnqueueFailed, Transition
  <2>4. CASE CountFailure(j) BY <2>4 DEF CountFailure, RecordDownloadOutcome
  <2>5. CASE EnqueueAgain(j) BY <2>5 DEF EnqueueAgain
  <2>6. CASE AskAbort(j) BY <2>6 DEF AskAbort, RequestAbort
  <2>7. CASE ReadFinalStatus(j) BY <2>7 DEF ReadFinalStatus
  <2>8. CASE DeleteAbortedKeys(j) BY <2>8 DEF DeleteAbortedKeys, DeleteKeys
  <2>9. CASE EnqueueRemediated(j) BY <2>9 DEF EnqueueRemediated
  <2> QED BY <1>2, <2>1, <2>2, <2>3, <2>4, <2>5, <2>6, <2>7, <2>8, <2>9 DEF BotContinues
<1>3. CASE Startup
  <2>1. CASE WorkerStart
    BY <2>1 DEF WorkerStart, ReconcileAbandoned, ReconciledStatus, Abandoned
  <2>2. CASE BeginReconciling BY <2>2 DEF BeginReconciling, RecoveryRequeues
  <2>3. CASE ~WorkerStart /\ ~BeginReconciling
    BY <1>3, <2>3 DEF Startup, BeginRecovery, BecomeReady, StartupEnqueue, EnqueueOwed,
                      ReconcileRequeue, EnqueueRecovered, Enqueue
  <2> QED BY <2>1, <2>2, <2>3
<1>4. ASSUME NEW j \in Job, RecoverAfterAppFix(j) \/ RecoverInMaintenance(j)
      PROVE  AtRest(k)'
  BY <1>4 DEF RecoverAfterAppFix, RecoverInMaintenance, MarkOwed, RecoveryCandidate,
              MarkRecoveryRequeued
<1>5. ASSUME NEW j \in Job, Continue(j) \/ EnqueueContinuation(j) PROVE AtRest(k)'
  BY <1>5 DEF Continue, EnqueueContinuation, CreateJob, Enqueue, ActiveStatuses
<1>6. ASSUME NEW j \in Job, Take(j) PROVE AtRest(k)'
  BY <1>6 DEF Take, Start, StartBeside, Refuse, ArqStart, Startable, ArqRefuse, ArqFinish
<1>7. ASSUME NEW j \in Job, AttemptStep(j) PROVE AtRest(k)'
  <2>1. pc[j] # "idle" /\ pc' = [pc EXCEPT ![j] = pc'[j]]
    BY <1>7 DEF AttemptStep, BeginRunning, SeeCancel, Publish, StartDelivery, Upload, Complete,
                Quarantine, LoseQuarantine, Fail, FailureSeesCancel, FailureGoesOn, CommitRetry,
                CommitFailed, ClassifyFailure, CountFailedAttempt, Finish, Defer, Abort,
                JobTimeout, Attempting, BeforeUpload, Failing, Interruptible
  <2>2. /\ UNCHANGED <<botStep, todo, owed, reoffered>>
        /\ entry' \subseteq entry /\ inProgress' \subseteq inProgress
    BY <1>7 DEF AttemptStep, AttemptFrame, BeginRunning, SeeCancel, Publish, StartDelivery,
                Upload, Complete, Quarantine, LoseQuarantine, Fail, FailureSeesCancel,
                FailureGoesOn, CommitRetry, CommitFailed, ClassifyFailure, CountFailedAttempt,
                Finish, Defer, Abort, JobTimeout, ArqFinish, ArqRequeue
  <2>3. \/ status'[k] = status[k]
        \/ status'[k] \in Statuses
    BY <1>7 DEF AttemptStep, BeginRunning, SeeCancel, Publish, StartDelivery, Upload, Complete,
                Quarantine, LoseQuarantine, Fail, FailureSeesCancel, FailureGoesOn, CommitRetry,
                CommitFailed, ClassifyFailure, CountFailedAttempt, Finish, Defer, Abort,
                JobTimeout, Transition, FinalizeCancelled, CancelJob, CompleteDownload,
                RecordRecoverableFailure, RecordDownloadOutcome, Statuses, ActiveStatuses,
                TerminalStatuses
  <2>4. status[k] \in {"unborn", "purged"}
    BY <2>3 DEF Statuses, ActiveStatuses, TerminalStatuses
  <2> QED BY <2>1, <2>2, <2>4
<1>8. CASE BotCrash BY <1>8 DEF BotCrash
<1>9. CASE Crash \/ Shutdown BY <1>9 DEF Crash, Shutdown, WorkerStops, ArqShutdown
<1>10. ASSUME NEW j \in Job, ExpireInProgress(j) \/ ExpireResult(j) \/ Purge(j)
       PROVE  AtRest(k)'
  BY <1>10 DEF ExpireInProgress, ExpireResult, Purge, PurgeExpired, InProgressExpires,
               ResultExpires
<1> QED BY <1>1, <1>2, <1>3, <1>4, <1>5, <1>6, <1>7, <1>8, <1>9, <1>10 DEF Next

\* A cancelling handler reaches the deletion of the keys only over Cancel's transaction.
LEMMA DeletesStep ==
  ASSUME SafetyInv, HoldInv, Next
  PROVE  DeletesAreCancelled'
<1>1. \A j \in Job : cancelRequested[j] => cancelRequested'[j]
  BY StoreCancels, StepsAreTransactions DEF SafetyInv, TypeOK
<1> SUFFICES ASSUME NEW k \in Job, botStep'[k] \in {"finalizing", "deleting"},
                    ~cancelRequested[k]
             PROVE  FALSE
  BY <1>1 DEF DeletesAreCancelled
<1> USE DEF SafetyInv, HoldInv, TypeOK, AbortsAreCancelled, DeletesAreCancelled, botVars, BotGoes
<1>2. ASSUME NEW j \in Job, BotStarts(j) \/ BotContinues(j) PROVE FALSE
  BY <1>2 DEF BotStarts, BotContinues, Accept, Resubmit, Cancel, Resolve, RemediateCookies,
              EnqueueNew, EnqueueRaises, MarkEnqueueFailed, CountFailure, EnqueueAgain,
              AskAbort, ReadFinalStatus, DeleteAbortedKeys, EnqueueRemediated
<1>3. CASE botStep' = botStep
  BY <1>3
<1>4. CASE BotCrash BY <1>4 DEF BotCrash
<1> QED
  BY <1>2, <1>3, <1>4 DEF Next, Startup, Take, AttemptStep, AttemptFrame, WorkerStart,
     BeginRecovery, BeginReconciling, BecomeReady, StartupEnqueue, EnqueueOwed,
     ReconcileRequeue, RecoverAfterAppFix, RecoverInMaintenance, MarkOwed, Continue,
     EnqueueContinuation, Start, StartBeside, Refuse, BeginRunning, SeeCancel, Publish,
     StartDelivery, Upload, Complete, Quarantine, LoseQuarantine, Fail, FailureSeesCancel,
     FailureGoesOn, CommitRetry, CommitFailed, ClassifyFailure, CountFailedAttempt, Finish,
     Defer, Abort, JobTimeout, Crash, Shutdown, WorkerStops, ExpireInProgress, ExpireResult,
     Purge

\* The entry and the in-progress key stay with a running attempt: a second start, the
\* deletion of the keys and the end of another attempt presuppose a cancellation.
LEMMA EntryStep ==
  ASSUME SafetyInv, HoldInv, Next
  PROVE  AttemptHoldsEntry'
<1> SUFFICES ASSUME NEW k \in Job, pc'[k] # "idle"
             PROVE  k \in entry' \intersect inProgress' \/ status'[k] = "cancelled"
  BY DEF AttemptHoldsEntry
<1> DEFINE Held == k \in entry' \intersect inProgress' \/ status'[k] = "cancelled"
<1>a. /\ pc[k] # "idle" => k \in entry \intersect inProgress \/ status[k] = "cancelled"
      /\ status[k] \in {"unborn", "purged"} => pc[k] = "idle"
      /\ cancelRequested[k] => status[k] \in {"cancelled", "purged"}
      /\ botStep[k] = "deleting" => cancelRequested[k]
      /\ pc \in [Job -> AttemptSteps]
  BY DEF SafetyInv, TypeOK, HoldInv, AttemptHoldsEntry, OutOfTable, AtRest, CancelFlagged,
         DeletesAreCancelled
<1>b. status[k] = "cancelled" => status'[k] \in {"cancelled", "purged"}
  BY StoreCancels, StepsAreTransactions DEF SafetyInv, TypeOK
<1>c. status'[k] \notin {"unborn", "purged"}
  BY OutOfTableStep DEF OutOfTable, AtRest
<1> USE <1>a, <1>b, <1>c DEF queueVars, workerVars, AttemptGoes
<1>1. ASSUME NEW j \in Job, BotStarts(j) PROVE Held
  BY <1>1 DEF BotStarts, Accept, Resubmit, Cancel, Resolve, RemediateCookies
<1>2. ASSUME NEW j \in Job, BotContinues(j) PROVE Held
  BY <1>2 DEF BotContinues, EnqueueNew, EnqueueRaises, MarkEnqueueFailed, CountFailure,
              EnqueueAgain, AskAbort, ReadFinalStatus, DeleteAbortedKeys, EnqueueRemediated,
              EnqueueRecovered, Enqueue, RequestAbort, DeleteKeys
<1>3. CASE Startup
  BY <1>3 DEF Startup, WorkerStart, BeginRecovery, BeginReconciling, BecomeReady,
              StartupEnqueue, EnqueueOwed, ReconcileRequeue, EnqueueRecovered, Enqueue
<1>4. ASSUME NEW j \in Job,
             \/ RecoverAfterAppFix(j) \/ RecoverInMaintenance(j)
             \/ Continue(j) \/ EnqueueContinuation(j)
             \/ ExpireInProgress(j) \/ ExpireResult(j) \/ Purge(j)
      PROVE  Held
  BY <1>4 DEF RecoverAfterAppFix, RecoverInMaintenance, MarkOwed, Continue,
              EnqueueContinuation, ExpireInProgress, ExpireResult, Purge, Enqueue,
              InProgressExpires, ResultExpires
<1>5. ASSUME NEW j \in Job, Take(j) PROVE Held
  BY <1>5 DEF Take, Start, StartBeside, Refuse, ArqStart, Startable, ArqRefuse, ArqFinish
<1>6. ASSUME NEW j \in Job, AttemptStep(j) PROVE Held
  BY <1>6 DEF AttemptStep, AttemptFrame, BeginRunning, SeeCancel, Publish, StartDelivery,
              Upload, Complete, Quarantine, LoseQuarantine, Fail, FailureSeesCancel,
              FailureGoesOn, CommitRetry, CommitFailed, ClassifyFailure, CountFailedAttempt,
              Finish, Defer, Abort, JobTimeout, ArqFinish, ArqRequeue, Attempting,
              BeforeUpload, Failing, Interruptible
<1>7. CASE BotCrash BY <1>7 DEF BotCrash
<1>8. CASE Crash \/ Shutdown BY <1>8 DEF Crash, Shutdown, WorkerStops
<1> QED BY <1>1, <1>2, <1>3, <1>4, <1>5, <1>6, <1>7, <1>8 DEF Next

\* The invariant behind it, for any set of faults and any retention of results.
THEOREM HoldInvariant == Spec => []HoldInv
<1>1. Init => HoldInv
  BY DEF Init, StoreInit, QueueInit, HoldInv, OutOfTable, DeletesAreCancelled,
         AttemptHoldsEntry, AtRest
<1>2. SafetyInv /\ HoldInv /\ [Next]_vars => HoldInv'
  <2>1. ASSUME SafetyInv, HoldInv, Next PROVE HoldInv'
    BY <2>1, OutOfTableStep, DeletesStep, EntryStep DEF HoldInv
  <2>2. ASSUME HoldInv, UNCHANGED vars PROVE HoldInv'
    BY <2>2 DEF HoldInv, OutOfTable, DeletesAreCancelled, AttemptHoldsEntry, AtRest, vars,
                storeVars, queueVars, botVars, workerVars
  <2> QED BY <2>1, <2>2
<1> QED BY <1>1, <1>2, SafetyInvariant, PTL DEF Spec

\* A running attempt owns its entry and its in-progress key, so no second attempt works
\* on the job, unless a cancellation took the keys from under it.
THEOREM AttemptsOwnTheirEntry == Spec => []AttemptHoldsEntry
<1>1. HoldInv => AttemptHoldsEntry BY DEF HoldInv
<1> QED BY <1>1, HoldInvariant, PTL

(***************************************************************************)
(* The refinement of JobPromise.                                           *)
(***************************************************************************)

\* The handler may yet have to fail the row it created.
MayFail(j) == "enqueue_error" \in Faults /\ botStep[j] \in {"accepted", "enqueue_failed"}

\* Such a row is known to nobody else.
NewIsWaiting ==
  \A j \in Job :
    /\ botStep[j] = "enqueue_failed" => "enqueue_error" \in Faults
    /\ MayFail(j) => /\ status[j] = "queued" /\ recoveryAttempts[j] = 0 /\ pc[j] = "idle"
                     /\ j \notin entry \union todo \union owed

UnbornIsFresh == \A j \in Job : status[j] = "unborn" => recoveryAttempts[j] = 0

NothingContinues == \A j \in Job : "enqueue_error" \in Faults => j \notin reoffered

\* What an attempt may find in its row: a failed row was reopened by nobody yet, and
\* once the row says "running" only the attempt itself and a cancellation move it.
AttemptRow ==
  \A j \in Job :
    /\ pc[j] \in Attempting \union {"failing", "giving_up"}
         => status[j] \in CancellableStatuses \union {"failed", "cancelled"}
    /\ pc[j] = "running" => status[j] \in {"running", "cancelled"}
    /\ pc[j] \in {"delivering", "uploading"} => status[j] \in {"delivering", "cancelled"}

\* Only a download is delivered, put up for review, or counted by the bot.
DeliveriesAreDownloads ==
  \A j \in Job :
    \/ status[j] \in {"delivering", "delivery_uncertain"}
    \/ pc[j] \in {"delivering", "uploading"}
    \/ botStep[j] = "uncounted"
    => Kind[j] = "download"

PromiseInv ==
  /\ NewIsWaiting
  /\ UnbornIsFresh
  /\ NothingContinues
  /\ AttemptRow
  /\ DeliveriesAreDownloads

\* The promise is kept where the handler that created a row knows whether it was
\* enqueued: an enqueue that raised did not happen, and no automatic continuation found
\* and enqueued the row in between.
EnqueueIsKnown ==
  /\ "ambiguous_enqueue" \notin Faults
  /\ "enqueue_error" \notin Faults \/ Continuations = {}

\* Until its first enqueue a new row is looked at by no startup, recovery or attempt.
LEMMA NewIsWaitingStep ==
  ASSUME SafetyInv, HoldInv, PromiseInv, EnqueueIsKnown, Next
  PROVE  NewIsWaiting' /\ UnbornIsFresh' /\ NothingContinues'
<1> SUFFICES ASSUME NEW k \in Job
             PROVE  /\ botStep'[k] = "enqueue_failed" => "enqueue_error" \in Faults
                    /\ MayFail(k)' => /\ status'[k] = "queued" /\ recoveryAttempts'[k] = 0
                                      /\ pc'[k] = "idle"
                                      /\ k \notin entry' \union todo' \union owed'
                    /\ status'[k] = "unborn" => recoveryAttempts'[k] = 0
                    /\ "enqueue_error" \in Faults => k \notin reoffered'
  BY DEF NewIsWaiting, UnbornIsFresh, NothingContinues
<1> DEFINE Fresh == /\ botStep'[k] = "enqueue_failed" => "enqueue_error" \in Faults
                    /\ MayFail(k)' => /\ status'[k] = "queued" /\ recoveryAttempts'[k] = 0
                                      /\ pc'[k] = "idle"
                                      /\ k \notin entry' \union todo' \union owed'
                    /\ status'[k] = "unborn" => recoveryAttempts'[k] = 0
                    /\ "enqueue_error" \in Faults => k \notin reoffered'
<1>a. /\ botStep[k] = "enqueue_failed" => "enqueue_error" \in Faults
      /\ MayFail(k) => /\ status[k] = "queued" /\ recoveryAttempts[k] = 0 /\ pc[k] = "idle"
                       /\ k \notin entry \union todo \union owed
      /\ status[k] = "unborn" => recoveryAttempts[k] = 0
      /\ "enqueue_error" \in Faults => k \notin reoffered
      /\ status[k] \in {"unborn", "purged"} => AtRest(k)
      /\ cancelRequested[k] => status[k] \in {"cancelled", "purged"}
      /\ k \in aborting => cancelRequested[k]
  BY DEF PromiseInv, NewIsWaiting, UnbornIsFresh, NothingContinues, HoldInv, OutOfTable,
         SafetyInv, CancelFlagged, AbortsAreCancelled
<1>b. /\ status \in [Job -> Statuses \union {"unborn", "purged"}]
      /\ cancelRequested \in [Job -> BOOLEAN]
      /\ recoveryAttempts \in [Job -> Nat]
      /\ botStep \in [Job -> BotSteps]
      /\ pc \in [Job -> AttemptSteps]
  BY DEF SafetyInv, TypeOK, StoreTypeOK
<1> USE <1>a, <1>b, EnqueueIsKnown
    DEF AtRest, MayFail, storeVars, queueVars, botVars, workerVars, AttemptGoes, BotGoes,
        EnqueueIsKnown
<1>1. ASSUME NEW j \in Job, BotStarts(j) PROVE Fresh
  <2>1. CASE Accept(j) BY <2>1 DEF Accept, BotFree, CreateJob
  <2>2. CASE Resubmit(j) BY <2>2 DEF Resubmit, BotFree
  <2>3. CASE Cancel(j) BY <2>3 DEF Cancel, BotFree, CancelJob
  <2>4. CASE Resolve(j) BY <2>4 DEF Resolve, BotFree, Transition
  <2>5. CASE RemediateCookies(j)
    BY <2>5 DEF RemediateCookies, BotFree, RecoveryCandidate, MarkRecoveryRequeued
  <2> QED BY <1>1, <2>1, <2>2, <2>3, <2>4, <2>5 DEF BotStarts
<1>2. ASSUME NEW j \in Job, BotContinues(j) PROVE Fresh
  <2> USE DEF Enqueue, EnqueueRecovered
  <2>1. CASE EnqueueNew(j) BY <2>1 DEF EnqueueNew
  <2>2. CASE EnqueueRaises(j) BY <2>2 DEF EnqueueRaises
  <2>3. CASE MarkEnqueueFailed(j) BY <2>3 DEF MarkEnqueueFailed, Transition
  <2>4. CASE CountFailure(j) BY <2>4 DEF CountFailure, RecordDownloadOutcome
  <2>5. CASE EnqueueAgain(j) BY <2>5 DEF EnqueueAgain
  <2>6. CASE AskAbort(j) BY <2>6 DEF AskAbort, RequestAbort
  <2>7. CASE ReadFinalStatus(j) BY <2>7 DEF ReadFinalStatus
  <2>8. CASE DeleteAbortedKeys(j) BY <2>8 DEF DeleteAbortedKeys, DeleteKeys
  <2>9. CASE EnqueueRemediated(j) BY <2>9 DEF EnqueueRemediated
  <2> QED BY <1>2, <2>1, <2>2, <2>3, <2>4, <2>5, <2>6, <2>7, <2>8, <2>9 DEF BotContinues
<1>3. CASE Startup
  <2>1. CASE WorkerStart
    BY <2>1 DEF WorkerStart, ReconcileAbandoned, ReconciledStatus, Abandoned
  <2>2. CASE BeginReconciling BY <2>2 DEF BeginReconciling, RecoveryRequeues
  <2>3. CASE ~WorkerStart /\ ~BeginReconciling
    BY <1>3, <2>3 DEF Startup, BeginRecovery, BecomeReady, StartupEnqueue, EnqueueOwed,
                      ReconcileRequeue, EnqueueRecovered, Enqueue
  <2> QED BY <2>1, <2>2, <2>3
<1>4. ASSUME NEW j \in Job, RecoverAfterAppFix(j) \/ RecoverInMaintenance(j) PROVE Fresh
  BY <1>4 DEF RecoverAfterAppFix, RecoverInMaintenance, MarkOwed, RecoveryCandidate,
              MarkRecoveryRequeued
<1>5. ASSUME NEW j \in Job, Continue(j) \/ EnqueueContinuation(j) PROVE Fresh
  BY <1>5 DEF Continue, EnqueueContinuation, CreateJob, Enqueue
<1>6. ASSUME NEW j \in Job, Take(j) PROVE Fresh
  BY <1>6 DEF Take, Start, StartBeside, Refuse, ArqStart, Startable, ArqRefuse, ArqFinish
<1>7. ASSUME NEW j \in Job, AttemptStep(j) PROVE Fresh
  <2>1. pc[j] # "idle" /\ pc' = [pc EXCEPT ![j] = pc'[j]]
    BY <1>7 DEF AttemptStep, BeginRunning, SeeCancel, Publish, StartDelivery, Upload, Complete,
                Quarantine, LoseQuarantine, Fail, FailureSeesCancel, FailureGoesOn, CommitRetry,
                CommitFailed, ClassifyFailure, CountFailedAttempt, Finish, Defer, Abort,
                JobTimeout, Attempting, BeforeUpload, Failing, Interruptible
  <2>2. /\ UNCHANGED <<botStep, todo, owed, reoffered, recoveryAttempts>>
        /\ entry' \subseteq entry
    BY <1>7 DEF AttemptStep, AttemptFrame, BeginRunning, SeeCancel, Publish, StartDelivery,
                Upload, Complete, Quarantine, LoseQuarantine, Fail, FailureSeesCancel,
                FailureGoesOn, CommitRetry, CommitFailed, ClassifyFailure, CountFailedAttempt,
                Finish, Defer, Abort, JobTimeout, ArqFinish, ArqRequeue, Transition,
                FinalizeCancelled, CancelJob, CompleteDownload, RecordRecoverableFailure,
                RecordDownloadOutcome
  <2>3. /\ k # j => status'[k] = status[k]
        /\ status'[j] # "unborn"
    BY <1>7, <2>1 DEF AttemptStep, BeginRunning, SeeCancel, Publish, StartDelivery, Upload,
                Complete, Quarantine, LoseQuarantine, Fail, FailureSeesCancel, FailureGoesOn,
                CommitRetry, CommitFailed, ClassifyFailure, CountFailedAttempt, Finish, Defer,
                Abort, JobTimeout, Transition, FinalizeCancelled, CancelJob, CompleteDownload,
                RecordRecoverableFailure, RecordDownloadOutcome, HoldInv, OutOfTable
  <2> QED BY <2>1, <2>2, <2>3
<1>8. CASE BotCrash BY <1>8 DEF BotCrash
<1>9. CASE Crash \/ Shutdown BY <1>9 DEF Crash, Shutdown, WorkerStops, ArqShutdown
<1>10. ASSUME NEW j \in Job, ExpireInProgress(j) \/ ExpireResult(j) \/ Purge(j) PROVE Fresh
  BY <1>10 DEF ExpireInProgress, ExpireResult, Purge, PurgeExpired, InProgressExpires,
               ResultExpires
<1> QED BY <1>1, <1>2, <1>3, <1>4, <1>5, <1>6, <1>7, <1>8, <1>9, <1>10 DEF Next

\* Beside the attempt only a cancellation and a recovery move its row: the startup runs
\* without attempts, and the handlers wait for rows of other statuses.
LEMMA AttemptRowStep ==
  ASSUME SafetyInv, HoldInv, PromiseInv, Next
  PROVE  AttemptRow' /\ DeliveriesAreDownloads'
<1> DEFINE Row(k) ==
             /\ pc[k] \in Attempting \union {"failing", "giving_up"}
                  => status[k] \in CancellableStatuses \union {"failed", "cancelled"}
             /\ pc[k] = "running" => status[k] \in {"running", "cancelled"}
             /\ pc[k] \in {"delivering", "uploading"} => status[k] \in {"delivering", "cancelled"}
             /\ \/ status[k] \in {"delivering", "delivery_uncertain"}
                \/ pc[k] \in {"delivering", "uploading"}
                \/ botStep[k] = "uncounted"
                => Kind[k] = "download"
<1> SUFFICES ASSUME NEW k \in Job PROVE Row(k)'
  BY DEF AttemptRow, DeliveriesAreDownloads
<1>a. /\ Row(k)
      /\ botStep[k] = "enqueue_failed" => pc[k] = "idle"
      /\ pc[k] # "idle" => worker = "up" /\ status[k] \notin {"unborn", "purged"}
      /\ cancelRequested[k] => status[k] \in {"cancelled", "purged"}
      /\ status[k] = "cancelled" => cancelRequested[k]
  BY DEF PromiseInv, NewIsWaiting, MayFail, AttemptRow, DeliveriesAreDownloads, HoldInv,
         OutOfTable, AtRest, SafetyInv, AttemptsNeedWorker, CancelFlagged
<1>b. /\ status \in [Job -> Statuses \union {"unborn", "purged"}]
      /\ cancelRequested \in [Job -> BOOLEAN]
      /\ botStep \in [Job -> BotSteps]
      /\ pc \in [Job -> AttemptSteps]
  BY DEF SafetyInv, TypeOK, StoreTypeOK
<1> USE <1>a, <1>b
    DEF storeVars, botVars, workerVars, AttemptGoes, BotGoes, Statuses, ActiveStatuses,
        CancellableStatuses, TerminalStatuses, Attempting, BeforeUpload
<1>1. ASSUME NEW j \in Job, BotStarts(j) PROVE Row(k)'
  <2>1. CASE Accept(j) BY <2>1 DEF Accept, CreateJob
  <2>2. CASE Resubmit(j) BY <2>2 DEF Resubmit
  <2>3. CASE Cancel(j) BY <2>3 DEF Cancel, CancelJob, AlreadyCancelled
  <2>4. CASE Resolve(j) BY <2>4 DEF Resolve, Transition
  <2>5. CASE RemediateCookies(j)
    BY <2>5 DEF RemediateCookies, RecoveryCandidate, MarkRecoveryRequeued
  <2> QED BY <1>1, <2>1, <2>2, <2>3, <2>4, <2>5 DEF BotStarts
<1>2. ASSUME NEW j \in Job, BotContinues(j) PROVE Row(k)'
  <2>1. CASE MarkEnqueueFailed(j) BY <2>1 DEF MarkEnqueueFailed, Transition
  <2>2. CASE ~MarkEnqueueFailed(j)
    BY <1>2, <2>2
       DEF BotContinues, EnqueueNew, EnqueueRaises, CountFailure, RecordDownloadOutcome,
           EnqueueAgain, AskAbort, ReadFinalStatus, DeleteAbortedKeys, EnqueueRemediated
  <2> QED BY <2>1, <2>2
<1>3. CASE Startup
  <2>1. CASE WorkerStart
    BY <2>1 DEF WorkerStart, ReconcileAbandoned, ReconciledStatus, Abandoned
  <2>2. CASE ~WorkerStart
    BY <1>3, <2>2 DEF Startup, BeginRecovery, BeginReconciling, BecomeReady, StartupEnqueue,
                      EnqueueOwed, ReconcileRequeue
  <2> QED BY <2>1, <2>2
<1>4. ASSUME NEW j \in Job, RecoverAfterAppFix(j) \/ RecoverInMaintenance(j) PROVE Row(k)'
  BY <1>4 DEF RecoverAfterAppFix, RecoverInMaintenance, MarkOwed, RecoveryCandidate,
              MarkRecoveryRequeued
<1>5. ASSUME NEW j \in Job, Continue(j) \/ EnqueueContinuation(j) PROVE Row(k)'
  BY <1>5 DEF Continue, EnqueueContinuation, CreateJob
<1>6. ASSUME NEW j \in Job, Take(j) PROVE Row(k)'
  BY <1>6 DEF Take, Start, StartBeside, Refuse, SkippedStatuses, Exists
<1>7. ASSUME NEW j \in Job, AttemptStep(j) PROVE Row(k)'
  <2> USE DEF AttemptFrame, CancelWins, Exists
  <2>1. CASE BeginRunning(j) BY <2>1 DEF BeginRunning, Transition
  <2>2. CASE SeeCancel(j) BY <2>2 DEF SeeCancel, FinalizeCancelled, CancelJob
  <2>3. CASE Publish(j) BY <2>3 DEF Publish, Transition
  <2>4. CASE StartDelivery(j) BY <2>4 DEF StartDelivery, Transition
  <2>5. CASE Complete(j) BY <2>5 DEF Complete, CompleteDownload
  <2>6. CASE Quarantine(j) BY <2>6 DEF Quarantine, Transition
  <2>7. CASE FailureSeesCancel(j) BY <2>7 DEF FailureSeesCancel, FinalizeCancelled, CancelJob
  <2>8. CASE CommitRetry(j) BY <2>8 DEF CommitRetry, Transition
  <2>9. CASE CommitFailed(j) BY <2>9 DEF CommitFailed, Transition
  <2>10. CASE UNCHANGED status
    BY <1>7, <2>10
       DEF AttemptStep, BeginRunning, SeeCancel, Publish, StartDelivery, Upload, Complete,
           Quarantine, LoseQuarantine, Fail, FailureSeesCancel, FailureGoesOn, CommitRetry,
           CommitFailed, ClassifyFailure, CountFailedAttempt, Finish, Defer, Abort, JobTimeout,
           Transition, CompleteDownload, Failing, Interruptible
  <2> QED
    BY <1>7, <2>1, <2>2, <2>3, <2>4, <2>5, <2>6, <2>7, <2>8, <2>9, <2>10
       DEF AttemptStep, Upload, LoseQuarantine, Fail, FailureGoesOn, ClassifyFailure,
           RecordRecoverableFailure, CountFailedAttempt, RecordDownloadOutcome, Finish, Defer,
           Abort, JobTimeout
<1>8. CASE BotCrash BY <1>8 DEF BotCrash
<1>9. CASE Crash \/ Shutdown BY <1>9 DEF Crash, Shutdown, WorkerStops
<1>10. ASSUME NEW j \in Job, ExpireInProgress(j) \/ ExpireResult(j) \/ Purge(j) PROVE Row(k)'
  BY <1>10 DEF ExpireInProgress, ExpireResult, Purge, PurgeExpired, AtRest
<1> QED BY <1>1, <1>2, <1>3, <1>4, <1>5, <1>6, <1>7, <1>8, <1>9, <1>10 DEF Next

\* The strengthening under which the lifecycle keeps the promise holds throughout.
LEMMA PromiseInvariant ==
  ASSUME EnqueueIsKnown
  PROVE  Spec => []PromiseInv
<1>1. Init => PromiseInv
  BY DEF Init, StoreInit, QueueInit, PromiseInv, NewIsWaiting, MayFail, UnbornIsFresh,
         NothingContinues, AttemptRow, DeliveriesAreDownloads, Attempting, BeforeUpload
<1>2. SafetyInv /\ HoldInv /\ PromiseInv /\ [Next]_vars => PromiseInv'
  <2>1. ASSUME SafetyInv, HoldInv, PromiseInv, Next PROVE PromiseInv'
    BY <2>1, NewIsWaitingStep, AttemptRowStep DEF PromiseInv
  <2>2. ASSUME PromiseInv, UNCHANGED vars PROVE PromiseInv'
    BY <2>2 DEF PromiseInv, NewIsWaiting, MayFail, UnbornIsFresh, NothingContinues, AttemptRow,
                DeliveriesAreDownloads, vars, storeVars, queueVars, botVars, workerVars
  <2> QED BY <2>1, <2>2
<1> QED BY <1>1, <1>2, SafetyInvariant, HoldInvariant, PTL DEF Spec

\* What the table shows of each status (CASE of OutcomeOf, spelled out once).
LEMMA Outcomes ==
  /\ OutcomeOf("unborn") = "absent" /\ OutcomeOf("purged") = "gone"
  /\ OutcomeOf("delivery_uncertain") = "review"
  /\ \A s \in CancellableStatuses : OutcomeOf(s) = "accepted"
  /\ OutcomeOf("succeeded") = "succeeded" /\ OutcomeOf("failed") = "failed"
  /\ OutcomeOf("cancelled") = "cancelled"
BY DEF OutcomeOf, CancellableStatuses, ActiveStatuses

\* An UPDATE of one row is one change of outcome, and none if the outcome stays.
LEMMA RowMoves ==
  ASSUME NEW j \in Job, NEW s, status \in [Job -> Statuses \union {"unborn", "purged"}],
         status' = [status EXCEPT ![j] = s]
  PROVE  /\ Promise!Becomes(j, OutcomeOf(s))
         /\ OutcomeOf(s) = OutcomeOf(status[j])
              => UNCHANGED [i \in Job |-> OutcomeOf(status[i])]
<1>1. \A i \in Job : status'[i] = IF i = j THEN s ELSE status[i]
  OBVIOUS
<1> QED BY <1>1, Zenon DEF Promise!Becomes

\* Counting adds the job, if it is a download, and nothing else.
LEMMA UsageCounts ==
  ASSUME NEW j \in Job, NEW o \in {"failed", "succeeded"},
         usage \in [Job -> {"none", "failed", "succeeded"}], usage' = UsageAfter(j, o)
  PROVE  {i \in Job : usage'[i] # "none"} = {i \in Job : usage[i] # "none"} \union {j}
BY DEF UsageAfter

\* Every step of the system is a step of the promise, or none.
LEMMA PromiseStep ==
  ASSUME SafetyInv, HoldInv, PromiseInv, Next
  PROVE  [Promise!Next]_(Promise!promiseVars)
<1> DEFINE outcome == [i \in Job |-> OutcomeOf(status[i])]
           counted == {i \in Job : usage[i] # "none"}
           Kept == [Promise!Next]_(Promise!promiseVars)
<1>a. /\ status \in [Job -> Statuses \union {"unborn", "purged"}]
      /\ cancelRequested \in [Job -> BOOLEAN]
      /\ usage \in [Job -> {"none", "failed", "succeeded"}]
  BY DEF SafetyInv, TypeOK, StoreTypeOK
<1>b. \A i \in Job : CancelWins(i) => status[i] \in {"cancelled", "purged"}
  BY DEF SafetyInv, CancelFlagged, CancelWins
<1>c. \A i \in Job : botStep[i] # "idle" \/ pc[i] # "idle"
                       => status[i] \notin {"unborn", "purged"}
  BY DEF HoldInv, OutOfTable, AtRest
<1>s. UNCHANGED <<status, usage>> => Kept
  BY DEF Promise!promiseVars
<1>t. ASSUME NEW j \in Job, NEW s, status' = [status EXCEPT ![j] = s], UNCHANGED usage,
             \/ OutcomeOf(s) = OutcomeOf(status[j])
             \/ OutcomeOf(status[j]) = "absent" /\ OutcomeOf(s) = "accepted"
             \/ OutcomeOf(status[j]) = "accepted"
                  /\ OutcomeOf(s) \in {"failed", "cancelled", "review"}
             \/ OutcomeOf(status[j]) = "accepted" /\ OutcomeOf(s) = "succeeded"
                  /\ Kind[j] # "download"
             \/ OutcomeOf(status[j]) = "review" /\ OutcomeOf(s) = "failed"
             \/ OutcomeOf(status[j]) = "failed" /\ OutcomeOf(s) = "accepted"
             \/ OutcomeOf(status[j]) \in {"succeeded", "failed", "cancelled", "review"}
                  /\ OutcomeOf(s) = "gone"
      PROVE  Kept
  <2>1. /\ Promise!Becomes(j, OutcomeOf(s))
        /\ OutcomeOf(s) = OutcomeOf(status[j]) => UNCHANGED outcome
    BY <1>a, <1>t, RowMoves
  <2>2. outcome[j] = OutcomeOf(status[j]) /\ UNCHANGED counted
    BY <1>t
  <2>3. CASE OutcomeOf(s) = OutcomeOf(status[j])
    BY <2>1, <2>2, <2>3 DEF Promise!promiseVars
  <2>4. CASE OutcomeOf(status[j]) = "accepted" /\ OutcomeOf(s) = "review"
    <3>1. outcome' = [i \in Job |-> IF i \in {j} THEN "review" ELSE outcome[i]]
      BY <2>1, <2>4 DEF Promise!Becomes
    <3>2. {j} \in SUBSET {i \in Job : outcome[i] = "accepted"}
      BY <2>4
    <3> QED BY <2>2, <3>1, <3>2 DEF Promise!Next, Promise!Quarantine
  <2>5. CASE OutcomeOf(status[j]) = "accepted" /\ OutcomeOf(s) = "succeeded"
             /\ Kind[j] # "download"
    <3>1. counted' = counted \union ({j} \intersect {i \in Job : Kind[i] = "download"})
      BY <2>2, <2>5
    <3>2. Promise!Succeed(j)
      BY <2>1, <2>2, <2>5, <3>1 DEF Promise!Succeed
    <3> QED BY <3>2 DEF Promise!Next
  <2>6. \/ OutcomeOf(s) = OutcomeOf(status[j])
        \/ OutcomeOf(status[j]) = "accepted" /\ OutcomeOf(s) = "review"
        \/ OutcomeOf(status[j]) = "accepted" /\ OutcomeOf(s) = "succeeded"
             /\ Kind[j] # "download"
        \/ Promise!Accept(j) \/ Promise!Fail(j) \/ Promise!Cancel(j)
        \/ Promise!Review(j) \/ Promise!Reopen(j) \/ Promise!Forget(j)
    BY <1>t, <2>1, <2>2 DEF Promise!Accept, Promise!Fail, Promise!Cancel, Promise!Review,
                            Promise!Reopen, Promise!Forget
  <2> QED BY <2>3, <2>4, <2>5, <2>6 DEF Promise!Next
<1>u. ASSUME NEW j \in Job, Kind[j] = "download", status[j] # "unborn", RecordDownloadOutcome(j)
      PROVE  Kept
  <2>1. UNCHANGED outcome /\ counted' = counted \union {j}
    BY <1>a, <1>u, UsageCounts DEF RecordDownloadOutcome
  <2>2. outcome[j] # "absent"
    BY <1>a, <1>u DEF OutcomeOf, Statuses, ActiveStatuses, TerminalStatuses, CancellableStatuses
  <2>3. Promise!Count(j)
    BY <1>u, <2>1, <2>2 DEF Promise!Count
  <2> QED BY <2>3 DEF Promise!Next
<1>v. ASSUME NEW j \in Job, FinalizeCancelled(j) PROVE Kept
  BY <1>s, <1>t, <1>v, Outcomes DEF FinalizeCancelled, CancelJob, storeVars
<1> USE DEF storeVars, AttemptFrame
<1>1. ASSUME NEW j \in Job, BotStarts(j) PROVE Kept
  <2>1. CASE Accept(j)
    BY <1>t, <2>1, Outcomes DEF Accept, CreateJob, CancellableStatuses, ActiveStatuses
  <2>2. CASE Resubmit(j) BY <1>s, <2>2 DEF Resubmit
  <2>3. CASE Cancel(j) BY <1>s, <1>t, <2>3, Outcomes DEF Cancel, CancelJob
  <2>4. CASE Resolve(j) BY <1>s, <1>t, <2>4, Outcomes DEF Resolve, Transition
  <2>5. CASE RemediateCookies(j)
    BY <1>t, <2>5, Outcomes DEF RemediateCookies, MarkRecoveryRequeued, CancellableStatuses,
                                ActiveStatuses
  <2> QED BY <1>1, <2>1, <2>2, <2>3, <2>4, <2>5 DEF BotStarts
<1>2. ASSUME NEW j \in Job, BotContinues(j) PROVE Kept
  <2>1. CASE MarkEnqueueFailed(j)
    <3>1. status[j] = "queued" BY <2>1 DEF MarkEnqueueFailed, PromiseInv, NewIsWaiting, MayFail
    <3> QED BY <1>s, <1>t, <2>1, <3>1, Outcomes DEF MarkEnqueueFailed, Transition,
                                                    CancellableStatuses, ActiveStatuses
  <2>2. CASE CountFailure(j)
    BY <1>c, <1>u, <2>2 DEF CountFailure, PromiseInv, DeliveriesAreDownloads
  <2>3. CASE ~MarkEnqueueFailed(j) /\ ~CountFailure(j)
    BY <1>s, <1>2, <2>3
       DEF BotContinues, EnqueueNew, EnqueueRaises, EnqueueAgain, AskAbort, ReadFinalStatus,
           DeleteAbortedKeys, EnqueueRemediated
  <2> QED BY <2>1, <2>2, <2>3
<1>3. CASE WorkerStart
  <2> DEFINE lost == {i \in Job : Abandoned(i) /\ status[i] = "delivering"}
  <2>1. ASSUME NEW i \in Job
        PROVE  OutcomeOf(status'[i]) = IF i \in lost THEN "review" ELSE OutcomeOf(status[i])
    BY <1>a, <1>b, <1>3, Outcomes
       DEF WorkerStart, ReconcileAbandoned, ReconciledStatus, Abandoned, CancelWins,
           CancellableStatuses, ActiveStatuses
  <2>2. outcome' = [i \in Job |-> IF i \in lost THEN "review" ELSE outcome[i]]
    BY <2>1
  <2>3. lost \in SUBSET {i \in Job : outcome[i] = "accepted"}
    BY Outcomes DEF CancellableStatuses, ActiveStatuses
  <2>4. UNCHANGED counted
    BY <1>3 DEF WorkerStart, ReconcileAbandoned
  <2> HIDE DEF lost
  <2> QED BY <2>2, <2>3, <2>4 DEF Promise!Next, Promise!Quarantine
<1>4. CASE Startup /\ ~WorkerStart
  BY <1>s, <1>4 DEF Startup, BeginRecovery, BeginReconciling, BecomeReady, StartupEnqueue,
                    EnqueueOwed, ReconcileRequeue
<1>5. ASSUME NEW j \in Job, RecoverAfterAppFix(j) \/ RecoverInMaintenance(j) PROVE Kept
  BY <1>t, <1>5, Outcomes DEF RecoverAfterAppFix, RecoverInMaintenance, MarkOwed,
                              MarkRecoveryRequeued, CancellableStatuses, ActiveStatuses
<1>6. ASSUME NEW j \in Job, Continue(j) \/ EnqueueContinuation(j) PROVE Kept
  BY <1>s, <1>t, <1>6, Outcomes DEF Continue, EnqueueContinuation, CreateJob,
                                    CancellableStatuses, ActiveStatuses
<1>7. ASSUME NEW j \in Job, Take(j) PROVE Kept
  BY <1>s, <1>7 DEF Take, Start, StartBeside, Refuse
<1>8. ASSUME NEW j \in Job, AttemptStep(j) PROVE Kept
  <2> USE <1>s, <1>t
  <2>a. /\ pc[j] \in Attempting \union {"failing", "giving_up"}
             => OutcomeOf(status[j]) \in {"accepted", "failed", "cancelled"}
        /\ pc[j] \in {"running", "delivering", "uploading"} /\ ~CancelWins(j)
             => OutcomeOf(status[j]) = "accepted"
    BY Outcomes DEF PromiseInv, AttemptRow, CancelWins, Attempting, BeforeUpload,
                    CancellableStatuses, ActiveStatuses
  <2>b. OutcomeOf("running") = "accepted" /\ OutcomeOf("delivering") = "accepted"
        /\ OutcomeOf("retrying") = "accepted"
    BY Outcomes DEF CancellableStatuses, ActiveStatuses
  <2>c. ~CancelWins(j) => OutcomeOf(status[j]) # "cancelled"
    BY <1>a DEF OutcomeOf, CancelWins, Statuses, ActiveStatuses, TerminalStatuses,
                CancellableStatuses
  <2> USE <2>a, <2>b, <2>c DEF Transition, Attempting, BeforeUpload
  <2>1. CASE BeginRunning(j) BY <2>1 DEF BeginRunning
  <2>2. CASE SeeCancel(j) BY <1>v, <2>2 DEF SeeCancel
  <2>3. CASE Publish(j) BY <2>3, Outcomes DEF Publish
  <2>4. CASE StartDelivery(j) BY <2>4 DEF StartDelivery
  <2>5. CASE Upload(j) BY <2>5 DEF Upload
  <2>6. CASE Complete(j)
    <3>1. Kind[j] = "download" BY <2>6 DEF Complete, PromiseInv, DeliveriesAreDownloads
    <3>2. Promise!Becomes(j, "succeeded")
      <4>1. status' = [status EXCEPT ![j] = "succeeded"]
        BY <2>6 DEF Complete, CompleteDownload
      <4>2. Promise!Becomes(j, OutcomeOf("succeeded"))
        BY <1>a, <4>1, RowMoves
      <4> QED BY <4>2, Outcomes DEF Promise!Becomes
    <3>3. counted' = counted \union ({j} \intersect {i \in Job : Kind[i] = "download"})
      BY <1>a, <2>6, <3>1, UsageCounts DEF Complete, CompleteDownload
    <3>4. outcome[j] = "accepted"
      BY <2>6 DEF Complete, CompleteDownload
    <3>5. Promise!Succeed(j)
      BY <3>2, <3>3, <3>4 DEF Promise!Succeed
    <3> QED BY <3>5 DEF Promise!Next
  <2>7. CASE Quarantine(j) BY <2>7, Outcomes DEF Quarantine
  <2>8. CASE LoseQuarantine(j) BY <2>8 DEF LoseQuarantine
  <2>9. CASE Fail(j) BY <2>9 DEF Fail
  <2>10. CASE FailureSeesCancel(j) BY <1>v, <2>10 DEF FailureSeesCancel
  <2>11. CASE FailureGoesOn(j) BY <2>11 DEF FailureGoesOn
  <2>12. CASE CommitRetry(j) BY <2>12 DEF CommitRetry
  <2>13. CASE CommitFailed(j) BY <2>13, Outcomes DEF CommitFailed
  <2>14. CASE ClassifyFailure(j) BY <2>14 DEF ClassifyFailure, RecordRecoverableFailure
  <2>15. CASE CountFailedAttempt(j)
    BY <1>c, <1>u, <2>15 DEF CountFailedAttempt
  <2>16. CASE Finish(j) \/ Defer(j) \/ Abort(j) \/ JobTimeout(j)
    BY <2>16 DEF Finish, Defer, Abort, JobTimeout
  <2> QED BY <1>8, <2>1, <2>2, <2>3, <2>4, <2>5, <2>6, <2>7, <2>8, <2>9, <2>10, <2>11, <2>12,
             <2>13, <2>14, <2>15, <2>16 DEF AttemptStep
<1>9. CASE BotCrash BY <1>s, <1>9 DEF BotCrash
<1>10. CASE Crash \/ Shutdown BY <1>s, <1>10 DEF Crash, Shutdown, WorkerStops
<1>11. ASSUME NEW j \in Job, ExpireInProgress(j) \/ ExpireResult(j) PROVE Kept
  BY <1>s, <1>11 DEF ExpireInProgress, ExpireResult
<1>12. ASSUME NEW j \in Job, Purge(j) PROVE Kept
  BY <1>t, <1>12, Outcomes DEF Purge, PurgeExpired, TerminalStatuses
<1> QED BY <1>1, <1>2, <1>3, <1>4, <1>5, <1>6, <1>7, <1>8, <1>9, <1>10, <1>11, <1>12 DEF Next

\* Bot, worker, queue and crashes together implement JobPromise, whatever else fails, as
\* long as the handler knows whether its enqueue happened: success is final and counted, cancellation is final, a delivery under
\* review can only be declared failed.
THEOREM PromiseIsKept ==
  ASSUME EnqueueIsKnown
  PROVE  Spec => KeepsPromise
<1>1. Init => Promise!Init
  BY Outcomes DEF Init, StoreInit, Promise!Init
<1>2. SafetyInv /\ HoldInv /\ PromiseInv /\ [Next]_vars
        => [Promise!Next]_(Promise!promiseVars)
  <2>1. UNCHANGED vars => UNCHANGED Promise!promiseVars
    BY DEF vars, storeVars, Promise!promiseVars
  <2> QED BY <2>1, PromiseStep
<1>3. Spec => []PromiseInv BY PromiseInvariant
<1> QED BY <1>1, <1>2, <1>3, SafetyInvariant, HoldInvariant, PTL DEF Spec, KeepsPromise, Promise!Spec
=============================================================================
