------------------------------ MODULE JobStore ------------------------------
(***************************************************************************)
(* The durable jobs table (SqliteJobRepository).  Every operator below is  *)
(* one SQLite transaction, that is one atomic step: the bot process and    *)
(* the worker process share the database file and interleave between       *)
(* transactions, never inside one.  Columns that no property tells apart   *)
(* (timestamps, error texts, receipts, progress) are left out.             *)
(***************************************************************************)
EXTENDS Jobs, Naturals

CONSTANT MaxRecovery   \* settings.recovery.max_recovery_attempts

ASSUME MaxRecoveryAssumption == MaxRecovery \in Nat

VARIABLES
  status,           \* jobs.status; "unborn" before INSERT, "purged" after DELETE
  cancelRequested,  \* jobs.cancel_requested
  recoverability,   \* jobs.recoverability_class
  recoveryAttempts, \* jobs.recovery_attempt_count
  usage             \* the job's row of download_usage_events, first outcome wins

storeVars == <<status, cancelRequested, recoverability, recoveryAttempts, usage>>

ActiveStatuses == {"queued", "running", "retrying", "delivering", "delivery_uncertain"}
CancellableStatuses == ActiveStatuses \ {"delivery_uncertain"}
TerminalStatuses == {"succeeded", "failed", "cancelled", "delivery_uncertain"}
Statuses == ActiveStatuses \union TerminalStatuses
RecoverabilityClasses == {"none", "after_cookie_change", "after_app_fix"}

StoreTypeOK ==
  /\ status \in [Job -> Statuses \union {"unborn", "purged"}]
  /\ cancelRequested \in [Job -> BOOLEAN]
  /\ recoverability \in [Job -> RecoverabilityClasses]
  /\ recoveryAttempts \in [Job -> Nat]
  /\ usage \in [Job -> {"none", "failed", "succeeded"}]

StoreInit ==
  /\ status = [j \in Job |-> "unborn"]
  /\ cancelRequested = [j \in Job |-> FALSE]
  /\ recoverability = [j \in Job |-> "none"]
  /\ recoveryAttempts = [j \in Job |-> 0]
  /\ usage = [j \in Job |-> "none"]

Exists(j) == status[j] \in Statuses

(***************************************************************************)
(* create_job: an INSERT, refused when another active row has the key.     *)
(***************************************************************************)
CreateJob(j) ==
  /\ status[j] = "unborn"
  /\ \A k \in Job : KeyOf[k] = KeyOf[j] => status[k] \notin ActiveStatuses
  /\ status' = [status EXCEPT ![j] = "queued"]
  /\ UNCHANGED <<cancelRequested, recoverability, recoveryAttempts, usage>>

(***************************************************************************)
(* transition: the UPDATE is skipped, without an error, when the row was   *)
(* cancelled; it looks at no other status.  No caller passes "cancelled".  *)
(***************************************************************************)
CancelWins(j) == cancelRequested[j] \/ status[j] = "cancelled"

TransitionIgnoringCancel(j, s) ==
  /\ Exists(j)
  /\ status' = [status EXCEPT ![j] = s]
  /\ UNCHANGED <<cancelRequested, recoverability, recoveryAttempts, usage>>

Transition(j, s) ==
  /\ Exists(j)
  /\ status' = IF CancelWins(j) THEN status ELSE [status EXCEPT ![j] = s]
  /\ UNCHANGED <<cancelRequested, recoverability, recoveryAttempts, usage>>

(***************************************************************************)
(* _record_usage_event: INSERT OR IGNORE, so only the first outcome counts *)
(***************************************************************************)
UsageAfter(j, outcome) ==
  IF usage[j] = "none" THEN [usage EXCEPT ![j] = outcome] ELSE usage

RecordDownloadOutcome(j) ==
  /\ usage' = UsageAfter(j, "failed")
  /\ UNCHANGED <<status, cancelRequested, recoverability, recoveryAttempts>>

(***************************************************************************)
(* complete_download: success and its usage event in one transaction.  It  *)
(* raises JobCancelledError (here: is not enabled) on a cancelled row.     *)
(***************************************************************************)
CompleteWithoutUsage(j) ==
  /\ Exists(j) /\ ~CancelWins(j)
  /\ status' = [status EXCEPT ![j] = "succeeded"]
  /\ UNCHANGED <<cancelRequested, recoverability, recoveryAttempts, usage>>

CompleteDownload(j) ==
  /\ Exists(j) /\ ~CancelWins(j)
  /\ status' = [status EXCEPT ![j] = "succeeded"]
  /\ usage' = UsageAfter(j, "succeeded")
  /\ UNCHANGED <<cancelRequested, recoverability, recoveryAttempts>>

(***************************************************************************)
(* cancel_job: the owner's button.  A row already cancelled is accepted    *)
(* again and left alone; a terminal row is refused.                        *)
(***************************************************************************)
CancelJob(j) ==
  /\ status[j] \in CancellableStatuses
  /\ status' = [status EXCEPT ![j] = "cancelled"]
  /\ cancelRequested' = [cancelRequested EXCEPT ![j] = TRUE]
  /\ UNCHANGED <<recoverability, recoveryAttempts, usage>>

AlreadyCancelled(j) == status[j] = "cancelled" /\ cancelRequested[j]

(***************************************************************************)
(* finalize_cancelled: the worker's and the startup's half of a            *)
(* cancellation, for rows that are still cancellable.                      *)
(***************************************************************************)
FinalizeCancelled(j) ==
  IF status[j] \in CancellableStatuses THEN CancelJob(j) ELSE UNCHANGED storeVars

(***************************************************************************)
(* record_recoverable_failure: classifies whatever row the job has now.    *)
(***************************************************************************)
RecordRecoverableFailure(j, class) ==
  /\ recoverability' = IF Exists(j) THEN [recoverability EXCEPT ![j] = class]
                                    ELSE recoverability
  /\ UNCHANGED <<status, cancelRequested, recoveryAttempts, usage>>

(***************************************************************************)
(* cookie_recovery_candidates / app_fix_recovery_candidates, then          *)
(* mark_recovery_requeued.  Ages, versions, providers, the per-user cap    *)
(* and the batch limit only shrink the candidate set.                      *)
(***************************************************************************)
RecoveryCandidate(j, classes) ==
  /\ status[j] = "failed"
  /\ ~cancelRequested[j]
  /\ recoverability[j] \in classes
  /\ recoveryAttempts[j] < MaxRecovery

MarkRecoveryRequeued(j) ==
  /\ status[j] = "failed" /\ ~cancelRequested[j]
  /\ status' = [status EXCEPT ![j] = "queued"]
  /\ recoveryAttempts' = [recoveryAttempts EXCEPT ![j] = @ + 1]
  /\ UNCHANGED <<cancelRequested, recoverability, usage>>

(***************************************************************************)
(* reconcile_abandoned, run by a starting worker: legacy cancelled rows    *)
(* become terminal, interrupted work is queued again, an interrupted       *)
(* delivery is quarantined.                                                *)
(***************************************************************************)
Abandoned(j) == ~cancelRequested[j] /\ status[j] \in {"running", "delivering"}

ReconciledStatus(j) ==
  IF cancelRequested[j] /\ status[j] \in CancellableStatuses THEN "cancelled"
  ELSE IF ~Abandoned(j) THEN status[j]
  ELSE IF status[j] = "delivering" THEN "delivery_uncertain" ELSE "queued"

ReconcileRequeuingDeliveries ==
  /\ status' = [j \in Job |-> IF Abandoned(j) THEN "queued" ELSE ReconciledStatus(j)]
  /\ UNCHANGED <<cancelRequested, recoverability, recoveryAttempts, usage>>

ReconcileAbandoned ==
  /\ status' = [j \in Job |-> ReconciledStatus(j)]
  /\ UNCHANGED <<cancelRequested, recoverability, recoveryAttempts, usage>>

\* recovery_requeues: what the startup's second reconciliation looks at.
RecoveryRequeues ==
  {j \in Job : status[j] = "queued" /\ recoveryAttempts[j] > 0 /\ ~cancelRequested[j]}

(***************************************************************************)
(* purge_expired: DELETE of old terminal rows, quarantined ones included.  *)
(***************************************************************************)
PurgeExpired(j) ==
  /\ status[j] \in TerminalStatuses
  /\ status' = [status EXCEPT ![j] = "purged"]
  /\ UNCHANGED <<cancelRequested, recoverability, recoveryAttempts, usage>>

\* All that ever happens to the table: its transactions, each called with one job.
StoreStep(j) ==
  \/ CreateJob(j) \/ CancelJob(j) \/ FinalizeCancelled(j)
  \/ \E s \in Statuses \ {"cancelled"} : Transition(j, s)
  \/ RecordDownloadOutcome(j) \/ CompleteDownload(j)
  \/ \E class \in RecoverabilityClasses : RecordRecoverableFailure(j, class)
  \/ MarkRecoveryRequeued(j) \/ PurgeExpired(j)

StoreNext == ReconcileAbandoned \/ \E j \in Job : StoreStep(j)
=============================================================================
