------------------------------ MODULE ArqQueue ------------------------------
(***************************************************************************)
(* The Redis state of one ARQ queue, as ArqJobQueue (the adapter in        *)
(* src/) and the worker settings use it.  ARQ and Redis themselves are not *)
(* part of the repository: their actions are modelled from that use and    *)
(* marked external.  ARQ is pessimistic: an entry stays in the sorted set  *)
(* while its job waits, runs or is deferred, and leaves it with the result.*)
(***************************************************************************)
EXTENDS Jobs, Naturals

CONSTANTS
  MaxTries,     \* WorkerSettings.max_tries
  KeepResult    \* WorkerSettings.keep_result > 0

ASSUME MaxTriesAssumption == MaxTries \in Nat \ {0}
ASSUME KeepResultAssumption == KeepResult \in BOOLEAN

VARIABLES
  entry,        \* arq:job:<id> and the member of the queue's sorted set
  tries,        \* arq:retry:<id>, the number of starts of this entry
  inProgress,   \* arq:in-progress:<id>, with a TTL past the job timeout
  result,       \* arq:result:<id>, kept for keep_result_seconds
  aborting      \* members of arq:abort

queueVars == <<entry, tries, inProgress, result, aborting>>

QueueTypeOK ==
  /\ entry \subseteq Job
  /\ tries \in [Job -> 0..MaxTries]
  /\ inProgress \subseteq Job
  /\ result \subseteq Job
  /\ aborting \subseteq Job

QueueInit ==
  /\ entry = {}
  /\ tries = [j \in Job |-> 0]
  /\ inProgress = {}
  /\ result = {}
  /\ aborting = {}

\* Job.status() of the ARQ client.
ArqComplete(j) == j \in result
ArqInProgress(j) == j \in inProgress /\ ~ArqComplete(j)
ArqNotFound(j) == j \notin entry \union inProgress \union result

(***************************************************************************)
(* enqueue_job with a fixed _job_id: a silent no-op (it returns None, and  *)
(* no caller looks) while the job's key or its result is still there.      *)
(***************************************************************************)
KeyFree(j) == j \notin entry \union result

Enqueue(j) ==
  /\ entry' = IF KeyFree(j) THEN entry \union {j} ELSE entry
  /\ UNCHANGED <<tries, inProgress, result, aborting>>

Startable(j) == j \in entry \ (inProgress \union aborting)

\* A worker slot takes the entry and increments the retry counter.
ArqStart(j) ==
  /\ Startable(j)
  /\ tries[j] < MaxTries
  /\ tries' = [tries EXCEPT ![j] = @ + 1]
  /\ inProgress' = inProgress \union {j}
  /\ UNCHANGED <<entry, result, aborting>>

\* finish_job: one MULTI block writes the result and drops every other key.
ArqFinish(j) ==
  /\ entry' = entry \ {j}
  /\ tries' = [tries EXCEPT ![j] = 0]
  /\ inProgress' = inProgress \ {j}
  /\ result' = IF KeepResult THEN result \union {j} ELSE result
  /\ aborting' = aborting \ {j}

ArqRefuseAborted(j) ==
  /\ j \in (entry \ inProgress) \intersect aborting
  /\ ArqFinish(j)

\* Taken, but out of tries or aborted: finished without calling the function.
ArqRefuse(j) ==
  /\ j \in entry \ inProgress
  /\ j \in aborting \/ tries[j] = MaxTries
  /\ ArqFinish(j)

\* Retry, or a cancellation by the worker's shutdown: the entry stays.
ArqRequeue(j) ==
  /\ inProgress' = inProgress \ {j}
  /\ UNCHANGED <<entry, tries, result, aborting>>

\* The worker's shutdown cancels what runs; what returns from that is done.
ArqShutdown(running, done) ==
  /\ entry' = entry \ done
  /\ tries' = [j \in Job |-> IF j \in done THEN 0 ELSE tries[j]]
  /\ inProgress' = inProgress \ running
  /\ result' = IF KeepResult THEN result \union done ELSE result
  /\ aborting' = aborting \ done

InProgressExpires(j) ==
  /\ j \in inProgress
  /\ inProgress' = inProgress \ {j}
  /\ UNCHANGED <<entry, tries, result, aborting>>

ResultExpires(j) ==
  /\ j \in result
  /\ result' = result \ {j}
  /\ UNCHANGED <<entry, tries, inProgress, aborting>>

\* abort_job, first half: Job.abort() unless ARQ says complete or not found.
RequestAbort(j) ==
  /\ aborting' = IF ArqComplete(j) \/ ArqNotFound(j) THEN aborting
                                                     ELSE aborting \union {j}
  /\ UNCHANGED <<entry, tries, inProgress, result>>

\* abort_job, second half: the transaction that deletes what is left.
DeleteKeys(j) ==
  /\ entry' = entry \ {j}
  /\ tries' = [tries EXCEPT ![j] = 0]
  /\ inProgress' = inProgress \ {j}
  /\ result' = result \ {j}
  /\ aborting' = aborting \ {j}

\* All that ever happens to the keys.
QueueStep(j) ==
  \/ Enqueue(j) \/ ArqStart(j) \/ ArqFinish(j) \/ ArqRefuse(j) \/ ArqRequeue(j)
  \/ InProgressExpires(j) \/ ResultExpires(j) \/ RequestAbort(j) \/ DeleteKeys(j)

QueueNext ==
  \/ \E j \in Job : QueueStep(j)
  \/ \E running, done \in SUBSET Job : ArqShutdown(running, done)
=============================================================================
