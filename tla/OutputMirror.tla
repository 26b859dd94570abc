----------------------------- MODULE OutputMirror -----------------------------
(***************************************************************************)
(* Mirroring of delivered files to the operator logger.  Before the first  *)
(* upload the worker stores the intent to mirror a job; when the job has   *)
(* succeeded an event is made of its receipts and the intent is closed.    *)
(* The handler does this right after success and the maintenance cron does *)
(* it again for whatever a death or an error left open.  A job is here     *)
(* what the mirror sees of it: its status and its last update.             *)
(***************************************************************************)
EXTENDS AuditOutbox

CONSTANT ListLimit   \* intents a maintenance pass looks at

ASSUME MirrorAssumption == ListLimit \in Nat \ {0} /\ "maintenance" \notin Output

VARIABLES
  job,        \* status of a job, whose output event bears its name
  stamp,      \* updated_at: whether it moved when a recovery was announced
  announced,  \* jobs whose recovery is still to be announced
  intents,    \* logger_delivery_output_intents, in the order of their creation
  completed,  \* those that are closed
  content,    \* the stamp an output's event was made with
  finalizer,  \* a finalize under way: by a job's handler, or by maintenance
  mirroring,  \* mirroring_enabled, read at start
  reopened    \* history: jobs requeued when their intent was closed, or being closed

mirrorOnly == <<job, stamp, announced, intents, completed, content, finalizer, mirroring, reopened>>
mirrorVars == <<outboxVars, mirrorOnly>>

Finalizers == Output \union {"maintenance"}
Resting == [pc |-> "idle", job |-> "none", stamp |-> 0, todo |-> <<>>]
Terminal == {"succeeded", "failed", "uncertain"}

IntentsInit(status) ==
  /\ job = [j \in Output |-> status] /\ stamp = [j \in Output |-> 0]
  /\ announced = {} /\ intents = <<>> /\ completed = {}
  /\ content = [j \in Output |-> 0]
  /\ finalizer = [f \in Finalizers |-> Resting]
  /\ mirroring \in BOOLEAN /\ reopened = {}

MirrorInit == OutboxInit /\ IntentsInit("queued")

-----------------------------------------------------------------------------
(* The job.                                                                *)
InList(j) == \E i \in 1..Len(intents) : intents[i] = j

StartDelivery(j) ==
  /\ job[j] = "queued" /\ job' = [job EXCEPT ![j] = "delivering"]
  /\ UNCHANGED <<outboxVars, stamp, announced, intents, completed, content, finalizer, mirroring,
                 reopened>>

\* INSERT OR IGNORE, and only with a channel to mirror to; a failure is logged and no more.
Prepare(j, fails) ==
  /\ job[j] = "delivering" /\ job' = [job EXCEPT ![j] = "uploading"]
  /\ intents' = IF ~mirroring \/ fails \/ InList(j) \/ ~\E d \in Destination : Usable(d)
                THEN intents ELSE Append(intents, j)
  /\ UNCHANGED <<outboxVars, stamp, announced, completed, content, finalizer, mirroring, reopened>>

EndDelivery(j, outcome) ==
  /\ job[j] = "uploading" /\ outcome \in Terminal
  /\ job' = [job EXCEPT ![j] = outcome]
  /\ finalizer' = IF outcome = "succeeded" THEN [finalizer EXCEPT ![j] = [@ EXCEPT !.pc = "read", !.job = j]]
                  ELSE finalizer
  /\ UNCHANGED <<outboxVars, stamp, announced, intents, completed, content, mirroring, reopened>>

\* A recovery, or a retry, requeues a failed job; announcing it moves updated_at later.
Requeue(j) ==
  /\ Meddle /\ job[j] = "failed"
  /\ job' = [job EXCEPT ![j] = "queued"]
  /\ announced' = announced \union {j}
  /\ reopened' = IF j \in completed \/ \E f \in Finalizers : finalizer[f].job = j
                 THEN reopened \union {j} ELSE reopened
  /\ UNCHANGED <<dest, events, outbox, dispatcher, landed, stamp, intents, completed, content,
                 finalizer, mirroring>>

AnnounceRecovery(j) ==
  /\ j \in announced /\ announced' = announced \ {j}
  /\ stamp' = IF job[j] = "gone" THEN stamp ELSE [stamp EXCEPT ![j] = 1 - @]
  /\ UNCHANGED <<outboxVars, job, intents, completed, content, finalizer, mirroring, reopened>>

Collides(j) == j \in events /\ content[j] # stamp[j]

\* Retention is days and maintenance runs twice a minute: what is purged with its intent open
\* could not be closed.
Purge(j) ==
  /\ job[j] \in Terminal
  /\ (InList(j) /\ j \notin completed) => (~mirroring \/ Collides(j))
  /\ \A f \in Finalizers : finalizer[f] = Resting
  /\ job' = [job EXCEPT ![j] = "gone"]
  /\ UNCHANGED <<outboxVars, stamp, announced, intents, completed, content, finalizer, mirroring,
                 reopened>>

\* A delivery that was cut short is uncertain; the setting is read again.
WorkerRestarts(on) ==
  /\ Meddle
  /\ job' = [j \in Output |-> IF job[j] \in {"delivering", "uploading"} THEN "uncertain" ELSE job[j]]
  /\ finalizer' = [f \in Finalizers |-> Resting]
  /\ dispatcher' = [k \in Dispatcher |-> Idle]
  /\ mirroring' = on
  /\ UNCHANGED <<dest, events, outbox, landed, stamp, announced, intents, completed, content,
                 reopened>>

-----------------------------------------------------------------------------
(* finalize.                                                               *)
finalizeOnly == <<dest, dispatcher, landed, meddled, job, stamp, announced, intents, mirroring,
                  reopened>>
At(f, run) == finalizer' = [finalizer EXCEPT ![f] = run]
Done(f) == [Resting EXCEPT !.todo = finalizer[f].todo]
Pending == SelectSeq(intents, LAMBDA j : j \notin completed)

\* The oldest open intents.
StartReconcile ==
  /\ finalizer["maintenance"] = Resting /\ mirroring /\ Pending # <<>>
  /\ At("maintenance", [Resting EXCEPT
       !.todo = SubSeq(Pending, 1, IF Len(Pending) < ListLimit THEN Len(Pending) ELSE ListLimit)])
  /\ UNCHANGED <<finalizeOnly, events, outbox, completed, content>>

TakeNext ==
  LET run == finalizer["maintenance"] IN
  /\ run.pc = "idle" /\ run.todo # <<>>
  /\ At("maintenance", [run EXCEPT !.pc = "read", !.job = Head(run.todo), !.todo = Tail(@)])
  /\ UNCHANGED <<finalizeOnly, events, outbox, completed, content>>

\* Mutant: any ended job closes its intent without an event when its record is not there to read.
FinalizeReadSucceededOnly(f) ==
  LET run == finalizer[f]
      j == run.job IN
  /\ run.pc = "read"
  /\ At(f, IF ~mirroring \/ ~InList(j) \/ j \in completed \/ job[j] \notin Terminal
           THEN Done(f) ELSE [run EXCEPT !.pc = "complete"])
  /\ UNCHANGED <<finalizeOnly, events, outbox, completed, content>>

FinalizeRead(f) ==
  LET run == finalizer[f]
      j == run.job IN
  /\ run.pc = "read"
  /\ At(f, IF ~mirroring \/ ~InList(j) \/ j \in completed \/ job[j] \notin Terminal THEN Done(f)
           ELSE IF job[j] = "succeeded" THEN [run EXCEPT !.pc = "emit", !.stamp = stamp[j]]
           ELSE [run EXCEPT !.pc = "complete"])
  /\ UNCHANGED <<finalizeOnly, events, outbox, completed, content>>

\* The same event again is no event; one that differs raises, and ends a whole maintenance pass.
FinalizeEmit(f) ==
  LET run == finalizer[f]
      j == run.job IN
  /\ run.pc = "emit"
  /\ IF j \in events /\ content[j] # run.stamp
     THEN At(f, Resting) /\ UNCHANGED <<events, outbox, content>>
     ELSE /\ Enqueue(j)
          /\ content' = [content EXCEPT ![j] = run.stamp]
          /\ At(f, [run EXCEPT !.pc = "complete"])
  /\ UNCHANGED <<finalizeOnly, completed>>

FinalizeComplete(f) ==
  /\ finalizer[f].pc = "complete"
  /\ completed' = completed \union {finalizer[f].job}
  /\ At(f, Done(f))
  /\ UNCHANGED <<finalizeOnly, events, outbox, content>>

FinalizeStep(f) == FinalizeRead(f) \/ FinalizeEmit(f) \/ FinalizeComplete(f)

JobStep(j) ==
  \/ StartDelivery(j)
  \/ \E fails \in BOOLEAN : Prepare(j, fails)
  \/ \E outcome \in Terminal : EndDelivery(j, outcome)

MirrorNext ==
  \/ OutboxStep /\ UNCHANGED mirrorOnly
  \/ \E e \in Event \ Output : Emit(e) /\ UNCHANGED mirrorOnly
  \/ \E j \in Output : JobStep(j) \/ Requeue(j) \/ AnnounceRecovery(j) \/ Purge(j)
  \/ \E on \in BOOLEAN : WorkerRestarts(on)
  \/ StartReconcile \/ TakeNext
  \/ \E f \in Finalizers : FinalizeStep(f)

MirrorSpec == MirrorInit /\ [][MirrorNext]_mirrorVars

\* Jobs are worked on, and both finalizers and the maintenance cron go on until a restart.
MirrorFairness ==
  /\ \A j \in Output : WF_mirrorVars(JobStep(j))
  /\ \A f \in Finalizers : WF_mirrorVars(FinalizeStep(f))
  /\ WF_mirrorVars(StartReconcile \/ TakeNext)
  /\ WF_mirrorVars(Tick /\ UNCHANGED mirrorOnly)
  /\ \A k \in Dispatcher : /\ WF_mirrorVars(RecoverExpiredLeases(k) /\ UNCHANGED mirrorOnly)
                           /\ WF_mirrorVars(DispatchStep(k) /\ UNCHANGED mirrorOnly)

-----------------------------------------------------------------------------
(* Properties.                                                             *)

\* Only confirmed deliveries are mirrored, and a closed intent of a succeeded job has its event:
\* a death between success, event and closing loses no mirror.  A job requeued after its intent
\* was closed for a failure is not mirrored.
ClosedIsMirrored ==
  /\ \A j \in events \cap Output : job[j] \in {"succeeded", "gone"}
  /\ \A j \in completed : job[j] = "succeeded" => j \in events \/ j \in reopened

\* The intent of a succeeded job is closed in the end.  What stands in the way: mirroring switched
\* off, an event whose job was stamped again before its intent was closed, and a list filled by
\* intents of purged jobs.
Stuck == {j \in Output : InList(j) /\ j \notin completed /\ (job[j] = "gone" \/ Collides(j))}
Blocked == \/ \E j \in Stuck : Collides(j)
           \/ Cardinality(Stuck) >= ListLimit
IntentWaits(j) == InList(j) /\ j \notin completed /\ job[j] = "succeeded"
IntentClosed(j) == j \in completed \/ ~mirroring \/ job[j] = "gone" \/ Blocked
=============================================================================
