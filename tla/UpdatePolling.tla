--------------------------- MODULE UpdatePolling ----------------------------
(***************************************************************************)
(* How an update gets from Telegram to a job: durable_poll and             *)
(* replay_pending_updates over the inbox, the handlers that create a job   *)
(* (submit_url for a link, the option buttons for a choice) with the       *)
(* effect ledger, crashes of the bot between any two steps, and the        *)
(* worker's maintenance beside them.  The life of a job after its enqueue  *)
(* is JobLifecycle's; here it is active until it ends.                     *)
(***************************************************************************)
EXTENDS InboundUpdates, EffectLedger, FiniteSets

CONSTANTS
  Choice,                \* the updates that are presses of an option button
  BatchLimit,            \* updates in one answer of getUpdates
  ReplayLimit,           \* replay_pending_updates.limit
  MaxSerializeFailures,  \* _SERIALIZE_FAILURE_MAX_CONSECUTIVE
  MaxCrashes             \* bound: deaths of the bot process

ASSUME ChoiceAssumption == Choice \subseteq Update
ASSUME LimitsAssumption == /\ BatchLimit \in Nat \ {0}
                           /\ ReplayLimit \in Nat \ {0}
                           /\ MaxSerializeFailures \in Nat \ {0}
                           /\ MaxCrashes \in Nat

VARIABLES
  arrived,     \* Telegram: the updates 1..arrived exist
  confirmed,   \* Telegram: the updates below are acknowledged and forgotten
  phase,       \* the bot: "down", "record" (phases 1 and 2), "feed" (phase 3, replay)
  offset,      \* durable_poll.offset, 0 for None
  next, last,  \* the rest of the fetched batch: next..last
  failures,    \* serialize_failures
  todo,        \* fetched or replayed records not yet fed to the dispatcher
  current,     \* the update whose handler runs, or 0
  step,        \* what that handler does next
  path,        \* its created flag, or "refused" when it told the user no
  job,         \* the job with this update's key: "none", "active", "ended"
  handed,      \* updates whose latest job was enqueued
  crashes,
  starts, sends,   \* history: handler starts, status messages seen
  accepted,    \* history: updates completed with the user told "accepted"
  excused,     \* history: sends the ledger cannot know of any more
  killed,      \* history: runs of a handler that a death of the process cut off
  overlooked   \* history: updates given up at a redelivery though their row still waits

botVars == <<phase, offset, next, last, failures, todo, current, step, path>>
historyVars == <<starts, sends, accepted, excused, killed, overlooked>>
vars == <<inboxVars, effect, arrived, confirmed, botVars, job, handed, crashes, historyVars>>

Steps == {"idle", "accept", "status", "send", "complete", "unsure", "edit", "enqueue",
          "done", "failed"}

\* The Telegram call of the status message is under way, or its outcome not yet written.
InFlight(u) == current = u /\ step \in {"send", "complete", "unsure"}
Answered(u) == current = u /\ step \in {"complete", "unsure"}

TypeOK ==
  /\ InboxTypeOK /\ LedgerTypeOK
  /\ arrived \in 0..LastUpdate
  /\ confirmed \in 1..(LastUpdate + 1)
  /\ phase \in {"down", "record", "feed"}
  /\ offset \in 0..(LastUpdate + 1)
  /\ next \in 0..(LastUpdate + 1)
  /\ last \in 0..LastUpdate
  /\ failures \in [Update -> 0..(MaxSerializeFailures - 1)]
  /\ todo \subseteq Update
  /\ current \in Update \union {0}
  /\ step \in Steps
  /\ path \in {"fresh", "again", "refused"}
  /\ job \in [Update -> {"none", "active", "ended"}]
  /\ handed \subseteq Update
  /\ crashes \in 0..MaxCrashes
  /\ starts \in [Update -> Nat]
  /\ sends \in [Update -> Nat]
  /\ accepted \subseteq Update
  /\ excused \in [Update -> Nat]
  /\ killed \in [Update -> Nat]
  /\ overlooked \subseteq Update

Zeros == [u \in Update |-> 0]

Init ==
  /\ InboxInit /\ LedgerInit
  /\ arrived = 0 /\ confirmed = 1
  /\ phase = "down" /\ offset = 0 /\ next = 0 /\ last = 0
  /\ failures = Zeros /\ todo = {} /\ current = 0
  /\ step = "idle" /\ path = "refused"
  /\ job = [u \in Update |-> "none"] /\ handed = {} /\ crashes = 0
  /\ starts = Zeros /\ sends = Zeros
  /\ accepted = {} /\ excused = Zeros /\ killed = Zeros
  /\ overlooked = {}

-----------------------------------------------------------------------------
(***************************************************************************)
(* Telegram, and the rest of the system.                                   *)
(***************************************************************************)
UpdateArrives ==
  /\ arrived < LastUpdate
  /\ arrived' = arrived + 1
  /\ UNCHANGED <<inboxVars, effect, confirmed, botVars, job, handed, crashes, historyVars>>

\* The job with this key succeeds, fails or is cancelled.
JobEnds(u) ==
  /\ job[u] = "active"
  /\ job' = [job EXCEPT ![u] = "ended"]
  /\ UNCHANGED <<inboxVars, effect, arrived, confirmed, botVars, handed, crashes, historyVars>>

\* The worker's maintenance, on rows a retention of days has made old: an update
\* whose row ended so long ago is no longer redelivered, a status call no longer runs.
MaintainInbox(u) ==
  /\ u < confirmed
  /\ PurgeUpdate(u)
  /\ UNCHANGED <<effect, arrived, confirmed, botVars, job, handed, crashes, historyVars>>

MaintainLedger(u) ==
  /\ ~InFlight(u)
  /\ PurgeEffect(u)
  /\ excused' = [excused EXCEPT ![u] = @ + 1]
  /\ UNCHANGED <<inboxVars, arrived, confirmed, botVars, job, handed, crashes,
                 starts, sends, accepted, killed, overlooked>>

QuarantineStale(u) ==
  /\ effect[u] = "pending"
  /\ ReconcileStalePending({u})
  /\ UNCHANGED <<inboxVars, arrived, confirmed, botVars, job, handed, crashes, historyVars>>

-----------------------------------------------------------------------------
(***************************************************************************)
(* A start of the bot: the stale reservations are quarantined, then        *)
(* replay_pending_updates takes the oldest unfinished updates.             *)
(***************************************************************************)
FirstPending ==
  {u \in Update : /\ Pending(u)
                  /\ Cardinality({v \in 1..(u - 1) : Pending(v)}) < ReplayLimit}

StartBot(stale) ==
  /\ phase = "down"
  /\ ReconcileStalePending(stale)
  /\ phase' = "feed"
  /\ todo' = FirstPending
  /\ UNCHANGED <<inboxVars, arrived, confirmed, offset, next, last, failures, current,
                 step, path, job, handed, crashes, historyVars>>

(***************************************************************************)
(* The process dies between two steps: what it held in memory is gone.  A  *)
(* Telegram call whose answer was not written is lost to the ledger.       *)
(***************************************************************************)
Crash ==
  /\ phase # "down"
  /\ crashes < MaxCrashes
  /\ crashes' = crashes + 1
  /\ excused' = [u \in Update |-> IF Answered(u) THEN excused[u] + 1 ELSE excused[u]]
  /\ killed' = [u \in Update |-> IF current = u THEN killed[u] + 1 ELSE killed[u]]
  /\ phase' = "down" /\ offset' = 0 /\ next' = 0 /\ last' = 0
  /\ failures' = Zeros /\ todo' = {} /\ current' = 0
  /\ step' = "idle" /\ path' = "refused"
  /\ UNCHANGED <<inboxVars, effect, arrived, confirmed, job, handed,
                 starts, sends, accepted, overlooked>>

(***************************************************************************)
(* getUpdates(offset): asking acknowledges everything below the offset,    *)
(* the answer is what follows, in order and at most BatchLimit of it.      *)
(***************************************************************************)
Polling == phase = "feed" /\ todo = {} /\ step = "idle"
AskedFrom == IF offset > confirmed THEN offset ELSE confirmed

FetchBatch ==
  /\ Polling
  /\ confirmed' = AskedFrom
  /\ \E l \in AskedFrom..arrived : l < AskedFrom + BatchLimit /\ last' = l
  /\ next' = AskedFrom
  /\ phase' = "record"
  /\ UNCHANGED <<inboxVars, effect, arrived, offset, failures, todo, current, step, path,
                 job, handed, crashes, historyVars>>

\* An empty answer, or a failed call that Telegram saw or did not see.
FetchNothing ==
  /\ Polling
  /\ confirmed' \in {confirmed, AskedFrom}
  /\ UNCHANGED <<inboxVars, effect, arrived, botVars, job, handed, crashes, historyVars>>

-----------------------------------------------------------------------------
(***************************************************************************)
(* Phase 1, one update: serialize, then record it.  A failure is a barrier *)
(* for the rest of the batch until the bound, and a tombstone at it.       *)
(***************************************************************************)
Recording == phase = "record" /\ next <= last

RecordNext ==
  /\ Recording
  /\ Insert(next, "received")
  /\ todo' = IF WorthProcessing(next) THEN todo \union {next} ELSE todo
  /\ failures' = [failures EXCEPT ![next] = 0]
  /\ next' = next + 1
  /\ UNCHANGED <<effect, arrived, confirmed, phase, offset, last, current, step, path, job,
                 handed, crashes, historyVars>>

BarrierSkipping ==
  /\ Recording
  /\ failures[next] + 1 < MaxSerializeFailures
  /\ failures' = [failures EXCEPT ![next] = @ + 1]
  /\ next' = next + 1
  /\ UNCHANGED <<inboxVars, effect, arrived, confirmed, phase, offset, last, todo, current,
                 step, path, job, handed, crashes, historyVars>>

BarrierUnbounded ==
  /\ Recording
  /\ last' = next - 1
  /\ UNCHANGED <<inboxVars, effect, arrived, confirmed, phase, offset, next, failures, todo,
                 current, step, path, job, handed, crashes, historyVars>>

Barrier ==
  /\ Recording
  /\ failures[next] + 1 < MaxSerializeFailures
  /\ failures' = [failures EXCEPT ![next] = @ + 1]
  /\ last' = next - 1
  /\ UNCHANGED <<inboxVars, effect, arrived, confirmed, phase, offset, next, todo, current,
                 step, path, job, handed, crashes, historyVars>>

QuarantineNext ==
  /\ Recording
  /\ failures[next] + 1 >= MaxSerializeFailures
  /\ Insert(next, "terminal_failure")
  /\ overlooked' = IF Pending(next) THEN overlooked \union {next} ELSE overlooked
  /\ failures' = [failures EXCEPT ![next] = 0]
  /\ next' = next + 1
  /\ UNCHANGED <<effect, arrived, confirmed, phase, offset, last, todo, current, step, path,
                 job, handed, crashes, starts, sends, accepted, excused, killed>>

\* Phase 2: the offset moves through the durable prefix.
AdvanceOffset ==
  /\ phase = "record"
  /\ next > last
  /\ offset' = next
  /\ phase' = "feed"
  /\ UNCHANGED <<inboxVars, effect, arrived, confirmed, next, last, failures, todo, current,
                 step, path, job, handed, crashes, historyVars>>

-----------------------------------------------------------------------------
(***************************************************************************)
(* Phase 3 and the replay: one handler at a time, in order.                *)
(***************************************************************************)
AnyFetched(u) == u \in todo

Oldest(u) == u \in todo /\ \A v \in todo : u <= v

FeedUpdate(u) ==
  /\ phase = "feed" /\ step = "idle"
  /\ Oldest(u)
  /\ StartProcessing(u)
  /\ todo' = todo \ {u}
  /\ current' = u
  /\ step' = "accept"
  /\ starts' = [starts EXCEPT ![u] = @ + 1]
  /\ UNCHANGED <<effect, arrived, confirmed, phase, offset, next, last, failures, path, job,
                 handed, crashes, sends, accepted, excused, killed, overlooked>>

\* Everything outside the handler's own steps stays.
HandlerKeeps ==
  UNCHANGED <<arrived, confirmed, phase, offset, next, last, failures, todo, crashes,
              starts, killed, overlooked>>

\* Policy, validation or a quarantined delivery: the user is refused, no job.
Refuse(u) ==
  /\ current = u /\ step = "accept"
  /\ step' = "done" /\ path' = "refused"
  /\ UNCHANGED <<inboxVars, effect, current, job, handed, sends, accepted, excused>>
  /\ HandlerKeeps

AfterAcceptForgetting(u, p) == IF u \in Choice THEN "edit" ELSE "status"

AfterAccept(u, p) ==
  IF u \in Choice THEN "edit" ELSE IF p = "fresh" THEN "status" ELSE "enqueue"

CreateOrFindJob(u) ==
  /\ current = u /\ step = "accept"
  /\ IF job[u] = "active"
       THEN path' = "again" /\ UNCHANGED <<job, handed>>
       ELSE /\ path' = "fresh"
            /\ job' = [job EXCEPT ![u] = "active"]
            /\ handed' = handed \ {u}
  /\ step' = AfterAccept(u, path')
  /\ UNCHANGED <<inboxVars, effect, current, sends, accepted, excused>>
  /\ HandlerKeeps

\* A fresh link is enqueued after its status message, a known one before it.
AfterStatus == IF path = "fresh" THEN "enqueue" ELSE "done"

ReserveIgnoringUncertain(u) ==
  /\ current = u /\ step = "status"
  /\ Reserve(u)
  /\ step' = IF effect[u] = "completed" THEN AfterStatus ELSE "send"
  /\ UNCHANGED <<inboxVars, current, path, job, handed, sends, accepted, excused>>
  /\ HandlerKeeps

\* send_or_reuse: only a row that is new or still pending sends.
ReserveStatus(u) ==
  /\ current = u /\ step = "status"
  /\ Reserve(u)
  /\ step' = IF effect[u] \in {"none", "pending"} THEN "send" ELSE AfterStatus
  /\ UNCHANGED <<inboxVars, current, path, job, handed, sends, accepted, excused>>
  /\ HandlerKeeps

\* The message appears; the call returns its id, or raises all the same.
SendLands(u) ==
  /\ current = u /\ step = "send"
  /\ sends' = [sends EXCEPT ![u] = @ + 1]
  /\ step' \in {"complete", "unsure"}
  /\ UNCHANGED <<inboxVars, effect, current, path, job, handed, accepted, excused>>
  /\ HandlerKeeps

SendRaises(u) ==
  /\ current = u /\ step = "send"
  /\ step' = "unsure"
  /\ UNCHANGED <<inboxVars, effect, current, path, job, handed, sends, accepted,
                 excused>>
  /\ HandlerKeeps

CompleteEffect(u) ==
  /\ current = u /\ step = "complete"
  /\ Conclude(u, "completed")
  /\ step' = AfterStatus
  /\ UNCHANGED <<inboxVars, current, path, job, handed, sends, accepted, excused>>
  /\ HandlerKeeps

MarkUncertain(u) ==
  /\ current = u /\ step = "unsure"
  /\ Conclude(u, "uncertain")
  /\ step' = "failed"
  /\ UNCHANGED <<inboxVars, current, path, job, handed, sends, accepted, excused>>
  /\ HandlerKeeps

\* An option handler edits the message it was pressed on.
EditChoice(u) ==
  /\ current = u /\ step = "edit"
  /\ step' = IF path = "fresh" THEN "enqueue" ELSE "done"
  /\ UNCHANGED <<inboxVars, effect, current, path, job, handed, sends, accepted,
                 excused>>
  /\ HandlerKeeps

AfterEnqueue(u) == IF path = "again" /\ u \notin Choice THEN "status" ELSE "done"

EnqueueJob(u) ==
  /\ current = u /\ step = "enqueue"
  /\ handed' = handed \union {u}
  /\ step' = AfterEnqueue(u)
  /\ UNCHANGED <<inboxVars, effect, current, path, job, sends, accepted, excused>>
  /\ HandlerKeeps

\* Redis is away: a fresh job fails, a known one stays; the user is told either way.
EnqueueFails(u) ==
  /\ current = u /\ step = "enqueue"
  /\ job' = IF path = "fresh" /\ job[u] = "active" THEN [job EXCEPT ![u] = "ended"] ELSE job
  /\ step' = "done" /\ path' = "refused"
  /\ UNCHANGED <<inboxVars, effect, current, handed, sends, accepted, excused>>
  /\ HandlerKeeps

\* The database, the policy or a reply raises outside every try of the handler.
CanRaise(u) ==
  \/ step \in {"accept", "status", "edit"}
  \/ step = "enqueue" /\ path = "fresh"
  \/ step = "done" /\ (path # "fresh" \/ u \in Choice)

HandlerRaises(u) ==
  /\ current = u /\ CanRaise(u)
  /\ step' = "failed"
  /\ UNCHANGED <<inboxVars, effect, current, path, job, handed, sends, accepted,
                 excused>>
  /\ HandlerKeeps

CompleteUpdate(u) ==
  /\ current = u /\ step = "done"
  /\ MarkCompleted(u)
  /\ accepted' = IF path = "refused" THEN accepted \ {u} ELSE accepted \union {u}
  /\ current' = 0 /\ step' = "idle" /\ path' = "refused"
  /\ UNCHANGED <<effect, job, handed, sends, excused>>
  /\ HandlerKeeps

FailUpdate(u) ==
  /\ current = u /\ step = "failed"
  /\ HandlerFailed(u)
  /\ current' = 0 /\ step' = "idle" /\ path' = "refused"
  /\ UNCHANGED <<effect, job, handed, sends, accepted, excused>>
  /\ HandlerKeeps

Handler(u) ==
  \/ Refuse(u) \/ CreateOrFindJob(u)
  \/ ReserveStatus(u) \/ SendLands(u) \/ SendRaises(u) \/ CompleteEffect(u)
  \/ MarkUncertain(u) \/ EditChoice(u) \/ EnqueueJob(u) \/ EnqueueFails(u)
  \/ HandlerRaises(u) \/ CompleteUpdate(u) \/ FailUpdate(u)

Recorder == RecordNext \/ Barrier \/ QuarantineNext \/ AdvanceOffset

Start == \E stale \in SUBSET Update : StartBot(stale)

Next ==
  \/ UpdateArrives \/ Crash \/ Start
  \/ FetchBatch \/ FetchNothing \/ Recorder
  \/ \E u \in Update :
       \/ FeedUpdate(u) \/ Handler(u)
       \/ JobEnds(u) \/ MaintainInbox(u) \/ MaintainLedger(u) \/ QuarantineStale(u)

Spec == Init /\ [][Next]_vars

(***************************************************************************)
(* The container runtime starts a dead bot again, a poll that failed is    *)
(* repeated until one is answered, and the loop and its handlers run on.   *)
(***************************************************************************)
Fairness ==
  /\ WF_vars(Start) /\ WF_vars(FetchBatch) /\ WF_vars(Recorder)
  /\ WF_vars(\E u \in Update : FeedUpdate(u) \/ Handler(u))

FairSpec == Spec /\ Fairness

-----------------------------------------------------------------------------
(***************************************************************************)
(* Correctness.                                                            *)
(***************************************************************************)

\* "A Telegram update must be durably recorded before it is acknowledged": what
\* getUpdates has confirmed is in the inbox, as a replayable row or a tombstone.
AckedIsDurable == \A u \in Update : u < confirmed => Durable(u)

\* The barrier: nothing is recorded ahead of an update that is not, so what is
\* recorded is a prefix of what Telegram sent.
RecordedIsPrefix == \A u, v \in Update : v < u /\ Durable(u) => Durable(v)

\* Updates are handled in Telegram's order: a handler that runs for the first time
\* finds every earlier update started before, entombed, or given up at a redelivery
\* although its row is there: the tombstone is ignored then, and the row waits for the
\* replay of the next start.
FirstRunsInOrder ==
  \A u, v \in Update :
    v < u /\ starts[u] > 0
      => starts[v] > 0 \/ inbox[v] \in {"terminal_failure", "purged"} \/ v \in overlooked

\* An update that completed or was given up never runs again, whatever is
\* redelivered, replayed or purged.
EndedNeverRuns ==
  [][\A u \in Update : inbox[u] \in EndStates \union {"purged"}
       => inbox'[u] \in {inbox[u], "purged"} /\ starts'[u] = starts[u]]_vars

\* A second status message for an update has a reason outside the ledger: a crash
\* before the outcome of the call was written, or a row purged by its age.
SendsExplained == \A u \in Update : sends[u] <= 1 + excused[u]

\* Who was told that a link was accepted has a job that reached the queue or ended,
\* however often the bot died on the way.
AcceptedLinkIsQueued ==
  \A u \in accepted \ Choice : u \in handed \/ job[u] = "ended"

\* No handler runs for ever: every run of an update that does not end it uses up one
\* of its attempts or is cut off by a death of the process, which nobody counts.
RunsAreBounded == \A u \in Update : starts[u] <= MaxAttempts + killed[u]

\* Every update is finished, or failed at least once, or was given up beside its row,
\* and waits for the next start.
EveryUpdateRuns ==
  \A u \in Update :
    arrived >= u ~> (~Pending(u) /\ Durable(u)) \/ attempts[u] > 0 \/ u \in overlooked

(***************************************************************************)
(* What the steps keep between them, and what makes the invariants above   *)
(* inductive.                                                              *)
(***************************************************************************)

\* Whatever an offset, an acknowledgement or the cursor has passed is recorded.
PassedIsDurable ==
  /\ \A u \in Update : u < offset \/ u < confirmed \/ (phase = "record" /\ u < next)
                       => Durable(u)
  /\ phase = "record" => confirmed <= next
  /\ \A u \in Update : inbox[u] = "purged" => u < confirmed

\* The rows the bot holds are unfinished, and it runs one handler at a time.
HeldIsPending ==
  /\ step = "idle" <=> current = 0
  /\ phase # "feed" => step = "idle"
  /\ \A u \in todo : Pending(u)
  /\ current # 0 => inbox[current] = "processing" /\ current \notin todo
  /\ \A u \in Update : Pending(u) \/ ~Durable(u) => attempts[u] < MaxAttempts

\* The ledger knows of every send that is not excused.
LedgerKnows ==
  \A u \in Update :
    /\ sends[u] <= 1 + excused[u]
    /\ effect[u] \in {"none", "pending"} /\ ~Answered(u) => sends[u] <= excused[u]
    /\ current = u /\ step = "send" => sends[u] <= excused[u]
    /\ InFlight(u) => effect[u] # "none"

\* Where the handler of a link tells "accepted", its job is queued or has ended.
QueuedOrEnded(u) == u \in handed \/ job[u] = "ended"

LinkIsQueued ==
  /\ \A u \in accepted : inbox[u] \in EndStates \union {"purged"}
  /\ \A u \in accepted \ Choice : QueuedOrEnded(u)
  /\ current \in Update \ Choice =>
       /\ step # "edit"
       /\ path = "again" /\ step \in {"status", "send", "complete", "unsure", "done"}
            => QueuedOrEnded(current)
       /\ path = "fresh" /\ step = "done" => QueuedOrEnded(current)

\* What each start was spent on: an attempt, a death, or the run that ended the update.
StartsCounted ==
  \A u \in Update :
    /\ starts[u] <= MaxAttempts + killed[u]
    /\ Pending(u) \/ ~Durable(u)
         => starts[u] <= attempts[u] + killed[u] + (IF current = u THEN 1 ELSE 0)

\* The inductive invariant of durable_poll, its inbox and the ledger.
InboxInv ==
  /\ TypeOK
  /\ PassedIsDurable
  /\ RecordedIsPrefix
  /\ HeldIsPending
  /\ LedgerKnows
  /\ LinkIsQueued
  /\ StartsCounted
=============================================================================
