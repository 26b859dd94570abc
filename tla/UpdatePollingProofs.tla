------------------------ MODULE UpdatePollingProofs -------------------------
(***************************************************************************)
(* Theorems about UpdatePolling for every number of updates, every set of  *)
(* choices and every limit: InboxInv is inductive, part by part.           *)
(***************************************************************************)
EXTENDS UpdatePolling, FiniteSetTheorems, TLAPS

\* An update that is recorded, whose handler never ran and which nobody gave up.
Fresh(u) == inbox[u] = "received" /\ starts[u] = 0 /\ u \notin overlooked

\* Whoever never ran is ahead of what Telegram forgot, and is held or will be fetched again; and
\* nobody who never ran is missing before one that is held.
OrderInv ==
  /\ FirstRunsInOrder
  /\ \A u \in Update : inbox[u] \in {"processing", "completed"} => starts[u] > 0
  /\ \A u \in Update : Fresh(u) => /\ u >= confirmed
                                   /\ u \in todo \/ u >= (IF phase = "record" THEN next ELSE AskedFrom)
  /\ \A u \in todo, v \in Update : v < u /\ Fresh(v) => v \in todo
  /\ phase = "record" => \A u \in todo : u < next
  /\ phase = "down" => offset = 0

\* The numbers behind the types: updates are naturals, limits are positive.
LEMMA Numbers ==
  /\ LastUpdate \in Nat /\ LastUpdate > 0
  /\ MaxSerializeFailures \in Nat /\ MaxSerializeFailures > 0
  /\ MaxAttempts \in Nat /\ MaxAttempts > 0
  /\ MaxCrashes \in Nat
  /\ \A u \in Update : u \in Nat /\ u > 0 /\ u <= LastUpdate
BY LastUpdateAssumption, LimitsAssumption, MaxAttemptsAssumption DEF Update

\* The initial state.
LEMMA InitInboxInv == Init => InboxInv
BY Numbers DEF Init, InboxInv, TypeOK, InboxInit, LedgerInit, InboxTypeOK, LedgerTypeOK, Zeros,
   PassedIsDurable, RecordedIsPrefix, HeldIsPending, LedgerKnows, LinkIsQueued,
   StartsCounted, Durable, Pending, PendingStates, EndStates, EffectStates, Steps, Answered, InFlight, Update

\* An insert for the next update of a batch: everything below is recorded already.
LEMMA InsertKeepsPrefix ==
  ASSUME InboxInv, Recording, NEW s \in {"received", "terminal_failure"}, Insert(next, s)
  PROVE  /\ next \in Update
         /\ \A u \in Update : Durable(u) => Durable(u)'
         /\ inbox'[next] # "absent"
         /\ \A u \in Update : inbox[u] # "absent" => inbox'[u] = inbox[u]
         /\ RecordedIsPrefix'
<1>1. next \in Update
  BY Numbers DEF InboxInv, TypeOK, Recording, PassedIsDurable, Update
<1>2. inbox[next] # "purged"
  BY <1>1, Numbers DEF InboxInv, TypeOK, Recording, PassedIsDurable
<1>3. \A u \in Update : inbox[u] # "absent" => inbox'[u] = inbox[u]
  BY <1>1, <1>2 DEF Insert, InboxInv, TypeOK, InboxTypeOK
<1>4. inbox'[next] # "absent"
  BY <1>1 DEF Insert, InboxInv, TypeOK, InboxTypeOK
<1>5. \A u \in Update : inbox'[u] # "absent" => inbox[u] # "absent" \/ u = next
  BY <1>1 DEF Insert, InboxInv, TypeOK, InboxTypeOK
<1>6. \A u \in Update : u < next => inbox[u] # "absent"
  BY <1>1 DEF Recording, InboxInv, PassedIsDurable, Durable
<1>7. RecordedIsPrefix'
  <2> SUFFICES ASSUME NEW u \in Update, NEW v \in Update, v < u, inbox'[u] # "absent"
               PROVE  inbox'[v] # "absent"
    BY DEF RecordedIsPrefix, Durable
  <2>1. CASE u = next BY <2>1, <1>6, <1>3
  <2>2. CASE u # next BY <2>2, <1>5, <1>3 DEF InboxInv, RecordedIsPrefix, Durable
  <2> QED BY <2>1, <2>2
<1> QED BY <1>1, <1>3, <1>4, <1>7 DEF Durable

\* What a step of a handler leaves alone, and which rows it may change.
LEMMA HandlerFrame ==
  ASSUME TypeOK, NEW u \in Update, Handler(u)
  PROVE  /\ HandlerKeeps
         /\ current = u
         /\ step # "idle"
         /\ \A v \in Update \ {u} : inbox'[v] = inbox[v] /\ attempts'[v] = attempts[v]
         /\ \/ UNCHANGED inboxVars /\ current' = current /\ step' \in Steps \ {"idle"}
            \/ MarkCompleted(u) /\ current' = 0 /\ step' = "idle"
            \/ HandlerFailed(u) /\ current' = 0 /\ step' = "idle"
<1> USE DEF inboxVars, TypeOK, InboxTypeOK, Steps
<1>1. CASE Refuse(u) BY <1>1 DEF Refuse
<1>2. CASE CreateOrFindJob(u) BY <1>2 DEF CreateOrFindJob, AfterAccept
<1>3. CASE ReserveStatus(u) BY <1>3 DEF ReserveStatus, AfterStatus
<1>4. CASE SendLands(u) BY <1>4 DEF SendLands
<1>5. CASE SendRaises(u) BY <1>5 DEF SendRaises
<1>6. CASE CompleteEffect(u) BY <1>6 DEF CompleteEffect, AfterStatus
<1>7. CASE MarkUncertain(u) BY <1>7 DEF MarkUncertain
<1>8. CASE EditChoice(u) BY <1>8 DEF EditChoice
<1>9. CASE EnqueueJob(u) BY <1>9 DEF EnqueueJob, AfterEnqueue
<1>10. CASE EnqueueFails(u) BY <1>10 DEF EnqueueFails
<1>11. CASE HandlerRaises(u) BY <1>11 DEF HandlerRaises, CanRaise
<1>12. CASE CompleteUpdate(u) BY <1>12 DEF CompleteUpdate, MarkCompleted
<1>13. CASE FailUpdate(u) BY <1>13 DEF FailUpdate, HandlerFailed
<1> QED BY <1>1, <1>2, <1>3, <1>4, <1>5, <1>6, <1>7, <1>8, <1>9, <1>10, <1>11, <1>12, <1>13
        DEF Handler

\* Every variable keeps its type.
LEMMA TypesStep == InboxInv /\ [Next]_vars => TypeOK'
<1> SUFFICES ASSUME InboxInv, [Next]_vars PROVE TypeOK'
  OBVIOUS
<1> USE Numbers DEF InboxInv, TypeOK, InboxTypeOK, LedgerTypeOK, inboxVars, botVars, historyVars
<1>1. CASE UpdateArrives BY <1>1 DEF UpdateArrives
<1>2. CASE Crash BY <1>2 DEF Crash, Zeros, Steps
<1>3. CASE Start BY <1>3 DEF Start, StartBot, ReconcileStalePending, FirstPending, EffectStates
<1>4. CASE FetchBatch BY <1>4 DEF FetchBatch, AskedFrom
<1>5. CASE FetchNothing BY <1>5 DEF FetchNothing, AskedFrom
<1>6. CASE Recorder
  <2>1. CASE RecordNext
    <3>1. next \in Update BY <2>1, InsertKeepsPrefix DEF RecordNext
    <3>2. InboxTypeOK' BY <2>1, <3>1 DEF RecordNext, Insert, PendingStates, EndStates
    <3>3. failures' \in [Update -> 0..(MaxSerializeFailures - 1)]
      BY <2>1, <3>1 DEF RecordNext
    <3>4. next' \in 0..(LastUpdate + 1)
      BY <2>1, <3>1 DEF RecordNext, Update
    <3>5. todo' \subseteq Update
      BY <2>1, <3>1 DEF RecordNext
    <3> QED BY <2>1, <3>2, <3>3, <3>4, <3>5 DEF RecordNext
  <2>2. CASE QuarantineNext
    <3>1. next \in Update BY <2>2, InsertKeepsPrefix DEF QuarantineNext
    <3>2. InboxTypeOK' BY <2>2, <3>1 DEF QuarantineNext, Insert, PendingStates, EndStates
    <3>3. failures' \in [Update -> 0..(MaxSerializeFailures - 1)]
      BY <2>2, <3>1 DEF QuarantineNext
    <3>4. next' \in 0..(LastUpdate + 1)
      BY <2>2, <3>1 DEF QuarantineNext, Update
    <3> QED BY <2>2, <3>2, <3>3, <3>4 DEF QuarantineNext
  <2>3. CASE Barrier
    <3>1. next \in 1..LastUpdate BY <2>3 DEF Barrier, Recording, PassedIsDurable
    <3>2. failures[next] \in 0..(MaxSerializeFailures - 1) BY <3>1 DEF Update
    <3>3. failures' \in [Update -> 0..(MaxSerializeFailures - 1)]
      <4>1. failures[next] + 1 \in 0..(MaxSerializeFailures - 1)
        BY <2>3, <3>2 DEF Barrier
      <4> QED BY <2>3, <3>1, <4>1 DEF Barrier, Update
    <3> QED BY <2>3, <3>1, <3>3 DEF Barrier
  <2>4. CASE AdvanceOffset BY <2>4 DEF AdvanceOffset
  <2> QED BY <1>6, <2>1, <2>2, <2>3, <2>4 DEF Recorder
<1>7. ASSUME NEW u \in Update, FeedUpdate(u) PROVE TypeOK'
  BY <1>7 DEF FeedUpdate, StartProcessing, PendingStates, Steps
<1>8. ASSUME NEW u \in Update, Handler(u) PROVE TypeOK'
  <2> USE DEF HandlerKeeps
  <2>1. CASE Refuse(u) BY <2>1 DEF Refuse, Steps
  <2>2. CASE CreateOrFindJob(u) BY <2>2 DEF CreateOrFindJob, AfterAccept, Steps
  <2>3. CASE ReserveStatus(u) BY <2>3 DEF ReserveStatus, Reserve, AfterStatus, Steps, EffectStates
  <2>4. CASE SendLands(u) BY <2>4 DEF SendLands, Steps
  <2>5. CASE SendRaises(u) BY <2>5 DEF SendRaises, Steps
  <2>6. CASE CompleteEffect(u)
    BY <2>6 DEF CompleteEffect, Conclude, AfterStatus, Steps, EffectStates
  <2>7. CASE MarkUncertain(u) BY <2>7 DEF MarkUncertain, Conclude, Steps, EffectStates
  <2>8. CASE EditChoice(u) BY <2>8 DEF EditChoice, Steps
  <2>9. CASE EnqueueJob(u) BY <2>9 DEF EnqueueJob, AfterEnqueue, Steps
  <2>10. CASE EnqueueFails(u) BY <2>10 DEF EnqueueFails, Steps
  <2>11. CASE HandlerRaises(u) BY <2>11 DEF HandlerRaises, Steps
  <2>12. CASE CompleteUpdate(u) BY <2>12 DEF CompleteUpdate, MarkCompleted, EndStates, Steps
  <2>13. CASE FailUpdate(u)
    <3>1. attempts[u] + 1 \in 0..MaxAttempts
      BY <2>13 DEF FailUpdate, HeldIsPending, Pending, PendingStates
    <3>2. InboxTypeOK'
      BY <2>13, <3>1 DEF FailUpdate, HandlerFailed, PendingStates, EndStates
    <3> QED BY <2>13, <3>2 DEF FailUpdate, Steps
  <2> QED BY <1>8, <2>1, <2>2, <2>3, <2>4, <2>5, <2>6, <2>7, <2>8, <2>9, <2>10, <2>11, <2>12,
             <2>13 DEF Handler
<1>9. ASSUME NEW u \in Update, JobEnds(u) PROVE TypeOK'
  BY <1>9 DEF JobEnds
<1>10. ASSUME NEW u \in Update, MaintainInbox(u) PROVE TypeOK'
  BY <1>10 DEF MaintainInbox, PurgeUpdate
<1>11. ASSUME NEW u \in Update, MaintainLedger(u) PROVE TypeOK'
  BY <1>11 DEF MaintainLedger, PurgeEffect
<1>12. ASSUME NEW u \in Update, QuarantineStale(u) PROVE TypeOK'
  BY <1>12 DEF QuarantineStale, ReconcileStalePending, EffectStates
<1>13. CASE UNCHANGED vars BY <1>13 DEF vars
<1> QED BY <1>1, <1>2, <1>3, <1>4, <1>5, <1>6, <1>7, <1>8, <1>9, <1>10, <1>11, <1>12, <1>13
        DEF Next

\* Steps that do not move the inbox, the acknowledgement or the cursor.
LEMMA CursorStays ==
  ASSUME InboxInv, [Next]_vars,
         UNCHANGED <<inboxVars, confirmed, offset, next, phase>>
  PROVE  PassedIsDurable' /\ RecordedIsPrefix'
BY DEF InboxInv, PassedIsDurable, RecordedIsPrefix, Durable, inboxVars

\* Transitions of a row that is there: it stays there, and is not purged.
LEMMA RowStays ==
  ASSUME InboxInv, NEW u \in Update, Durable(u),
         inbox' \in [Update -> PendingStates \union EndStates \union {"absent", "purged"}],
         inbox'[u] \in PendingStates \union EndStates,
         \A v \in Update \ {u} : inbox'[v] = inbox[v],
         UNCHANGED <<confirmed, offset, next, phase>>
  PROVE  PassedIsDurable' /\ RecordedIsPrefix'
BY DEF InboxInv, PassedIsDurable, RecordedIsPrefix, Durable, PendingStates, EndStates

\* The cursor, the offset and the acknowledgement never pass an unrecorded update.
LEMMA PassedStep == InboxInv /\ [Next]_vars => PassedIsDurable' /\ RecordedIsPrefix'
<1> SUFFICES ASSUME InboxInv, [Next]_vars PROVE PassedIsDurable' /\ RecordedIsPrefix'
  OBVIOUS
<1> USE Numbers
<1>0. TypeOK' BY TypesStep
<1>1. CASE UpdateArrives BY <1>1, CursorStays DEF UpdateArrives, botVars
<1>2. CASE Crash
  BY <1>2 DEF Crash, InboxInv, TypeOK, PassedIsDurable, RecordedIsPrefix, Durable, inboxVars
<1>3. CASE Start
  BY <1>3 DEF Start, StartBot, InboxInv, TypeOK, PassedIsDurable, RecordedIsPrefix, Durable,
     inboxVars
<1>4. CASE FetchBatch
  BY <1>4 DEF FetchBatch, Polling, AskedFrom, InboxInv, TypeOK, PassedIsDurable,
     RecordedIsPrefix, Durable, inboxVars
<1>5. CASE FetchNothing
  BY <1>5 DEF FetchNothing, Polling, AskedFrom, InboxInv, TypeOK, PassedIsDurable,
     RecordedIsPrefix, Durable, inboxVars, botVars
<1>6. CASE Recorder
  <2>1. ASSUME NEW s \in {"received", "terminal_failure"}, Recording, Insert(next, s),
               next' = next + 1, UNCHANGED <<confirmed, offset, phase>>
        PROVE  PassedIsDurable' /\ RecordedIsPrefix'
    <3>1. /\ next \in Update
          /\ \A u \in Update : Durable(u) => Durable(u)'
          /\ inbox'[next] # "absent"
          /\ \A u \in Update : inbox[u] # "absent" => inbox'[u] = inbox[u]
          /\ RecordedIsPrefix'
      BY <2>1, InsertKeepsPrefix
    <3>2. \A u \in Update : u < next' => Durable(u)'
      BY <2>1, <3>1 DEF Recording, InboxInv, TypeOK, PassedIsDurable, Durable
    <3>3. \A u \in Update : inbox'[u] = "purged" => u < confirmed'
      BY <2>1, <3>1 DEF Insert, InboxInv, TypeOK, InboxTypeOK, PassedIsDurable
    <3> QED BY <2>1, <3>1, <3>2, <3>3 DEF Recording, InboxInv, TypeOK, PassedIsDurable
  <2>2. CASE RecordNext BY <2>2, <2>1 DEF RecordNext
  <2>3. CASE QuarantineNext BY <2>3, <2>1 DEF QuarantineNext
  <2>4. CASE Barrier BY <2>4, CursorStays DEF Barrier
  <2>5. CASE AdvanceOffset
    BY <2>5 DEF AdvanceOffset, InboxInv, TypeOK, PassedIsDurable, RecordedIsPrefix, Durable,
       inboxVars
  <2> QED BY <1>6, <2>2, <2>3, <2>4, <2>5 DEF Recorder
<1>7. ASSUME NEW u \in Update, FeedUpdate(u) PROVE PassedIsDurable' /\ RecordedIsPrefix'
  <2>1. Durable(u) /\ inbox'[u] = "processing"
    BY <1>7 DEF FeedUpdate, Oldest, StartProcessing, InboxInv, TypeOK, InboxTypeOK,
       HeldIsPending, Pending, PendingStates, Durable
  <2> QED BY <1>7, <1>0, <2>1, RowStays
          DEF FeedUpdate, StartProcessing, TypeOK, InboxInv, InboxTypeOK, PendingStates
<1>8. ASSUME NEW u \in Update, Handler(u) PROVE PassedIsDurable' /\ RecordedIsPrefix'
  <2> USE HandlerFrame, <1>8 DEF HandlerKeeps
  <2>1. CASE UNCHANGED inboxVars BY <2>1, CursorStays DEF InboxInv
  <2>2. CASE ~UNCHANGED inboxVars
    <3>1. Durable(u)
      BY DEF InboxInv, HeldIsPending, Durable, TypeOK, Update
    <3>2. inbox'[u] \in PendingStates \union EndStates
      BY <2>2 DEF MarkCompleted, HandlerFailed, InboxInv, TypeOK, InboxTypeOK, PendingStates,
         EndStates
    <3> QED BY <1>0, <3>1, <3>2, RowStays DEF InboxInv, TypeOK, InboxTypeOK
  <2> QED BY <2>1, <2>2
<1>9. ASSUME NEW u \in Update, JobEnds(u) PROVE PassedIsDurable' /\ RecordedIsPrefix'
  BY <1>9, CursorStays DEF JobEnds, botVars
<1>10. ASSUME NEW u \in Update, MaintainInbox(u) PROVE PassedIsDurable' /\ RecordedIsPrefix'
  BY <1>10 DEF MaintainInbox, PurgeUpdate, InboxInv, TypeOK, InboxTypeOK, PassedIsDurable,
     RecordedIsPrefix, Durable, EndStates, botVars
<1>11. ASSUME NEW u \in Update, MaintainLedger(u) PROVE PassedIsDurable' /\ RecordedIsPrefix'
  BY <1>11, CursorStays DEF MaintainLedger, botVars
<1>12. ASSUME NEW u \in Update, QuarantineStale(u) PROVE PassedIsDurable' /\ RecordedIsPrefix'
  BY <1>12, CursorStays DEF QuarantineStale, botVars
<1>13. CASE UNCHANGED vars BY <1>13, CursorStays DEF vars, botVars
<1> QED BY <1>1, <1>2, <1>3, <1>4, <1>5, <1>6, <1>7, <1>8, <1>9, <1>10, <1>11, <1>12, <1>13
        DEF Next

\* Steps after which the bot holds what it held, or nothing.
LEMMA HeldStays ==
  ASSUME InboxInv, UNCHANGED <<inboxVars, step, current, todo>>, phase' = phase
  PROVE  HeldIsPending'
BY DEF InboxInv, HeldIsPending, Pending, Durable, inboxVars

\* What the bot holds is unfinished: nothing ends or purges a row under a handler.
LEMMA HeldStep == InboxInv /\ [Next]_vars => HeldIsPending'
<1> SUFFICES ASSUME InboxInv, [Next]_vars PROVE HeldIsPending'
  OBVIOUS
<1> USE Numbers
<1>0. TypeOK' BY TypesStep
<1>1. CASE UpdateArrives BY <1>1, HeldStays DEF UpdateArrives, botVars
<1>2. CASE Crash
  BY <1>2 DEF Crash, InboxInv, HeldIsPending, Pending, Durable, inboxVars
<1>3. CASE Start
  BY <1>3 DEF Start, StartBot, FirstPending, InboxInv, TypeOK, HeldIsPending, Pending, Durable,
     inboxVars
<1>4. CASE FetchBatch
  BY <1>4 DEF FetchBatch, Polling, InboxInv, HeldIsPending, Pending, Durable, inboxVars
<1>5. CASE FetchNothing BY <1>5, HeldStays DEF FetchNothing, botVars
<1>6. CASE Recorder
  <2>1. CASE RecordNext
    <3>1. /\ next \in Update
          /\ inbox'[next] # "absent"
          /\ \A u \in Update : inbox[u] # "absent" => inbox'[u] = inbox[u]
      BY <2>1, InsertKeepsPrefix DEF RecordNext
    <3>2. inbox[next] # "purged"
      BY <2>1, <3>1 DEF RecordNext, Recording, InboxInv, TypeOK, PassedIsDurable
    <3>3. WorthProcessing(next) => inbox'[next] \in PendingStates
      BY <2>1, <3>1, <3>2
      DEF RecordNext, Insert, WorthProcessing, InboxInv, TypeOK, InboxTypeOK, PendingStates
    <3>4. \A u \in todo' : inbox'[u] \in PendingStates
      BY <2>1, <3>1, <3>3
      DEF RecordNext, InboxInv, TypeOK, HeldIsPending, Pending, PendingStates
    <3>5. \A u \in Update : inbox'[u] \in PendingStates => attempts'[u] < MaxAttempts
      BY <2>1, <3>1 DEF RecordNext, Insert, InboxInv, TypeOK, InboxTypeOK, HeldIsPending,
         Pending, Durable
    <3>6. \A u \in Update : inbox'[u] = "absent" => inbox[u] = "absent"
      BY <3>1
    <3>7. current' = 0 /\ step' = "idle"
      BY <2>1 DEF RecordNext, Recording, InboxInv, HeldIsPending
    <3> QED BY <2>1, <3>4, <3>5, <3>6, <3>7
            DEF RecordNext, Insert, InboxInv, HeldIsPending, Pending, Durable
  <2>2. CASE QuarantineNext
    <3>1. /\ next \in Update
          /\ \A u \in Update : inbox[u] # "absent" => inbox'[u] = inbox[u]
      BY <2>2, InsertKeepsPrefix DEF QuarantineNext
    <3>2. \A u \in Update : inbox'[u] \in PendingStates \union {"absent"} => inbox'[u] = inbox[u]
      BY <2>2, <3>1 DEF QuarantineNext, Insert, InboxInv, TypeOK, InboxTypeOK, PendingStates
    <3>3. \A u \in todo' : Pending(u)'
      BY <2>2, <3>1
      DEF QuarantineNext, InboxInv, TypeOK, HeldIsPending, Pending, PendingStates
    <3>4. current' = 0 /\ step' = "idle"
      BY <2>2 DEF QuarantineNext, Recording, InboxInv, HeldIsPending
    <3> QED BY <2>2, <3>2, <3>3, <3>4
            DEF QuarantineNext, Insert, InboxInv, HeldIsPending, Pending, Durable
  <2>3. CASE Barrier BY <2>3, HeldStays DEF Barrier
  <2>4. CASE AdvanceOffset
    BY <2>4 DEF AdvanceOffset, InboxInv, HeldIsPending, Pending, Durable, inboxVars
  <2> QED BY <1>6, <2>1, <2>2, <2>3, <2>4 DEF Recorder
<1>7. ASSUME NEW u \in Update, FeedUpdate(u) PROVE HeldIsPending'
  <2>1. inbox'[u] = "processing" /\ \A v \in Update \ {u} : inbox'[v] = inbox[v]
    BY <1>7 DEF FeedUpdate, StartProcessing, InboxInv, TypeOK, InboxTypeOK
  <2>2. Pending(u) /\ u # 0
    BY <1>7 DEF FeedUpdate, Oldest, InboxInv, HeldIsPending
  <2> QED BY <1>7, <2>1, <2>2
          DEF FeedUpdate, StartProcessing, InboxInv, TypeOK, HeldIsPending, Pending, Durable,
              PendingStates
<1>8. ASSUME NEW u \in Update, Handler(u) PROVE HeldIsPending'
  <2> USE HandlerFrame, <1>8 DEF HandlerKeeps
  <2>1. u # 0 /\ inbox[u] = "processing" /\ u \notin todo
    BY DEF InboxInv, HeldIsPending
  <2>2. CASE UNCHANGED inboxVars /\ current' = current /\ step' \in Steps \ {"idle"}
    BY <2>1, <2>2 DEF InboxInv, HeldIsPending, Pending, Durable, inboxVars, Steps
  <2>3. CASE MarkCompleted(u) /\ current' = 0 /\ step' = "idle"
    <3>1. inbox'[u] = "completed"
      BY <2>3 DEF MarkCompleted, InboxInv, TypeOK, InboxTypeOK
    <3> QED BY <2>1, <2>3, <3>1
            DEF InboxInv, TypeOK, HeldIsPending, Pending, PendingStates, Durable
  <2>4. CASE HandlerFailed(u) /\ current' = 0 /\ step' = "idle"
    <3>1. /\ attempts'[u] = attempts[u] + 1
          /\ inbox'[u] = IF attempts[u] + 1 >= MaxAttempts THEN "terminal_failure" ELSE "received"
      BY <2>4 DEF HandlerFailed, InboxInv, TypeOK, InboxTypeOK
    <3>2. Pending(u)' => attempts'[u] < MaxAttempts
      BY <3>1 DEF Pending, PendingStates, InboxInv, TypeOK, InboxTypeOK
    <3> QED BY <2>1, <2>4, <3>1, <3>2
            DEF InboxInv, TypeOK, HeldIsPending, Pending, PendingStates, Durable
  <2> QED BY <2>2, <2>3, <2>4 DEF InboxInv
<1>9. ASSUME NEW u \in Update, JobEnds(u) PROVE HeldIsPending'
  BY <1>9, HeldStays DEF JobEnds, botVars
<1>10. ASSUME NEW u \in Update, MaintainInbox(u) PROVE HeldIsPending'
  BY <1>10 DEF MaintainInbox, PurgeUpdate, InboxInv, TypeOK, InboxTypeOK, HeldIsPending,
     Pending, Durable, PendingStates, EndStates, botVars
<1>11. ASSUME NEW u \in Update, MaintainLedger(u) PROVE HeldIsPending'
  BY <1>11, HeldStays DEF MaintainLedger, botVars
<1>12. ASSUME NEW u \in Update, QuarantineStale(u) PROVE HeldIsPending'
  BY <1>12, HeldStays DEF QuarantineStale, botVars
<1>13. CASE UNCHANGED vars BY <1>13, HeldStays DEF vars, botVars
<1> QED BY <1>1, <1>2, <1>3, <1>4, <1>5, <1>6, <1>7, <1>8, <1>9, <1>10, <1>11, <1>12, <1>13
        DEF Next

\* Steps outside the ledger: no call begins, ends or is excused.
LEMMA LedgerStays ==
  ASSUME InboxInv, UNCHANGED <<effect, sends, excused>>,
         \A u \in Update : InFlight(u)' => InFlight(u),
         \A u \in Update : Answered(u) => Answered(u)',
         \A u \in Update : (current = u /\ step = "send")' => current = u /\ step = "send"
  PROVE  LedgerKnows'
BY DEF InboxInv, LedgerKnows

\* A second send is always excused: the ledger knows of all the others.
LEMMA LedgerStep == InboxInv /\ [Next]_vars => LedgerKnows'
<1> SUFFICES ASSUME InboxInv, [Next]_vars PROVE LedgerKnows'
  OBVIOUS
<1> USE Numbers
<1>1. CASE UpdateArrives BY <1>1, LedgerStays DEF UpdateArrives, botVars, historyVars, InFlight, Answered
<1>2. CASE Crash
  BY <1>2 DEF Crash, InboxInv, TypeOK, LedgerTypeOK, LedgerKnows, InFlight, Answered, EffectStates
<1>3. CASE Start
  <2>1. PICK stale \in SUBSET Update : StartBot(stale) BY <1>3 DEF Start
  <2>2. \A u \in Update : ~InFlight(u) /\ ~Answered(u) /\ ~(current = u /\ step = "send")
    BY <2>1 DEF StartBot, InboxInv, HeldIsPending, InFlight, Answered
  <2> QED BY <2>1, <2>2
          DEF StartBot, ReconcileStalePending, InboxInv, TypeOK, LedgerTypeOK, LedgerKnows,
              InFlight, Answered, historyVars
<1>4. CASE FetchBatch BY <1>4, LedgerStays DEF FetchBatch, historyVars, InFlight, Answered
<1>5. CASE FetchNothing BY <1>5, LedgerStays DEF FetchNothing, botVars, historyVars, InFlight, Answered
<1>6. CASE Recorder
  BY <1>6, LedgerStays DEF Recorder, RecordNext, Barrier, QuarantineNext, AdvanceOffset,
     historyVars, InFlight, Answered
<1>7. ASSUME NEW u \in Update, FeedUpdate(u) PROVE LedgerKnows'
  BY <1>7, LedgerStays DEF FeedUpdate, InFlight, Answered
<1>8. ASSUME NEW u \in Update, Handler(u) PROVE LedgerKnows'
  <2> USE DEF HandlerKeeps, InFlight, Answered
  <2>1. CASE Refuse(u) BY <2>1, LedgerStays DEF Refuse
  <2>2. CASE CreateOrFindJob(u)
    BY <2>2, LedgerStays DEF CreateOrFindJob, AfterAccept
  <2>3. CASE ReserveStatus(u)
    BY <2>3 DEF ReserveStatus, Reserve, AfterStatus, InboxInv, TypeOK, LedgerTypeOK, LedgerKnows
  <2>4. CASE SendLands(u)
    BY <2>4 DEF SendLands, InboxInv, TypeOK, LedgerKnows
  <2>5. CASE SendRaises(u)
    BY <2>5 DEF SendRaises, InboxInv, TypeOK, LedgerKnows
  <2>6. CASE CompleteEffect(u)
    BY <2>6 DEF CompleteEffect, Conclude, AfterStatus, InboxInv, TypeOK, LedgerTypeOK, LedgerKnows
  <2>7. CASE MarkUncertain(u)
    BY <2>7 DEF MarkUncertain, Conclude, InboxInv, TypeOK, LedgerTypeOK, LedgerKnows
  <2>8. CASE EditChoice(u) BY <2>8, LedgerStays DEF EditChoice
  <2>9. CASE EnqueueJob(u) BY <2>9, LedgerStays DEF EnqueueJob, AfterEnqueue
  <2>10. CASE EnqueueFails(u) BY <2>10, LedgerStays DEF EnqueueFails
  <2>11. CASE HandlerRaises(u) BY <2>11, LedgerStays DEF HandlerRaises, CanRaise
  <2>12. CASE CompleteUpdate(u) BY <2>12, LedgerStays DEF CompleteUpdate
  <2>13. CASE FailUpdate(u) BY <2>13, LedgerStays DEF FailUpdate
  <2> QED BY <1>8, <2>1, <2>2, <2>3, <2>4, <2>5, <2>6, <2>7, <2>8, <2>9, <2>10, <2>11, <2>12,
             <2>13 DEF Handler
<1>9. ASSUME NEW u \in Update, JobEnds(u) PROVE LedgerKnows'
  BY <1>9, LedgerStays DEF JobEnds, botVars, historyVars, InFlight, Answered
<1>10. ASSUME NEW u \in Update, MaintainInbox(u) PROVE LedgerKnows'
  BY <1>10, LedgerStays DEF MaintainInbox, botVars, historyVars, InFlight, Answered
<1>11. ASSUME NEW u \in Update, MaintainLedger(u) PROVE LedgerKnows'
  BY <1>11 DEF MaintainLedger, PurgeEffect, InboxInv, TypeOK, LedgerTypeOK, LedgerKnows,
     botVars, InFlight, Answered
<1>12. ASSUME NEW u \in Update, QuarantineStale(u) PROVE LedgerKnows'
  BY <1>12 DEF QuarantineStale, ReconcileStalePending, InboxInv, TypeOK, LedgerTypeOK,
     LedgerKnows, botVars, historyVars, InFlight, Answered
<1>13. CASE UNCHANGED vars
  BY <1>13, LedgerStays DEF vars, botVars, historyVars, InFlight, Answered
<1> QED BY <1>1, <1>2, <1>3, <1>4, <1>5, <1>6, <1>7, <1>8, <1>9, <1>10, <1>11, <1>12, <1>13
        DEF Next

\* The rows and the jobs of the accepted updates, where a step leaves them alone.
LEMMA LinksStay ==
  ASSUME InboxInv, UNCHANGED <<inbox, accepted, handed, job, current, step, path>>
  PROVE  LinkIsQueued'
BY DEF InboxInv, LinkIsQueued, QueuedOrEnded

\* Steps between two handlers: an ended row may be purged, a job may end.
LEMMA LinksStayIdle ==
  ASSUME InboxInv, TypeOK', UNCHANGED <<accepted, handed>>, current' = 0,
         \A u \in Update : inbox[u] \in EndStates \union {"purged"}
                            => inbox'[u] \in EndStates \union {"purged"},
         \A u \in Update : job[u] = "ended" => job'[u] = "ended"
  PROVE  LinkIsQueued'
BY Numbers DEF InboxInv, TypeOK, LinkIsQueued, QueuedOrEnded

\* Whoever is told "accepted" has a job in the queue, or one that has ended.
LEMMA QueuedStep == InboxInv /\ [Next]_vars => LinkIsQueued'
<1> SUFFICES ASSUME InboxInv, [Next]_vars PROVE LinkIsQueued'
  OBVIOUS
<1> USE Numbers
<1>0. TypeOK' BY TypesStep
<1>1. CASE UpdateArrives BY <1>1, LinksStay DEF UpdateArrives, botVars, historyVars, inboxVars
<1>2. CASE Crash BY <1>0, <1>2, LinksStayIdle DEF Crash, inboxVars
<1>3. CASE Start BY <1>3, LinksStay DEF Start, StartBot, historyVars, inboxVars
<1>4. CASE FetchBatch BY <1>4, LinksStay DEF FetchBatch, historyVars, inboxVars
<1>5. CASE FetchNothing BY <1>5, LinksStay DEF FetchNothing, botVars, historyVars, inboxVars
<1>6. CASE Recorder
  <2>1. ASSUME NEW s \in {"received", "terminal_failure"}, Recording, Insert(next, s),
               UNCHANGED <<current, job, handed, accepted>>
        PROVE  LinkIsQueued'
    <3>1. \A u \in Update : inbox[u] # "absent" => inbox'[u] = inbox[u]
      BY <2>1, InsertKeepsPrefix
    <3>2. current' = 0
      BY <2>1 DEF Recording, InboxInv, HeldIsPending
    <3> QED BY <1>0, <2>1, <3>1, <3>2, LinksStayIdle DEF EndStates
  <2>2. CASE RecordNext BY <2>1, <2>2 DEF RecordNext, historyVars
  <2>3. CASE QuarantineNext BY <2>1, <2>3 DEF QuarantineNext, historyVars
  <2>4. CASE Barrier BY <2>4, LinksStay DEF Barrier, historyVars, inboxVars
  <2>5. CASE AdvanceOffset BY <2>5, LinksStay DEF AdvanceOffset, historyVars, inboxVars
  <2> QED BY <1>6, <2>2, <2>3, <2>4, <2>5 DEF Recorder
<1>7. ASSUME NEW u \in Update, FeedUpdate(u) PROVE LinkIsQueued'
  <2>1. u \notin accepted
    BY <1>7 DEF FeedUpdate, Oldest, InboxInv, HeldIsPending, LinkIsQueued, Pending,
       PendingStates, EndStates
  <2> QED BY <1>7, <2>1 DEF FeedUpdate, StartProcessing, InboxInv, TypeOK, InboxTypeOK,
             LinkIsQueued, QueuedOrEnded
<1>8. ASSUME NEW u \in Update, Handler(u) PROVE LinkIsQueued'
  <2>1. current = u /\ inbox[u] = "processing" /\ u \notin accepted
    BY <1>8, HandlerFrame DEF InboxInv, HeldIsPending, LinkIsQueued, EndStates
  <2> USE <2>1 DEF InboxInv, TypeOK, InboxTypeOK, LinkIsQueued, QueuedOrEnded, inboxVars
  <2>2. CASE Refuse(u) BY <2>2 DEF Refuse
  <2>3. CASE CreateOrFindJob(u) BY <2>3 DEF CreateOrFindJob, AfterAccept
  <2>4. CASE ReserveStatus(u) BY <2>4 DEF ReserveStatus, AfterStatus
  <2>5. CASE SendLands(u) BY <2>5 DEF SendLands
  <2>6. CASE SendRaises(u) BY <2>6 DEF SendRaises
  <2>7. CASE CompleteEffect(u) BY <2>7 DEF CompleteEffect, AfterStatus
  <2>8. CASE MarkUncertain(u) BY <2>8 DEF MarkUncertain
  <2>9. CASE EditChoice(u) BY <2>9 DEF EditChoice
  <2>10. CASE EnqueueJob(u) BY <2>10 DEF EnqueueJob, AfterEnqueue
  <2>11. CASE EnqueueFails(u) BY <2>11 DEF EnqueueFails
  <2>12. CASE HandlerRaises(u) BY <2>12 DEF HandlerRaises
  <2>13. CASE CompleteUpdate(u) BY <2>13 DEF CompleteUpdate, MarkCompleted, EndStates
  <2>14. CASE FailUpdate(u) BY <2>14 DEF FailUpdate, HandlerFailed
  <2> QED BY <1>8, <2>2, <2>3, <2>4, <2>5, <2>6, <2>7, <2>8, <2>9, <2>10, <2>11, <2>12, <2>13,
             <2>14 DEF Handler
<1>9. ASSUME NEW u \in Update, JobEnds(u) PROVE LinkIsQueued'
  BY <1>9 DEF JobEnds, InboxInv, TypeOK, LinkIsQueued, QueuedOrEnded, botVars, historyVars,
     inboxVars
<1>10. ASSUME NEW u \in Update, MaintainInbox(u) PROVE LinkIsQueued'
  BY <1>10 DEF MaintainInbox, PurgeUpdate, InboxInv, TypeOK, InboxTypeOK, LinkIsQueued,
     QueuedOrEnded, botVars, historyVars
<1>11. ASSUME NEW u \in Update, MaintainLedger(u) PROVE LinkIsQueued'
  BY <1>11, LinksStay DEF MaintainLedger, botVars, inboxVars
<1>12. ASSUME NEW u \in Update, QuarantineStale(u) PROVE LinkIsQueued'
  BY <1>12, LinksStay DEF QuarantineStale, botVars, historyVars, inboxVars
<1>13. CASE UNCHANGED vars BY <1>13, LinksStay DEF vars, botVars, historyVars, inboxVars
<1> QED BY <1>1, <1>2, <1>3, <1>4, <1>5, <1>6, <1>7, <1>8, <1>9, <1>10, <1>11, <1>12, <1>13
        DEF Next

\* Where no handler runs or stops running, rows change only from absent or to ended.
LEMMA StartsStay ==
  ASSUME InboxInv, UNCHANGED <<attempts, starts, killed, current>>,
         \A u \in Update : (Pending(u) \/ ~Durable(u))' => Pending(u) \/ ~Durable(u)
  PROVE  StartsCounted'
BY DEF InboxInv, StartsCounted

\* Each start was spent on an attempt, a death, or the run that ended the update.
LEMMA StartsStep == InboxInv /\ [Next]_vars => StartsCounted'
<1> SUFFICES ASSUME InboxInv, [Next]_vars PROVE StartsCounted'
  OBVIOUS
<1> USE Numbers DEF inboxVars, botVars, historyVars
<1>1. CASE UpdateArrives \/ Start \/ FetchBatch \/ FetchNothing
  BY <1>1, StartsStay
     DEF UpdateArrives, Start, StartBot, FetchBatch, FetchNothing, Pending, Durable
<1>2. CASE Crash
  <2>1. /\ \A u \in Update : killed'[u] = IF current = u THEN killed[u] + 1 ELSE killed[u]
        /\ \A u \in Update : current' # u
        /\ UNCHANGED <<starts, attempts, inbox>>
    BY <1>2 DEF Crash
  <2>2. ASSUME NEW u \in Update
        PROVE  /\ starts[u] <= MaxAttempts + killed'[u]
               /\ Pending(u) \/ ~Durable(u) => starts[u] <= attempts[u] + killed'[u] + 0
    <3>1. killed[u] \in Nat /\ starts[u] \in Nat /\ attempts[u] \in Nat
      BY DEF InboxInv, TypeOK, InboxTypeOK
    <3>2. /\ starts[u] <= MaxAttempts + killed[u]
          /\ Pending(u) \/ ~Durable(u)
               => starts[u] <= attempts[u] + killed[u] + (IF current = u THEN 1 ELSE 0)
      BY DEF InboxInv, StartsCounted
    <3> QED BY <2>1, <3>1, <3>2
  <2> QED BY <2>1, <2>2 DEF StartsCounted, Pending, Durable
<1>3. CASE Recorder
  <2>1. ASSUME NEW s \in {"received", "terminal_failure"}, Recording, Insert(next, s),
               UNCHANGED <<starts, killed, current>>
        PROVE  StartsCounted'
    <3>1. \A u \in Update : inbox[u] # "absent" => inbox'[u] = inbox[u]
      BY <2>1, InsertKeepsPrefix
    <3> QED BY <2>1, <3>1, StartsStay DEF Insert, Pending, Durable
  <2>2. CASE RecordNext BY <2>1, <2>2 DEF RecordNext
  <2>3. CASE QuarantineNext BY <2>1, <2>3 DEF QuarantineNext
  <2>4. CASE Barrier \/ AdvanceOffset
    BY <2>4, StartsStay DEF Barrier, AdvanceOffset, Pending, Durable
  <2> QED BY <1>3, <2>2, <2>3, <2>4 DEF Recorder
<1>4. ASSUME NEW u \in Update, FeedUpdate(u) PROVE StartsCounted'
  <2>1. /\ Pending(u) /\ attempts[u] < MaxAttempts
        /\ current = 0
    BY <1>4 DEF FeedUpdate, Oldest, InboxInv, HeldIsPending
  <2>2. starts[u] <= attempts[u] + killed[u]
    BY <2>1 DEF InboxInv, StartsCounted, TypeOK, InboxTypeOK
  <2>3. /\ starts'[u] = starts[u] + 1
        /\ \A v \in Update \ {u} : starts'[v] = starts[v] /\ inbox'[v] = inbox[v]
        /\ current' = u
        /\ UNCHANGED <<attempts, killed>>
    BY <1>4 DEF FeedUpdate, StartProcessing, InboxInv, TypeOK, InboxTypeOK
  <2> QED BY <2>1, <2>2, <2>3
          DEF InboxInv, TypeOK, InboxTypeOK, StartsCounted, Pending, Durable
<1>5. ASSUME NEW u \in Update, Handler(u) PROVE StartsCounted'
  <2> USE HandlerFrame, <1>5 DEF HandlerKeeps
  <2>1. current = u /\ inbox[u] = "processing" /\ UNCHANGED <<starts, killed>>
    BY DEF InboxInv, HeldIsPending
  <2>2. CASE UNCHANGED inboxVars /\ current' = current
    BY <2>1, <2>2, StartsStay DEF InboxInv, Pending, Durable
  <2>3. CASE MarkCompleted(u) /\ current' = 0
    <3>1. inbox'[u] = "completed" BY <2>3 DEF MarkCompleted, InboxInv, TypeOK, InboxTypeOK
    <3> QED BY <2>1, <2>3, <3>1
            DEF MarkCompleted, InboxInv, StartsCounted, Pending, PendingStates, Durable
  <2>4. CASE HandlerFailed(u) /\ current' = 0
    <3>1. attempts'[u] = attempts[u] + 1
      BY <2>4 DEF HandlerFailed, InboxInv, TypeOK, InboxTypeOK
    <3>2. starts[u] <= attempts[u] + killed[u] + 1 /\ starts[u] <= MaxAttempts + killed[u]
      BY <2>1 DEF InboxInv, StartsCounted, Pending, PendingStates
    <3> QED BY <2>1, <2>4, <3>1, <3>2
            DEF InboxInv, TypeOK, InboxTypeOK, StartsCounted, Pending, Durable
  <2> QED BY <2>2, <2>3, <2>4 DEF InboxInv
<1>6. ASSUME NEW u \in Update, JobEnds(u) \/ MaintainLedger(u) \/ QuarantineStale(u)
      PROVE  StartsCounted'
  BY <1>6, StartsStay DEF JobEnds, MaintainLedger, QuarantineStale, Pending, Durable
<1>7. ASSUME NEW u \in Update, MaintainInbox(u) PROVE StartsCounted'
  BY <1>7, StartsStay DEF MaintainInbox, PurgeUpdate, InboxInv, TypeOK, InboxTypeOK, Pending,
     PendingStates, Durable
<1>8. CASE UNCHANGED vars BY <1>8, StartsStay DEF vars, Pending, Durable
<1> QED BY <1>1, <1>2, <1>3, <1>4, <1>5, <1>6, <1>7, <1>8 DEF Next


\* Steps that leave the inbox, the held updates and the cursor alone.
LEMMA OrderStays ==
  ASSUME OrderInv, UNCHANGED <<inbox, starts, confirmed, todo, phase, next, offset, overlooked>>
  PROVE  OrderInv'
BY DEF OrderInv, FirstRunsInOrder, Fresh, AskedFrom

\* A row that moves on under its handler, or is purged, was run before or never will be.
LEMMA OrderAfterRow ==
  ASSUME InboxInv, OrderInv, NEW u \in Update,
         UNCHANGED <<starts, confirmed, todo, phase, next, offset, overlooked>>,
         \A v \in Update \ {u} : inbox'[v] = inbox[v],
         \/ starts[u] > 0 /\ inbox[u] \notin {"terminal_failure", "purged"}
         \/ inbox'[u] = "purged"
  PROVE  OrderInv'
<1>1. \A v \in Update : Fresh(v)' => Fresh(v)
  BY DEF Fresh, InboxInv, TypeOK
<1>2. \A v \in Update : \/ inbox'[v] \notin {"processing", "completed"} \/ starts[v] > 0
                        \/ inbox'[v] = inbox[v]
  OBVIOUS
<1>3. \A v \in Update : inbox[v] \in {"terminal_failure", "purged"} =>
                          starts[v] > 0 \/ inbox'[v] \in {"terminal_failure", "purged"}
  OBVIOUS
<1>4. FirstRunsInOrder' BY <1>3 DEF OrderInv, FirstRunsInOrder
<1> QED BY <1>1, <1>2, <1>4 DEF OrderInv, AskedFrom

\* A row is recorded, or found recorded, at the cursor.
LEMMA OrderAfterInsert ==
  ASSUME InboxInv, OrderInv, Recording, NEW s \in {"received", "terminal_failure"}, Insert(next, s),
         UNCHANGED <<starts, confirmed, phase, offset>>, next' = next + 1,
         overlooked \subseteq overlooked', overlooked' \subseteq overlooked \union {next},
         \/ todo' = IF WorthProcessing(next) THEN todo \union {next} ELSE todo
         \/ todo' = todo /\ (inbox'[next] = "received" => next \in overlooked')
  PROVE  OrderInv'
<1> USE Numbers
<1>0. /\ next \in Update /\ phase = "record"
      /\ \A u \in Update : inbox[u] # "absent" => inbox'[u] = inbox[u]
  BY InsertKeepsPrefix DEF Recording
<1>1. /\ next \in Nat /\ confirmed \in Nat /\ confirmed <= next
      /\ \A u \in Update \ {next} : inbox'[u] = inbox[u]
      /\ inbox[next] = "absent" => inbox'[next] = s
  BY <1>0 DEF InboxInv, TypeOK, InboxTypeOK, PassedIsDurable, Insert
<1>2. \A u \in todo : u \in Update /\ u \in Nat /\ u < next
  BY <1>0, <1>1 DEF OrderInv, InboxInv, TypeOK
<1>3. FirstRunsInOrder' BY <1>0, <1>1 DEF OrderInv, FirstRunsInOrder
<1>4. \A u \in Update : inbox'[u] \in {"processing", "completed"} => starts[u] > 0
  BY <1>0, <1>1 DEF OrderInv
<1>5. ASSUME NEW u \in Update, Fresh(u)' PROVE u >= confirmed /\ (u \in todo' \/ u >= next')
  <2>1. CASE u = next
    <3>1. inbox'[next] = "received" /\ next \notin overlooked' BY <1>5, <2>1 DEF Fresh
    <3>2. inbox[next] \in {"absent", "received"} BY <1>0, <1>1, <3>1
    <3>3. WorthProcessing(next) BY <3>2 DEF WorthProcessing, EndStates
    <3> QED BY <1>0, <1>1, <2>1, <3>1, <3>3
  <2>2. CASE u # next
    <3>1. Fresh(u) BY <1>0, <1>1, <1>5, <2>2 DEF Fresh
    <3>2. u >= confirmed /\ (u \in todo \/ u >= next) BY <1>0, <1>1, <3>1 DEF OrderInv
    <3> QED BY <1>0, <1>1, <2>2, <3>2
  <2> QED BY <2>1, <2>2
<1>6. ASSUME NEW u \in todo', NEW v \in Update, v < u, Fresh(v)' PROVE v \in todo'
  <2>1. u \in Nat /\ u <= next BY <1>0, <1>1, <1>2
  <2>2. v < next /\ v # next BY <1>0, <1>1, <1>6, <2>1
  <2> QED BY <1>0, <1>1, <1>5, <1>6, <2>2
<1>7. \A u \in todo' : u < next' BY <1>0, <1>1, <1>2
<1>8. phase' = "record" BY <1>0, <1>1
<1> QED BY <1>3, <1>4, <1>5, <1>6, <1>7, <1>8 DEF OrderInv

\* Updates are run for the first time in Telegram's order: every step keeps it.
LEMMA OrderStep == InboxInv /\ OrderInv /\ [Next]_vars => OrderInv'
<1> SUFFICES ASSUME InboxInv, OrderInv, [Next]_vars PROVE OrderInv'
  OBVIOUS
<1> USE Numbers
<1>t. /\ confirmed \in Nat /\ offset \in Nat /\ next \in Nat /\ todo \subseteq Update
      /\ starts \in [Update -> Nat]
  BY DEF InboxInv, TypeOK
<1>1. CASE UpdateArrives BY <1>1, OrderStays DEF UpdateArrives, botVars, historyVars, inboxVars
<1>2. CASE Crash
  <2>1. /\ phase' = "down" /\ offset' = 0 /\ todo' = {} /\ UNCHANGED <<inbox, confirmed, starts, overlooked>>
    BY <1>2 DEF Crash, inboxVars
  <2>2. AskedFrom' = confirmed BY <1>t, <2>1 DEF AskedFrom
  <2> QED BY <2>1, <2>2 DEF OrderInv, FirstRunsInOrder, Fresh
<1>3. CASE Start
  <2>1. /\ phase = "down" /\ phase' = "feed" /\ todo' = FirstPending
        /\ UNCHANGED <<inbox, confirmed, offset, starts, overlooked>>
    BY <1>3 DEF Start, StartBot, inboxVars, historyVars
  <2>2. offset = 0 /\ AskedFrom' = confirmed BY <1>t, <2>1 DEF OrderInv, AskedFrom
  <2>3. ASSUME NEW u \in FirstPending, NEW v \in Update, v < u, Fresh(v) PROVE v \in FirstPending
    <3> DEFINE Below(w) == {x \in 1..(w - 1) : Pending(x)}
    <3>1. u \in Nat /\ v \in Nat /\ u \in Update BY DEF FirstPending
    <3>2. Below(v) \subseteq Below(u) BY <2>3, <3>1
    <3>3. IsFiniteSet(1..(u - 1)) BY <3>1, FS_Interval
    <3>4. IsFiniteSet(Below(u)) BY <3>3, FS_Subset
    <3>5. Cardinality(Below(v)) <= Cardinality(Below(u)) /\ Cardinality(Below(u)) \in Nat
          /\ Cardinality(Below(v)) \in Nat
      BY <3>2, <3>4, FS_Subset, FS_CardinalityType
    <3>6. Cardinality(Below(u)) < ReplayLimit /\ ReplayLimit \in Nat
      BY LimitsAssumption DEF FirstPending
    <3>7. Cardinality(Below(v)) < ReplayLimit
      <4> HIDE DEF Below
      <4> QED BY <3>5, <3>6
    <3>8. Pending(v) BY <2>3 DEF Fresh, Pending, PendingStates
    <3> QED BY <3>7, <3>8 DEF FirstPending
  <2>4. \A u \in Update : Fresh(u)' <=> Fresh(u) BY <2>1 DEF Fresh
  <2>5. FirstRunsInOrder' BY <2>1 DEF OrderInv, FirstRunsInOrder
  <2> QED BY <2>1, <2>2, <2>3, <2>4, <2>5 DEF OrderInv
<1>4. CASE FetchBatch
  <2>1. /\ phase = "feed" /\ phase' = "record" /\ todo = {} /\ todo' = {} /\ next' = AskedFrom
        /\ confirmed' = AskedFrom /\ UNCHANGED <<inbox, starts, overlooked>>
    BY <1>4 DEF FetchBatch, Polling, inboxVars, historyVars
  <2>2. \A u \in Update : Fresh(u)' <=> Fresh(u) BY <2>1 DEF Fresh
  <2>3. FirstRunsInOrder' BY <2>1 DEF OrderInv, FirstRunsInOrder
  <2> QED BY <2>1, <2>2, <2>3 DEF OrderInv
<1>5. CASE FetchNothing
  <2>1. /\ phase = "feed" /\ todo = {} /\ confirmed' \in {confirmed, AskedFrom}
        /\ UNCHANGED <<phase, next, offset, todo, inbox, starts, overlooked>>
    BY <1>5 DEF FetchNothing, Polling, inboxVars, historyVars, botVars
  <2>2. AskedFrom' = AskedFrom BY <1>t, <2>1 DEF AskedFrom
  <2>3. \A u \in Update : Fresh(u)' <=> Fresh(u) BY <2>1 DEF Fresh
  <2>4. FirstRunsInOrder' BY <2>1 DEF OrderInv, FirstRunsInOrder
  <2> QED BY <2>1, <2>2, <2>3, <2>4 DEF OrderInv
<1>6. CASE Recorder
  <2>1. CASE RecordNext
    BY <2>1, OrderAfterInsert DEF RecordNext, historyVars
  <2>2. CASE Barrier BY <2>2, OrderStays DEF Barrier, inboxVars, historyVars
  <2>3. CASE QuarantineNext
    <3>1. /\ Recording /\ Insert(next, "terminal_failure") /\ next' = next + 1 /\ todo' = todo
          /\ overlooked' = IF Pending(next) THEN overlooked \union {next} ELSE overlooked
          /\ UNCHANGED <<starts, confirmed, phase, offset>>
      BY <2>3 DEF QuarantineNext
    <3>2. next \in Update BY <3>1, InsertKeepsPrefix
    <3>3. inbox'[next] = "received" => Pending(next)
      BY <3>1, <3>2 DEF Insert, InboxInv, TypeOK, InboxTypeOK, Pending, PendingStates
    <3>4. /\ overlooked \subseteq overlooked' /\ overlooked' \subseteq overlooked \union {next}
          /\ inbox'[next] = "received" => next \in overlooked'
      BY <3>1, <3>3
    <3> QED BY <3>1, <3>4, OrderAfterInsert
  <2>4. CASE AdvanceOffset
    <3>1. /\ phase = "record" /\ phase' = "feed" /\ offset' = next
          /\ UNCHANGED <<inbox, starts, confirmed, todo, next, overlooked>>
      BY <2>4 DEF AdvanceOffset, inboxVars, historyVars
    <3>2. AskedFrom' = next
      BY <1>t, <3>1 DEF AskedFrom, InboxInv, PassedIsDurable
    <3>3. \A u \in Update : Fresh(u)' <=> Fresh(u) BY <3>1 DEF Fresh
    <3>4. FirstRunsInOrder' BY <3>1 DEF OrderInv, FirstRunsInOrder
    <3> QED BY <3>1, <3>2, <3>3, <3>4 DEF OrderInv
  <2> QED BY <1>6, <2>1, <2>2, <2>3, <2>4 DEF Recorder
<1>7. ASSUME NEW u \in Update, FeedUpdate(u) PROVE OrderInv'
  <2>1. /\ phase = "feed" /\ u \in todo /\ \A v \in todo : u <= v
        /\ todo' = todo \ {u} /\ inbox' = [inbox EXCEPT ![u] = "processing"]
        /\ starts' = [starts EXCEPT ![u] = @ + 1]
        /\ UNCHANGED <<confirmed, phase, offset, next, overlooked>>
    BY <1>7 DEF FeedUpdate, Oldest, StartProcessing
  <2>2. /\ inbox'[u] = "processing" /\ starts'[u] = starts[u] + 1 /\ starts'[u] > 0
        /\ \A v \in Update \ {u} : inbox'[v] = inbox[v] /\ starts'[v] = starts[v]
        /\ inbox[u] \in PendingStates
    BY <1>t, <2>1 DEF InboxInv, TypeOK, InboxTypeOK, HeldIsPending, Pending
  <2>3. ASSUME NEW v \in Update, v < u
        PROVE  starts[v] > 0 \/ inbox[v] \in {"terminal_failure", "purged"} \/ v \in overlooked
    <3>1. inbox[v] # "absent"
      BY <2>2, <2>3 DEF InboxInv, RecordedIsPrefix, Durable, PendingStates
    <3>2. ~Fresh(v)
      <4>1. Fresh(v) => v \in todo BY <2>1, <2>3 DEF OrderInv
      <4> QED BY <1>t, <2>1, <2>3, <4>1
    <3>3. inbox[v] \in {"received", "processing", "completed", "terminal_failure", "purged"}
      BY <3>1 DEF InboxInv, TypeOK, InboxTypeOK, PendingStates, EndStates
    <3> QED BY <1>t, <3>2, <3>3 DEF Fresh, OrderInv
  <2>4. FirstRunsInOrder'
    <3> SUFFICES ASSUME NEW w \in Update, NEW v \in Update, v < w, starts'[w] > 0
                 PROVE  \/ starts'[v] > 0 \/ v \in overlooked
                        \/ inbox'[v] \in {"terminal_failure", "purged"}
      BY <2>1 DEF FirstRunsInOrder
    <3>1. CASE v = u BY <2>2, <3>1
    <3>2. CASE v # u /\ w = u BY <2>2, <2>3, <3>2
    <3>3. CASE v # u /\ w # u BY <2>2, <3>3 DEF OrderInv, FirstRunsInOrder
    <3> QED BY <3>1, <3>2, <3>3
  <2>5. \A v \in Update : Fresh(v)' => Fresh(v) /\ v # u BY <2>1, <2>2 DEF Fresh
  <2>6. \A v \in Update : inbox'[v] \in {"processing", "completed"} => starts'[v] > 0
    BY <2>2 DEF OrderInv
  <2>7. AskedFrom' = AskedFrom BY <2>1 DEF AskedFrom
  <2> QED BY <2>1, <2>4, <2>5, <2>6, <2>7 DEF OrderInv
<1>8. ASSUME NEW u \in Update, Handler(u) PROVE OrderInv'
  <2>1. /\ HandlerKeeps /\ current = u
        /\ \A v \in Update \ {u} : inbox'[v] = inbox[v]
    BY <1>8, HandlerFrame DEF InboxInv
  <2>2. UNCHANGED <<starts, confirmed, todo, phase, next, offset, overlooked>>
    BY <2>1 DEF HandlerKeeps
  <2>3. inbox[u] = "processing" /\ starts[u] > 0
    BY <2>1 DEF InboxInv, HeldIsPending, OrderInv
  <2> QED BY <2>1, <2>2, <2>3, OrderAfterRow
<1>9. ASSUME NEW u \in Update, JobEnds(u) \/ MaintainLedger(u) \/ QuarantineStale(u)
      PROVE  OrderInv'
  BY <1>9, OrderStays
     DEF JobEnds, MaintainLedger, QuarantineStale, botVars, historyVars, inboxVars
<1>10. ASSUME NEW u \in Update, MaintainInbox(u) PROVE OrderInv'
  <2>1. /\ inbox'[u] = "purged" /\ \A v \in Update \ {u} : inbox'[v] = inbox[v]
        /\ UNCHANGED <<starts, confirmed, todo, phase, next, offset, overlooked>>
    BY <1>10 DEF MaintainInbox, PurgeUpdate, InboxInv, TypeOK, InboxTypeOK, botVars, historyVars
  <2> QED BY <2>1, OrderAfterRow
<1>11. CASE UNCHANGED vars
  BY <1>11, OrderStays DEF vars, botVars, historyVars, inboxVars
<1> QED BY <1>1, <1>2, <1>3, <1>4, <1>5, <1>6, <1>7, <1>8, <1>9, <1>10, <1>11 DEF Next

(***************************************************************************)
(* The theorems.                                                           *)
(***************************************************************************)

\* The inductive invariant of the bot, its inbox and its ledger.
THEOREM InboxInvariant == Spec => []InboxInv
<1>1. InboxInv /\ [Next]_vars => InboxInv'
  BY TypesStep, PassedStep, HeldStep, LedgerStep, QueuedStep, StartsStep DEF InboxInv
<1> QED BY InitInboxInv, <1>1, PTL DEF Spec

\* Durable before acknowledged (durable_poll, phases 1 and 2): Telegram never forgets
\* an update that is not in the inbox.
THEOREM AcknowledgedIsDurable == Spec => []AckedIsDurable
<1>1. InboxInv => AckedIsDurable
  BY DEF InboxInv, PassedIsDurable, AckedIsDurable
<1> QED BY InboxInvariant, <1>1, PTL

\* The barrier of phase 1 (durable_poll): what is recorded has no gaps.
THEOREM BarrierHolds == Spec => []RecordedIsPrefix
<1>1. InboxInv => RecordedIsPrefix BY DEF InboxInv
<1> QED BY InboxInvariant, <1>1, PTL

\* send_or_reuse: a second status message follows a crash in the middle of a send or
\* the purge of the ledger row, and nothing else.
THEOREM SecondSendExplained == Spec => []SendsExplained
<1>1. InboxInv => SendsExplained BY DEF InboxInv, LedgerKnows, SendsExplained
<1> QED BY InboxInvariant, <1>1, PTL

\* submit_url: whoever was told that a link is accepted has a queued or ended job.
THEOREM AcceptedLinkQueued == Spec => []AcceptedLinkIsQueued
<1>1. InboxInv => AcceptedLinkIsQueued
  BY DEF InboxInv, LinkIsQueued, QueuedOrEnded, AcceptedLinkIsQueued
<1> QED BY InboxInvariant, <1>1, PTL

\* handler_failed: a handler that keeps failing is given up, and only deaths of the
\* process prolong its life.
THEOREM RunsBounded == Spec => []RunsAreBounded
<1>1. InboxInv => RunsAreBounded BY DEF InboxInv, StartsCounted, RunsAreBounded
<1> QED BY InboxInvariant, <1>1, PTL

\* record, start_processing, purge_retention: an update that ended is never run again.
THEOREM EndedIsFinal == Spec => EndedNeverRuns
<1> DEFINE Ended == EndStates \union {"purged"}
<1>1. ASSUME InboxInv, [Next]_vars, NEW u \in Update, inbox[u] \in Ended
      PROVE  inbox'[u] \in {inbox[u], "purged"} /\ starts'[u] = starts[u]
  <2> USE <1>1 DEF EndStates, inboxVars, botVars, historyVars
  <2>1. CASE UpdateArrives \/ Crash \/ Start \/ FetchBatch \/ FetchNothing
    BY <2>1 DEF UpdateArrives, Crash, Start, StartBot, FetchBatch, FetchNothing
  <2>2. CASE Recorder
    <3>1. ASSUME NEW s \in {"received", "terminal_failure"}, Recording, Insert(next, s)
          PROVE  inbox'[u] = inbox[u]
      BY <3>1, InsertKeepsPrefix
    <3>2. CASE RecordNext BY <3>1, <3>2 DEF RecordNext
    <3>3. CASE QuarantineNext BY <3>1, <3>3 DEF QuarantineNext
    <3>4. CASE Barrier \/ AdvanceOffset BY <3>4 DEF Barrier, AdvanceOffset
    <3> QED BY <2>2, <3>2, <3>3, <3>4 DEF Recorder
  <2>3. ASSUME NEW v \in Update, FeedUpdate(v)
        PROVE  inbox'[u] = inbox[u] /\ starts'[u] = starts[u]
    <3>1. v # u
      BY <2>3 DEF FeedUpdate, Oldest, InboxInv, HeldIsPending, Pending, PendingStates
    <3> QED BY <2>3, <3>1 DEF FeedUpdate, StartProcessing, InboxInv, TypeOK, InboxTypeOK
  <2>4. ASSUME NEW v \in Update, Handler(v)
        PROVE  inbox'[u] = inbox[u] /\ starts'[u] = starts[u]
    <3>1. v # u
      BY <2>4, HandlerFrame, Numbers DEF InboxInv, HeldIsPending
    <3> QED BY <2>4, <3>1, HandlerFrame DEF InboxInv, HandlerKeeps
  <2>5. ASSUME NEW v \in Update, JobEnds(v) \/ MaintainLedger(v) \/ QuarantineStale(v)
        PROVE  inbox'[u] = inbox[u] /\ starts'[u] = starts[u]
    BY <2>5 DEF JobEnds, MaintainLedger, QuarantineStale
  <2>6. ASSUME NEW v \in Update, MaintainInbox(v)
        PROVE  inbox'[u] \in {inbox[u], "purged"} /\ starts'[u] = starts[u]
    BY <2>6 DEF MaintainInbox, PurgeUpdate, InboxInv, TypeOK, InboxTypeOK
  <2>7. CASE UNCHANGED vars BY <2>7 DEF vars
  <2> QED BY <2>1, <2>2, <2>3, <2>4, <2>5, <2>6, <2>7 DEF Next
<1>2. InboxInv /\ [Next]_vars
        => [\A u \in Update : inbox[u] \in EndStates \union {"purged"}
             => inbox'[u] \in {inbox[u], "purged"} /\ starts'[u] = starts[u]]_vars
  BY <1>1
<1> QED BY InboxInvariant, <1>2, PTL DEF Spec, EndedNeverRuns
\* The run order behind Telegram's order: who never ran is held, or will be fetched again.
THEOREM OrderInvariant == Spec => [](InboxInv /\ OrderInv)
<1>1. Init => OrderInv
  BY Numbers DEF Init, OrderInv, FirstRunsInOrder, Fresh, InboxInit, Zeros
<1>2. InboxInv /\ OrderInv /\ [Next]_vars => OrderInv'
  BY OrderStep
<1> QED BY InboxInvariant, <1>1, <1>2, PTL DEF Spec

\* Phase 3 (durable_poll) and the replay keep Telegram's order: the first run of a handler
\* never overtakes an earlier update, unless that one was entombed, or given up while its
\* row waited beyond the replay limit.
THEOREM FirstRunsKeepOrder == Spec => []FirstRunsInOrder
<1>1. OrderInv => FirstRunsInOrder BY DEF OrderInv
<1> QED BY OrderInvariant, <1>1, PTL
=============================================================================
