----------------------------- MODULE AuditOutbox -----------------------------
(***************************************************************************)
(* The operator logger: typed events, one outbox row per event and         *)
(* destination, and dispatchers that lease rows, send them to Telegram and *)
(* record what came of it.  The worker's cron starts a dispatcher every    *)
(* thirty seconds whether or not an earlier one is still sending; admins   *)
(* and restarts change the destinations meanwhile.  Time is kept as the    *)
(* ticks a lease or a pause has left.                                      *)
(***************************************************************************)
EXTENDS Naturals, FiniteSets, Sequences

CONSTANTS
  Event,        \* audit events
  Output,       \* those that mirror delivered files; the others are reports
  Pieces,       \* messages an output event copies
  Ascending,    \* outputs whose message ids ascend, so that copyMessages takes them together
  Destination,  \* logger channels
  Dispatcher,   \* cron runs that may overlap
  BatchLimit,   \* rows a dispatcher claims
  MaxAttempts,  \* sqlite_audit._MAX_ATTEMPTS
  Lease,        \* ticks of a lease
  MaxAdmin      \* bound on changes of the destinations

ASSUME OutboxAssumption ==
  /\ Output \subseteq Event /\ Pieces \in [Output -> Nat \ {0}] /\ Ascending \subseteq Output
  /\ BatchLimit \in Nat \ {0} /\ MaxAttempts \in Nat \ {0} /\ Lease \in Nat \ {0}
  /\ MaxAdmin \in Nat

VARIABLES
  dest,        \* logger_destinations
  events,      \* audit_events
  outbox,      \* logger_outbox
  dispatcher,  \* the cron runs under way
  landed,      \* history: times an event's first message reached a destination
  meddled      \* changes of the destinations so far

outboxVars == <<dest, events, outbox, dispatcher, landed, meddled>>

-----------------------------------------------------------------------------
(* Rows.                                                                   *)
Health == {"active", "unreachable", "forbidden", "disabled"}
Destinations == [config: BOOLEAN, runtime: BOOLEAN, enabled: BOOLEAN, health: Health]
Unknown == [config |-> FALSE, runtime |-> FALSE, enabled |-> FALSE, health |-> "disabled"]

Owned(d) == dest[d].config \/ dest[d].runtime
Usable(d) == dest[d].enabled /\ dest[d].health \in {"active", "unreachable"} /\ Owned(d)

States == {"none", "pending", "leased", "sending", "retryable", "succeeded", "uncertain",
           "failed_terminal"}
BeforeSend == {"pending", "retryable", "leased"}
Settled == {"succeeded", "uncertain", "failed_terminal"}

\* left: ticks until a lease ends, or until a retry is due.
NoEffect == [state |-> "none", attempts |-> 0, left |-> 0]
Effects == Event \X Destination

Idle == [pc |-> "idle", todo |-> {}, item |-> <<>>, attempt |-> 0, calls |-> <<>>,
         done |-> FALSE, outcome |-> "none"]

OutboxInit ==
  /\ \E configured \in SUBSET Destination :
       dest = [d \in Destination |-> IF d \in configured
                 THEN [config |-> TRUE, runtime |-> FALSE, enabled |-> TRUE, health |-> "active"]
                 ELSE Unknown]
  /\ events = {}
  /\ outbox = [x \in Effects |-> NoEffect]
  /\ dispatcher = [k \in Dispatcher |-> Idle]
  /\ landed = [x \in Effects |-> 0]
  /\ meddled = 0

\* Mutant: a leased effect is left to its dispatcher.
TerminalizeUnleased(rows, D) ==
  [x \in Effects |-> IF x[2] \in D /\ rows[x].state \in {"pending", "retryable"}
                     THEN [rows[x] EXCEPT !.state = "failed_terminal", !.left = 0] ELSE rows[x]]

\* What has not crossed the send boundary is given up with its destination.
Terminalize(rows, D) ==
  [x \in Effects |-> IF x[2] \in D /\ rows[x].state \in BeforeSend
                     THEN [rows[x] EXCEPT !.state = "failed_terminal", !.left = 0] ELSE rows[x]]

\* An event is stored once; rows are made for the destinations usable at that moment.
Enqueue(e) ==
  /\ events' = events \union {e}
  /\ outbox' = IF e \in events THEN outbox
               ELSE [x \in Effects |-> IF x[1] = e /\ Usable(x[2])
                       THEN [NoEffect EXCEPT !.state = "pending"] ELSE outbox[x]]

Emit(e) ==
  /\ e \notin events
  /\ Enqueue(e)
  /\ UNCHANGED <<dest, dispatcher, landed, meddled>>

-----------------------------------------------------------------------------
(* Destinations.                                                           *)
Meddle == meddled < MaxAdmin /\ meddled' = meddled + 1
ChangeDestination(d, row) == dest' = [dest EXCEPT ![d] = row]
destinationOnly == <<events, dispatcher, landed>>

\* At every start of the bot and of the worker.
ReconcileConfig(desired) ==
  /\ Meddle
  /\ dest' = [d \in Destination |->
       IF d \in desired THEN [dest[d] EXCEPT !.config = TRUE, !.enabled = TRUE,
              !.health = IF @ = "disabled" THEN "active" ELSE @]
       ELSE IF dest[d].runtime THEN [dest[d] EXCEPT !.config = FALSE]
       ELSE Unknown]
  /\ outbox' = Terminalize(outbox, {d \in Destination : d \notin desired /\ ~dest[d].runtime})
  /\ UNCHANGED destinationOnly

AddDestination(d) ==
  /\ Meddle
  /\ ChangeDestination(d, [dest[d] EXCEPT !.runtime = TRUE, !.enabled = TRUE, !.health = "active"])
  /\ UNCHANGED <<outbox, destinationOnly>>

RemoveDestination(d) ==
  /\ Meddle /\ dest[d].runtime
  /\ ChangeDestination(d, [dest[d] EXCEPT !.runtime = FALSE, !.enabled = dest[d].config,
       !.health = IF dest[d].config THEN "active" ELSE "disabled"])
  /\ outbox' = IF dest[d].config THEN outbox ELSE Terminalize(outbox, {d})
  /\ UNCHANGED destinationOnly

SetEnabled(d, on) ==
  /\ Meddle /\ Owned(d)
  /\ ChangeDestination(d, [dest[d] EXCEPT !.enabled = on,
                                          !.health = IF on THEN "active" ELSE "disabled"])
  /\ outbox' = IF on THEN outbox ELSE Terminalize(outbox, {d})
  /\ UNCHANGED destinationOnly

\* An admin's probe of the channel; forbidden gives up what waits for it.
RecordProbeHealth(d, health) ==
  /\ Meddle /\ Owned(d) /\ health \in Health \ {"disabled"}
  /\ ChangeDestination(d, [dest[d] EXCEPT !.health = health])
  /\ outbox' = IF health = "forbidden" THEN Terminalize(outbox, {d}) ELSE outbox
  /\ UNCHANGED destinationOnly

-----------------------------------------------------------------------------
(* A dispatcher.                                                           *)
dispatchOnly == <<events, landed, meddled>>
Set(k, run) == dispatcher' = [dispatcher EXCEPT ![k] = run]
Rest(k) == [Idle EXCEPT !.pc = "next", !.todo = dispatcher[k].todo]
Resume(k) == Set(k, Rest(k))

\* Mutant: a send whose lease has ended counts as not sent.
RecoverAllLeases(k) ==
  /\ dispatcher[k].pc = "idle"
  /\ outbox' = [x \in Effects |->
       IF outbox[x].left = 0 /\ outbox[x].state \in {"leased", "sending"}
       THEN [outbox[x] EXCEPT !.state = "retryable"] ELSE outbox[x]]
  /\ Set(k, [Idle EXCEPT !.pc = "claim"])
  /\ UNCHANGED <<dest, dispatchOnly>>

\* Mutant: a send that nobody will answer for is left as it is.
RecoverLeasedOnly(k) ==
  /\ dispatcher[k].pc = "idle"
  /\ outbox' = [x \in Effects |->
       IF outbox[x].left = 0 /\ outbox[x].state = "leased"
       THEN [outbox[x] EXCEPT !.state = "retryable"] ELSE outbox[x]]
  /\ Set(k, [Idle EXCEPT !.pc = "claim"])
  /\ UNCHANGED <<dest, dispatchOnly>>

RecoverExpiredLeases(k) ==
  /\ dispatcher[k].pc = "idle"
  /\ outbox' = [x \in Effects |->
       IF outbox[x].left = 0 /\ outbox[x].state = "leased"
       THEN [outbox[x] EXCEPT !.state = "retryable"]
       ELSE IF outbox[x].left = 0 /\ outbox[x].state = "sending"
       THEN [outbox[x] EXCEPT !.state = "uncertain"] ELSE outbox[x]]
  /\ Set(k, [Idle EXCEPT !.pc = "claim"])
  /\ UNCHANGED <<dest, dispatchOnly>>

Claimable == {x \in Effects : /\ outbox[x].state \in {"pending", "retryable"}
                              /\ outbox[x].left = 0 /\ Usable(x[2])}

\* The lease token is told apart by the attempt it was made for.
ClaimPending(k) ==
  /\ dispatcher[k].pc = "claim"
  /\ \E batch \in SUBSET Claimable :
       /\ Cardinality(batch) <= BatchLimit
       /\ batch = Claimable \/ Cardinality(batch) = BatchLimit
       /\ outbox' = [x \in Effects |-> IF x \in batch
            THEN [state |-> "leased", attempts |-> outbox[x].attempts + 1, left |-> Lease]
            ELSE outbox[x]]
       /\ Set(k, [Idle EXCEPT !.pc = "next",
                    !.todo = {<<x, outbox[x].attempts + 1>> : x \in batch}])
  /\ UNCHANGED <<dest, dispatchOnly>>

Holds(x, attempt, state) == outbox[x].state = state /\ outbox[x].attempts = attempt

\* A report is one call.  An output is copied run by run of ascending ids, and each copy of a run
\* gets its caption by a call of its own.
Calls(e) ==
  IF e \notin Output THEN <<"send">>
  ELSE IF e \in Ascending /\ Pieces[e] > 1
       THEN <<"copies">> \o [i \in 1..Pieces[e] |-> "caption"]
       ELSE [i \in 1..Pieces[e] |-> "copy"]

MarkSendStarted(k, x, attempt) ==
  /\ dispatcher[k].pc = "next" /\ <<x, attempt>> \in dispatcher[k].todo
  /\ IF Holds(x, attempt, "leased")
     THEN /\ outbox' = [outbox EXCEPT ![x].state = "sending"]
          /\ Set(k, [Idle EXCEPT !.pc = "send", !.todo = dispatcher[k].todo \ {<<x, attempt>>},
                       !.item = x, !.attempt = attempt, !.calls = Calls(x[1])])
     ELSE /\ Set(k, [dispatcher[k] EXCEPT !.todo = @ \ {<<x, attempt>>}])
          /\ UNCHANGED outbox
  /\ UNCHANGED <<dest, dispatchOnly>>

Outcome(answer, done) ==
  CASE answer = "retry after" /\ ~done -> "retryable"
    [] answer = "refused" /\ ~done -> "failed_terminal"
    [] OTHER -> "uncertain"

\* External: Telegram takes a call, refuses it, or leaves it without an answer.  "short" is a
\* copyMessages that copied fewer than it was asked to.
Answers(call) == {"ok", "retry after", "refused", "no answer"}
                   \union (IF call = "copies" THEN {"short"} ELSE {})
Deliver(k, answer) ==
  LET run == dispatcher[k] IN
  /\ run.pc = "send" /\ answer \in Answers(Head(run.calls))
  /\ \E arrives \in BOOLEAN :
       /\ answer \in {"ok", "short"} => arrives
       /\ answer \in {"retry after", "refused"} => ~arrives
       /\ landed' = IF arrives /\ Len(run.calls) = Len(Calls(run.item[1]))
                    THEN [landed EXCEPT ![run.item] = @ + 1] ELSE landed
  /\ Set(k, IF answer # "ok" THEN [run EXCEPT !.pc = "result", !.outcome = Outcome(answer, run.done)]
            ELSE IF Len(run.calls) > 1
            THEN [run EXCEPT !.calls = Tail(@), !.done = TRUE]
            ELSE [run EXCEPT !.pc = "result", !.outcome = "succeeded"])
  /\ UNCHANGED <<dest, events, outbox, meddled>>

\* An output without a source, a user or captions, and a report of a retired type, end without a call
\* and say nothing of the channel.  Which events these are is left open.
RefuseContent(k) ==
  LET run == dispatcher[k] IN
  /\ run.pc = "send" /\ run.calls = Calls(run.item[1])
  /\ Set(k, [run EXCEPT !.pc = "result", !.outcome = "content"])
  /\ UNCHANGED <<dest, outbox, dispatchOnly>>

\* The limit turns one more failure into the last.
Verdict(run) ==
  IF run.outcome = "content" \/ (run.outcome = "retryable" /\ run.attempt >= MaxAttempts)
  THEN "failed_terminal" ELSE run.outcome

\* A stale lease raises, and with it the whole batch ends.
RecordOutcome(k) ==
  LET run == dispatcher[k] IN
  /\ run.pc = "result"
  /\ IF Holds(run.item, run.attempt, "sending")
     THEN /\ outbox' = [outbox EXCEPT ![run.item].state = Verdict(run),
                ![run.item].left = IF Verdict(run) = "retryable" THEN 1 ELSE 0]
          /\ Set(k, IF run.outcome \in {"uncertain", "content"} THEN Rest(k)
                    ELSE [run EXCEPT !.pc = "health", !.outcome = Verdict(run)])
     ELSE Set(k, Idle) /\ UNCHANGED outbox
  /\ UNCHANGED <<dest, dispatchOnly>>

\* What the outcome says of the channel, in a transaction of its own.
RecordHealth(k) ==
  LET run == dispatcher[k]
      d == run.item[2] IN
  /\ run.pc = "health"
  /\ ChangeDestination(d, [dest[d] EXCEPT !.health =
       CASE run.outcome = "succeeded" -> "active"
         [] run.outcome = "retryable" -> "unreachable"
         [] run.outcome = "failed_terminal" -> "forbidden"])
  /\ outbox' = IF run.outcome = "failed_terminal" THEN Terminalize(outbox, {d}) ELSE outbox
  /\ Resume(k)
  /\ UNCHANGED dispatchOnly

EndBatch(k) ==
  /\ dispatcher[k].pc = "next" /\ dispatcher[k].todo = {}
  /\ Set(k, Idle)
  /\ UNCHANGED <<dest, outbox, dispatchOnly>>

\* job_timeout cancels the run, or the worker dies.
DispatcherDies(k) ==
  /\ Meddle /\ dispatcher[k].pc # "idle"
  /\ Set(k, Idle)
  /\ UNCHANGED <<dest, outbox, events, landed>>

\* Time passes while Telegram is waited for, and while nothing is leased.
Tick ==
  /\ \A k \in Dispatcher : /\ dispatcher[k].pc \notin {"result", "health"}
                            /\ dispatcher[k].pc = "next" => dispatcher[k].todo = {}
  /\ \E x \in Effects : outbox[x].left > 0
  /\ outbox' = [x \in Effects |-> [outbox[x] EXCEPT !.left = IF @ > 0 THEN @ - 1 ELSE 0]]
  /\ UNCHANGED <<dest, dispatcher, dispatchOnly>>

DispatchStep(k) ==
  \/ ClaimPending(k)
  \/ \E leased \in dispatcher[k].todo : MarkSendStarted(k, leased[1], leased[2])
  \/ \E answer \in {"ok", "retry after", "refused", "no answer", "short"} : Deliver(k, answer)
  \/ RefuseContent(k) \/ RecordOutcome(k) \/ RecordHealth(k) \/ EndBatch(k)

Admin ==
  \/ \E desired \in SUBSET Destination : ReconcileConfig(desired)
  \/ \E d \in Destination :
       \/ AddDestination(d) \/ RemoveDestination(d)
       \/ \E on \in BOOLEAN : SetEnabled(d, on)
       \/ \E health \in Health : RecordProbeHealth(d, health)

OutboxStep ==
  \/ \E k \in Dispatcher : RecoverExpiredLeases(k) \/ DispatchStep(k) \/ DispatcherDies(k)
  \/ Admin
  \/ Tick

OutboxNext == OutboxStep \/ \E e \in Event : Emit(e)
OutboxSpec == OutboxInit /\ [][OutboxNext]_outboxVars

\* The cron keeps starting dispatchers, a dispatcher goes on unless it dies, Telegram's calls end
\* by their timeout, and time passes.
OutboxFairness ==
  /\ WF_outboxVars(Tick)
  /\ \A k \in Dispatcher :
       WF_outboxVars(RecoverExpiredLeases(k)) /\ WF_outboxVars(DispatchStep(k))

-----------------------------------------------------------------------------
(* Properties.                                                             *)
Outcomes == {"none", "succeeded", "retryable", "uncertain", "failed_terminal", "content"}
OutboxTypeOK ==
  /\ dest \in [Destination -> Destinations]
  /\ events \subseteq Event
  /\ outbox \in [Effects -> [state: States, attempts: Nat, left: Nat]]
  /\ \A k \in Dispatcher :
       /\ dispatcher[k].pc \in {"idle", "claim", "next", "send", "result", "health"}
       /\ dispatcher[k].outcome \in Outcomes
       /\ dispatcher[k].todo \subseteq Effects \X Nat
  /\ landed \in [Effects -> Nat]

\* An event reaches a channel at most once, over overlapping dispatchers, leases that end while
\* Telegram is waited for, refused and unanswered calls, deaths and retries; and a row that may
\* still be sent has not arrived.
LandsAtMostOnce ==
  \A x \in Effects :
    /\ landed[x] <= 1
    /\ landed[x] = 1 => outbox[x].state \in {"sending", "succeeded", "uncertain"}
    /\ outbox[x].state = "succeeded" => landed[x] = 1

\* No send begins to a channel that was disabled, removed or found forbidden, though its rows may
\* have been leased before that.
ClosedChannelsAreQuiet ==
  [][\A x \in Effects : outbox[x].state # "sending" /\ outbox'[x].state = "sending"
                           => Usable(x[2])]_outboxVars

\* Every effect ends, unless its channel is closed: no dispatcher's death, stale lease or pause
\* leaves a row behind.
EffectWaits(x) == outbox[x].state \in BeforeSend \union {"sending"}
EffectSettled(x) == outbox[x].state \in Settled \/ ~Usable(x[2])
=============================================================================
