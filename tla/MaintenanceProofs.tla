------------------------- MODULE MaintenanceProofs -------------------------
(***************************************************************************)
(* The operator logger: what is proved of its outbox (AuditOutbox) and of  *)
(* the intents that feed it (OutputMirror).                                *)
(***************************************************************************)
EXTENDS OutputMirror, SequenceTheorems, TLAPS

(***************************************************************************)
(* The outbox.                                                             *)
(***************************************************************************)

CallNames == {"send", "copies", "caption", "copy"}
Rows == [state : States, attempts : Nat, left : Nat]
Runs == [pc : {"idle", "claim", "next", "send", "result", "health"},
         todo : SUBSET (Effects \X Nat), item : Effects \union {<<>>}, attempt : Nat,
         calls : Seq(CallNames), done : BOOLEAN, outcome : Outcomes]

OutboxShape ==
  /\ dest \in [Destination -> Destinations] /\ events \subseteq Event
  /\ outbox \in [Effects -> Rows] /\ landed \in [Effects -> Nat]
  /\ dispatcher \in [Dispatcher -> Runs]

\* An event without a row is unknown, and only rows of usable channels are leased.
RowsOK ==
  \A x \in Effects : /\ x[1] \notin events => outbox[x].state = "none"
                     /\ outbox[x].state = "leased" => Usable(x[2])

\* A dispatcher that sends is the only one on its row, which nobody else gives back; the
\* first message of the event has arrived when the first call was answered.
RunOK(k) ==
  LET run == dispatcher[k]
      x == run.item
  IN /\ run.pc \in {"send", "result"} =>
          x \in Effects /\ outbox[x].state \in {"sending", "uncertain"}
     /\ run.pc = "send" =>
          /\ 1 <= Len(run.calls) /\ Len(run.calls) <= Len(Calls(x[1]))
          /\ landed[x] = IF Len(run.calls) = Len(Calls(x[1])) THEN 0 ELSE 1
          /\ run.done <=> Len(run.calls) # Len(Calls(x[1]))
     /\ run.pc = "result" =>
          /\ run.outcome # "none"
          /\ run.outcome = "succeeded" => landed[x] = 1
          /\ run.outcome \in {"retryable", "failed_terminal", "content"} => landed[x] = 0
     /\ run.pc = "health" =>
          x \in Effects /\ run.outcome \in {"succeeded", "retryable", "failed_terminal"}

OneSender ==
  \A k, m \in Dispatcher :
    /\ k # m /\ dispatcher[k].pc \in {"send", "result"} /\ dispatcher[m].pc \in {"send", "result"}
    => dispatcher[k].item # dispatcher[m].item

OutboxInv ==
  /\ OutboxShape /\ RowsOK /\ OneSender /\ LandsAtMostOnce
  /\ \A k \in Dispatcher : RunOK(k)

\* An event is sent by at least one call.
LEMMA CallsLength ==
  ASSUME NEW e \in Event
  PROVE  Calls(e) \in Seq(CallNames) /\ 1 <= Len(Calls(e))
<1>1. CASE e \notin Output
  BY <1>1 DEF Calls, CallNames
<1>2. CASE e \in Output
  <2> DEFINE n == Pieces[e]
  <2>1. n \in Nat \ {0} BY <1>2, OutboxAssumption
  <2>2. /\ [i \in 1..n |-> "caption"] \in Seq(CallNames) /\ Len([i \in 1..n |-> "caption"]) = n
        /\ [i \in 1..n |-> "copy"] \in Seq(CallNames) /\ Len([i \in 1..n |-> "copy"]) = n
    BY <2>1 DEF CallNames
  <2>3. <<"copies">> \in Seq(CallNames) /\ Len(<<"copies">>) = 1 BY DEF CallNames
  <2> DEFINE captions == [i \in 1..n |-> "caption"]
  <2>4. <<"copies">> \o captions \in Seq(CallNames) /\ Len(<<"copies">> \o captions) = 1 + n
    <3> HIDE DEF captions, n
    <3>1. captions \in Seq(CallNames) /\ Len(captions) = n BY <2>2 DEF captions, n
    <3> QED BY <3>1, <2>3
  <2> QED BY <1>2, <2>1, <2>2, <2>4 DEF Calls
<1> QED BY <1>1, <1>2

\* Closing a channel gives up what waits for it, and nothing else.
LEMMA TerminalizeRows ==
  ASSUME NEW D, outbox \in [Effects -> Rows]
  PROVE  LET given == Terminalize(outbox, D) IN
         /\ given \in [Effects -> Rows]
         /\ \A x \in Effects : \/ given[x] = outbox[x]
                               \/ /\ outbox[x].state \in BeforeSend
                                  /\ given[x].state = "failed_terminal"
         /\ \A x \in Effects : x[2] \in D => given[x].state \notin BeforeSend
<1>1. \A r \in Rows : [r EXCEPT !.state = "failed_terminal", !.left = 0] \in Rows
  BY DEF Rows, States
<1>2. \A r \in Rows : [r EXCEPT !.state = "failed_terminal", !.left = 0].state = "failed_terminal"
  BY DEF Rows
<1> QED BY <1>1, <1>2 DEF Terminalize, BeforeSend

\* Every change of a destination's record yields a destination's record.
LEMMA DestinationsClosed ==
  /\ Unknown \in Destinations
  /\ \A r \in Destinations, a, b \in BOOLEAN, h \in Health :
       /\ [r EXCEPT !.runtime = a, !.enabled = b, !.health = h] \in Destinations
       /\ [r EXCEPT !.config = a, !.enabled = b, !.health = h] \in Destinations
       /\ [r EXCEPT !.enabled = b, !.health = h] \in Destinations
       /\ [r EXCEPT !.health = h] \in Destinations
       /\ [r EXCEPT !.config = a] \in Destinations
<1>1. Unknown \in Destinations BY DEF Destinations, Unknown, Health
<1>2. ASSUME NEW r \in Destinations, NEW a \in BOOLEAN, NEW b \in BOOLEAN, NEW h \in Health
      PROVE  /\ [r EXCEPT !.runtime = a, !.enabled = b, !.health = h] \in Destinations
             /\ [r EXCEPT !.config = a, !.enabled = b, !.health = h] \in Destinations
             /\ [r EXCEPT !.enabled = b, !.health = h] \in Destinations
             /\ [r EXCEPT !.health = h] \in Destinations
             /\ [r EXCEPT !.config = a] \in Destinations
  <2> USE DEF Destinations
  <2>1. [r EXCEPT !.runtime = a, !.enabled = b, !.health = h] \in Destinations BY <1>2
  <2>2. [r EXCEPT !.config = a, !.enabled = b, !.health = h] \in Destinations BY <1>2
  <2>3. [r EXCEPT !.enabled = b, !.health = h] \in Destinations BY <1>2
  <2>4. [r EXCEPT !.health = h] \in Destinations BY <1>2
  <2>5. [r EXCEPT !.config = a] \in Destinations BY <1>2
  <2> HIDE DEF Destinations
  <2> QED BY <2>1, <2>2, <2>3, <2>4, <2>5
<1> QED BY <1>1, <1>2

\* The rows of a channel that an admin changes: what is leased stays for a usable channel.
LEMMA AdminStep ==
  ASSUME OutboxShape, RowsOK, Admin
  PROVE  /\ dest' \in [Destination -> Destinations] /\ outbox' \in [Effects -> Rows]
         /\ \A x \in Effects : \/ outbox'[x] = outbox[x]
                               \/ /\ outbox[x].state \in BeforeSend
                                  /\ outbox'[x].state = "failed_terminal"
         /\ \A x \in Effects : outbox'[x].state = "leased" => Usable(x[2])'
         /\ UNCHANGED <<events, dispatcher, landed>>
<1> DEFINE Goal ==
      /\ dest' \in [Destination -> Destinations] /\ outbox' \in [Effects -> Rows]
      /\ \A x \in Effects : \/ outbox'[x] = outbox[x]
                            \/ /\ outbox[x].state \in BeforeSend
                               /\ outbox'[x].state = "failed_terminal"
      /\ \A x \in Effects : outbox'[x].state = "leased" => Usable(x[2])'
<1>t. outbox \in [Effects -> Rows] /\ dest \in [Destination -> Destinations]
  BY DEF OutboxShape
<1>h. {"active", "unreachable", "forbidden", "disabled"} = Health BY DEF Health
<1>1. ASSUME NEW D \in SUBSET Destination, outbox' = Terminalize(outbox, D),
             dest' \in [Destination -> Destinations],
             \A d \in Destination \ D : Usable(d) => Usable(d)'
      PROVE  Goal
  <2>1. \A x \in Effects : x[2] \in Destination BY DEF Effects
  <2>2. ASSUME NEW x \in Effects, outbox'[x].state = "leased" PROVE Usable(x[2])'
    <3>1. x[2] \notin D /\ outbox'[x] = outbox[x]
      BY <1>1, <1>t, <2>2, TerminalizeRows DEF BeforeSend
    <3> QED BY <1>1, <2>1, <2>2, <3>1 DEF RowsOK
  <2> QED BY <1>1, <1>t, <2>2, TerminalizeRows
<1>2. ASSUME UNCHANGED outbox, dest' \in [Destination -> Destinations],
             \A d \in Destination : Usable(d) => Usable(d)'
      PROVE  Goal
  <2>1. \A x \in Effects : x[2] \in Destination BY DEF Effects
  <2> QED BY <1>2, <1>t, <2>1 DEF RowsOK
<1>3. ASSUME NEW desired \in SUBSET Destination, ReconcileConfig(desired) PROVE Goal
  <2> DEFINE D == {d \in Destination : d \notin desired /\ ~dest[d].runtime}
  <2>1. dest' \in [Destination -> Destinations]
    <3>1. \A d \in Destination :
            /\ [dest[d] EXCEPT !.config = TRUE, !.enabled = TRUE,
                  !.health = IF dest[d].health = "disabled" THEN "active" ELSE dest[d].health]
               \in Destinations
            /\ [dest[d] EXCEPT !.config = FALSE] \in Destinations
      <4> TAKE d \in Destination
      <4>1. dest[d] \in Destinations /\ dest[d].health \in Health
        BY <1>t DEF Destinations
      <4> QED BY <4>1, <1>h, DestinationsClosed
    <3>2. dest' = [d \in Destination |->
            IF d \in desired THEN [dest[d] EXCEPT !.config = TRUE, !.enabled = TRUE,
              !.health = IF dest[d].health = "disabled" THEN "active" ELSE dest[d].health]
            ELSE IF dest[d].runtime THEN [dest[d] EXCEPT !.config = FALSE]
            ELSE Unknown]
      BY <1>3 DEF ReconcileConfig
    <3> QED BY <3>1, <3>2, DestinationsClosed
  <2>2. \A d \in Destination \ D : Usable(d) => Usable(d)'
    BY <1>3, <1>t DEF ReconcileConfig, Usable, Owned, Destinations
  <2>3. D \in SUBSET Destination OBVIOUS
  <2>4. outbox' = Terminalize(outbox, D) BY <1>3 DEF ReconcileConfig
  <2> QED BY <1>1, <2>1, <2>2, <2>3, <2>4
<1>4. ASSUME NEW d \in Destination, AddDestination(d) PROVE Goal
  <2>1. dest' = [dest EXCEPT ![d] =
          [dest[d] EXCEPT !.runtime = TRUE, !.enabled = TRUE, !.health = "active"]]
    BY <1>4 DEF AddDestination, ChangeDestination
  <2>2. dest' \in [Destination -> Destinations]
    BY <1>h, <1>t, <2>1, DestinationsClosed
  <2>3. \A b \in Destination : Usable(b) => Usable(b)'
    BY <1>t, <2>1 DEF Usable, Owned, Destinations
  <2> QED BY <1>2, <1>4, <2>2, <2>3 DEF AddDestination
<1>5. ASSUME NEW d \in Destination, RemoveDestination(d) PROVE Goal
  <2>1. dest' = [dest EXCEPT ![d] = [dest[d] EXCEPT !.runtime = FALSE, !.enabled = dest[d].config,
                   !.health = IF dest[d].config THEN "active" ELSE "disabled"]]
    BY <1>5 DEF RemoveDestination, ChangeDestination
  <2>2. dest' \in [Destination -> Destinations]
    <3>1. dest[d].config \in BOOLEAN /\ dest[d] \in Destinations BY <1>t DEF Destinations
    <3> QED BY <1>h, <1>t, <2>1, <3>1, DestinationsClosed
  <2>3. \A b \in Destination \ {d} : Usable(b) => Usable(b)'
    BY <1>t, <2>1 DEF Usable, Owned
  <2>4. CASE dest[d].config
    <3>1. Usable(d)' BY <1>t, <2>1, <2>4 DEF Usable, Owned, Destinations
    <3> QED BY <1>2, <1>5, <2>2, <2>3, <2>4, <3>1 DEF RemoveDestination
  <2>5. CASE ~dest[d].config
    <3>1. outbox' = Terminalize(outbox, {d}) BY <1>5, <2>5 DEF RemoveDestination
    <3>2. {d} \in SUBSET Destination OBVIOUS
    <3> HIDE DEF Goal
    <3> QED BY <1>1, <2>2, <2>3, <3>1, <3>2
  <2> QED BY <2>4, <2>5
<1>6. ASSUME NEW d \in Destination, NEW on \in BOOLEAN, SetEnabled(d, on) PROVE Goal
  <2>1. dest' = [dest EXCEPT ![d] = [dest[d] EXCEPT !.enabled = on,
                   !.health = IF on THEN "active" ELSE "disabled"]]
    BY <1>6 DEF SetEnabled, ChangeDestination
  <2>2. dest' \in [Destination -> Destinations]
    BY <1>h, <1>t, <2>1, DestinationsClosed
  <2>3. \A b \in Destination \ {d} : Usable(b) => Usable(b)'
    BY <1>t, <2>1 DEF Usable, Owned
  <2>4. CASE on
    <3>1. Usable(d) => Usable(d)' BY <1>t, <2>1, <2>4 DEF Usable, Owned, Destinations
    <3> QED BY <1>2, <1>6, <2>2, <2>3, <2>4, <3>1 DEF SetEnabled
  <2>5. CASE ~on
    <3>1. outbox' = Terminalize(outbox, {d}) BY <1>6, <2>5 DEF SetEnabled
    <3>2. {d} \in SUBSET Destination OBVIOUS
    <3> HIDE DEF Goal
    <3> QED BY <1>1, <2>2, <2>3, <3>1, <3>2
  <2> QED BY <2>4, <2>5
<1>7. ASSUME NEW d \in Destination, NEW health \in Health, RecordProbeHealth(d, health) PROVE Goal
  <2>1. /\ dest' = [dest EXCEPT ![d] = [dest[d] EXCEPT !.health = health]]
        /\ health # "disabled"
    BY <1>7 DEF RecordProbeHealth, ChangeDestination
  <2>2. dest' \in [Destination -> Destinations]
    BY <1>t, <2>1, DestinationsClosed
  <2>3. \A b \in Destination \ {d} : Usable(b) => Usable(b)'
    BY <1>t, <2>1 DEF Usable, Owned
  <2>4. CASE health # "forbidden"
    <3>1. Usable(d) => Usable(d)' BY <1>t, <2>1, <2>4 DEF Usable, Owned, Destinations, Health
    <3> QED BY <1>2, <1>7, <2>2, <2>3, <2>4, <3>1 DEF RecordProbeHealth
  <2>5. CASE health = "forbidden"
    <3>1. outbox' = Terminalize(outbox, {d}) BY <1>7, <2>5 DEF RecordProbeHealth
    <3>2. {d} \in SUBSET Destination OBVIOUS
    <3> HIDE DEF Goal
    <3> QED BY <1>1, <2>2, <2>3, <3>1, <3>2
  <2> QED BY <2>4, <2>5
<1>8. UNCHANGED <<events, dispatcher, landed>>
  BY DEF Admin, ReconcileConfig, AddDestination, RemoveDestination, SetEnabled, RecordProbeHealth,
         destinationOnly
<1>9. Goal
  <2> HIDE DEF Goal
  <2> QED BY <1>3, <1>4, <1>5, <1>6, <1>7 DEF Admin
<1> QED BY <1>8, <1>9

\* Every move of a dispatcher yields a dispatcher's record.
LEMMA RunsClosed ==
  /\ Idle \in Runs
  /\ [Idle EXCEPT !.pc = "claim"] \in Runs
  /\ \A todo \in SUBSET (Effects \X Nat) : [Idle EXCEPT !.pc = "next", !.todo = todo] \in Runs
  /\ \A r \in Runs, todo \in SUBSET (Effects \X Nat) : [r EXCEPT !.todo = todo] \in Runs
  /\ \A r \in Runs, outcome \in Outcomes, pc \in {"result", "health"} :
       [r EXCEPT !.pc = pc, !.outcome = outcome] \in Runs
  /\ \A r \in Runs, calls \in Seq(CallNames) : [r EXCEPT !.calls = calls, !.done = TRUE] \in Runs
  /\ \A todo \in SUBSET (Effects \X Nat), x \in Effects, n \in Nat, calls \in Seq(CallNames) :
       [Idle EXCEPT !.pc = "send", !.todo = todo, !.item = x, !.attempt = n, !.calls = calls] \in Runs
<1>1. <<>> \in Seq(CallNames) OBVIOUS
<1> USE <1>1 DEF Idle, Runs, Outcomes
<1>2. Idle \in Runs /\ [Idle EXCEPT !.pc = "claim"] \in Runs OBVIOUS
<1>3. \A todo \in SUBSET (Effects \X Nat) : [Idle EXCEPT !.pc = "next", !.todo = todo] \in Runs
  OBVIOUS
<1>4. \A r \in Runs, todo \in SUBSET (Effects \X Nat) : [r EXCEPT !.todo = todo] \in Runs OBVIOUS
<1>5. \A r \in Runs, outcome \in Outcomes, pc \in {"result", "health"} :
        [r EXCEPT !.pc = pc, !.outcome = outcome] \in Runs
  OBVIOUS
<1>6. \A r \in Runs, calls \in Seq(CallNames) : [r EXCEPT !.calls = calls, !.done = TRUE] \in Runs
  BY ZenonT(30)
<1>7. \A todo \in SUBSET (Effects \X Nat), x \in Effects, n \in Nat, calls \in Seq(CallNames) :
        [Idle EXCEPT !.pc = "send", !.todo = todo, !.item = x, !.attempt = n, !.calls = calls]
          \in Runs
  OBVIOUS
<1> HIDE DEF Idle, Runs, Outcomes
<1> QED BY <1>2, <1>3, <1>4, <1>5, <1>6, <1>7

\* Rows that move within what has not been sent, or are given up, or whose send nobody answers
\* for; and dispatchers that do not send.
Moved(x) ==
  \/ outbox'[x].state = outbox[x].state
  \/ /\ outbox[x].state \in BeforeSend \/ (outbox[x].state = "none" /\ x[1] \in events')
     /\ outbox'[x].state \in BeforeSend \union {"failed_terminal"}
  \/ outbox[x].state = "sending" /\ outbox'[x].state = "uncertain"

\* The invariant is kept when every row moves as the store allows and every dispatcher rests
\* or leaves what it was sending.
LEMMA RowsMove ==
  ASSUME OutboxInv, OutboxShape', events \subseteq events', landed' = landed,
         \A x \in Effects : Moved(x),
         \A x \in Effects : outbox'[x].state = "leased" => Usable(x[2])',
         \A k \in Dispatcher : \/ dispatcher'[k] = dispatcher[k]
                               \/ dispatcher'[k].pc \notin {"send", "result", "health"}
  PROVE  OutboxInv'
<1> USE DEF OutboxInv, BeforeSend, Moved
<1>1. RowsOK' BY DEF RowsOK
<1>2. OneSender' BY DEF OneSender
<1>3. LandsAtMostOnce' BY DEF LandsAtMostOnce
<1>4. ASSUME NEW k \in Dispatcher PROVE RunOK(k)'
  <2>1. CASE dispatcher'[k] = dispatcher[k]
    <3>1. RunOK(k) OBVIOUS
    <3>2. ASSUME dispatcher[k].item \in Effects,
                 outbox[dispatcher[k].item].state \in {"sending", "uncertain"}
          PROVE  outbox'[dispatcher[k].item].state \in {"sending", "uncertain"}
      BY <3>2
    <3> QED BY <2>1, <3>1, <3>2 DEF RunOK
  <2>2. CASE dispatcher'[k].pc \notin {"send", "result", "health"}
    BY <2>2 DEF RunOK
  <2> QED BY <2>1, <2>2
<1> QED BY <1>1, <1>2, <1>3, <1>4

\* An event that is stored now gets its rows now.
LEMMA EnqueueStep ==
  ASSUME OutboxInv, NEW e \in Event, Enqueue(e),
         UNCHANGED <<dest, landed>>,
         dispatcher' = dispatcher \/ dispatcher' = [k \in Dispatcher |-> Idle]
  PROVE  OutboxInv'
<1>1. [NoEffect EXCEPT !.state = "pending"] \in Rows
      /\ [NoEffect EXCEPT !.state = "pending"].state = "pending"
  BY DEF NoEffect, Rows, States
<1>2. outbox \in [Effects -> Rows] /\ dispatcher' \in [Dispatcher -> Runs]
  BY RunsClosed DEF OutboxInv, OutboxShape
<1>3. /\ outbox' \in [Effects -> Rows]
      /\ \A x \in Effects : \/ outbox'[x] = outbox[x]
                            \/ /\ x[1] = e /\ e \notin events
                               /\ outbox'[x].state = "pending"
  BY <1>1, <1>2 DEF Enqueue
<1>4. OutboxShape'
  BY <1>2, <1>3 DEF OutboxInv, OutboxShape, Enqueue
<1>5. \A x \in Effects : Moved(x)
  BY <1>3 DEF OutboxInv, RowsOK, Enqueue, Moved, BeforeSend
<1>6. \A x \in Effects : outbox'[x].state = "leased" => Usable(x[2])'
  BY <1>3 DEF OutboxInv, RowsOK, Usable, Owned
<1>7. \A k \in Dispatcher : dispatcher'[k] = dispatcher[k] \/ dispatcher'[k].pc = "idle"
  BY DEF Idle
<1> QED BY <1>4, <1>5, <1>6, <1>7, RowsMove DEF Enqueue

\* Admins, leases that end, claims, ends and deaths.
LEMMA QuietStep ==
  ASSUME OutboxInv,
         \/ Admin \/ Tick
         \/ \E k \in Dispatcher : \/ RecoverExpiredLeases(k) \/ ClaimPending(k) \/ RecordHealth(k)
                                  \/ EndBatch(k) \/ DispatcherDies(k)
  PROVE  OutboxInv'
<1>t. /\ outbox \in [Effects -> Rows] /\ dispatcher \in [Dispatcher -> Runs] /\ OutboxShape
      /\ \A x \in Effects : outbox[x] \in Rows /\ x[2] \in Destination
      /\ \A k \in Dispatcher : dispatcher[k] \in Runs /\ dispatcher[k].todo \in SUBSET (Effects \X Nat)
  BY DEF OutboxInv, OutboxShape, Runs, Effects
<1>c. /\ \A r \in Rows, state \in States : /\ [r EXCEPT !.state = state] \in Rows
                                          /\ [r EXCEPT !.state = state].state = state
      /\ \A r \in Rows, left \in Nat : /\ [r EXCEPT !.left = left] \in Rows
                                       /\ [r EXCEPT !.left = left].state = r.state
      /\ \A n \in Nat : [state |-> "leased", attempts |-> n, left |-> Lease] \in Rows
  BY OutboxAssumption DEF Rows, States
<1>1. CASE Admin
  <2>1. OutboxShape' BY <1>1, <1>t, AdminStep DEF OutboxShape, OutboxInv
  <2>2. \A x \in Effects : Moved(x) BY <1>1, <1>t, AdminStep DEF OutboxInv, Moved
  <2> QED BY <1>1, <1>t, <2>1, <2>2, AdminStep, RowsMove DEF OutboxInv
<1>2. CASE Tick
  <2>1. \A x \in Effects : outbox[x].left \in Nat /\ (outbox[x].left > 0 => outbox[x].left - 1 \in Nat)
    BY <1>t DEF Rows
  <2>2. outbox' = [x \in Effects |->
          [outbox[x] EXCEPT !.left = IF outbox[x].left > 0 THEN outbox[x].left - 1 ELSE 0]]
    BY <1>2 DEF Tick
  <2>3. outbox' \in [Effects -> Rows] /\ \A x \in Effects : outbox'[x].state = outbox[x].state
    <3> DEFINE left(x) == IF outbox[x].left > 0 THEN outbox[x].left - 1 ELSE 0
    <3>1. \A x \in Effects : left(x) \in Nat BY <2>1
    <3>2. outbox' = [x \in Effects |-> [outbox[x] EXCEPT !.left = left(x)]] BY <2>2
    <3> HIDE DEF left
    <3>3. ASSUME NEW x \in Effects
          PROVE  /\ [outbox[x] EXCEPT !.left = left(x)] \in Rows
                 /\ [outbox[x] EXCEPT !.left = left(x)].state = outbox[x].state
      BY <1>t, <1>c, <3>1
    <3> QED BY <3>2, <3>3
  <2>4. UNCHANGED <<dest, dispatcher, events, landed>> BY <1>2 DEF Tick, dispatchOnly
  <2>5. OutboxShape' BY <1>t, <2>3, <2>4 DEF OutboxShape
  <2>6. \A x \in Effects : Moved(x) BY <2>3 DEF Moved
  <2>7. \A x \in Effects : outbox'[x].state = "leased" => Usable(x[2])'
    BY <2>3, <2>4 DEF OutboxInv, RowsOK, Usable, Owned
  <2> QED BY <2>4, <2>5, <2>6, <2>7, RowsMove
<1>3. ASSUME NEW k \in Dispatcher, RecoverExpiredLeases(k) PROVE OutboxInv'
  <2>1. /\ outbox' \in [Effects -> Rows]
        /\ \A x \in Effects : \/ outbox'[x] = outbox[x]
                              \/ outbox[x].state = "leased" /\ outbox'[x].state = "retryable"
                              \/ outbox[x].state = "sending" /\ outbox'[x].state = "uncertain"
    BY <1>3, <1>t, <1>c DEF RecoverExpiredLeases, States
  <2>2. /\ dispatcher' = [dispatcher EXCEPT ![k] = [Idle EXCEPT !.pc = "claim"]]
        /\ [Idle EXCEPT !.pc = "claim"].pc = "claim"
        /\ UNCHANGED <<dest, events, landed>>
    BY <1>3 DEF RecoverExpiredLeases, Set, dispatchOnly, Idle
  <2>3. OutboxShape' BY <1>t, <2>1, <2>2, RunsClosed DEF OutboxShape
  <2>4. \A x \in Effects : Moved(x) BY <2>1 DEF Moved, BeforeSend
  <2>5. \A x \in Effects : outbox'[x].state = "leased" => Usable(x[2])'
    BY <2>1, <2>2 DEF OutboxInv, RowsOK, Usable, Owned
  <2>6. \A m \in Dispatcher : dispatcher'[m] = dispatcher[m] \/ dispatcher'[m].pc = "claim"
    BY <1>t, <2>2
  <2> QED BY <2>2, <2>3, <2>4, <2>5, <2>6, RowsMove
<1>4. ASSUME NEW k \in Dispatcher, ClaimPending(k) PROVE OutboxInv'
  <2>1. PICK batch \in SUBSET Claimable :
          /\ outbox' = [x \in Effects |-> IF x \in batch
               THEN [state |-> "leased", attempts |-> outbox[x].attempts + 1, left |-> Lease]
               ELSE outbox[x]]
          /\ Set(k, [Idle EXCEPT !.pc = "next",
                       !.todo = {<<x, outbox[x].attempts + 1>> : x \in batch}])
    BY <1>4 DEF ClaimPending
  <2>2. \A x \in Effects : outbox[x].attempts + 1 \in Nat BY <1>t DEF Rows
  <2>3. /\ outbox' \in [Effects -> Rows]
        /\ \A x \in Effects : \/ outbox'[x] = outbox[x]
                              \/ /\ outbox[x].state \in {"pending", "retryable"} /\ Usable(x[2])
                                 /\ outbox'[x].state = "leased"
    BY <1>t, <1>c, <2>1, <2>2 DEF Claimable
  <2> DEFINE todo == {<<x, outbox[x].attempts + 1>> : x \in batch}
             run == [Idle EXCEPT !.pc = "next", !.todo = todo]
  <2>4. run \in Runs /\ run.pc = "next"
    <3>1. todo \in SUBSET (Effects \X Nat) BY <2>2 DEF Claimable
    <3>2. run.pc = "next" BY DEF Idle
    <3> QED BY <3>1, <3>2, RunsClosed
  <2>5. UNCHANGED <<dest, events, landed>> BY <1>4 DEF ClaimPending, dispatchOnly
  <2>6. dispatcher' = [dispatcher EXCEPT ![k] = run] BY <2>1 DEF Set
  <2> HIDE DEF run
  <2>7. OutboxShape' BY <1>t, <2>3, <2>4, <2>5, <2>6 DEF OutboxShape
  <2>8. \A x \in Effects : Moved(x) BY <2>3 DEF Moved, BeforeSend
  <2>9. \A x \in Effects : outbox'[x].state = "leased" => Usable(x[2])'
    BY <2>3, <2>5 DEF OutboxInv, RowsOK, Usable, Owned
  <2>10. \A m \in Dispatcher : dispatcher'[m] = dispatcher[m] \/ dispatcher'[m].pc = "next"
    BY <1>t, <2>4, <2>6
  <2> QED BY <2>5, <2>7, <2>8, <2>9, <2>10, RowsMove
<1>5. ASSUME NEW k \in Dispatcher, RecordHealth(k) PROVE OutboxInv'
  <2>0. PICK d \in Destination : d = dispatcher[k].item[2]
    BY <1>5 DEF RecordHealth, OutboxInv, RunOK, Effects
  <2> DEFINE outcome == dispatcher[k].outcome
             health == CASE outcome = "succeeded" -> "active"
                         [] outcome = "retryable" -> "unreachable"
                         [] outcome = "failed_terminal" -> "forbidden"
  <2>1. /\ dispatcher[k].item \in Effects /\ d \in Destination
        /\ outcome \in {"succeeded", "retryable", "failed_terminal"}
    BY <1>5 DEF RecordHealth, OutboxInv, RunOK, Effects
  <2>2. /\ health \in Health /\ (outcome # "failed_terminal" => health \in {"active", "unreachable"})
    BY <2>1 DEF Health
  <2>3. dest' = [dest EXCEPT ![d] = [dest[d] EXCEPT !.health = health]]
    BY <1>5, <2>0 DEF RecordHealth, ChangeDestination
  <2> HIDE DEF health
  <2>4. dest' \in [Destination -> Destinations]
    BY <1>t, <2>1, <2>2, <2>3, DestinationsClosed DEF OutboxShape
  <2>5. \A b \in Destination \ {d} : Usable(b) => Usable(b)'
    BY <1>t, <2>3 DEF Usable, Owned, OutboxShape
  <2>6. outcome # "failed_terminal" => (Usable(d) => Usable(d)')
    BY <1>t, <2>1, <2>2, <2>3 DEF Usable, Owned, OutboxShape, Destinations
  <2>7. outbox' = IF outcome = "failed_terminal" THEN Terminalize(outbox, {d}) ELSE outbox
    BY <1>5, <2>0 DEF RecordHealth
  <2>8. /\ outbox' \in [Effects -> Rows]
        /\ \A x \in Effects : \/ outbox'[x] = outbox[x]
                              \/ /\ outbox[x].state \in BeforeSend
                                 /\ outbox'[x].state = "failed_terminal"
        /\ outcome = "failed_terminal" =>
             \A x \in Effects : x[2] = d => outbox'[x].state \notin BeforeSend
    <3> HIDE DEF outcome
    <3> QED BY <1>t, <2>7, TerminalizeRows
  <2>9. \A x \in Effects : outbox'[x].state = "leased" => Usable(x[2])'
    BY <1>t, <2>5, <2>6, <2>8 DEF OutboxInv, RowsOK, BeforeSend
  <2>10. /\ dispatcher' = [dispatcher EXCEPT ![k] = Rest(k)] /\ Rest(k) \in Runs
         /\ Rest(k).pc = "next"
    <3>1. Rest(k) \in Runs BY <1>t, RunsClosed DEF Rest
    <3>2. Rest(k).pc = "next" BY DEF Rest, Idle
    <3> QED BY <1>5, <3>1, <3>2 DEF RecordHealth, Resume, Set
  <2>11. UNCHANGED <<events, landed>> BY <1>5 DEF RecordHealth, dispatchOnly
  <2>12. OutboxShape' BY <1>t, <2>4, <2>8, <2>10, <2>11 DEF OutboxShape
  <2>13. \A x \in Effects : Moved(x) BY <2>8 DEF Moved
  <2>14. \A m \in Dispatcher : dispatcher'[m] = dispatcher[m] \/ dispatcher'[m].pc = "next"
    BY <1>t, <2>10
  <2> QED BY <2>9, <2>11, <2>12, <2>13, <2>14, RowsMove
<1>6. ASSUME NEW k \in Dispatcher, EndBatch(k) \/ DispatcherDies(k) PROVE OutboxInv'
  <2>1. /\ dispatcher' = [dispatcher EXCEPT ![k] = Idle] /\ Idle.pc = "idle"
        /\ UNCHANGED <<dest, outbox, events, landed>>
    BY <1>6 DEF EndBatch, DispatcherDies, Set, dispatchOnly, Idle
  <2>2. OutboxShape' BY <1>t, <2>1, RunsClosed DEF OutboxShape
  <2>3. \A x \in Effects : Moved(x) BY <2>1 DEF Moved
  <2>4. \A x \in Effects : outbox'[x].state = "leased" => Usable(x[2])'
    BY <2>1 DEF OutboxInv, RowsOK, Usable, Owned
  <2>5. \A m \in Dispatcher : dispatcher'[m] = dispatcher[m] \/ dispatcher'[m].pc = "idle"
    BY <1>t, <2>1
  <2> QED BY <2>1, <2>2, <2>3, <2>4, <2>5, RowsMove
<1> QED BY <1>1, <1>2, <1>3, <1>4, <1>5, <1>6

\* A dispatcher that still holds the lease starts to send: nothing of the event has arrived.
LEMMA StartStep ==
  ASSUME OutboxInv, NEW k \in Dispatcher, NEW x, NEW n, MarkSendStarted(k, x, n)
  PROVE  OutboxInv'
<1>t. /\ outbox \in [Effects -> Rows] /\ dispatcher \in [Dispatcher -> Runs] /\ OutboxShape
      /\ dispatcher[k] \in Runs /\ dispatcher[k].todo \in SUBSET (Effects \X Nat)
      /\ x \in Effects /\ n \in Nat /\ x[1] \in Event
      /\ dispatcher[k].pc = "next" /\ UNCHANGED <<dest, events, landed, meddled>>
  BY DEF OutboxInv, OutboxShape, Runs, MarkSendStarted, Effects, dispatchOnly
<1> DEFINE rest == dispatcher[k].todo \ {<<x, n>>}
<1>r. rest \in SUBSET (Effects \X Nat) BY <1>t
<1>1. CASE ~Holds(x, n, "leased")
  <2>1. dispatcher' = [dispatcher EXCEPT ![k] = [dispatcher[k] EXCEPT !.todo = rest]]
        /\ UNCHANGED outbox
    BY <1>1 DEF MarkSendStarted, Set
  <2>2. [dispatcher[k] EXCEPT !.todo = rest] \in Runs
        /\ [dispatcher[k] EXCEPT !.todo = rest].pc = "next"
    <3>1. [dispatcher[k] EXCEPT !.todo = rest] \in Runs BY <1>t, <1>r, RunsClosed
    <3>2. [dispatcher[k] EXCEPT !.todo = rest].pc = "next" BY <1>t DEF Runs
    <3> QED BY <3>1, <3>2
  <2> HIDE DEF rest
  <2>3. OutboxShape' BY <1>t, <2>1, <2>2 DEF OutboxShape
  <2>4. \A y \in Effects : Moved(y) BY <2>1 DEF Moved
  <2>5. \A y \in Effects : outbox'[y].state = "leased" => Usable(y[2])'
    BY <1>t, <2>1 DEF OutboxInv, RowsOK, Usable, Owned
  <2>6. \A m \in Dispatcher : dispatcher'[m] = dispatcher[m] \/ dispatcher'[m].pc = "next"
    BY <1>t, <2>1, <2>2
  <2> QED BY <1>t, <2>3, <2>4, <2>5, <2>6, RowsMove
<1>2. CASE Holds(x, n, "leased")
  <2> DEFINE run == [Idle EXCEPT !.pc = "send", !.todo = rest, !.item = x, !.attempt = n,
                                 !.calls = Calls(x[1])]
  <2>1. /\ dispatcher' = [dispatcher EXCEPT ![k] = run]
        /\ outbox' = [outbox EXCEPT ![x].state = "sending"] /\ outbox[x].state = "leased"
    BY <1>2 DEF MarkSendStarted, Set, Holds
  <2>2. /\ run \in Runs /\ run.pc = "send" /\ run.item = x /\ run.calls = Calls(x[1])
        /\ run.done = FALSE
    BY <1>t, <1>r, RunsClosed, CallsLength DEF Idle
  <2> HIDE DEF run, rest
  <2>3. /\ outbox' \in [Effects -> Rows] /\ outbox'[x].state = "sending"
        /\ \A y \in Effects \ {x} : outbox'[y] = outbox[y]
    <3>1. [outbox[x] EXCEPT !.state = "sending"] \in Rows
          /\ [outbox[x] EXCEPT !.state = "sending"].state = "sending"
      BY <1>t DEF Rows, States
    <3>2. outbox' = [outbox EXCEPT ![x] = [outbox[x] EXCEPT !.state = "sending"]] BY <2>1
    <3> QED BY <1>t, <3>1, <3>2
  <2>4. dispatcher'[k] = run /\ \A m \in Dispatcher \ {k} : dispatcher'[m] = dispatcher[m]
    BY <1>t, <2>1
  <2>5. landed[x] = 0
    BY <1>t, <2>1 DEF OutboxInv, LandsAtMostOnce, OutboxShape
  <2>6. \A m \in Dispatcher : dispatcher[m].pc \in {"send", "result"} => dispatcher[m].item # x
    BY <2>1 DEF OutboxInv, RunOK
  <2>7. OutboxShape' BY <1>t, <2>1, <2>2, <2>3 DEF OutboxShape
  <2>8. RowsOK' BY <1>t, <2>1, <2>3 DEF OutboxInv, RowsOK, Usable, Owned
  <2>9. OneSender' BY <2>2, <2>4, <2>6 DEF OutboxInv, OneSender
  <2>10. LandsAtMostOnce' BY <1>t, <2>3, <2>5 DEF OutboxInv, LandsAtMostOnce
  <2>11. ASSUME NEW m \in Dispatcher PROVE RunOK(m)'
    <3>1. CASE m = k
      <4>1. 1 <= Len(Calls(x[1])) BY <1>t, CallsLength
      <4>2. Len(Calls(x[1])) \in Nat BY <1>t, CallsLength
      <4> QED BY <1>t, <2>2, <2>3, <2>4, <2>5, <3>1, <4>1, <4>2 DEF RunOK
    <3>2. CASE m # k
      <4>1. RunOK(m) /\ dispatcher'[m] = dispatcher[m] BY <2>4, <3>2 DEF OutboxInv
      <4> QED BY <1>t, <2>1, <2>3, <4>1 DEF RunOK
    <3> QED BY <3>1, <3>2
  <2> QED BY <2>7, <2>8, <2>9, <2>10, <2>11 DEF OutboxInv
<1> QED BY <1>1, <1>2

\* A call: the first one that is answered is the one the event arrives with.
LEMMA CallStep ==
  ASSUME OutboxInv, NEW k \in Dispatcher, RefuseContent(k) \/ \E answer : Deliver(k, answer)
  PROVE  OutboxInv'
<1> DEFINE run == dispatcher[k]
           all == Len(Calls(run.item[1]))
<1>t. /\ outbox \in [Effects -> Rows] /\ dispatcher \in [Dispatcher -> Runs] /\ OutboxShape
      /\ run \in Runs /\ run.pc = "send" /\ UNCHANGED <<dest, events, outbox>>
  BY DEF OutboxInv, OutboxShape, RefuseContent, Deliver, dispatchOnly
<1>x. PICK x \in Effects : x = run.item
  BY <1>t DEF OutboxInv, RunOK
<1>e. x[1] \in Event BY DEF Effects
<1>a. all \in Nat /\ all = Len(Calls(x[1])) /\ Len(run.calls) \in Nat /\ landed[x] \in Nat
      /\ run.calls \in Seq(CallNames) /\ landed \in [Effects -> Nat]
  BY <1>t, <1>x, <1>e, CallsLength DEF Runs, OutboxShape
<1>b. /\ 1 <= Len(run.calls) /\ Len(run.calls) <= all
      /\ landed[x] = IF Len(run.calls) = all THEN 0 ELSE 1
      /\ run.done <=> Len(run.calls) # all
      /\ outbox[x].state \in {"sending", "uncertain"}
  BY <1>t, <1>x DEF OutboxInv, RunOK
<1>o. \A m \in Dispatcher : m # k /\ dispatcher[m].pc \in {"send", "result"} => dispatcher[m].item # x
  BY <1>t, <1>x DEF OutboxInv, OneSender
<1>h. /\ LandsAtMostOnce /\ RowsOK /\ \A m \in Dispatcher : RunOK(m)
  BY DEF OutboxInv
\* What is left to show of any answer.
<1>1. ASSUME NEW next \in Runs, dispatcher' = [dispatcher EXCEPT ![k] = next],
             next.item = x, next.pc \in {"send", "result"},
             NEW count \in {0, 1}, landed' = [landed EXCEPT ![x] = count],
             outbox[x].state = "failed_terminal" => count = 0,
             next.pc = "send" => /\ 1 <= Len(next.calls) /\ Len(next.calls) <= all
                                 /\ count = IF Len(next.calls) = all THEN 0 ELSE 1
                                 /\ (next.done <=> Len(next.calls) # all),
             next.pc = "result" =>
               /\ next.outcome # "none"
               /\ next.outcome = "succeeded" => count = 1
               /\ next.outcome \in {"retryable", "failed_terminal", "content"} => count = 0
      PROVE  OutboxInv'
  <2>1. /\ dispatcher'[k] = next /\ \A m \in Dispatcher \ {k} : dispatcher'[m] = dispatcher[m]
        /\ landed'[x] = count /\ \A y \in Effects \ {x} : landed'[y] = landed[y]
        /\ landed' \in [Effects -> Nat]
    BY <1>t, <1>a, <1>1
  <2>2. OutboxShape' BY <1>t, <1>1, <2>1 DEF OutboxShape
  <2>3. RowsOK' BY <1>t, <1>h DEF RowsOK, Usable, Owned
  <2>4. OneSender' BY <1>o, <1>1, <2>1 DEF OutboxInv, OneSender
  <2>5. LandsAtMostOnce' BY <1>t, <1>b, <1>h, <1>1, <2>1 DEF LandsAtMostOnce
  <2>6. ASSUME NEW m \in Dispatcher PROVE RunOK(m)'
    <3>1. CASE m = k
      BY <1>t, <1>a, <1>b, <1>1, <2>1, <3>1 DEF RunOK
    <3>2. CASE m # k
      <4>1. /\ RunOK(m) /\ dispatcher'[m] = dispatcher[m]
            /\ dispatcher[m].pc \in {"send", "result"} =>
                 dispatcher[m].item \in Effects /\ landed'[dispatcher[m].item] = landed[dispatcher[m].item]
        BY <1>h, <1>o, <2>1, <3>2 DEF RunOK
      <4> QED BY <1>t, <4>1 DEF RunOK
    <3> QED BY <3>1, <3>2
  <2> QED BY <2>2, <2>3, <2>4, <2>5, <2>6 DEF OutboxInv
<1>s. landed = [landed EXCEPT ![x] = landed[x]] BY <1>a
<1>2. CASE RefuseContent(k)
  <2> DEFINE next == [run EXCEPT !.pc = "result", !.outcome = "content"]
  <2>1. /\ next \in Runs /\ next.item = x /\ next.pc = "result" /\ next.outcome = "content"
    <3>1. "content" \in Outcomes BY DEF Outcomes
    <3>2. next \in Runs BY <1>t, <3>1, RunsClosed
    <3>3. next.item = x /\ next.pc = "result" /\ next.outcome = "content" BY <1>t, <1>x DEF Runs
    <3> QED BY <3>2, <3>3
  <2>2. /\ dispatcher' = [dispatcher EXCEPT ![k] = next] /\ landed' = landed
        /\ run.calls = Calls(run.item[1])
    BY <1>2 DEF RefuseContent, Set, dispatchOnly
  <2>3. landed[x] = 0 BY <1>b, <2>2
  <2> HIDE DEF next, run, all
  <2> QED BY <1>1, <1>s, <2>1, <2>2, <2>3
<1>3. ASSUME NEW answer, Deliver(k, answer) PROVE OutboxInv'
  <2>1. PICK arrives \in BOOLEAN :
          /\ answer \in {"ok", "short"} => arrives
          /\ answer \in {"retry after", "refused"} => ~arrives
          /\ landed' = IF arrives /\ Len(run.calls) = Len(Calls(run.item[1]))
                       THEN [landed EXCEPT ![run.item] = @ + 1] ELSE landed
    BY <1>3 DEF Deliver
  <2>a. arrives /\ Len(run.calls) = all => landed' = [landed EXCEPT ![run.item] = @ + 1]
    BY <2>1
  <2>2. PICK count \in {0, 1} :
          /\ landed' = [landed EXCEPT ![x] = count]
          /\ Len(run.calls) # all => count = 1
          /\ Len(run.calls) = all => count = IF arrives THEN 1 ELSE 0
    <3>1. CASE arrives /\ Len(run.calls) = all
      <4>1. landed[x] = 0 BY <1>b, <3>1
      <4>2. landed' = [landed EXCEPT ![x] = 1] BY <1>a, <1>x, <2>a, <3>1, <4>1
      <4> QED BY <3>1, <4>2
    <3>2. CASE ~(arrives /\ Len(run.calls) = all)
      <4>1. landed' = [landed EXCEPT ![x] = landed[x]] BY <1>s, <2>1, <3>2
      <4> QED BY <1>b, <3>2, <4>1
    <3> QED BY <3>1, <3>2
  <2>3. CASE answer # "ok"
    <3> DEFINE next == [run EXCEPT !.pc = "result", !.outcome = Outcome(answer, run.done)]
    <3>1. /\ Outcome(answer, run.done) \in {"retryable", "failed_terminal", "uncertain"}
          /\ Outcome(answer, run.done) = "retryable" => answer = "retry after" /\ ~run.done
          /\ Outcome(answer, run.done) = "failed_terminal" => answer = "refused" /\ ~run.done
      BY DEF Outcome
    <3>2. /\ next \in Runs /\ next.item = x /\ next.pc = "result"
          /\ next.outcome = Outcome(answer, run.done)
      <4>1. Outcome(answer, run.done) \in Outcomes BY <3>1 DEF Outcomes
      <4>2. next \in Runs BY <1>t, <4>1, RunsClosed
      <4>3. next.item = x /\ next.pc = "result" /\ next.outcome = Outcome(answer, run.done)
        BY <1>t, <1>x DEF Runs
      <4> QED BY <4>2, <4>3
    <3>3. dispatcher' = [dispatcher EXCEPT ![k] = next]
      BY <1>3, <2>3 DEF Deliver, Set
    <3>4. next.outcome \in {"retryable", "failed_terminal", "content"} => count = 0
      BY <1>b, <2>1, <2>2, <3>1, <3>2
    <3>5. next.outcome # "none" /\ next.outcome # "succeeded" BY <3>1, <3>2
    <3> HIDE DEF next, run, all
    <3> QED BY <1>1, <1>b, <2>2, <3>2, <3>3, <3>4, <3>5
  <2>4. CASE answer = "ok" /\ Len(run.calls) > 1
    <3> DEFINE next == [run EXCEPT !.calls = Tail(run.calls), !.done = TRUE]
    <3>1. Tail(run.calls) \in Seq(CallNames) /\ Len(Tail(run.calls)) = Len(run.calls) - 1
      BY <1>a, <2>4
    <3>2. /\ next \in Runs /\ next.item = x /\ next.pc = "send" /\ next.done = TRUE
          /\ Len(next.calls) = Len(run.calls) - 1
      <4>1. next \in Runs BY <1>t, <3>1, RunsClosed
      <4>2. /\ next.item = x /\ next.pc = "send" /\ next.done = TRUE
            /\ next.calls = Tail(run.calls)
        BY <1>t, <1>x DEF Runs
      <4> HIDE DEF next
      <4> QED BY <3>1, <4>1, <4>2
    <3>3. dispatcher' = [dispatcher EXCEPT ![k] = next]
      BY <1>3, <2>4 DEF Deliver, Set
    <3>4. count = 1 BY <2>1, <2>2, <2>4
    <3>5. 1 <= Len(next.calls) /\ Len(next.calls) <= all /\ Len(next.calls) # all
      BY <1>a, <1>b, <2>4, <3>2
    <3> HIDE DEF next, run, all
    <3> QED BY <1>1, <1>b, <2>2, <3>2, <3>3, <3>4, <3>5
  <2>5. CASE answer = "ok" /\ ~(Len(run.calls) > 1)
    <3> DEFINE next == [run EXCEPT !.pc = "result", !.outcome = "succeeded"]
    <3>1. /\ next \in Runs /\ next.item = x /\ next.pc = "result" /\ next.outcome = "succeeded"
      <4>1. "succeeded" \in Outcomes BY DEF Outcomes
      <4>2. next \in Runs BY <1>t, <4>1, RunsClosed
      <4>3. next.item = x /\ next.pc = "result" /\ next.outcome = "succeeded"
        BY <1>t, <1>x DEF Runs
      <4> QED BY <4>2, <4>3
    <3>2. dispatcher' = [dispatcher EXCEPT ![k] = next]
      BY <1>3, <2>5 DEF Deliver, Set
    <3>3. count = 1 BY <2>1, <2>2, <2>5
    <3> HIDE DEF next, run, all
    <3> QED BY <1>1, <1>b, <2>2, <3>1, <3>2, <3>3
  <2> QED BY <2>3, <2>4, <2>5
<1> QED BY <1>2, <1>3

\* What is recorded of a send is what became of it.
LEMMA RecordStep ==
  ASSUME OutboxInv, NEW k \in Dispatcher, RecordOutcome(k)
  PROVE  OutboxInv'
<1> DEFINE run == dispatcher[k]
<1>t. /\ outbox \in [Effects -> Rows] /\ dispatcher \in [Dispatcher -> Runs] /\ OutboxShape
      /\ run \in Runs /\ run.pc = "result" /\ UNCHANGED <<dest, events, landed>>
      /\ landed \in [Effects -> Nat]
  BY DEF OutboxInv, OutboxShape, RecordOutcome, dispatchOnly
<1>x. PICK x \in Effects : x = run.item
  BY <1>t DEF OutboxInv, RunOK
<1>b. /\ run.outcome \in Outcomes \ {"none"}
      /\ run.outcome = "succeeded" => landed[x] = 1
      /\ run.outcome \in {"retryable", "failed_terminal", "content"} => landed[x] = 0
  BY <1>t, <1>x DEF OutboxInv, RunOK, Runs
<1>1. CASE ~Holds(run.item, run.attempt, "sending")
  <2>1. dispatcher' = [dispatcher EXCEPT ![k] = Idle] /\ UNCHANGED outbox /\ Idle.pc = "idle"
    BY <1>1 DEF RecordOutcome, Set, Idle
  <2> HIDE DEF run
  <2>2. OutboxShape' BY <1>t, <2>1, RunsClosed DEF OutboxShape
  <2>3. \A y \in Effects : Moved(y) BY <2>1 DEF Moved
  <2>4. \A y \in Effects : outbox'[y].state = "leased" => Usable(y[2])'
    BY <1>t, <2>1 DEF OutboxInv, RowsOK, Usable, Owned
  <2>5. \A m \in Dispatcher : dispatcher'[m] = dispatcher[m] \/ dispatcher'[m].pc = "idle"
    BY <1>t, <2>1
  <2> QED BY <1>t, <2>1, <2>2, <2>3, <2>4, <2>5, RowsMove
<1>2. CASE Holds(run.item, run.attempt, "sending")
  <2> DEFINE left == IF Verdict(run) = "retryable" THEN 1 ELSE 0
             row == [outbox[x] EXCEPT !.state = Verdict(run), !.left = left]
             next == IF run.outcome \in {"uncertain", "content"} THEN Rest(k)
                     ELSE [run EXCEPT !.pc = "health", !.outcome = Verdict(run)]
  <2>1. /\ Verdict(run) \in {"succeeded", "retryable", "uncertain", "failed_terminal"}
        /\ Verdict(run) = "succeeded" => landed[x] = 1
        /\ Verdict(run) \in {"retryable", "failed_terminal"} => landed[x] = 0
        /\ run.outcome \notin {"uncertain", "content"} => Verdict(run) # "uncertain"
    BY <1>b DEF Verdict, Outcomes
  <2>2. /\ outbox[x].state = "sending"
        /\ outbox' = [outbox EXCEPT ![run.item].state = Verdict(run), ![run.item].left = left]
        /\ dispatcher' = [dispatcher EXCEPT ![k] = next]
    BY <1>2, <1>x DEF RecordOutcome, Set, Holds
  <2>3. row \in Rows /\ row.state = Verdict(run)
    <3>1. outbox[x] \in Rows /\ left \in Nat BY <1>t
    <3>2. Verdict(run) \in States BY <2>1 DEF States
    <3> HIDE DEF left
    <3> QED BY <3>1, <3>2 DEF Rows
  <2>4. outbox' = [outbox EXCEPT ![x] = row]
    BY <1>t, <1>x, <2>2 DEF Rows
  <2>5. next \in Runs /\ (next.pc = "next" \/ (/\ next.pc = "health" /\ next.item = x
                                              /\ next.outcome = Verdict(run)
                                              /\ Verdict(run) # "uncertain"))
    <3>1. CASE run.outcome \in {"uncertain", "content"}
      <4>1. Rest(k) \in Runs /\ Rest(k).pc = "next"
        <5>1. run.todo \in SUBSET (Effects \X Nat) BY <1>t DEF Runs
        <5> QED BY <5>1, RunsClosed DEF Rest, Idle
      <4> QED BY <3>1, <4>1
    <3>2. CASE run.outcome \notin {"uncertain", "content"}
      <4>1. Verdict(run) \in Outcomes BY <2>1 DEF Outcomes
      <4>2. [run EXCEPT !.pc = "health", !.outcome = Verdict(run)] \in Runs
        BY <1>t, <4>1, RunsClosed
      <4>3. /\ [run EXCEPT !.pc = "health", !.outcome = Verdict(run)].pc = "health"
            /\ [run EXCEPT !.pc = "health", !.outcome = Verdict(run)].item = x
            /\ [run EXCEPT !.pc = "health", !.outcome = Verdict(run)].outcome = Verdict(run)
        BY <1>t, <1>x DEF Runs
      <4> QED BY <2>1, <3>2, <4>2, <4>3
    <3> QED BY <3>1, <3>2
  <2>6. \A m \in Dispatcher : m # k /\ dispatcher[m].pc \in {"send", "result"} => dispatcher[m].item # x
    BY <1>t, <1>x DEF OutboxInv, OneSender
  <2>7. x[1] \in events BY <2>2 DEF OutboxInv, RowsOK
  <2> DEFINE verdict == Verdict(run)
  <2>8. PICK w \in {"succeeded", "retryable", "uncertain", "failed_terminal"} : w = verdict
    BY <2>1
  <2> HIDE DEF next, row, run, verdict
  <2>9. /\ outbox'[x] = row /\ \A y \in Effects \ {x} : outbox'[y] = outbox[y]
        /\ dispatcher'[k] = next /\ \A m \in Dispatcher \ {k} : dispatcher'[m] = dispatcher[m]
    BY <1>t, <2>2, <2>4
  <2>10. OutboxShape' BY <1>t, <2>2, <2>3, <2>4, <2>5 DEF OutboxShape
  <2>11. row.state = w /\ (w = "succeeded" => landed[x] = 1)
         /\ (w \in {"retryable", "failed_terminal"} => landed[x] = 0)
         /\ (next.pc = "health" => next.item = x /\ next.outcome = w /\ w # "uncertain")
    BY <2>1, <2>3, <2>5, <2>8 DEF verdict
  <2>12. RowsOK' BY <1>t, <2>7, <2>9, <2>11 DEF OutboxInv, RowsOK, Usable, Owned
  <2>13. OneSender' BY <2>5, <2>9 DEF OutboxInv, OneSender
  <2>14. LandsAtMostOnce' BY <1>t, <2>9, <2>11 DEF OutboxInv, LandsAtMostOnce
  <2>15. ASSUME NEW m \in Dispatcher PROVE RunOK(m)'
    <3>1. CASE m = k
      BY <2>5, <2>9, <2>11, <3>1 DEF RunOK
    <3>2. CASE m # k
      <4>1. /\ RunOK(m) /\ dispatcher'[m] = dispatcher[m]
            /\ dispatcher[m].pc \in {"send", "result"} =>
                 outbox'[dispatcher[m].item] = outbox[dispatcher[m].item]
        BY <2>6, <2>9, <3>2 DEF OutboxInv, RunOK
      <4> QED BY <1>t, <4>1 DEF RunOK
    <3> QED BY <3>1, <3>2
  <2> QED BY <2>10, <2>12, <2>13, <2>14, <2>15 DEF OutboxInv
<1> QED BY <1>1, <1>2

\* Every step of the outbox keeps the invariant.
LEMMA OutboxStepKeeps ==
  ASSUME OutboxInv, OutboxStep
  PROVE  OutboxInv'
BY QuietStep, StartStep, CallStep, RecordStep DEF OutboxStep, DispatchStep

\* The outbox starts empty and its dispatchers idle.
LEMMA OutboxInitially == OutboxInit => OutboxInv
<1> SUFFICES ASSUME OutboxInit PROVE OutboxInv OBVIOUS
<1>1. dest \in [Destination -> Destinations]
  <2>1. [config |-> TRUE, runtime |-> FALSE, enabled |-> TRUE, health |-> "active"] \in Destinations
    BY DEF Destinations, Health
  <2> QED BY <2>1, DestinationsClosed DEF OutboxInit
<1>2. NoEffect \in Rows /\ NoEffect.state = "none" /\ Idle.pc = "idle"
  BY DEF NoEffect, Rows, States, Idle
<1>3. /\ outbox = [x \in Effects |-> NoEffect] /\ landed = [x \in Effects |-> 0] /\ events = {}
      /\ dispatcher = [k \in Dispatcher |-> Idle]
  BY DEF OutboxInit
<1>4. OutboxShape BY <1>1, <1>2, <1>3, RunsClosed DEF OutboxShape
<1>5. RowsOK /\ LandsAtMostOnce BY <1>2, <1>3 DEF RowsOK, LandsAtMostOnce
<1>6. OneSender /\ \A k \in Dispatcher : RunOK(k) BY <1>2, <1>3 DEF OneSender, RunOK
<1> QED BY <1>4, <1>5, <1>6 DEF OutboxInv

\* What leaves the outbox alone keeps the invariant.
LEMMA OutboxRests ==
  ASSUME OutboxInv, UNCHANGED <<dest, events, outbox, dispatcher, landed>>
  PROVE  OutboxInv'
BY DEF OutboxInv, OutboxShape, RowsOK, OneSender, LandsAtMostOnce, RunOK, Usable, Owned

\* The rows of the outbox agree with the dispatchers that lease them (AuditOutbox).
THEOREM OutboxInvariant == OutboxSpec => []OutboxInv
<1>1. ASSUME OutboxInv, NEW e \in Event, Emit(e) PROVE OutboxInv'
  BY <1>1, EnqueueStep DEF Emit
<1>2. OutboxInv /\ [OutboxNext]_outboxVars => OutboxInv'
  BY <1>1, OutboxStepKeeps, OutboxRests DEF OutboxNext, outboxVars
<1> QED BY <1>2, OutboxInitially, PTL DEF OutboxSpec

\* An event reaches a channel at most once (claim, mark_send_started, deliver and record_outcome).
THEOREM EventsLandOnce == OutboxSpec => []LandsAtMostOnce
<1>1. OutboxInv => LandsAtMostOnce BY DEF OutboxInv
<1> QED BY <1>1, OutboxInvariant, PTL

\* A row begins to be sent only while it is leased.
LEMMA OnlyLeasedAreSent ==
  ASSUME OutboxInv, NEW x \in Effects, outbox[x].state # "sending", outbox'[x].state = "sending",
         OutboxNext
  PROVE  outbox[x].state = "leased"
<1>t. outbox \in [Effects -> Rows] /\ \A y \in Effects : outbox[y] \in Rows
  BY DEF OutboxInv, OutboxShape
<1>1. CASE Admin BY <1>1, AdminStep DEF OutboxInv
<1>2. CASE Tick BY <1>2, <1>t DEF Tick, Rows
<1>3. ASSUME NEW k \in Dispatcher, RecoverExpiredLeases(k) PROVE outbox[x].state = "leased"
  BY <1>3, <1>t DEF RecoverExpiredLeases, Rows
<1>4. ASSUME NEW k \in Dispatcher, ClaimPending(k) PROVE outbox[x].state = "leased"
  BY <1>4, <1>t DEF ClaimPending
<1>5. ASSUME NEW k \in Dispatcher, NEW y, NEW n, MarkSendStarted(k, y, n)
      PROVE  outbox[x].state = "leased"
  BY <1>5, <1>t DEF MarkSendStarted, Holds
<1>6. ASSUME NEW k \in Dispatcher, RecordOutcome(k) PROVE outbox[x].state = "leased"
  <2>1. outbox' # outbox BY DEF OutboxInv
  <2>2. /\ dispatcher[k].item \in Effects /\ dispatcher[k].outcome \in Outcomes \ {"none"}
        /\ \E left : outbox' = [outbox EXCEPT ![dispatcher[k].item].state = Verdict(dispatcher[k]),
                                              ![dispatcher[k].item].left = left]
    BY <1>6, <2>1 DEF RecordOutcome, OutboxInv, RunOK, OutboxShape, Runs
  <2>3. Verdict(dispatcher[k]) # "sending" BY <2>2 DEF Verdict, Outcomes
  <2> QED BY <1>t, <2>2, <2>3 DEF Rows
<1>7. ASSUME NEW k \in Dispatcher, RecordHealth(k) PROVE outbox[x].state = "leased"
  BY <1>7, <1>t, TerminalizeRows DEF RecordHealth
<1>8. ASSUME NEW k \in Dispatcher,
             \/ EndBatch(k) \/ DispatcherDies(k) \/ RefuseContent(k) \/ \E answer : Deliver(k, answer)
      PROVE  outbox' = outbox
  BY <1>8 DEF EndBatch, DispatcherDies, RefuseContent, Deliver
<1>9. ASSUME NEW e \in Event, Emit(e) PROVE outbox[x].state = "leased"
  BY <1>9 DEF Emit, Enqueue, NoEffect
<1> QED BY <1>1, <1>2, <1>3, <1>4, <1>5, <1>6, <1>7, <1>8, <1>9
        DEF OutboxNext, OutboxStep, DispatchStep

\* No send begins to a channel that was closed since its row was leased: a channel that is closed
\* gives its leases up.
THEOREM ClosedStayQuiet == OutboxSpec => ClosedChannelsAreQuiet
<1>1. OutboxInv /\ [OutboxNext]_outboxVars
        => [\A x \in Effects : outbox[x].state # "sending" /\ outbox'[x].state = "sending"
                                 => Usable(x[2])]_outboxVars
  BY OnlyLeasedAreSent DEF OutboxInv, RowsOK
<1> QED BY <1>1, OutboxInvariant, PTL DEF OutboxSpec, ClosedChannelsAreQuiet

(***************************************************************************)
(* The intents.                                                            *)
(***************************************************************************)

Statuses == {"queued", "delivering", "uploading", "succeeded", "failed", "uncertain", "gone"}

MirrorShape ==
  /\ job \in [Output -> Statuses] /\ intents \in Seq(Output)
  /\ finalizer = [f \in Finalizers |-> finalizer[f]]
  /\ \A f \in Finalizers : LET run == finalizer[f] IN
       run = [pc |-> run.pc, job |-> run.job, stamp |-> run.stamp, todo |-> run.todo]

\* An intent is closed for an event, for a job that did not succeed, or for one that was requeued
\* since.
Closable(j) == j \in events \/ j \in reopened \/ job[j] \in {"failed", "uncertain", "gone"}

FinalizerOK(f) ==
  LET run == finalizer[f]
  IN /\ run.pc = "emit" => run.job \in Output /\ job[run.job] = "succeeded"
     /\ run.pc = "complete" => run.job \in Output /\ Closable(run.job)

IntentsInv ==
  /\ MirrorShape
  /\ \A j \in events \cap Output : job[j] \in {"succeeded", "gone"}
  /\ completed \subseteq Output /\ \A j \in completed : Closable(j)
  /\ \A f \in Finalizers : FinalizerOK(f)

\* Jobs that move, while finalizers rest or start.
LEMMA JobMoves ==
  ASSUME IntentsInv, NEW j \in Output, NEW status \in Statuses, job' = [job EXCEPT ![j] = status],
         intents' \in Seq(Output), UNCHANGED <<events, completed>>, reopened \subseteq reopened',
         \/ job[j] \in {"queued", "delivering", "uploading"}
         \/ job[j] = "failed" /\ (j \in completed \/ (\E f \in Finalizers : finalizer[f].job = j)
                                    => j \in reopened')
         \/ status = "gone" /\ \A f \in Finalizers : finalizer[f].pc = "idle",
         \/ finalizer' = finalizer
         \/ finalizer' = [finalizer EXCEPT ![j] = [finalizer[j] EXCEPT !.pc = "read", !.job = j]]
  PROVE  IntentsInv'
<1> USE DEF IntentsInv, MirrorShape
<1>1. job' \in [Output -> Statuses] /\ \A i \in Output : job'[i] = IF i = j THEN status ELSE job[i]
  OBVIOUS
<1>2. ASSUME NEW f \in Finalizers PROVE
        \/ finalizer'[f] = finalizer[f]
        \/ /\ finalizer'[f].pc = "read"
           /\ finalizer'[f] = [pc |-> "read", job |-> j, stamp |-> finalizer[f].stamp,
                               todo |-> finalizer[f].todo]
  <2>1. PICK p, o, s, t : finalizer[f] = [pc |-> p, job |-> o, stamp |-> s, todo |-> t]
    OBVIOUS
  <2>3. finalizer[f].stamp = s /\ finalizer[f].todo = t BY <2>1
  <2>4. [finalizer[f] EXCEPT !.pc = "read", !.job = j] =
          [pc |-> "read", job |-> j, stamp |-> finalizer[f].stamp, todo |-> finalizer[f].todo]
    <3>1. [[pc |-> p, job |-> o, stamp |-> s, todo |-> t] EXCEPT !.pc = "read"] =
            [pc |-> "read", job |-> o, stamp |-> s, todo |-> t]
      BY SMTT(30)
    <3>2. [[pc |-> "read", job |-> o, stamp |-> s, todo |-> t] EXCEPT !.job = j] =
            [pc |-> "read", job |-> j, stamp |-> s, todo |-> t]
      OBVIOUS
    <3>3. [[pc |-> p, job |-> o, stamp |-> s, todo |-> t] EXCEPT !.pc = "read", !.job = j] =
            [pc |-> "read", job |-> j, stamp |-> s, todo |-> t]
      BY <3>1, <3>2
    <3> QED BY <2>1, <2>3, <3>3
  <2>5. CASE finalizer' = finalizer BY <2>5
  <2>6. CASE finalizer' = [finalizer EXCEPT ![j] = [finalizer[j] EXCEPT !.pc = "read", !.job = j]]
    <3>1. CASE f = j
      <4>1. finalizer'[f] = [finalizer[f] EXCEPT !.pc = "read", !.job = j] BY <2>6, <3>1, SMTT(30)
      <4>2. finalizer'[f] =
              [pc |-> "read", job |-> j, stamp |-> finalizer[f].stamp, todo |-> finalizer[f].todo]
        BY <2>4, <4>1, Zenon
      <4> QED BY <4>2, SMTT(30)
    <3>2. CASE f # j
      <4>1. finalizer'[f] = finalizer[f] BY <2>6, <3>2
      <4> QED BY <4>1
    <3> QED BY <3>1, <3>2
  <2> QED BY <2>5, <2>6
<1>3. MirrorShape'
  <2>1. finalizer' = [f \in Finalizers |-> finalizer'[f]] OBVIOUS
  <2>2. \A f \in Finalizers : LET run == finalizer'[f] IN
          run = [pc |-> run.pc, job |-> run.job, stamp |-> run.stamp, todo |-> run.todo]
    <3> TAKE f \in Finalizers
    <3>1. CASE finalizer'[f] = finalizer[f] BY <3>1
    <3>2. CASE finalizer'[f] = [pc |-> "read", job |-> j, stamp |-> finalizer[f].stamp,
                                todo |-> finalizer[f].todo]
      BY <3>2
    <3> QED BY <1>2, <3>1, <3>2
  <2> QED BY <1>1, <2>1, <2>2, SMTT(30)
<1>4. \A i \in events' \cap Output : job'[i] \in {"succeeded", "gone"}
  BY <1>1
<1>5. ASSUME NEW i \in Output, Closable(i),
             i = j /\ job[j] = "failed" => j \in reopened' \/ status = "gone"
      PROVE  Closable(i)'
  BY <1>1, <1>5 DEF Closable
<1>6. \A i \in completed' : Closable(i)'
  <2> TAKE i \in completed'
  <2>1. i \in Output /\ Closable(i) /\ i \in completed OBVIOUS
  <2>2. i = j /\ job[j] = "failed" => j \in reopened' \/ status = "gone" BY <2>1
  <2> QED BY <1>5, <2>1, <2>2
<1>7. ASSUME NEW f \in Finalizers PROVE FinalizerOK(f)'
  <2>1. CASE finalizer'[f].pc = "read" BY <2>1 DEF FinalizerOK
  <2>2. CASE finalizer'[f] = finalizer[f]
    <3>1. PICK i : i = finalizer[f].job OBVIOUS
    <3>2. ASSUME finalizer[f].pc = "emit" PROVE i \in Output /\ job'[i] = "succeeded"
      BY <1>1, <3>1, <3>2 DEF FinalizerOK
    <3>3. ASSUME finalizer[f].pc = "complete" PROVE i \in Output /\ Closable(i)'
      <4>1. i \in Output /\ Closable(i) BY <3>1, <3>3 DEF FinalizerOK, Closable
      <4>2. i = j /\ job[j] = "failed" => j \in reopened' \/ status = "gone" BY <3>1, <3>3
      <4> QED BY <1>5, <4>1, <4>2
    <3> QED BY <2>2, <3>1, <3>2, <3>3 DEF FinalizerOK, Closable
  <2> QED BY <1>2, <2>1, <2>2
<1> QED BY <1>3, <1>4, <1>6, <1>7

\* A finalizer that moves: the others, and the jobs, stay.
LEMMA FinalizerMoves ==
  ASSUME IntentsInv, NEW f \in Finalizers, NEW run, At(f, run),
         run = [pc |-> run.pc, job |-> run.job, stamp |-> run.stamp, todo |-> run.todo],
         UNCHANGED <<job, intents, reopened>>,
         events \subseteq events', completed \subseteq completed',
         \A i \in events' \cap Output : job[i] \in {"succeeded", "gone"},
         completed' \subseteq Output, \A i \in completed' \ completed : Closable(i)',
         run.pc = "emit" => run.job \in Output /\ job[run.job] = "succeeded",
         run.pc = "complete" => run.job \in Output /\ Closable(run.job)'
  PROVE  IntentsInv'
<1> USE DEF IntentsInv, MirrorShape
<1>1. finalizer' = [finalizer EXCEPT ![f] = run] BY DEF At
<1>2. \A i : Closable(i) => Closable(i)' BY DEF Closable
<1>3. /\ finalizer'[f] = run
      /\ \A g \in Finalizers \ {f} : finalizer'[g] = finalizer[g]
      /\ finalizer' = [g \in Finalizers |-> finalizer'[g]]
  BY <1>1
<1>4. MirrorShape'
  <2>1. \A g \in Finalizers : LET r == finalizer'[g] IN
          r = [pc |-> r.pc, job |-> r.job, stamp |-> r.stamp, todo |-> r.todo]
    <3> TAKE g \in Finalizers
    <3>1. CASE g = f BY <1>1, <1>3, <3>1
    <3>2. CASE g # f
      <4>1. finalizer'[g] = finalizer[g] BY <1>3, <3>2
      <4> QED BY <4>1
    <3> QED BY <3>1, <3>2
  <2> QED BY <1>3, <2>1
<1>5. ASSUME NEW g \in Finalizers PROVE FinalizerOK(g)'
  <2>1. CASE g = f
    <3> QED BY <1>3, <2>1 DEF FinalizerOK, Closable
  <2>2. CASE g # f
    <3>1. finalizer'[g] = finalizer[g] /\ FinalizerOK(g) BY <1>3, <2>2
    <3>2. PICK i : i = finalizer[g].job OBVIOUS
    <3>3. Closable(i) => Closable(i)' BY <1>2
    <3> QED BY <3>1, <3>2, <3>3 DEF FinalizerOK, Closable
  <2> QED BY <2>1, <2>2
<1>6. \A i \in completed' : Closable(i)' BY <1>2
<1> QED BY <1>4, <1>5, <1>6

\* Everything else rests, but an event that is no output may be stored.
LEMMA IntentsRest ==
  ASSUME IntentsInv, UNCHANGED <<job, intents, completed, finalizer, reopened>>,
         events \subseteq events', events' \cap Output = events \cap Output
  PROVE  IntentsInv'
<1> USE DEF IntentsInv
<1>1. MirrorShape' BY DEF MirrorShape
<1>2. \A i : Closable(i) => Closable(i)' BY DEF Closable
<1>3. ASSUME NEW f \in Finalizers PROVE FinalizerOK(f)'
  <2>1. PICK i : i = finalizer[f].job OBVIOUS
  <2>2. Closable(i) => Closable(i)' BY <1>2
  <2> QED BY <2>1, <2>2 DEF FinalizerOK, Closable
<1> QED BY <1>1, <1>2, <1>3

MirrorInv == OutboxInv /\ IntentsInv

\* The steps of a finalizer.
LEMMA FinalizeKeeps ==
  ASSUME MirrorInv, NEW f \in Finalizers, FinalizeStep(f)
  PROVE  MirrorInv'
<1> DEFINE run == finalizer[f]
           j == run.job
<1> USE MirrorAssumption, OutboxAssumption
<1>s. /\ run = [pc |-> run.pc, job |-> run.job, stamp |-> run.stamp, todo |-> run.todo]
      /\ Done(f) = [pc |-> "idle", job |-> "none", stamp |-> 0, todo |-> run.todo]
      /\ Resting = [pc |-> "idle", job |-> "none", stamp |-> 0, todo |-> <<>>]
  BY DEF MirrorInv, IntentsInv, MirrorShape, Done, Resting
<1>r. PICK p0, j0, s0, t0 : run = [pc |-> p0, job |-> j0, stamp |-> s0, todo |-> t0]
  BY <1>s
<1>e. run.job = j0 /\ run.stamp = s0 /\ run.todo = t0 BY <1>r
<1>p. \A pc : [run EXCEPT !.pc = pc] = [pc |-> pc, job |-> j, stamp |-> run.stamp, todo |-> run.todo]
  <2>1. \A pc : [[pc |-> p0, job |-> j0, stamp |-> s0, todo |-> t0] EXCEPT !.pc = pc] =
                  [pc |-> pc, job |-> j0, stamp |-> s0, todo |-> t0]
    OBVIOUS
  <2> QED BY <1>r, <1>e, <2>1
<1>q. ASSUME NEW pc, NEW s
      PROVE  [run EXCEPT !.pc = pc, !.stamp = s] =
               [pc |-> pc, job |-> j, stamp |-> s, todo |-> run.todo]
  <2>1. [[pc |-> p0, job |-> j0, stamp |-> s0, todo |-> t0] EXCEPT !.pc = pc] =
          [pc |-> pc, job |-> j0, stamp |-> s0, todo |-> t0]
    OBVIOUS
  <2>2. [[pc |-> pc, job |-> j0, stamp |-> s0, todo |-> t0] EXCEPT !.stamp = s] =
          [pc |-> pc, job |-> j0, stamp |-> s, todo |-> t0]
    OBVIOUS
  <2>3. [[pc |-> p0, job |-> j0, stamp |-> s0, todo |-> t0] EXCEPT !.pc = pc, !.stamp = s] =
          [pc |-> pc, job |-> j0, stamp |-> s, todo |-> t0]
    BY <2>1, <2>2
  <2> QED BY <1>r, <1>e, <2>3
<1>h. /\ completed \subseteq Output /\ intents \in Seq(Output) /\ FinalizerOK(f) /\ Output \subseteq Event
      /\ \A i \in events \cap Output : job[i] \in {"succeeded", "gone"}
  BY DEF MirrorInv, IntentsInv, MirrorShape
<1>i. IntentsInv BY DEF MirrorInv
<1>1. CASE FinalizeRead(f)
  <2>1. UNCHANGED <<dest, events, outbox, dispatcher, landed, job, intents, reopened, completed>>
    BY <1>1 DEF FinalizeRead, finalizeOnly
  <2>2. InList(j) => j \in Output BY <1>h DEF InList
  <2>3. \/ At(f, Done(f))
        \/ j \in Output /\ job[j] = "succeeded" /\ At(f, [run EXCEPT !.pc = "emit", !.stamp = stamp[j]])
        \/ j \in Output /\ job[j] \in {"failed", "uncertain"} /\ At(f, [run EXCEPT !.pc = "complete"])
    BY <1>1, <2>2 DEF FinalizeRead, Terminal
  <2>4. PICK i : i = j OBVIOUS
  <2>5. i \in Output /\ job[i] \in {"failed", "uncertain"} => Closable(i)'
    BY <2>1 DEF Closable
  <2>6. ASSUME At(f, Done(f)) PROVE IntentsInv'
    <3>1. PICK new : new = Done(f) OBVIOUS
    <3>2. /\ At(f, new) /\ new.pc = "idle"
          /\ new = [pc |-> new.pc, job |-> new.job, stamp |-> new.stamp, todo |-> new.todo]
      BY <1>s, <2>6, <3>1
    <3> QED BY <1>h, <1>i, <2>1, <3>2, FinalizerMoves
  <2>7. ASSUME i \in Output, job[i] = "succeeded", At(f, [run EXCEPT !.pc = "emit", !.stamp = stamp[j]])
        PROVE  IntentsInv'
    <3>1. PICK new : new = [run EXCEPT !.pc = "emit", !.stamp = stamp[j]] OBVIOUS
    <3>2. new = [pc |-> "emit", job |-> j, stamp |-> stamp[j], todo |-> run.todo]
      BY <1>q, <3>1
    <3>3. /\ At(f, new) /\ new.pc = "emit" /\ new.job = i
          /\ new = [pc |-> new.pc, job |-> new.job, stamp |-> new.stamp, todo |-> new.todo]
      BY <2>4, <2>7, <3>1, <3>2
    <3> QED BY <1>h, <1>i, <2>1, <2>7, <3>3, FinalizerMoves
  <2>8. ASSUME i \in Output, job[i] \in {"failed", "uncertain"}, At(f, [run EXCEPT !.pc = "complete"])
        PROVE  IntentsInv'
    <3>1. PICK new : new = [run EXCEPT !.pc = "complete"] OBVIOUS
    <3>2. new = [pc |-> "complete", job |-> j, stamp |-> run.stamp, todo |-> run.todo]
      BY <1>p, <3>1
    <3>3. /\ At(f, new) /\ new.pc = "complete" /\ new.job = i
          /\ new = [pc |-> new.pc, job |-> new.job, stamp |-> new.stamp, todo |-> new.todo]
      BY <2>4, <2>8, <3>1, <3>2
    <3> QED BY <1>h, <1>i, <2>1, <2>5, <2>8, <3>3, FinalizerMoves
  <2>9. IntentsInv' BY <2>3, <2>4, <2>6, <2>7, <2>8
  <2>10. OutboxInv' BY <2>1, OutboxRests DEF MirrorInv
  <2> QED BY <2>9, <2>10 DEF MirrorInv
<1>2. CASE FinalizeEmit(f)
  <2>0. PICK i : i = j OBVIOUS
  <2>1. /\ UNCHANGED <<dest, dispatcher, landed, job, intents, reopened, completed>>
        /\ i \in Output /\ i \in Event /\ job[i] = "succeeded"
    BY <1>2, <1>h, <2>0 DEF FinalizeEmit, finalizeOnly, FinalizerOK
  <2>2. CASE At(f, Resting) /\ UNCHANGED <<events, outbox, content>>
    <3>1. OutboxInv' BY <2>1, <2>2, OutboxRests DEF MirrorInv
    <3>2. PICK new : new = Resting OBVIOUS
    <3>3. /\ At(f, new) /\ new.pc = "idle"
          /\ new = [pc |-> new.pc, job |-> new.job, stamp |-> new.stamp, todo |-> new.todo]
      BY <1>s, <2>2, <3>2
    <3>4. IntentsInv' BY <1>h, <1>i, <2>1, <2>2, <3>3, FinalizerMoves
    <3> QED BY <3>1, <3>4 DEF MirrorInv
  <2>3. CASE Enqueue(i) /\ At(f, [run EXCEPT !.pc = "complete"])
    <3>1. OutboxInv' BY <2>1, <2>3, EnqueueStep DEF MirrorInv
    <3>2. PICK new : new = [run EXCEPT !.pc = "complete"] OBVIOUS
    <3>3. new = [pc |-> "complete", job |-> j, stamp |-> run.stamp, todo |-> run.todo]
      BY <1>p, <3>2
    <3>4. /\ At(f, new) /\ new.pc = "complete" /\ new.job = i
          /\ new = [pc |-> new.pc, job |-> new.job, stamp |-> new.stamp, todo |-> new.todo]
      BY <2>0, <2>3, <3>2, <3>3
    <3>6. events' = events \union {i} BY <2>3 DEF Enqueue
    <3>7. Closable(i)' BY <3>6 DEF Closable
    <3>8. \A e \in events' \cap Output : job[e] \in {"succeeded", "gone"} BY <1>h, <2>1, <3>6
    <3>5. IntentsInv' BY <1>h, <1>i, <2>1, <3>4, <3>6, <3>7, <3>8, FinalizerMoves
    <3> QED BY <3>1, <3>5 DEF MirrorInv
  <2> QED BY <1>2, <2>0, <2>2, <2>3 DEF FinalizeEmit
<1>3. CASE FinalizeComplete(f)
  <2>0. PICK i : i = j OBVIOUS
  <2>1. /\ UNCHANGED <<dest, events, outbox, dispatcher, landed, job, intents, reopened>>
        /\ completed' = completed \union {i} /\ i \in Output /\ Closable(i) /\ At(f, Done(f))
    BY <1>3, <1>h, <2>0 DEF FinalizeComplete, finalizeOnly, FinalizerOK, Closable
  <2>2. Closable(i)' BY <2>1 DEF Closable
  <2>5. PICK new : new = Done(f) OBVIOUS
  <2>6. /\ At(f, new) /\ new.pc = "idle"
        /\ new = [pc |-> new.pc, job |-> new.job, stamp |-> new.stamp, todo |-> new.todo]
    BY <1>s, <2>1, <2>5
  <2>3. IntentsInv' BY <1>h, <1>i, <2>1, <2>2, <2>6, FinalizerMoves
  <2>4. OutboxInv' BY <2>1, OutboxRests DEF MirrorInv
  <2> QED BY <2>3, <2>4 DEF MirrorInv
<1> QED BY <1>1, <1>2, <1>3 DEF FinalizeStep

\* The jobs.
LEMMA JobKeeps ==
  ASSUME MirrorInv, NEW j \in Output, JobStep(j) \/ Requeue(j) \/ AnnounceRecovery(j) \/ Purge(j)
  PROVE  MirrorInv'
<1>1. UNCHANGED <<dest, events, outbox, dispatcher, landed, completed>>
  BY DEF JobStep, StartDelivery, Prepare, EndDelivery, Requeue, AnnounceRecovery, Purge, outboxVars
<1>2. OutboxInv' BY <1>1, OutboxRests DEF MirrorInv
<1>t. intents \in Seq(Output) /\ IntentsInv BY DEF MirrorInv, IntentsInv, MirrorShape
<1>3. ASSUME StartDelivery(j) PROVE IntentsInv'
  <2>0. PICK status \in Statuses : status = "delivering" BY DEF Statuses
  <2>1. /\ job[j] = "queued" /\ job' = [job EXCEPT ![j] = status]
        /\ intents' = intents /\ reopened' = reopened /\ finalizer' = finalizer
    BY <1>3, <2>0 DEF StartDelivery
  <2> QED BY <1>1, <1>t, <2>1, JobMoves
<1>4. ASSUME NEW fails \in BOOLEAN, Prepare(j, fails) PROVE IntentsInv'
  <2>1. intents' \in Seq(Output) BY <1>t, <1>4 DEF Prepare
  <2> QED BY <1>1, <1>t, <1>4, <2>1, JobMoves DEF Prepare, Statuses
<1>5. ASSUME NEW outcome \in Terminal, EndDelivery(j, outcome) PROVE IntentsInv'
  <2>1. /\ outcome \in Statuses /\ job[j] = "uploading" /\ job' = [job EXCEPT ![j] = outcome]
        /\ UNCHANGED <<intents, reopened>>
        /\ \/ finalizer' = finalizer
           \/ finalizer' = [finalizer EXCEPT ![j] = [finalizer[j] EXCEPT !.pc = "read", !.job = j]]
    BY <1>5 DEF EndDelivery, Statuses, Terminal
  <2> QED BY <1>1, <1>t, <2>1, JobMoves
<1>6. ASSUME Requeue(j) PROVE IntentsInv'
  <2>0. PICK status \in Statuses : status = "queued" BY DEF Statuses
  <2>1. /\ job[j] = "failed" /\ job' = [job EXCEPT ![j] = status]
        /\ intents' = intents /\ finalizer' = finalizer /\ reopened \subseteq reopened'
        /\ j \in completed \/ (\E f \in Finalizers : finalizer[f].job = j) => j \in reopened'
    BY <1>6, <2>0 DEF Requeue
  <2> QED BY <1>1, <1>t, <2>1, JobMoves
<1>7. ASSUME AnnounceRecovery(j) PROVE IntentsInv'
  <2>1. UNCHANGED <<job, intents, completed, finalizer, reopened>> BY <1>7 DEF AnnounceRecovery
  <2>2. events \subseteq events' /\ events' \cap Output = events \cap Output BY <1>1
  <2> QED BY <1>t, <2>1, <2>2, IntentsRest
<1>8. ASSUME Purge(j) PROVE IntentsInv'
  <2>1. \A f \in Finalizers : finalizer[f].pc = "idle" BY <1>8 DEF Purge, Resting
  <2>0. PICK status \in Statuses : status = "gone" BY DEF Statuses
  <2>2. /\ job' = [job EXCEPT ![j] = status] /\ status = "gone"
        /\ intents' = intents /\ reopened' = reopened /\ finalizer' = finalizer
    BY <1>8, <2>0 DEF Purge
  <2> QED BY <1>1, <1>t, <2>1, <2>2, JobMoves
<1> QED BY <1>2, <1>3, <1>4, <1>5, <1>6, <1>7, <1>8 DEF JobStep, MirrorInv

\* A restart cuts the deliveries short and forgets who finalized and dispatched.
LEMMA RestartKeeps ==
  ASSUME MirrorInv, NEW on \in BOOLEAN, WorkerRestarts(on)
  PROVE  MirrorInv'
<1>1. /\ UNCHANGED <<dest, events, outbox, landed, intents, completed, reopened>>
      /\ dispatcher' = [k \in Dispatcher |-> Idle] /\ finalizer' = [f \in Finalizers |-> Resting]
      /\ job' = [j \in Output |->
           IF job[j] \in {"delivering", "uploading"} THEN "uncertain" ELSE job[j]]
  BY DEF WorkerRestarts
<1>2. OutboxInv'
  <2>1. OutboxShape' BY <1>1, RunsClosed DEF MirrorInv, OutboxInv, OutboxShape
  <2>2. \A x \in Effects : Moved(x) BY <1>1 DEF Moved
  <2>3. \A x \in Effects : outbox'[x].state = "leased" => Usable(x[2])'
    BY <1>1 DEF MirrorInv, OutboxInv, RowsOK, Usable, Owned
  <2>4. \A k \in Dispatcher : dispatcher'[k].pc = "idle" BY <1>1 DEF Idle
  <2> QED BY <1>1, <2>1, <2>2, <2>3, <2>4, RowsMove DEF MirrorInv
<1>3. IntentsInv'
  <2> USE DEF MirrorInv, IntentsInv
  <2>1. MirrorShape'
    <3>1. job' \in [Output -> Statuses] BY <1>1 DEF MirrorShape, Statuses
    <3>2. \A f \in Finalizers : finalizer'[f] = Resting BY <1>1
    <3> QED BY <1>1, <3>1, <3>2 DEF MirrorShape, Resting
  <2>2. \A j \in events' \cap Output : job'[j] \in {"succeeded", "gone"} BY <1>1
  <2>3. \A j \in completed' : Closable(j)' BY <1>1 DEF Closable
  <2>4. \A f \in Finalizers : FinalizerOK(f)' BY <1>1 DEF FinalizerOK, Resting
  <2> QED BY <1>1, <2>1, <2>2, <2>3, <2>4
<1> QED BY <1>2, <1>3 DEF MirrorInv

\* A pass that starts, or takes its next intent, keeps the invariant.
LEMMA PassKeeps ==
  ASSUME MirrorInv, StartReconcile \/ TakeNext
  PROVE  MirrorInv'
<1> DEFINE run == finalizer["maintenance"]
<1>1. UNCHANGED <<dest, events, outbox, dispatcher, landed, job, intents, reopened, completed>>
  BY DEF StartReconcile, TakeNext, finalizeOnly
<1>2. "maintenance" \in Finalizers BY DEF Finalizers
<1>s. run = [pc |-> run.pc, job |-> run.job, stamp |-> run.stamp, todo |-> run.todo]
  BY <1>2 DEF MirrorInv, IntentsInv, MirrorShape
<1>3. \E new : /\ At("maintenance", new) /\ new.pc \in {"idle", "read"}
               /\ new = [pc |-> new.pc, job |-> new.job, stamp |-> new.stamp, todo |-> new.todo]
  <2>1. CASE StartReconcile
    <3>1. PICK todo : At("maintenance", [Resting EXCEPT !.todo = todo])
      BY <2>1 DEF StartReconcile
    <3>2. PICK new : new = [Resting EXCEPT !.todo = todo] OBVIOUS
    <3>3. new = [pc |-> "idle", job |-> "none", stamp |-> 0, todo |-> todo] BY <3>2 DEF Resting
    <3> QED BY <3>1, <3>2, <3>3
  <2>2. CASE TakeNext
    <3>1. PICK j, todo : At("maintenance", [run EXCEPT !.pc = "read", !.job = j, !.todo = todo])
      BY <2>2 DEF TakeNext
    <3>2. PICK new : new = [run EXCEPT !.pc = "read", !.job = j, !.todo = todo] OBVIOUS
    <3>3. PICK p0, j0, s0, t0 : run = [pc |-> p0, job |-> j0, stamp |-> s0, todo |-> t0]
      BY <1>s
    <3>4. [[pc |-> p0, job |-> j0, stamp |-> s0, todo |-> t0] EXCEPT !.pc = "read"] =
            [pc |-> "read", job |-> j0, stamp |-> s0, todo |-> t0]
      OBVIOUS
    <3>5. [[pc |-> "read", job |-> j0, stamp |-> s0, todo |-> t0] EXCEPT !.job = j] =
            [pc |-> "read", job |-> j, stamp |-> s0, todo |-> t0]
      OBVIOUS
    <3>6. [[pc |-> "read", job |-> j, stamp |-> s0, todo |-> t0] EXCEPT !.todo = todo] =
            [pc |-> "read", job |-> j, stamp |-> s0, todo |-> todo]
      OBVIOUS
    <3>7. [[pc |-> p0, job |-> j0, stamp |-> s0, todo |-> t0] EXCEPT !.pc = "read", !.job = j,
             !.todo = todo] = [pc |-> "read", job |-> j, stamp |-> s0, todo |-> todo]
      BY <3>4, <3>5, <3>6
    <3>8. new = [pc |-> "read", job |-> j, stamp |-> s0, todo |-> todo] BY <3>2, <3>3, <3>7
    <3> QED BY <3>1, <3>2, <3>8
  <2> QED BY <2>1, <2>2
<1>4. IntentsInv' BY <1>1, <1>2, <1>3, FinalizerMoves DEF MirrorInv, IntentsInv
<1>5. OutboxInv' BY <1>1, OutboxRests DEF MirrorInv
<1> QED BY <1>4, <1>5 DEF MirrorInv

\* Intents, finalizers, events and jobs agree in every reachable state (OutputMirror).
THEOREM MirrorInvariant == MirrorSpec => []MirrorInv
<1>1. MirrorInit => MirrorInv
  <2> SUFFICES ASSUME MirrorInit PROVE MirrorInv OBVIOUS
  <2>1. OutboxInv BY OutboxInitially DEF MirrorInit
  <2>2. /\ job = [j \in Output |-> "queued"] /\ intents = <<>> /\ completed = {} /\ events = {}
        /\ finalizer = [f \in Finalizers |-> Resting]
    BY DEF MirrorInit, IntentsInit, OutboxInit
  <2>3. MirrorShape
    <3>1. \A f \in Finalizers : finalizer[f] = Resting BY <2>2
    <3> QED BY <2>2, <3>1 DEF MirrorShape, Resting, Statuses
  <2>4. \A f \in Finalizers : FinalizerOK(f) BY <2>2 DEF FinalizerOK, Resting
  <2> QED BY <2>1, <2>2, <2>3, <2>4 DEF MirrorInv, IntentsInv
<1>2. ASSUME MirrorInv, OutboxStep /\ UNCHANGED mirrorOnly PROVE MirrorInv'
  <2>1. OutboxInv' BY <1>2, OutboxStepKeeps DEF MirrorInv
  <2>2. events' = events
    BY <1>2 DEF OutboxStep, DispatchStep, Admin, RecoverExpiredLeases, ClaimPending,
                MarkSendStarted, Deliver, RefuseContent, RecordOutcome, RecordHealth, EndBatch,
                DispatcherDies, Tick, ReconcileConfig, AddDestination, RemoveDestination,
                SetEnabled, RecordProbeHealth, destinationOnly, dispatchOnly
  <2>3. IntentsInv' BY <1>2, <2>2, IntentsRest DEF MirrorInv, mirrorOnly
  <2> QED BY <2>1, <2>3 DEF MirrorInv
<1>3. ASSUME MirrorInv, NEW e \in Event \ Output, Emit(e), UNCHANGED mirrorOnly PROVE MirrorInv'
  <2>1. OutboxInv' BY <1>3, EnqueueStep DEF MirrorInv, Emit
  <2>2. events' = events \union {e} BY <1>3 DEF Emit, Enqueue
  <2>3. IntentsInv' BY <1>3, <2>2, IntentsRest DEF MirrorInv, mirrorOnly
  <2> QED BY <2>1, <2>3 DEF MirrorInv
<1>4. ASSUME MirrorInv, UNCHANGED mirrorVars PROVE MirrorInv'
  <2>1. OutboxInv' BY <1>4, OutboxRests DEF MirrorInv, mirrorVars, outboxVars
  <2>2. IntentsInv' BY <1>4, IntentsRest DEF MirrorInv, mirrorVars, outboxVars, mirrorOnly
  <2> QED BY <2>1, <2>2 DEF MirrorInv
<1>5. MirrorInv /\ [MirrorNext]_mirrorVars => MirrorInv'
  BY <1>2, <1>3, <1>4, JobKeeps, RestartKeeps, PassKeeps, FinalizeKeeps DEF MirrorNext
<1> QED BY <1>1, <1>5, PTL DEF MirrorSpec

\* A closed intent of a succeeded job has its event, and only delivered jobs are mirrored, over
\* deaths between success, event and closing.
THEOREM ClosedAreMirrored == MirrorSpec => []ClosedIsMirrored
<1>1. MirrorInv => ClosedIsMirrored
  BY DEF MirrorInv, IntentsInv, ClosedIsMirrored, Closable
<1> QED BY <1>1, MirrorInvariant, PTL

\* The events that the mirror makes reach a channel at most once, too.
THEOREM MirroredLandOnce == MirrorSpec => []LandsAtMostOnce
<1>1. MirrorInv => LandsAtMostOnce BY DEF MirrorInv, OutboxInv
<1> QED BY <1>1, MirrorInvariant, PTL
=============================================================================
