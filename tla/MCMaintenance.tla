---------------------------- MODULE MCMaintenance ----------------------------
(***************************************************************************)
(* The services that the worker's cron keeps going, each on a small        *)
(* instance of its own: the mirroring of delivered files (OutputMirror,    *)
(* extended), the dispatching of the operator logger's outbox, and the     *)
(* settling of payment orders.  The instances share no state: a behaviour  *)
(* is a behaviour of one of them, part says of which, and the variables of *)
(* the others rest.                                                        *)
(***************************************************************************)
EXTENDS OutputMirror

CONSTANTS u, album, other, c, k1, k2

VARIABLES part, orders, reservation, claims, invoice, posts, checkout, check, admin, raced,
          rewritten, deaths, now, grants, subs

TwoPieces == [e \in Output |-> 2]

\* An album of two files and a report, sent by dispatchers that overlap.
Outbox == INSTANCE AuditOutbox WITH
  Output <- {album}, Ascending <- {album}, Pieces <- [e \in {album} |-> 2],
  Dispatcher <- {k1, k2}

\* Two orders of one user; the first is priced in a currency whose settlement raises.
Settling == INSTANCE Billing WITH
  User <- {u}, Order <- {11, 12}, Owner <- [o \in {11, 12} |-> u],
  Amount <- [o \in {11, 12} |-> IF o = 11 THEN "usual" ELSE "minimum"], Toman <- {12},
  Months <- 1, Gift <- {}, Suspensions <- {}, Checker <- {"cron"}, Selling <- TRUE,
  Settings <- [g \in {"hooshpay", "uniquepay", "tetraminator"} |->
                 IF g = "hooshpay" THEN {"enabled", "secret", "callback", "return", "ipn"} ELSE {}],
  Life <- 1, MaxTime <- 2, MaxQueries <- 1, BatchSize <- 1, MaxDeaths <- 0

orderVars == <<orders, reservation, claims, invoice, posts, checkout, check, admin, raced,
               rewritten, deaths, now, grants, subs>>
vars == <<part, mirrorVars, orderVars>>

Init ==
  /\ part \in {"mirror", "outbox", "settling"}
  /\ IF part = "outbox" THEN Outbox!OutboxInit ELSE OutboxInit
  /\ IntentsInit(IF part = "outbox" THEN "succeeded" ELSE "queued")
  /\ Settling!BillingInit
  /\ part # "mirror" => mirroring
  /\ part = "settling" => \A d \in Destination : dest[d].config

InMirror(A) == part = "mirror" /\ A /\ UNCHANGED <<part, orderVars>>
InOutbox(A) == part = "outbox" /\ A /\ UNCHANGED <<part, mirrorOnly, orderVars>>
InSettling(A) == part = "settling" /\ A /\ UNCHANGED <<part, mirrorVars>>

Next ==
  \/ part = "mirror" /\ MirrorNext /\ UNCHANGED <<part, orderVars>>
  \/ part = "outbox" /\ Outbox!OutboxNext /\ UNCHANGED <<part, mirrorOnly, orderVars>>
  \/ part = "settling" /\ Settling!BillingNext /\ UNCHANGED <<part, mirrorVars>>

\* The fairness of each part, as its module states it.  Since a behaviour is of one part, the n-th
\* condition stands for the n-th one of each.
Fair(InMirrorStep, InOutboxStep, InSettlingStep) ==
  InMirror(InMirrorStep) \/ InOutbox(InOutboxStep) \/ InSettling(InSettlingStep)
Fairness ==
  /\ WF_vars(Fair(JobStep(album), Outbox!Tick, Settling!Tick))
  /\ WF_vars(Fair(JobStep(other), Outbox!RecoverExpiredLeases(k1), Settling!StartBatch))
  /\ WF_vars(Fair(FinalizeStep(album), Outbox!RecoverExpiredLeases(k2), Settling!CheckStep("cron")))
  /\ WF_vars(Fair(FinalizeStep(other), Outbox!DispatchStep(k1), Settling!CheckoutStep(11)))
  /\ WF_vars(Fair(FinalizeStep("maintenance"), Outbox!DispatchStep(k2), Settling!CheckoutStep(12)))
  /\ WF_vars(InMirror(StartReconcile \/ TakeNext))

Spec == Init /\ [][Next]_vars /\ Fairness

\* Whatever the cron looks after ends: an intent is closed, a row of the outbox is settled, an order
\* leaves the open states, with the exceptions IntentsClose, EffectsSettle and OrdersSettle name.
\* The n-th promise of each part is stated in one.
Promise(j, o) ==
  \/ part = "mirror" /\ IntentWaits(j)
  \/ part = "outbox" /\ EffectWaits(<<j, c>>)
  \/ part = "settling" /\ Settling!OrderWaits(o)
Kept(j, o) ==
  \/ part = "mirror" /\ IntentClosed(j)
  \/ part = "outbox" /\ EffectSettled(<<j, c>>)
  \/ part = "settling" /\ Settling!OrderSettled(o)
MaintenanceSettles ==
  /\ Promise(album, 11) ~> Kept(album, 11)
  /\ Promise(other, 12) ~> Kept(other, 12)
=============================================================================
