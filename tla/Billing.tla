------------------------------- MODULE Billing -------------------------------
(***************************************************************************)
(* VIP purchases: an order is created, sent to a payment gateway once, and *)
(* settled by whoever asks the gateway first: the worker's maintenance     *)
(* cron, the companion's callback endpoint, or the user's check button.    *)
(* The three run in different processes on one SQLite file.  confirming an *)
(* order is one transaction; closing it is a read, a second read and a     *)
(* save of the whole row, and so is the last step of a checkout.           *)
(* Gift grants and suspensions come from the admin service.                *)
(***************************************************************************)
EXTENDS Gateways, Subscriptions

CONSTANTS
  Order,        \* numbered in the order of their creation
  Owner,        \* user of an order
  Amount,       \* price of its plan, which is all that tells plans apart
  Toman,        \* the orders whose plan is priced in IRT
  Months,       \* duration of its plan, in ticks
  Gift,         \* gift grants an admin may give
  Suspensions,  \* users an admin may suspend
  Checker,      \* who settles orders
  Life,         \* ticks until an order expires
  MaxTime,      \* bound on the clock
  MaxQueries,   \* payments.reconciliation.max_query_attempts
  BatchSize,    \* payments.reconciliation.batch_size
  MaxDeaths     \* bound on process deaths

None == "none"
NoOrder == 0

ASSUME BillingAssumption ==
  /\ Order \subseteq Nat \ {NoOrder} /\ Gift \subseteq Nat /\ \A g \in Gift, o \in Order : g < o
  /\ Owner \in [Order -> User] /\ Amount \in [Order -> Amounts] /\ Toman \subseteq Order
  /\ Months \in Nat \ {0} /\ Life \in Nat /\ MaxTime \in Nat
  /\ MaxQueries \in Nat \ {0} /\ BatchSize \in Nat \ {0} /\ MaxDeaths \in Nat
  /\ None \notin Gateway
  /\ Checker \subseteq {"cron", "callback", "manual"} /\ Suspensions \subseteq User

VARIABLES
  orders,       \* payment_orders
  reservation,  \* payment_creation_reservations
  claims,       \* provider_transaction_claims, by the order whose invoice was claimed
  invoice,      \* external: what the gateway holds for an order
  posts,        \* history: create calls sent for an order
  checkout,     \* a start_checkout under way
  check,        \* a check_order under way, and the rest of the cron's batch
  admin,        \* an admin operation between its read and its write
  raced,        \* history: users whose projection an admin wrote from an older read
  rewritten,    \* history: orders a writer closed or saved from a row another had changed since
  deaths,       \* checks and checkouts cut short so far
  now

orderVars == <<orders, reservation, claims>>
billingVars == <<orders, reservation, claims, invoice, posts, checkout, check, admin, raced,
                 rewritten, deaths, now, grants, subs>>

-----------------------------------------------------------------------------
(* Rows.                                                                   *)
OrderStatuses == {"created", "pending", "paid", "failed", "cancelled", "expired"}
Open == {"created", "pending"}
Rows == [status: OrderStatuses \union {None}, provider: Gateway \union {None},
         ref: BOOLEAN, expires: Nat]
NoRow == [status |-> None, provider |-> None, ref |-> FALSE, expires |-> 0]

MayBecome(status, target) ==
  \/ status = target
  \/ status \in Open /\ target \in {"paid", "failed", "cancelled", "expired"}
  \/ status = "created" /\ target = "pending"

CreationStates == {"not_started", "attempting", "created", "ambiguous", "failed"}
Reservations == [state: CreationStates, inquiries: Nat]
InquiryAllowed(state) == state # "failed"

IdleCheckout == [pc |-> "idle", provider |-> None, row |-> NoRow]
IdleCheck == [pc |-> "idle", order |-> NoOrder, target |-> None, provider |-> None,
              row |-> NoRow, stamp |-> 0, todo |-> <<>>]
IdleAdmin == [pc |-> "idle", user |-> None, seen |-> {}, todo |-> {}]

BillingInit ==
  /\ orders = [o \in Order |-> NoRow]
  /\ reservation = [o \in Order |-> [state |-> "not_started", inquiries |-> 0]]
  /\ claims = {}
  /\ invoice = [o \in Order |-> None]
  /\ posts = [o \in Order |-> 0]
  /\ checkout = [o \in Order |-> IdleCheckout]
  /\ check = [c \in Checker |-> IdleCheck]
  /\ admin = IdleAdmin
  /\ raced = {} /\ rewritten = {}
  /\ deaths = 0 /\ now = 0
  /\ SubscriptionsInit

\* INSERT OR REPLACE of a whole row, made from a row read before.
SaveOrder(o, read, row) ==
  /\ orders' = [orders EXCEPT ![o] = row]
  /\ rewritten' = IF orders[o] # read THEN rewritten \union {o} ELSE rewritten

-----------------------------------------------------------------------------
(* The user chooses a plan and a gateway.                                  *)
OpenOrders(u) == {o \in Order : Owner[o] = u /\ orders[o].status \in Open}

NewRow == [status |-> "created", provider |-> None, ref |-> FALSE, expires |-> now + Life]

\* Under the plan lock: the newest open order is offered again unless it is for another plan or
\* past its deadline.
SelectPlan(o) ==
  /\ orders[o] = NoRow /\ Routes # {}
  /\ \A p \in Order : p < o => orders[p] # NoRow
  /\ LET pending == OpenOrders(Owner[o])
     IN pending = {} \/ \E p \in pending :
          (\A q \in pending : q <= p) /\ (Amount[p] # Amount[o] \/ orders[p].expires <= now)
  /\ now + Life < MaxTime
  /\ orders' = [orders EXCEPT ![o] = NewRow]
  /\ UNCHANGED <<rewritten, reservation, claims, invoice, posts, checkout, check, admin, raced, deaths, now,
                 subscriptionVars>>

MayCheckout(o, g) ==
  /\ ~(orders[o].status = "pending" /\ orders[o].ref)
  /\ MayBecome(orders[o].status, "pending") /\ g \in Registered

\* Mutant: the create call is reserved again after a failed or an unclear answer.
BeginCreationAgain(o) ==
  /\ reservation[o].state \in {"not_started", "ambiguous", "failed"}
  /\ reservation' = [reservation EXCEPT ![o].state = "attempting"]

\* Committed before the first byte leaves; whatever becomes of the call, it is never taken back.
BeginCreation(o) ==
  /\ reservation[o].state = "not_started"
  /\ reservation' = [reservation EXCEPT ![o].state = "attempting"]

StartCheckout(o, g) ==
  /\ checkout[o].pc = "idle"
  /\ orders[o].status \in Open /\ ~orders[o].ref /\ now < orders[o].expires
  /\ g \in Routes /\ MayCheckout(o, g) /\ Accepts(g, Amount[o])
  /\ BeginCreation(o)
  /\ checkout' = [checkout EXCEPT ![o] = [pc |-> "post", provider |-> g, row |-> NoRow]]
  /\ UNCHANGED <<orders, claims, invoice, posts, check, admin, raced, rewritten, deaths, now,
                 subscriptionVars>>

\* The one POST.  An unanswered or failed call may still have made an invoice.
CreateInvoice(o, answer) ==
  /\ checkout[o].pc = "post"
  /\ posts' = [posts EXCEPT ![o] = @ + 1]
  /\ \E made \in BOOLEAN :
       /\ answer = "link" => made
       /\ answer = "refused" => ~made
       /\ invoice' = IF made THEN [invoice EXCEPT ![o] = "open"] ELSE invoice
  /\ checkout' = [checkout EXCEPT ![o].pc = CreateOutcome(checkout[o].provider, Amount[o], answer)]
  /\ UNCHANGED <<orders, reservation, claims, check, admin, raced, rewritten, deaths, now,
                 subscriptionVars>>

ResolveCreation(o) ==
  /\ checkout[o].pc \in {"created", "ambiguous", "failed"}
  /\ reservation' = [reservation EXCEPT ![o].state = checkout[o].pc]
  /\ checkout' = IF checkout[o].pc = "created" THEN [checkout EXCEPT ![o].pc = "attach"]
                 ELSE [checkout EXCEPT ![o] = IdleCheckout]
  /\ UNCHANGED <<orders, claims, invoice, posts, check, admin, raced, rewritten, deaths, now,
                 subscriptionVars>>

AttachCheckout(o) ==
  /\ checkout[o].pc = "attach"
  /\ orders' = IF orders[o].ref THEN orders
               ELSE [orders EXCEPT ![o].ref = TRUE, ![o].provider = checkout[o].provider]
  /\ checkout' = [checkout EXCEPT ![o].pc = "reload"]
  /\ UNCHANGED <<reservation, claims, invoice, posts, check, admin, raced, rewritten, deaths, now,
                 subscriptionVars>>

ReloadAttached(o) ==
  /\ checkout[o].pc = "reload"
  /\ checkout' = [checkout EXCEPT ![o].row = orders[o], ![o].pc = "save"]
  /\ rewritten' = IF orders[o].status \notin Open THEN rewritten \union {o} ELSE rewritten
  /\ UNCHANGED <<orderVars, invoice, posts, check, admin, raced, deaths, now, subscriptionVars>>

\* The row read before, with status pending, replaces whatever is stored by now.
SavePending(o) ==
  /\ checkout[o].pc = "save"
  /\ SaveOrder(o, checkout[o].row,
               [checkout[o].row EXCEPT !.status = "pending", !.provider = checkout[o].provider])
  /\ checkout' = [checkout EXCEPT ![o] = IdleCheckout]
  /\ UNCHANGED <<reservation, claims, invoice, posts, check, admin, raced, deaths, now,
                 subscriptionVars>>

CheckoutDies(o) ==
  /\ checkout[o].pc # "idle" /\ deaths < MaxDeaths
  /\ checkout' = [checkout EXCEPT ![o] = IdleCheckout]
  /\ deaths' = deaths + 1
  /\ UNCHANGED <<orderVars, invoice, posts, check, admin, raced, rewritten, now,
                 subscriptionVars>>

\* External: a payable invoice is paid, or closed by the gateway.
InvoiceMoves(o, state) ==
  /\ invoice[o] = "open" /\ state \in InvoiceStates \ {"open"}
  /\ state = "paid" => orders[o].ref
  /\ invoice' = [invoice EXCEPT ![o] = state]
  /\ UNCHANGED <<orderVars, posts, checkout, check, admin, raced, rewritten, deaths, now,
                 subscriptionVars>>

-----------------------------------------------------------------------------
(* check_order, by any checker.                                            *)
Goto(c, record) == check' = [check EXCEPT ![c] = record]
Finish(c) == Goto(c, [IdleCheck EXCEPT !.todo = check[c].todo])
\* An exception nobody on the way catches ends the cron's whole batch.
Abort(c) == Goto(c, IdleCheck)

checkOnly == <<orderVars, invoice, posts, checkout, admin, raced, rewritten, deaths, now,
               subscriptionVars>>

Listed == SetToSortSeq({o \in Order : orders[o].status \in Open}, <)

\* The cron lists the open orders, oldest first, and keeps the list while it works on it.
StartBatch ==
  /\ "cron" \in Checker
  /\ check["cron"] = IdleCheck
  /\ Listed # <<>>
  /\ Goto("cron", [IdleCheck EXCEPT
       !.todo = SubSeq(Listed, 1, IF Len(Listed) < BatchSize THEN Len(Listed) ELSE BatchSize)])
  /\ UNCHANGED checkOnly

NextOfBatch(o) == check["cron"].todo # <<>> /\ o = Head(check["cron"].todo)
CallbackNames(o) == invoice[o] # None /\ orders[o].provider # None
UserMayAsk(o) == orders[o].status \in Open /\ now < orders[o].expires

MayCheck(c, o) ==
  /\ check[c].pc = "idle" /\ orders[o] # NoRow
  /\ \/ c = "cron" /\ NextOfBatch(o)
     \/ c = "callback" /\ CallbackNames(o)
     \/ c = "manual" /\ UserMayAsk(o)

\* The first reads: what an order without a checkout gets, and who is asked.
LoadForCheck(c, o) ==
  /\ MayCheck(c, o)
  /\ LET rest == IF c = "cron" THEN Tail(check[c].todo) ELSE <<>>
         idle == [IdleCheck EXCEPT !.todo = rest]
     IN IF orders[o].provider = None \/ ~orders[o].ref
        THEN IF orders[o].status = "created" /\ orders[o].expires < now
             THEN Goto(c, [idle EXCEPT !.pc = "close", !.order = o, !.target = "expired"])
             ELSE Goto(c, idle)
        ELSE IF reservation[o].state = "not_started" \/ ~InquiryAllowed(reservation[o].state)
             THEN Goto(c, idle)
             ELSE Goto(c, [idle EXCEPT !.order = o, !.provider = orders[o].provider,
                    !.pc = IF orders[o].provider \notin Registered
                                \/ reservation[o].inquiries >= MaxQueries THEN "spent" ELSE "ask"])
  /\ UNCHANGED checkOnly

CountInquiry(o) == reservation' = [reservation EXCEPT ![o].inquiries = @ + 1]

\* What follows a status: nothing more before the deadline, a closing save, or the settlement.
AfterStatus(c, o, status) ==
  CASE status = "pending" ->
         IF orders[o].expires < now
         THEN Goto(c, [check[c] EXCEPT !.pc = "close", !.target = "expired"])
         ELSE Finish(c)
    [] status = "paid" -> Goto(c, [check[c] EXCEPT !.pc = "settle"])
    [] status \in {"expired", "cancelled", "failed"} ->
         Goto(c, [check[c] EXCEPT !.pc = "close", !.target = status])

\* A spent budget, as the first reads saw it, and a gateway no longer configured ask nobody and
\* count as pending.
SkipGateway(c) ==
  /\ check[c].pc = "spent"
  /\ AfterStatus(c, check[c].order, "pending")
  /\ UNCHANGED checkOnly

\* The inquiry and its count.
AskGateway(c) ==
  /\ check[c].pc = "ask"
  /\ LET o == check[c].order
     IN /\ \E status \in StatusesOf[check[c].provider][invoice[o]] : AfterStatus(c, o, status)
        /\ CountInquiry(o)
  /\ UNCHANGED <<orders, claims, invoice, posts, checkout, admin, raced, rewritten, deaths,
                 now, subscriptionVars>>

\* expire_order returns quietly where the transition is not allowed; the others raise.
CheckTransition(c) ==
  /\ check[c].pc = "close"
  /\ LET o == check[c].order IN
     IF MayBecome(orders[o].status, check[c].target)
          /\ (check[c].target = "expired" => orders[o].expires < now)
     THEN Goto(c, [check[c] EXCEPT !.pc = "read", !.provider = orders[o].provider, !.row = orders[o]])
     ELSE IF check[c].target = "expired" THEN Finish(c) ELSE Abort(c)
  /\ UNCHANGED checkOnly

\* The second read is not checked again.
ReadAgain(c) ==
  /\ check[c].pc = "read"
  /\ LET o == check[c].order
     IN /\ Goto(c, [check[c] EXCEPT !.pc = "write", !.row = orders[o]])
        /\ rewritten' = IF orders[o] # check[c].row THEN rewritten \union {o} ELSE rewritten
  /\ UNCHANGED <<orderVars, invoice, posts, checkout, admin, raced, deaths, now, subscriptionVars>>

\* _update_order_status saves the row as it was read.
SaveClosed(c) ==
  /\ check[c].pc = "write"
  /\ SaveOrder(check[c].order, check[c].row,
               [check[c].row EXCEPT !.status = check[c].target, !.provider = check[c].provider])
  /\ Finish(c)
  /\ UNCHANGED <<reservation, claims, invoice, posts, checkout, admin, raced, deaths, now,
                 subscriptionVars>>

\* handle_verified_result stamps the payment before the transaction begins.
Settle(c) ==
  /\ check[c].pc = "settle"
  /\ IF orders[check[c].order].expires < now THEN Finish(c)
     ELSE Goto(c, [check[c] EXCEPT !.pc = "confirm", !.stamp = now])
  /\ UNCHANGED checkOnly

PaidGrant(o, stamp) ==
  [id |-> o, user |-> Owner[o], months |-> Months, at |-> stamp, gift |-> FALSE, reversed |-> FALSE]

\* Mutant: an order that was closed is still confirmed.
ConfirmableClosed(c) ==
  LET o == check[c].order IN
  /\ orders[o].provider = check[c].provider
  /\ o \in Toman
  /\ check[c].stamp <= orders[o].expires
  /\ o \notin claims

Confirmable(c) ==
  LET o == check[c].order IN
  /\ orders[o].provider = check[c].provider
  /\ o \in Toman
  /\ check[c].stamp <= orders[o].expires
  /\ o \notin claims
  /\ MayBecome(orders[o].status, "paid")

\* Mutant: the projection is computed before the grant is inserted.
ConfirmOrderLate(c) ==
  /\ check[c].pc = "confirm" /\ Confirmable(c)
  /\ LET o == check[c].order
         payer == Owner[o]
     IN /\ claims' = claims \union {o}
        /\ orders' = [orders EXCEPT ![o].status = "paid", ![o].provider = check[c].provider]
        /\ grants' = grants \union {PaidGrant(o, check[c].stamp)}
        /\ subs' = [subs EXCEPT ![payer] = Projection(OfUser(payer))]
        /\ raced' = raced \ {payer}
  /\ Goto(c, [check[c] EXCEPT !.pc = "log"])
  /\ UNCHANGED <<reservation, invoice, posts, checkout, admin, rewritten, deaths, now>>

\* Claim, status, grant and projection in one transaction.
ConfirmOrder(c) ==
  /\ check[c].pc = "confirm" /\ Confirmable(c)
  /\ LET o == check[c].order
         payer == Owner[o]
         granted == grants \union {PaidGrant(o, check[c].stamp)}
     IN /\ claims' = claims \union {o}
        /\ orders' = [orders EXCEPT ![o].status = "paid", ![o].provider = check[c].provider]
        /\ grants' = granted
        /\ subs' = [subs EXCEPT ![payer] = Projection({g \in granted : g.user = payer})]
        /\ raced' = raced \ {payer}
  /\ Goto(c, [check[c] EXCEPT !.pc = "log"])
  /\ UNCHANGED <<reservation, invoice, posts, checkout, admin, rewritten, deaths, now>>

\* A replay and a late payment are skipped; any other refusal is raised.
RefuseOrder(c) ==
  /\ check[c].pc = "confirm" /\ ~Confirmable(c)
  /\ LET o == check[c].order IN
     IF orders[o].provider = check[c].provider /\ o \in Toman
          /\ (check[c].stamp > orders[o].expires \/ o \in claims)
     THEN Finish(c) ELSE Abort(c)
  /\ UNCHANGED checkOnly

\* The purchase event follows the commit; a failure to log it is swallowed.
LogPurchase(c) ==
  /\ check[c].pc = "log"
  /\ Finish(c)
  /\ UNCHANGED checkOnly

CheckerDies(c) ==
  /\ check[c] # IdleCheck /\ deaths < MaxDeaths
  /\ Abort(c)
  /\ deaths' = deaths + 1
  /\ UNCHANGED <<orderVars, invoice, posts, checkout, admin, raced, rewritten, now,
                 subscriptionVars>>

-----------------------------------------------------------------------------
(* The admin service.                                                      *)
adminOnly == <<orderVars, invoice, posts, checkout, check, rewritten, deaths, now>>
GiftsLeft == Gift \ {g.id : g \in grants}
ActiveGifts(G) == {g.id : g \in {h \in G : h.gift /\ ~h.reversed}}

\* grant_gift and revoke_gifts read the grants outside the transaction that writes.
ReadForGift(u) ==
  /\ admin = IdleAdmin /\ GiftsLeft # {}
  /\ admin' = [pc |-> "grant", user |-> u, seen |-> OfUser(u), todo |-> {}]
  /\ UNCHANGED <<adminOnly, raced, subscriptionVars>>

ReadForRevoke(u) ==
  /\ admin = IdleAdmin /\ ActiveGifts(OfUser(u)) # {}
  /\ admin' = [pc |-> "revoke", user |-> u, seen |-> OfUser(u), todo |-> ActiveGifts(OfUser(u))]
  /\ UNCHANGED <<adminOnly, raced, subscriptionVars>>

WriteProjection(u, G) ==
  /\ subs' = [subs EXCEPT ![u] = Projection(G)]
  /\ raced' = IF admin.seen = OfUser(u) THEN raced \ {u} ELSE raced \union {u}

InsertGrant(grant) ==
  grants' = grants \union {grant} /\ WriteProjection(grant.user, admin.seen \union {grant})

GiveGift(id) ==
  /\ admin.pc = "grant" /\ id \in GiftsLeft
  /\ InsertGrant([id |-> id, user |-> admin.user, months |-> Months, at |-> now, gift |-> TRUE,
                  reversed |-> FALSE])
  /\ admin' = IdleAdmin
  /\ UNCHANGED adminOnly

Undo(G, id) == {IF g.id = id THEN [g EXCEPT !.reversed = TRUE] ELSE g : g \in G}
ReverseGrant(u, id) == grants' = Undo(grants, id) /\ WriteProjection(u, Undo(admin.seen, id))

\* One gift after the other; the grants are read again before each.
RevokeGift(id) ==
  /\ admin.pc = "revoke" /\ id \in admin.todo
  /\ ReverseGrant(admin.user, id)
  /\ admin' = IF admin.todo = {id} THEN IdleAdmin
              ELSE [admin EXCEPT !.todo = @ \ {id}, !.pc = "reread"]
  /\ UNCHANGED adminOnly

RereadForRevoke ==
  /\ admin.pc = "reread"
  /\ admin' = [admin EXCEPT !.seen = OfUser(admin.user), !.pc = "revoke"]
  /\ UNCHANGED <<adminOnly, raced, subscriptionVars>>

Suspend(u) ==
  /\ SetSuspension(u, ~subs[u].suspended)
  /\ UNCHANGED <<adminOnly, admin, raced>>

-----------------------------------------------------------------------------
Tick ==
  /\ now < MaxTime /\ now' = now + 1
  /\ UNCHANGED <<orderVars, invoice, posts, checkout, check, admin, raced, rewritten, deaths, subscriptionVars>>

CheckStep(c) ==
  \/ \E o \in Order : LoadForCheck(c, o)
  \/ SkipGateway(c) \/ AskGateway(c) \/ CheckTransition(c) \/ ReadAgain(c) \/ SaveClosed(c)
  \/ Settle(c) \/ ConfirmOrder(c) \/ RefuseOrder(c) \/ LogPurchase(c)

CheckoutStep(o) ==
  \/ \E answer \in CreateAnswers : CreateInvoice(o, answer)
  \/ ResolveCreation(o) \/ AttachCheckout(o) \/ ReloadAttached(o) \/ SavePending(o)

AdminStep ==
  \/ \E u \in User : ReadForGift(u) \/ ReadForRevoke(u)
  \/ \E id \in Gift : GiveGift(id) \/ RevokeGift(id)
  \/ RereadForRevoke
  \/ \E u \in Suspensions : Suspend(u)

BillingNext ==
  \/ \E o \in Order : \/ SelectPlan(o) \/ CheckoutStep(o) \/ CheckoutDies(o)
                      \/ \E g \in Gateway : StartCheckout(o, g)
                      \/ \E state \in InvoiceStates : InvoiceMoves(o, state)
  \/ StartBatch
  \/ \E c \in Checker : CheckStep(c) \/ CheckerDies(c)
  \/ AdminStep
  \/ Tick

BillingSpec == BillingInit /\ [][BillingNext]_billingVars

\* Maintenance runs every minute, its steps and a checkout's go on unless their process dies,
\* and time passes.
BillingFairness ==
  /\ WF_billingVars(Tick) /\ WF_billingVars(StartBatch)
  /\ WF_billingVars("cron" \in Checker /\ CheckStep("cron"))
  /\ \A o \in Order : WF_billingVars(CheckoutStep(o))
-----------------------------------------------------------------------------
(* Properties.                                                             *)

CheckPcs == {"idle", "ask", "spent", "close", "read", "write", "settle", "confirm", "log"}
CheckoutPcs == {"idle", "post", "created", "ambiguous", "failed", "attach", "reload", "save"}

BillingTypeOK ==
  /\ orders \in [Order -> Rows]
  /\ reservation \in [Order -> Reservations]
  /\ claims \subseteq Order
  /\ invoice \in [Order -> InvoiceStates \union {None}]
  /\ posts \in [Order -> Nat]
  /\ checkout \in [Order -> [pc: CheckoutPcs, provider: Gateway \union {None}, row: Rows]]
  /\ \A c \in Checker : /\ check[c].pc \in CheckPcs
                        /\ check[c].pc # "idle" => check[c].order \in Order
  /\ admin.pc \in {"idle", "grant", "revoke", "reread"}
  /\ raced \subseteq User /\ rewritten \subseteq Order
  /\ \A g \in grants : g.id \in Gift \union Order
  /\ subs \in [User -> [known: BOOLEAN, until: Int, suspended: BOOLEAN]]
  /\ now \in 0..MaxTime /\ deaths \in 0..MaxDeaths

\* Whatever the interleaving of checkouts, retries and process deaths, a gateway is asked to make
\* an invoice at most once for an order: no second POST without begin_creation_attempt.
OneInvoicePerOrder ==
  \A o \in Order :
    /\ posts[o] <= 1
    /\ (posts[o] = 1 \/ checkout[o].pc # "idle") => reservation[o].state # "not_started"
    /\ checkout[o].pc = "post" => posts[o] = 0

\* A claim and its grant exist together, once per order, for the order's owner: three checkers and
\* a row saved over a settled one never grant the same purchase twice.
ClaimsAreGrants ==
  /\ \A g \in grants : ~g.gift => g.id \in claims /\ g.user = Owner[g.id]
  /\ \A o \in claims : \E g \in grants : g.id = o /\ ~g.gift
  /\ \A g, h \in grants : g.id = h.id => g = h

\* Paid time stands for a paid invoice, confirmed before the order's deadline.
GrantsArePaid ==
  /\ \A o \in claims : invoice[o] = "paid" /\ o \in Toman
  /\ \A g \in grants : ~g.gift => g.at <= orders[g.id].expires
  /\ \A o \in Order : orders[o].status = "paid" => o \in claims

\* The projection is the one its grants give, unless an admin operation wrote it from grants it
\* had read before another writer committed.
ProjectionIsCurrent ==
  \A u \in User : u \notin raced =>
    subs[u].until = AuthorizedUntil(OfUser(u)) /\ (OfUser(u) # {} => subs[u].known)

\* Paid time has no holes: a user whose paid time reaches beyond now is covered now.
PaidTimeIsContinuous == \A u \in User : Authorize(u, now) # "not_covered"

BillingInv ==
  BillingTypeOK /\ OneInvoicePerOrder /\ ClaimsAreGrants /\ GrantsArePaid

\* domain/payments.py: terminal states are fixed history and never silently rewritten.
TerminalIsFixed ==
  [][\A o \in Order : orders[o].status \notin Open \union {None}
                        => orders'[o].status = orders[o].status]_billingVars

\* A settled order keeps its status unless a writer whose reads had been overtaken saved over it.
SettledUnlessOvertaken ==
  [][\A o \in Order : orders[o].status \notin Open \union {None}
                        => orders'[o].status = orders[o].status \/ o \in rewritten']_billingVars

\* Every order leaves the open states: the cron settles or expires it, also beside orders whose
\* settlement raises.  A row saved over may have lost its reference; it then stays pending for good,
\* and a whole batch of such rows keeps the cron from all others.
OrderWaits(o) == orders[o].status \in Open
OrderSettled(o) ==
  orders[o].status \notin Open \/ o \in rewritten \/ Cardinality(rewritten) >= BatchSize
=============================================================================
