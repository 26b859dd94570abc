---------------------------- MODULE BillingProofs -----------------------------
(***************************************************************************)
(* Theorems about Billing for every set of orders, users, gifts and        *)
(* checkers, every price list and every configuration of the gateways: a   *)
(* purchase is paid once and granted once, the projection is the one its   *)
(* grants give, paid time has no holes, and a settled order is rewritten   *)
(* only by a writer that was overtaken.                                    *)
(***************************************************************************)
EXTENDS Billing, FiniteSetTheorems, TLAPS

\* What a set of grants has to be for its windows to be defined.
GrantRecords ==
  [id: Nat, user: User, months: Nat \ {0}, at: Nat, gift: BOOLEAN, reversed: BOOLEAN]

GoodGrants(G) ==
  /\ IsFiniteSet(G) /\ G \subseteq GrantRecords
  /\ \A g, h \in G : g.id = h.id => g = h

Closings == {"expired", "cancelled", "failed"}

\* A check under way; what is left of the batch is of no matter here.
CheckShape(k) ==
  /\ k = [pc |-> k.pc, order |-> k.order, target |-> k.target, provider |-> k.provider,
          row |-> k.row, stamp |-> k.stamp, todo |-> k.todo]
  /\ k.pc \in CheckPcs /\ k.order \in Order \union {NoOrder}
  /\ k.target \in Closings \union {None} /\ k.provider \in Gateway \union {None}
  /\ k.row \in Rows /\ k.stamp \in Nat

BillingTypes ==
  /\ orders \in [Order -> Rows]
  /\ reservation \in [Order -> Reservations]
  /\ claims \subseteq Order
  /\ invoice \in [Order -> InvoiceStates \union {None}]
  /\ posts \in [Order -> Nat]
  /\ checkout \in [Order -> [pc: CheckoutPcs, provider: Gateway \union {None}, row: Rows]]
  /\ DOMAIN check = Checker /\ \A c \in Checker : CheckShape(check[c])
  /\ admin \in [pc: {"idle", "grant", "revoke", "reread"}, user: User \union {None},
                seen: SUBSET GrantRecords, todo: SUBSET Gift]
  /\ raced \subseteq User /\ rewritten \subseteq Order
  /\ GoodGrants(grants) /\ \A g \in grants : g.id \in Gift \union Order
  /\ subs \in [User -> [known: BOOLEAN, until: Int, suspended: BOOLEAN]]
  /\ now \in 0..MaxTime /\ deaths \in 0..MaxDeaths

\* Where a checkout or a check is under way there is a row; behind the create call there is an
\* invoice.
CheckoutInv ==
  /\ OneInvoicePerOrder
  /\ \A o \in Order : invoice[o] # None => posts[o] = 1
  /\ \A o \in Order : orders[o].ref => invoice[o] # None
  /\ \A o \in Order : checkout[o].pc # "idle" => orders[o] # NoRow /\ checkout[o].provider \in Gateway
  /\ \A o \in Order : checkout[o].pc \in {"created", "attach", "reload", "save"} => invoice[o] # None

\* What a check holds of its order.
CheckInv ==
  \A c \in Checker :
    LET k == check[c] IN
    /\ k.pc # "idle" => k.order \in Order /\ orders[k.order] # NoRow
    /\ k.pc = "ask" => k.provider \in Gateway /\ invoice[k.order] # None
    /\ k.pc \in {"close", "read", "write"} => k.target \in Closings
    /\ k.pc \in {"settle", "confirm"} => invoice[k.order] = "paid"
    /\ k.pc = "confirm" => k.stamp <= now

\* A row held for a save has the deadline and no newer invoice than the row stored, and one that was
\* settled when it was read is known as overtaken.
CheckoutHeld ==
  \A o \in Order : checkout[o].pc = "save" =>
    /\ checkout[o].row.expires = orders[o].expires
    /\ checkout[o].row.status \in Open \/ o \in rewritten

CheckHeld ==
  \A c \in Checker :
    LET k == check[c] IN
    k.pc \in {"read", "write"} =>
      /\ k.row.expires = orders[k.order].expires
      /\ k.row.ref => invoice[k.order] # None
      /\ MayBecome(k.row.status, k.target) \/ k.order \in rewritten

\* Who was granted what: claims, paid invoices and the grants of the owners.
PaidInv ==
  /\ ClaimsAreGrants /\ GrantsArePaid
  /\ \A g \in grants : (g.gift <=> g.id \in Gift) /\ g.at <= now
  /\ \A o \in claims : orders[o] # NoRow

\* What the admin service read is about its user, and of grants whose ids are still taken; the gifts
\* it is to revoke are that user's.
AdminInv ==
  /\ admin.pc # "idle" => admin.user \in User
  /\ GoodGrants(admin.seen)
  /\ \A g \in admin.seen : g.user = admin.user /\ \E h \in grants : h.id = g.id
  /\ \A id \in admin.todo : \E g \in grants : g.id = id /\ g.user = admin.user

LedgerInv ==
  BillingTypes /\ CheckoutInv /\ CheckInv /\ CheckoutHeld /\ CheckHeld /\ PaidInv /\ AdminInv /\ ProjectionIsCurrent

\* Every set of naturals that is not empty has a least element.
LEMMA LeastNumber ==
  ASSUME NEW T \in SUBSET Nat, T # {}
  PROVE  \E n \in T : \A m \in T : n <= m
<1> DEFINE R == OpToRel(<, Nat)
<1>1. \E x \in T : \A y \in T : ~(<<y, x>> \in R)
  <2>1. IsWellFoundedOn(R, Nat) BY NatLessThanWellFounded
  <2> HIDE DEF R
  <2> QED BY <2>1, WFMin
<1>2. ASSUME NEW x \in Nat, NEW y \in Nat, ~(<<y, x>> \in R) PROVE x <= y
  <2>1. ~(y < x)
    BY <1>2, Zenon DEF OpToRel
  <2> QED BY <2>1
<1> QED BY <1>1, <1>2

\* A chain of windows of any length: each starts where the one before it ends, or later.
LEMMA ChainExists ==
  ASSUME NEW n \in Nat, NEW at \in [1..n -> Nat], NEW months \in [1..n -> Nat]
  PROVE  \E f \in [0..n -> Nat] :
           /\ f[0] = 0
           /\ \A i \in 1..n : f[i] = (IF at[i] > f[i-1] THEN at[i] ELSE f[i-1]) + months[i]
<1> DEFINE Chain(k) ==
      \E f \in [0..k -> Nat] :
           /\ f[0] = 0
           /\ \A i \in 1..k : f[i] = (IF at[i] > f[i-1] THEN at[i] ELSE f[i-1]) + months[i]
<1> DEFINE T == {k \in 0..n : ~Chain(k)}
<1>1. Chain(0)
  <2> DEFINE g == [i \in 0..0 |-> 0]
  <2>1. g \in [0..0 -> Nat] /\ g[0] = 0 OBVIOUS
  <2>2. \A i \in 1..0 : FALSE OBVIOUS
  <2> HIDE DEF g
  <2> QED BY <2>1, <2>2
<1>2. ASSUME NEW k \in 1..n, Chain(k-1) PROVE Chain(k)
  <2>1. PICK f \in [0..(k-1) -> Nat] :
          /\ f[0] = 0
          /\ \A i \in 1..(k-1) : f[i] = (IF at[i] > f[i-1] THEN at[i] ELSE f[i-1]) + months[i]
    BY <1>2
  <2>2. k-1 \in Nat /\ k-1 \in 0..(k-1) /\ f[k-1] \in Nat /\ at[k] \in Nat /\ months[k] \in Nat OBVIOUS
  <2>3. PICK x \in Nat : x = (IF at[k] > f[k-1] THEN at[k] ELSE f[k-1]) + months[k]
    BY <2>2, SMTT(30)
  <2> DEFINE g == [i \in 0..k |-> IF i = k THEN x ELSE f[i]]
  <2>4. g \in [0..k -> Nat] BY <2>2
  <2>5. g[0] = 0 BY <2>1
  <2>6. ASSUME NEW i \in 1..k PROVE g[i] = (IF at[i] > g[i-1] THEN at[i] ELSE g[i-1]) + months[i]
    <3>1. CASE i = k
      <4>1. g[k] = x /\ g[k-1] = f[k-1] BY <2>2
      <4> QED BY <3>1, <4>1, <2>3
    <3>2. CASE i # k
      <4>1. g[i] = f[i] /\ g[i-1] = f[i-1] /\ i \in 1..(k-1) BY <3>2
      <4> HIDE DEF g
      <4> QED BY <2>1, <4>1
    <3> QED BY <3>1, <3>2
  <2> HIDE DEF g
  <2> QED BY <2>4, <2>5, <2>6
<1> HIDE DEF Chain
<1>3. T = {}
  <2> SUFFICES ASSUME T # {} PROVE FALSE OBVIOUS
  <2>0. T \in SUBSET Nat OBVIOUS
  <2>1. PICK k \in T : \A m \in T : k <= m
    <3> HIDE DEF T
    <3> QED BY <2>0, LeastNumber
  <2>2. k # 0 BY <1>1
  <2>3. k \in 1..n /\ k-1 \in 0..n /\ k-1 \notin T BY <2>1, <2>2
  <2> QED BY <1>2, <2>3
<1>4. Chain(n) BY <1>3
<1> QED BY <1>4 DEF Chain

\* The windows of a set of grants, by the grants in their order and by the ends.
WindowsAre(G, n, s, f) ==
  /\ f[0] = 0
  /\ \A i \in 1..n : f[i] = (IF s[i].at > f[i-1] THEN s[i].at ELSE f[i-1]) + s[i].months
  /\ GrantWindows(G) = [i \in 1..n |-> [grant |-> s[i], start |-> f[i] - s[i].months, end |-> f[i]]]

\* GrantWindows computes that chain.
LEMMA WindowsOf ==
  ASSUME NEW G, NEW n \in Nat, NEW s, s = OrderedValid(G), Len(s) = n,
         \A i \in 1..n : s[i].at \in Nat /\ s[i].months \in Nat
  PROVE  \E f \in [0..n -> Nat] : WindowsAre(G, n, s, f)
<1> DEFINE end[i \in 0..Len(s)] ==
        IF i = 0 THEN 0
        ELSE (IF s[i].at > end[i-1] THEN s[i].at ELSE end[i-1]) + s[i].months
<1>1. GrantWindows(G)
        = [i \in 1..Len(s) |-> [grant |-> s[i], start |-> end[i] - s[i].months, end |-> end[i]]]
  BY Zenon DEF GrantWindows
<1>2. PICK f \in [0..n -> Nat] :
           /\ f[0] = 0
           /\ \A i \in 1..n : f[i] = (IF s[i].at > f[i-1] THEN s[i].at ELSE f[i-1]) + s[i].months
  <2> DEFINE at == [i \in 1..n |-> s[i].at]
             months == [i \in 1..n |-> s[i].months]
  <2>1. at \in [1..n -> Nat] /\ months \in [1..n -> Nat] OBVIOUS
  <2>2. \A i \in 1..n : at[i] = s[i].at /\ months[i] = s[i].months OBVIOUS
  <2> HIDE DEF at, months
  <2>3. PICK f \in [0..n -> Nat] :
           /\ f[0] = 0
           /\ \A i \in 1..n : f[i] = (IF at[i] > f[i-1] THEN at[i] ELSE f[i-1]) + months[i]
    BY <2>1, ChainExists, ZenonT(30)
  <2>4. ASSUME NEW i \in 1..n
        PROVE  f[i] = (IF s[i].at > f[i-1] THEN s[i].at ELSE f[i-1]) + s[i].months
    <3>1. at[i] = s[i].at /\ months[i] = s[i].months BY <2>2
    <3>2. f[i] = (IF at[i] > f[i-1] THEN at[i] ELSE f[i-1]) + months[i] BY <2>3
    <3> QED BY <3>1, <3>2
  <2> QED BY <2>3, <2>4
<1>3. f = [i \in 0..Len(s) |-> IF i = 0 THEN 0
                          ELSE (IF s[i].at > f[i-1] THEN s[i].at ELSE f[i-1]) + s[i].months]
  <2>1. \A i \in 0..n : i = 0 \/ i \in 1..n OBVIOUS
  <2>2. \A i \in 0..n : f[i] = IF i = 0 THEN 0
                          ELSE (IF s[i].at > f[i-1] THEN s[i].at ELSE f[i-1]) + s[i].months
    BY <1>2, <2>1
  <2>3. f = [i \in 0..n |-> f[i]] OBVIOUS
  <2> QED BY <2>2, <2>3
<1>4. end = [i \in 0..Len(s) |-> IF i = 0 THEN 0
                          ELSE (IF s[i].at > end[i-1] THEN s[i].at ELSE end[i-1]) + s[i].months]
  BY <1>3
<1> HIDE DEF end
<1>5. end[0] = 0 /\ \A i \in 1..n : end[i] = (IF s[i].at > end[i-1] THEN s[i].at ELSE end[i-1]) + s[i].months
  BY <1>4
<1>6. \A i \in 0..n : end[i] = f[i]
  <2> DEFINE T == {i \in 0..n : end[i] # f[i]}
  <2> SUFFICES ASSUME T # {} PROVE FALSE OBVIOUS
  <2>1. T \in SUBSET Nat OBVIOUS
  <2>2. PICK k \in T : \A m \in T : k <= m
    <3> HIDE DEF T
    <3> QED BY <2>1, LeastNumber
  <2>3. k # 0 BY <1>2, <1>5
  <2>4. k \in 1..n /\ k-1 \in 0..n /\ k-1 \notin T BY <2>2, <2>3
  <2>5. end[k-1] = f[k-1] BY <2>4
  <2>6. end[k] = f[k] BY <1>2, <1>5, <2>4, <2>5, ZenonT(30)
  <2> QED BY <2>6
<1>7. GrantWindows(G)
        = [i \in 1..n |-> [grant |-> s[i], start |-> f[i] - s[i].months, end |-> f[i]]]
  BY <1>1, <1>6
<1> QED BY <1>2, <1>7 DEF WindowsAre

\* The grants of a finite set have one order: each has as many before it as its place says.
LEMMA OrderExists ==
  ASSUME NEW G, GoodGrants(G)
  PROVE  /\ Cardinality(G) \in Nat
         /\ \E s \in [1..Cardinality(G) -> G] :
              \A i, j \in 1..Cardinality(G) : i < j => Earlier(s[i], s[j])
<1> DEFINE n == Cardinality(G)
           Below(g) == {h \in G : Earlier(h, g) \/ h = g}
           rank == [g \in G |-> Cardinality(Below(g))]
<1>1. n \in Nat BY FS_CardinalityType DEF GoodGrants
<1>2. ASSUME NEW g \in G
      PROVE  /\ IsFiniteSet(Below(g)) /\ Cardinality(Below(g)) \in Nat
             /\ Cardinality(Below(g)) \in 1..n
  <2>1. IsFiniteSet(Below(g)) /\ Cardinality(Below(g)) <= n
    BY FS_Subset DEF GoodGrants
  <2>2. Cardinality(Below(g)) \in Nat BY <2>1, FS_CardinalityType
  <2>3. Cardinality(Below(g)) # 0
    <3>1. g \in Below(g) OBVIOUS
    <3> HIDE DEF Below
    <3> QED BY <2>1, <3>1, FS_EmptySet
  <2> HIDE DEF Below
  <2> QED BY <1>1, <2>1, <2>2, <2>3
<1>3. ASSUME NEW g \in G, NEW h \in G, Earlier(g, h) PROVE rank[g] < rank[h]
  <2>1. g.at \in Nat /\ h.at \in Nat /\ g.id \in Nat /\ h.id \in Nat
    BY DEF GoodGrants, GrantRecords
  <2>2. \A k \in G : k.at \in Nat /\ k.id \in Nat BY DEF GoodGrants, GrantRecords
  <2>3. Below(g) \subseteq Below(h) BY <1>3, <2>1, <2>2 DEF Earlier
  <2>4. h \in Below(h) /\ h \notin Below(g) BY <1>3, <2>1 DEF Earlier
  <2>5. IsFiniteSet(Below(h)) /\ Cardinality(Below(h)) \in Nat /\ Cardinality(Below(g)) \in Nat
    BY <1>2
  <2>6. Cardinality(Below(g)) <= Cardinality(Below(h)) /\ Cardinality(Below(h)) # Cardinality(Below(g))
    <3> HIDE DEF Below
    <3> QED BY <2>3, <2>4, <2>5, FS_Subset
  <2> HIDE DEF Below
  <2> QED BY <2>5, <2>6
<1>4. ASSUME NEW g \in G, NEW h \in G, g # h PROVE Earlier(g, h) \/ Earlier(h, g)
  <2>1. g.id # h.id BY <1>4 DEF GoodGrants
  <2>2. g.at \in Nat /\ h.at \in Nat /\ g.id \in Nat /\ h.id \in Nat
    BY DEF GoodGrants, GrantRecords
  <2> QED BY <2>1, <2>2 DEF Earlier
<1>5. rank \in [G -> 1..n] /\ \A g \in G : rank[g] \in Nat
  BY <1>2
<1> HIDE DEF rank
<1>6. \A g, h \in G : rank[g] = rank[h] => g = h
  BY <1>3, <1>4, <1>5
<1>7. rank \in Injection(G, 1..n) BY <1>5, <1>6 DEF Injection, IsInjective
<1>8. IsFiniteSet(1..n) /\ Cardinality(1..n) = n BY <1>1, FS_Interval
<1>9. rank \in Surjection(G, 1..n) BY <1>7, <1>8, FS_Injection
<1>10. \A i \in 1..n : \E g \in G : rank[g] = i BY <1>9 DEF Surjection
<1> DEFINE s == [i \in 1..n |-> CHOOSE g \in G : rank[g] = i]
<1>11. s \in [1..n -> G] /\ \A i \in 1..n : rank[s[i]] = i BY <1>10
<1> HIDE DEF s
<1>12. ASSUME NEW i \in 1..n, NEW j \in 1..n, i < j PROVE Earlier(s[i], s[j])
  <2>1. s[i] \in G /\ s[j] \in G /\ rank[s[i]] = i /\ rank[s[j]] = j BY <1>11
  <2>2. s[i] # s[j] BY <2>1, <1>12
  <2>3. ~Earlier(s[j], s[i])
    <3>1. Earlier(s[j], s[i]) => j < i BY <1>3, <2>1
    <3> QED BY <3>1, <1>12
  <2> QED BY <1>4, <2>1, <2>2, <2>3
<1> QED BY <1>1, <1>11, <1>12

\* The valid grants of a set, in their order.
LEMMA ValidInOrder ==
  ASSUME NEW G, GoodGrants(G)
  PROVE  /\ Cardinality(Valid(G)) \in Nat
         /\ OrderedValid(G) \in [1..Cardinality(Valid(G)) -> Valid(G)]
         /\ Len(OrderedValid(G)) = Cardinality(Valid(G))
<1>1. GoodGrants(Valid(G)) BY FS_Subset DEF GoodGrants, Valid
<1>2. Cardinality(Valid(G)) \in Nat BY <1>1, OrderExists
<1>3. \E s \in [1..Cardinality(Valid(G)) -> Valid(G)] :
        \A i, j \in DOMAIN s : i < j => Earlier(s[i], s[j])
  BY <1>1, OrderExists
<1>4. OrderedValid(G) \in [1..Cardinality(Valid(G)) -> Valid(G)]
  BY <1>3, Zenon DEF OrderedValid
<1> QED BY <1>2, <1>4

-----------------------------------------------------------------------------
\* The assumptions in the words the steps use.
LEMMA BillingConstants ==
  /\ Order \subseteq Nat /\ NoOrder \notin Order /\ Gift \subseteq Nat /\ Gift \cap Order = {}
  /\ Owner \in [Order -> User] /\ Months \in Nat \ {0} /\ Life \in Nat /\ MaxTime \in Nat
  /\ MaxDeaths \in Nat /\ None \notin Gateway /\ Registered \subseteq Gateway /\ Routes \subseteq Gateway
  /\ Checker \subseteq {"cron", "callback", "manual"} /\ Suspensions \subseteq User
<1>1. Gift \cap Order = {}
  <2> SUFFICES ASSUME NEW x \in Gift, x \in Order PROVE FALSE OBVIOUS
  <2>1. x \in Nat /\ x < x BY BillingAssumption
  <2> QED BY <2>1
<1> QED BY <1>1, BillingAssumption DEF Registered, Routes

\* The inquiry: only a paid invoice is reported paid, whatever a gateway answers.
LEMMA PaidIsPaid ==
  ASSUME NEW g \in Gateway, NEW state \in InvoiceStates, NEW status \in StatusesOf[g][state]
  PROVE  /\ status \in {"pending", "paid"} \union Closings
         /\ status = "paid" => state = "paid"
<1>1. PICK r \in MayAnswer(state) : status = QueryStatus(g, r)
  BY DEF StatusesOf
<1>2. /\ r.state \in InvoiceStates
      /\ r.identity = "same" => r.order # "other"
      /\ r.identity # "other" /\ r.order # "other" => r.state = state
  BY DEF MayAnswer, Answers
<1>3. CASE g = "hooshpay"
  BY <1>1, <1>2, <1>3 DEF QueryStatus, HooshPayQuery, HooshPayConfirms, InvoiceStates, Closings
<1>4. CASE g = "uniquepay"
  BY <1>1, <1>2, <1>4 DEF QueryStatus, UniquePayQuery, UniquePayConfirms, InvoiceStates, Closings
<1>5. CASE g = "tetraminator"
  BY <1>1, <1>2, <1>5
     DEF QueryStatus, TetraminatorQuery, TetraminatorConfirms, InvoiceStates, Closings
<1> QED BY <1>3, <1>4, <1>5 DEF Gateway

\* A check by its fields.
CheckOf(p, o, t, g, w, n, rest) ==
  [pc |-> p, order |-> o, target |-> t, provider |-> g, row |-> w, stamp |-> n, todo |-> rest]

\* An idle check by its fields, which are within their bounds.
LEMMA IdleRecord ==
  /\ IdleCheck = CheckOf("idle", NoOrder, None, None, NoRow, 0, <<>>)
  /\ NoRow \in Rows /\ {"idle", "close"} \subseteq CheckPcs /\ "expired" \in Closings
<1>1. NoRow \in Rows BY DEF NoRow, Rows, OrderStatuses
<1>2. IdleCheck = CheckOf("idle", NoOrder, None, None, NoRow, 0, <<>>)
  BY DEF IdleCheck, CheckOf
<1> QED BY <1>1, <1>2 DEF CheckPcs, Closings

\* A check that ends, with or without the rest of its batch.
LEMMA IdleMoves ==
  ASSUME NEW rest, NEW r, r = IdleCheck \/ r = [IdleCheck EXCEPT !.todo = rest]
  PROVE  CheckShape(r) /\ r.pc = "idle"
<1>1. PICK todo : r = CheckOf("idle", NoOrder, None, None, NoRow, 0, todo)
  BY DEF IdleCheck, CheckOf
<1> QED BY <1>1, IdleRecord DEF CheckShape, CheckOf

\* One check moves, the others stay.
LEMMA GotoMoves ==
  ASSUME BillingTypes, NEW c \in Checker, NEW r, Goto(c, r)
  PROVE  /\ DOMAIN check' = Checker /\ check'[c] = r
         /\ \A d \in Checker \ {c} : check'[d] = check[d]
BY DEF Goto, BillingTypes

\* What a step of a checker leaves alone: only a confirmation grants, only it and a closing save
\* write an order, and whoever was known as overtaken stays known.
CheckerFrame(c) ==
  /\ UNCHANGED <<invoice, posts, checkout, admin, now>>
  /\ reservation' \in [Order -> Reservations]
  /\ \A o \in Order : reservation'[o].state = reservation[o].state
  /\ \/ UNCHANGED <<orders, claims, grants, subs, raced>>
     \/ SaveClosed(c) /\ UNCHANGED <<claims, grants, subs, raced>>
     \/ ConfirmOrder(c)
  /\ rewritten \subseteq rewritten' /\ rewritten' \subseteq Order
  /\ deaths' \in 0..MaxDeaths

\* Where a step of a checker may lead.
CheckerGoes(k, r) ==
  \/ r.pc = "idle"
  \/ /\ k.pc = "idle" /\ r.pc \in {"close", "ask", "spent"} /\ r.order \in Order
     /\ orders[r.order] # NoRow
     /\ r.pc = "close" => r.target = "expired"
     /\ r.pc = "ask" => r.provider \in Gateway /\ orders[r.order].ref
  \/ k.pc \in {"spent", "ask"} /\ r.pc = "close" /\ r.order = k.order /\ r.target \in Closings
  \/ k.pc = "ask" /\ r.pc = "settle" /\ r.order = k.order /\ invoice[k.order] = "paid"
  \/ /\ k.pc = "close" /\ r.pc = "read" /\ r.order = k.order /\ r.target = k.target
     /\ r.row = orders[k.order] /\ MayBecome(orders[k.order].status, k.target)
  \/ /\ k.pc = "read" /\ r.pc = "write" /\ r.order = k.order /\ r.target = k.target
     /\ r.row = orders[k.order]
     /\ orders[k.order] # k.row => k.order \in rewritten'
  \/ k.pc = "settle" /\ r.pc = "confirm" /\ r.order = k.order /\ r.stamp = now
  \/ k.pc = "confirm" /\ r.pc = "log" /\ r.order = k.order

\* A reconciliation step moves its own check to the next step and leaves the others.
LEMMA CheckerMoves ==
  ASSUME BillingTypes, CheckInv, NEW c \in Checker,
         CheckStep(c) \/ CheckerDies(c) \/ (c = "cron" /\ StartBatch)
  PROVE  /\ DOMAIN check' = Checker /\ \A d \in Checker \ {c} : check'[d] = check[d]
         /\ CheckShape(check'[c]) /\ CheckerGoes(check[c], check'[c])
         /\ CheckerFrame(c)
<1> DEFINE k == check[c]
           o == k.order
           Moved == /\ DOMAIN check' = Checker /\ \A d \in Checker \ {c} : check'[d] = check[d]
                    /\ CheckShape(check'[c]) /\ CheckerGoes(k, check'[c])
<1>0. /\ CheckShape(k)
      /\ k.pc # "idle" => o \in Order /\ orders[o] # NoRow /\ orders[o] \in Rows
      /\ k.pc = "ask" => k.provider \in Gateway /\ invoice[o] \in InvoiceStates
      /\ k.pc \in {"close", "read", "write"} => k.target \in Closings
  BY DEF BillingTypes, CheckInv
<1>s. "close" \in CheckPcs /\ "ask" \in CheckPcs /\ "spent" \in CheckPcs /\ "settle" \in CheckPcs
      /\ "read" \in CheckPcs /\ "write" \in CheckPcs /\ "confirm" \in CheckPcs /\ "log" \in CheckPcs
      /\ "expired" \in Closings /\ now \in Nat
  BY BillingConstants DEF CheckPcs, Closings, BillingTypes
<1>k. /\ k = CheckOf(k.pc, o, k.target, k.provider, k.row, k.stamp, k.todo)
      /\ o \in Order \union {NoOrder} /\ k.target \in Closings \union {None}
      /\ k.provider \in Gateway \union {None} /\ k.row \in Rows /\ k.stamp \in Nat
  BY <1>0, Zenon DEF CheckShape, CheckOf
<1>g. ASSUME NEW r, Goto(c, r), CheckShape(r), CheckerGoes(k, r) PROVE Moved
  BY <1>g, GotoMoves
<1>i. ASSUME NEW rest, Goto(c, IdleCheck) \/ Goto(c, [IdleCheck EXCEPT !.todo = rest])
      PROVE  Moved
  <2>1. PICK r : Goto(c, r) /\ (r = IdleCheck \/ r = [IdleCheck EXCEPT !.todo = rest])
    BY <1>i
  <2>2. CheckShape(r) /\ r.pc = "idle" BY <2>1, IdleMoves
  <2> QED BY <2>1, <2>2, <1>g DEF CheckerGoes
<1>f. ASSUME Finish(c) \/ Abort(c) PROVE Moved
  BY <1>f, <1>i DEF Finish, Abort
<1>a. checkOnly' = checkOnly => CheckerFrame(c)
  BY DEF checkOnly, orderVars, subscriptionVars, CheckerFrame, BillingTypes
<1>c. ASSUME NEW t \in Closings, k.pc \in {"spent", "ask"},
             Goto(c, [k EXCEPT !.pc = "close", !.target = t])
      PROVE  Moved
  <2>0. PICK r : r = [k EXCEPT !.pc = "close", !.target = t] OBVIOUS
  <2>1. r = CheckOf("close", o, t, k.provider, k.row, k.stamp, k.todo)
    BY <2>0, <1>k DEF CheckOf
  <2>2. CheckShape(r) /\ r.pc = "close" /\ r.order = o /\ r.target = t
    BY <1>k, <1>s, <2>1 DEF CheckShape, CheckOf
  <2>3. CheckerGoes(k, r) BY <1>c, <2>2 DEF CheckerGoes
  <2>4. Goto(c, r) BY <1>c, <2>0, <2>1
  <2> QED BY <1>g, <2>2, <2>3, <2>4
<1>t. ASSUME NEW status, status \in {"pending", "paid"} \union Closings, AfterStatus(c, o, status),
             k.pc \in {"spent", "ask"}, status = "paid" => k.pc = "ask" /\ invoice[o] = "paid"
      PROVE  Moved
  <2>1. CASE status = "pending"
    BY <1>t, <1>s, <1>c, <1>f, <2>1 DEF AfterStatus
  <2>2. CASE status = "paid"
    <3>0. PICK r : r = [k EXCEPT !.pc = "settle"] OBVIOUS
    <3>1. r = CheckOf("settle", o, k.target, k.provider, k.row, k.stamp, k.todo)
      BY <3>0, <1>k DEF CheckOf
    <3>2. Goto(c, [k EXCEPT !.pc = "settle"]) BY <1>t, <2>2 DEF AfterStatus
    <3>3. CheckShape(r) /\ r.pc = "settle" /\ r.order = o
      BY <1>k, <1>s, <3>1 DEF CheckShape, CheckOf
    <3>4. CheckerGoes(k, r) BY <1>t, <2>2, <3>3 DEF CheckerGoes
    <3>5. Goto(c, r) BY <3>0, <3>1, <3>2
    <3> QED BY <1>g, <3>3, <3>4, <3>5
  <2>3. CASE status \in Closings
    <3>1. Goto(c, [k EXCEPT !.pc = "close", !.target = status])
      BY <1>t, <2>3 DEF AfterStatus, Closings
    <3> QED BY <1>c, <1>t, <2>3, <3>1
  <2> QED BY <1>t, <2>1, <2>2, <2>3
<1>1. ASSUME NEW p \in Order, LoadForCheck(c, p) PROVE Moved /\ CheckerFrame(c)
  <2>1. PICK rest : rest = (IF c = "cron" THEN Tail(check[c].todo) ELSE <<>>) OBVIOUS
  <2>2. k.pc = "idle" /\ orders[p] # NoRow /\ checkOnly' = checkOnly
    BY <1>1 DEF LoadForCheck, MayCheck, checkOnly
  <2>3. \/ Goto(c, [IdleCheck EXCEPT !.todo = rest])
        \/ Goto(c, [[IdleCheck EXCEPT !.todo = rest] EXCEPT !.pc = "close", !.order = p, !.target = "expired"])
        \/ /\ orders[p].ref /\ orders[p].provider # None
           /\ \E pc \in {"ask", "spent"} :
                Goto(c, [[IdleCheck EXCEPT !.todo = rest] EXCEPT
                           !.order = p, !.provider = orders[p].provider, !.pc = pc])
    BY <1>1, <2>1, Zenon DEF LoadForCheck
  <2>4. CASE Goto(c, [IdleCheck EXCEPT !.todo = rest])
    BY <1>i, <1>a, <2>2, <2>4
  <2>5. CASE Goto(c, [[IdleCheck EXCEPT !.todo = rest] EXCEPT !.pc = "close", !.order = p, !.target = "expired"])
    <3>0. PICK r : r = [[IdleCheck EXCEPT !.todo = rest] EXCEPT !.pc = "close", !.order = p, !.target = "expired"] OBVIOUS
    <3>1. r = CheckOf("close", p, "expired", None, NoRow, 0, rest)
      BY <3>0 DEF IdleCheck, CheckOf
    <3>2. CheckShape(r) /\ r.pc = "close" /\ r.order = p /\ r.target = "expired"
      BY <3>1, IdleRecord DEF CheckShape, CheckOf
    <3>3. CheckerGoes(k, r) BY <2>2, <3>2 DEF CheckerGoes
    <3>4. Goto(c, r) BY <2>5, <3>0, <3>1
    <3> QED BY <1>a, <1>g, <2>2, <3>2, <3>3, <3>4
  <2>6. ASSUME orders[p].ref, orders[p].provider # None, NEW pc \in {"ask", "spent"},
               Goto(c, [[IdleCheck EXCEPT !.todo = rest] EXCEPT
                           !.order = p, !.provider = orders[p].provider, !.pc = pc])
        PROVE  Moved
    <3>1. orders[p].provider \in Gateway BY <2>6 DEF BillingTypes, Rows
    <3>2. PICK g \in Gateway : g = orders[p].provider BY <3>1
    <3>0. PICK r : r = [[IdleCheck EXCEPT !.todo = rest] EXCEPT !.order = p, !.provider = g, !.pc = pc] OBVIOUS
    <3>3. r = CheckOf(pc, p, None, g, NoRow, 0, rest)
      BY <3>0 DEF IdleCheck, CheckOf
    <3>4. CheckShape(r) /\ r.pc = pc /\ r.order = p /\ r.provider = g
      BY <1>s, <3>3, IdleRecord DEF CheckShape, CheckOf
    <3>5. CheckerGoes(k, r) BY <2>2, <2>6, <3>4 DEF CheckerGoes
    <3>6. Goto(c, r) BY <2>6, <3>0, <3>2, <3>3
    <3> QED BY <1>g, <3>4, <3>5, <3>6
  <2> QED BY <1>a, <2>2, <2>3, <2>4, <2>5, <2>6
<1>2. ASSUME SkipGateway(c) PROVE Moved /\ CheckerFrame(c)
  <2>1. AfterStatus(c, o, "pending") /\ k.pc = "spent" /\ checkOnly' = checkOnly
    BY <1>2 DEF SkipGateway, checkOnly
  <2> QED BY <1>a, <1>t, <2>1
<1>3. ASSUME AskGateway(c) PROVE Moved /\ CheckerFrame(c)
  <2>1. k.pc = "ask" BY <1>3 DEF AskGateway
  <2>2. PICK status \in StatusesOf[k.provider][invoice[o]] : AfterStatus(c, o, status)
    BY <1>3 DEF AskGateway
  <2>3. status \in {"pending", "paid"} \union Closings /\ (status = "paid" => invoice[o] = "paid")
    BY <1>0, <2>1, <2>2, PaidIsPaid
  <2>4. Moved BY <1>t, <2>1, <2>2, <2>3
  <2>5. /\ reservation' = [reservation EXCEPT ![o].inquiries = @ + 1]
        /\ UNCHANGED <<orders, claims, invoice, posts, checkout, admin, raced, rewritten, deaths, now,
                       grants, subs>>
    BY <1>3 DEF AskGateway, CountInquiry, subscriptionVars
  <2>6. /\ reservation' \in [Order -> Reservations]
        /\ \A q \in Order : reservation'[q].state = reservation[q].state
    BY <1>0, <2>1, <2>5 DEF BillingTypes, Reservations
  <2>7. CheckerFrame(c) BY <2>5, <2>6 DEF CheckerFrame, BillingTypes
  <2> QED BY <2>4, <2>7
<1>4. ASSUME CheckTransition(c) PROVE Moved /\ CheckerFrame(c)
  <2>1. k.pc = "close" /\ checkOnly' = checkOnly BY <1>4 DEF CheckTransition, checkOnly
  <2>2. \/ Finish(c) \/ Abort(c)
        \/ /\ MayBecome(orders[o].status, k.target)
           /\ Goto(c, [k EXCEPT !.pc = "read", !.provider = orders[o].provider, !.row = orders[o]])
    BY <1>4 DEF CheckTransition
  <2>3. ASSUME MayBecome(orders[o].status, k.target),
               Goto(c, [k EXCEPT !.pc = "read", !.provider = orders[o].provider, !.row = orders[o]])
        PROVE  Moved
    <3>1. PICK g \in Gateway \union {None}, w \in Rows : g = orders[o].provider /\ w = orders[o]
      BY <1>0, <2>1 DEF Rows
    <3>0. PICK r : r = [k EXCEPT !.pc = "read", !.provider = g, !.row = w] OBVIOUS
    <3>2. r = CheckOf("read", o, k.target, g, w, k.stamp, k.todo)
      BY <3>0, <1>k DEF CheckOf
    <3>3. CheckShape(r) /\ r.pc = "read" /\ r.order = o /\ r.target = k.target /\ r.row = w
      BY <1>k, <1>s, <3>2 DEF CheckShape, CheckOf
    <3>4. CheckerGoes(k, r) BY <2>1, <2>3, <3>1, <3>3 DEF CheckerGoes
    <3>5. Goto(c, r) BY <2>3, <3>0, <3>1, <3>2
    <3> QED BY <1>g, <3>3, <3>4, <3>5
  <2> QED BY <1>a, <1>f, <2>1, <2>2, <2>3
<1>5. ASSUME ReadAgain(c) PROVE Moved /\ CheckerFrame(c)
  <2>1. /\ k.pc = "read" /\ o \in Order
        /\ Goto(c, [k EXCEPT !.pc = "write", !.row = orders[o]])
        /\ rewritten' = IF orders[o] # k.row THEN rewritten \union {o} ELSE rewritten
        /\ UNCHANGED <<orderVars, invoice, posts, checkout, admin, raced, deaths, now, grants, subs>>
    BY <1>0, <1>5 DEF ReadAgain, subscriptionVars
  <2>2. PICK w \in Rows : w = orders[o] BY <1>0, <2>1
  <2>r. PICK r : r = [k EXCEPT !.pc = "write", !.row = w] OBVIOUS
  <2>3. r = CheckOf("write", o, k.target, k.provider, w, k.stamp, k.todo)
    BY <2>r, <1>k DEF CheckOf
  <2>4. CheckShape(r) /\ r.pc = "write" /\ r.order = o /\ r.target = k.target /\ r.row = w
    BY <1>k, <1>s, <2>3 DEF CheckShape, CheckOf
  <2>5. CheckerGoes(k, r) BY <2>1, <2>2, <2>4 DEF CheckerGoes
  <2>g. Goto(c, r) BY <2>1, <2>2, <2>r, <2>3
  <2>6. Moved BY <1>g, <2>4, <2>5, <2>g
  <2>7. CheckerFrame(c) BY <2>1 DEF CheckerFrame, BillingTypes, orderVars
  <2> QED BY <2>6, <2>7
<1>6. ASSUME SaveClosed(c) PROVE Moved /\ CheckerFrame(c)
  <2>1. Finish(c) BY <1>6 DEF SaveClosed
  <2>2. /\ k.pc = "write" /\ o \in Order
        /\ rewritten' = IF orders[o] # k.row THEN rewritten \union {o} ELSE rewritten
        /\ UNCHANGED <<reservation, claims, invoice, posts, checkout, admin, raced, deaths, now, grants, subs>>
    BY <1>0, <1>6 DEF SaveClosed, SaveOrder, subscriptionVars
  <2>3. CheckerFrame(c) BY <1>6, <2>2 DEF CheckerFrame, BillingTypes
  <2> QED BY <1>f, <2>1, <2>3
<1>7. ASSUME Settle(c) PROVE Moved /\ CheckerFrame(c)
  <2>1. k.pc = "settle" /\ checkOnly' = checkOnly BY <1>7 DEF Settle, checkOnly
  <2>2. Finish(c) \/ Goto(c, [k EXCEPT !.pc = "confirm", !.stamp = now])
    BY <1>7 DEF Settle
  <2>3. ASSUME Goto(c, [k EXCEPT !.pc = "confirm", !.stamp = now]) PROVE Moved
    <3>0. PICK r : r = [k EXCEPT !.pc = "confirm", !.stamp = now] OBVIOUS
    <3>1. r = CheckOf("confirm", o, k.target, k.provider, k.row, now, k.todo)
      BY <3>0, <1>k DEF CheckOf
    <3>2. CheckShape(r) /\ r.pc = "confirm" /\ r.order = o /\ r.stamp = now
      BY <1>k, <1>s, <3>1 DEF CheckShape, CheckOf
    <3>3. CheckerGoes(k, r) BY <2>1, <3>2 DEF CheckerGoes
    <3>4. Goto(c, r) BY <2>3, <3>0, <3>1
    <3> QED BY <1>g, <3>2, <3>3, <3>4
  <2> QED BY <1>a, <1>f, <2>1, <2>2, <2>3
<1>8. ASSUME ConfirmOrder(c) PROVE Moved /\ CheckerFrame(c)
  <2>1. /\ k.pc = "confirm" /\ Goto(c, [k EXCEPT !.pc = "log"])
        /\ UNCHANGED <<reservation, invoice, posts, checkout, admin, rewritten, deaths, now>>
    BY <1>8 DEF ConfirmOrder
  <2>r. PICK r : r = [k EXCEPT !.pc = "log"] OBVIOUS
  <2>2. r = CheckOf("log", o, k.target, k.provider, k.row, k.stamp, k.todo)
    BY <2>r, <1>k DEF CheckOf
  <2>3. CheckShape(r) /\ r.pc = "log" /\ r.order = o
    BY <1>k, <1>s, <2>2 DEF CheckShape, CheckOf
  <2>4. CheckerGoes(k, r) BY <2>1, <2>3 DEF CheckerGoes
  <2>g. Goto(c, r) BY <2>1, <2>r, <2>2
  <2>5. Moved BY <1>g, <2>3, <2>4, <2>g
  <2>6. CheckerFrame(c) BY <1>8, <2>1 DEF CheckerFrame, BillingTypes
  <2> QED BY <2>5, <2>6
<1>9. ASSUME RefuseOrder(c) PROVE Moved /\ CheckerFrame(c)
  <2>1. (Finish(c) \/ Abort(c)) /\ checkOnly' = checkOnly
    BY <1>9 DEF RefuseOrder, checkOnly
  <2> QED BY <1>a, <1>f, <2>1
<1>10. ASSUME LogPurchase(c) PROVE Moved /\ CheckerFrame(c)
  <2>1. Finish(c) /\ checkOnly' = checkOnly BY <1>10 DEF LogPurchase, checkOnly
  <2> QED BY <1>a, <1>f, <2>1
<1>11. ASSUME CheckerDies(c) PROVE Moved /\ CheckerFrame(c)
  <2>1. /\ Abort(c) /\ deaths < MaxDeaths /\ deaths' = deaths + 1
        /\ UNCHANGED <<orderVars, invoice, posts, checkout, admin, raced, rewritten, now, grants, subs>>
    BY <1>11 DEF CheckerDies, subscriptionVars
  <2>2. deaths' \in 0..MaxDeaths BY <2>1, BillingConstants DEF BillingTypes
  <2>3. CheckerFrame(c) BY <2>1, <2>2 DEF CheckerFrame, BillingTypes, orderVars
  <2> QED BY <1>f, <2>1, <2>3
<1>12. ASSUME c = "cron", StartBatch PROVE Moved /\ CheckerFrame(c)
  <2>1. \E rest : Goto(c, [IdleCheck EXCEPT !.todo = rest])
    BY <1>12 DEF StartBatch
  <2>2. checkOnly' = checkOnly BY <1>12 DEF StartBatch, checkOnly
  <2> QED BY <1>a, <1>i, <2>1, <2>2
<1> QED
  BY <1>1, <1>2, <1>3, <1>4, <1>5, <1>6, <1>7, <1>8, <1>9, <1>10, <1>11, <1>12 DEF CheckStep

-----------------------------------------------------------------------------
\* The windows of a set of grants, laid end to end or after a gap.
LEMMA WindowsShape ==
  ASSUME NEW G, GoodGrants(G)
  PROVE  \E n \in Nat : \E s \in [1..n -> G], f \in [0..n -> Nat] : WindowsAre(G, n, s, f)
<1>1. PICK n \in Nat : n = Cardinality(Valid(G)) BY ValidInOrder
<1>2. PICK s : s = OrderedValid(G) OBVIOUS
<1>3. s \in [1..n -> Valid(G)] /\ Len(s) = n BY <1>1, <1>2, ValidInOrder
<1>4. s \in [1..n -> G] BY <1>3 DEF Valid
<1>5. \A i \in 1..n : s[i].at \in Nat /\ s[i].months \in Nat
  BY <1>4 DEF GoodGrants, GrantRecords
<1>6. \E f \in [0..n -> Nat] : WindowsAre(G, n, s, f)
  BY <1>2, <1>3, <1>5, WindowsOf
<1> QED BY <1>4, <1>6

\* The projection's end is a time, and none without grants.
LEMMA UntilType ==
  ASSUME NEW G, GoodGrants(G)
  PROVE  AuthorizedUntil(G) \in Int /\ (G = {} => AuthorizedUntil(G) = NoUntil)
<1>0. PICK n \in Nat : \E s \in [1..n -> G], f \in [0..n -> Nat] : WindowsAre(G, n, s, f)
  BY WindowsShape
<1>1. PICK s \in [1..n -> G], f \in [0..n -> Nat] : WindowsAre(G, n, s, f)
  BY <1>0
<1>2. PICK w : w = GrantWindows(G) OBVIOUS
<1>3. AuthorizedUntil(G) = IF w = <<>> THEN NoUntil ELSE w[Len(w)].end
  BY <1>2 DEF AuthorizedUntil
<1>4. CASE n = 0
  <2>1. w = <<>> BY <1>1, <1>2, <1>4 DEF WindowsAre
  <2> QED BY <1>3, <2>1 DEF NoUntil
<1>5. CASE n # 0
  <2>1. Len(w) = n /\ n \in 1..n /\ w[n].end = f[n] BY <1>1, <1>2, <1>5 DEF WindowsAre
  <2>2. G # {} BY <1>1, <1>5
  <2> QED BY <1>1, <1>3, <2>1, <2>2 DEF NoUntil
<1> QED BY <1>4, <1>5

\* Windows have no hole before their last end: every grant began by now, and each window starts
\* no later than the one before it ends or its grant began.
LEMMA WindowsCover ==
  ASSUME NEW G, GoodGrants(G), NEW t \in Nat, \A g \in G : g.at <= t,
         NEW w, w = GrantWindows(G), w # <<>>, ~(w[Len(w)].end <= t)
  PROVE  Covering(w, t) # {}
<1>0. PICK n \in Nat : \E s \in [1..n -> G], f \in [0..n -> Nat] : WindowsAre(G, n, s, f)
  BY WindowsShape
<1>1. PICK s \in [1..n -> G], f \in [0..n -> Nat] : WindowsAre(G, n, s, f)
  BY <1>0
<1>2. n # 0
  <2> SUFFICES ASSUME n = 0 PROVE w = <<>> OBVIOUS
  <2> QED BY <1>1 DEF WindowsAre
<1>3. Len(w) = n /\ \A i \in 1..n : w[i].start = f[i] - s[i].months /\ w[i].end = f[i]
  BY <1>1 DEF WindowsAre
<1>4. n \in 1..n /\ f[n] \in Nat /\ f[n] > t BY <1>2, <1>3
<1> DEFINE T == {i \in 1..n : f[i] > t}
<1>5. T \in SUBSET Nat /\ n \in T BY <1>4
<1>6. PICK k \in T : \A i \in T : k <= i
  <2> HIDE DEF T
  <2> QED BY <1>5, LeastNumber
<1>7. k \in 1..n /\ f[k] > t /\ k-1 \in 0..n /\ f[k-1] \in Nat BY <1>6
<1>8. f[k-1] <= t
  <2>1. CASE k = 1 BY <1>1, <2>1 DEF WindowsAre
  <2>2. CASE k # 1
    <3>1. k-1 \in 1..n /\ k-1 \notin T BY <1>6, <1>7, <2>2
    <3> QED BY <1>7, <3>1
  <2> QED BY <2>1, <2>2
<1>9. s[k] \in G /\ s[k].at \in Nat /\ s[k].at <= t /\ s[k].months \in Nat
  BY <1>7 DEF GoodGrants, GrantRecords
<1>10. f[k] - s[k].months <= t
  <2>1. f[k] = (IF s[k].at > f[k-1] THEN s[k].at ELSE f[k-1]) + s[k].months BY <1>1, <1>7 DEF WindowsAre
  <2> QED BY <1>7, <1>8, <1>9, <2>1, SMTT(30)
<1>11. w[k].start <= t /\ t < w[k].end BY <1>3, <1>7, <1>10
<1> QED BY <1>3, <1>7, <1>11 DEF Covering

-----------------------------------------------------------------------------
\* Some of the grants, and the grants with a new one, are good.
LEMMA GrantsOf ==
  ASSUME NEW G, GoodGrants(G), NEW H, H \subseteq G
  PROVE  GoodGrants(H)
BY FS_Subset DEF GoodGrants

\* A set of sound grants with one more of a new id is a set of sound grants.
LEMMA GrantsWith ==
  ASSUME NEW G, GoodGrants(G), NEW g \in GrantRecords, \A h \in G : h.id # g.id
  PROVE  GoodGrants(G \union {g})
BY FS_AddElement DEF GoodGrants

\* Undoing a gift changes what is reversed and nothing else.
LEMMA UndoKeeps ==
  ASSUME NEW G, GoodGrants(G), NEW id
  PROVE  /\ GoodGrants(Undo(G, id))
         /\ \A h \in Undo(G, id) : \E g \in G :
              h.id = g.id /\ h.user = g.user /\ h.at = g.at /\ h.gift = g.gift
         /\ \A g \in G : \E h \in Undo(G, id) :
              h.id = g.id /\ h.user = g.user /\ h.at = g.at /\ h.gift = g.gift
<1> DEFINE undone == [g \in G |-> IF g.id = id THEN [g EXCEPT !.reversed = TRUE] ELSE g]
           H == Undo(G, id)
<1>1. ASSUME NEW g \in G
      PROVE  /\ undone[g] \in GrantRecords /\ undone[g].id = g.id /\ undone[g].user = g.user
             /\ undone[g].at = g.at /\ undone[g].gift = g.gift
  <2>1. g \in GrantRecords BY DEF GoodGrants
  <2>2. CASE g.id = id
    <3>1. undone[g] = [g EXCEPT !.reversed = TRUE] BY <2>2
    <3>2. undone[g] = [id |-> g.id, user |-> g.user, months |-> g.months, at |-> g.at,
                       gift |-> g.gift, reversed |-> TRUE]
      BY <2>1, <3>1 DEF GrantRecords
    <3> HIDE DEF undone
    <3> QED BY <2>1, <3>2 DEF GrantRecords
  <2>3. CASE g.id # id
    <3>1. undone[g] = g BY <2>3
    <3> QED BY <2>1, <3>1
  <2> QED BY <2>2, <2>3
<1>2. H = {undone[g] : g \in G} BY DEF Undo
<1>3. undone \in Surjection(G, H) BY <1>2 DEF Surjection
<1> HIDE DEF undone
<1>4. IsFiniteSet(H) BY <1>3, FS_Surjection DEF GoodGrants
<1>5. \A h \in H : \E g \in G : h = undone[g] BY <1>2
<1>6. \A g \in G : undone[g] \in H BY <1>2
<1> HIDE DEF H
<1>7. H \subseteq GrantRecords BY <1>1, <1>5
<1>8. \A h, i \in H : h.id = i.id => h = i
  <2> SUFFICES ASSUME NEW h \in H, NEW i \in H, h.id = i.id PROVE h = i OBVIOUS
  <2>1. PICK g \in G : h = undone[g] BY <1>5
  <2>2. PICK j \in G : i = undone[j] BY <1>5
  <2>3. g.id = j.id BY <1>1, <2>1, <2>2
  <2>4. g = j BY <2>3 DEF GoodGrants
  <2> QED BY <2>1, <2>2, <2>4
<1>9. GoodGrants(H) BY <1>4, <1>7, <1>8 DEF GoodGrants
<1>10. \A h \in H : \E g \in G : h.id = g.id /\ h.user = g.user /\ h.at = g.at /\ h.gift = g.gift
  BY <1>1, <1>5
<1>11. \A g \in G : \E h \in H : h.id = g.id /\ h.user = g.user /\ h.at = g.at /\ h.gift = g.gift
  BY <1>1, <1>6
<1> QED BY <1>9, <1>10, <1>11 DEF H

\* Undoing a user's gift changes nobody else's grants.
LEMMA UndoOfUser ==
  ASSUME GoodGrants(grants), NEW id, NEW u, \E g \in grants : g.id = id /\ g.user = u,
         NEW v, grants' = Undo(grants, id)
  PROVE  /\ OfUser(u)' = Undo(OfUser(u), id)
         /\ v # u => OfUser(v)' = OfUser(v)
<1> DEFINE undone(g) == IF g.id = id THEN [g EXCEPT !.reversed = TRUE] ELSE g
<1>1. \A g \in grants : undone(g).user = g.user
  BY DEF GoodGrants, GrantRecords
<1>2. \A g \in grants : g.id = id => g.user = u
  BY DEF GoodGrants
<1>3. \A g \in grants : g.id # id => undone(g) = g OBVIOUS
<1>4. \A h : h \in grants' <=> \E g \in grants : h = undone(g)
  BY DEF Undo
<1>5. \A h : h \in Undo(OfUser(u), id) <=> \E g \in grants : g.user = u /\ h = undone(g)
  BY DEF Undo, OfUser
<1>6. \A w : \A h : h \in OfUser(w)' <=> h \in grants' /\ h.user = w
  BY DEF OfUser
<1>7. \A w : \A h : h \in OfUser(w) <=> h \in grants /\ h.user = w
  BY DEF OfUser
<1> HIDE DEF undone
<1>8. OfUser(u)' = Undo(OfUser(u), id)
  <2>1. \A h : h \in OfUser(u)' <=> h \in Undo(OfUser(u), id) BY <1>1, <1>4, <1>5, <1>6
  <2> QED BY <2>1
<1>9. v # u => OfUser(v)' = OfUser(v)
  <2> SUFFICES ASSUME v # u PROVE OfUser(v)' = OfUser(v) OBVIOUS
  <2>1. \A h : h \in OfUser(v)' <=> h \in OfUser(v) BY <1>1, <1>2, <1>3, <1>4, <1>6, <1>7
  <2> QED BY <2>1
<1> QED BY <1>8, <1>9

-----------------------------------------------------------------------------
\* The steps of the order side and of the admin service, to argue about one at a time.
OrderStep(o) ==
  \/ SelectPlan(o) \/ CheckoutStep(o) \/ CheckoutDies(o)
  \/ \E g \in Gateway : StartCheckout(o, g)
  \/ \E state \in InvoiceStates : InvoiceMoves(o, state)

\* A step of the system is one of an order, of a checker, of the admin service, or of time.
LEMMA StepsOf ==
  ASSUME [BillingNext]_billingVars
  PROVE  \/ \E o \in Order : OrderStep(o)
         \/ \E c \in Checker : CheckStep(c) \/ CheckerDies(c) \/ (c = "cron" /\ StartBatch)
         \/ AdminStep \/ Tick \/ UNCHANGED billingVars
<1>1. StartBatch => "cron" \in Checker BY DEF StartBatch
<1> QED BY <1>1 DEF BillingNext, OrderStep

\* What the order side leaves alone.
LEMMA OrderFrame ==
  ASSUME NEW o \in Order, OrderStep(o)
  PROVE  UNCHANGED <<claims, check, admin, raced, now, grants, subs>>
<1> USE DEF orderVars, subscriptionVars
<1>1. SelectPlan(o) => UNCHANGED <<claims, check, admin, raced, now, grants, subs>>
  BY DEF SelectPlan
<1>2. ASSUME NEW answer, CreateInvoice(o, answer)
      PROVE  UNCHANGED <<claims, check, admin, raced, now, grants, subs>>
  BY <1>2 DEF CreateInvoice
<1>3. ResolveCreation(o) \/ AttachCheckout(o) \/ ReloadAttached(o) \/ SavePending(o) \/ CheckoutDies(o)
        => UNCHANGED <<claims, check, admin, raced, now, grants, subs>>
  BY DEF ResolveCreation, AttachCheckout, ReloadAttached, SavePending, CheckoutDies
<1>4. ASSUME NEW g, StartCheckout(o, g)
      PROVE  UNCHANGED <<claims, check, admin, raced, now, grants, subs>>
  BY <1>4 DEF StartCheckout
<1>5. ASSUME NEW state, InvoiceMoves(o, state)
      PROVE  UNCHANGED <<claims, check, admin, raced, now, grants, subs>>
  BY <1>5 DEF InvoiceMoves
<1> QED BY <1>1, <1>2, <1>3, <1>4, <1>5 DEF OrderStep, CheckoutStep

\* What the admin service leaves alone.
LEMMA AdminFrame ==
  ASSUME AdminStep
  PROVE  UNCHANGED <<orders, reservation, claims, invoice, posts, checkout, check, rewritten, deaths, now>>
BY DEF AdminStep, ReadForGift, ReadForRevoke, GiveGift, RevokeGift, RereadForRevoke, Suspend,
       adminOnly, orderVars

-----------------------------------------------------------------------------
\* What the order side may do to its own rows: one action after the other.
OrderTypes ==
  /\ orders \in [Order -> Rows]
  /\ reservation \in [Order -> Reservations]
  /\ invoice \in [Order -> InvoiceStates \union {None}]
  /\ posts \in [Order -> Nat]
  /\ checkout \in [Order -> [pc: CheckoutPcs, provider: Gateway \union {None}, row: Rows]]
  /\ rewritten \subseteq Order /\ deaths \in 0..MaxDeaths

\* What no step takes back: rows and their deadlines, invoices and their payment, and who is known
\* as overtaken; and how a settled order may change.
Stays ==
  /\ \A p \in Order : orders[p] # NoRow => orders'[p] # NoRow /\ orders'[p].expires = orders[p].expires
  /\ \A p \in Order : invoice[p] # None => invoice'[p] # None
  /\ \A p \in Order : invoice[p] = "paid" => invoice'[p] = "paid"
  /\ rewritten \subseteq rewritten'
  /\ \A p \in Order : orders'[p].status = "paid" => orders[p].status = "paid" \/ p \in claims'
  /\ \A p \in Order : orders[p].status \notin Open \union {None} =>
       orders'[p].status = orders[p].status \/ p \in rewritten'

\* A step on an order keeps what is known of orders and held checkouts.
LEMMA OrderSide ==
  ASSUME OrderTypes, CheckoutInv, CheckoutHeld, now \in Nat, NEW o \in Order, OrderStep(o)
  PROVE  OrderTypes' /\ CheckoutInv' /\ CheckoutHeld' /\ Stays
<1> DEFINE Goal == OrderTypes' /\ CheckoutInv' /\ CheckoutHeld' /\ Stays
<1> USE DEF orderVars
<1>0. NoRow \in Rows /\ IdleCheckout \in [pc: CheckoutPcs, provider: Gateway \union {None}, row: Rows]
      /\ {"pending", "created"} \subseteq OrderStatuses
      /\ {"idle", "post", "created", "ambiguous", "failed", "attach", "reload", "save"} \subseteq CheckoutPcs
  BY IdleRecord DEF IdleCheckout, CheckoutPcs, NoRow, OrderStatuses
<1>r. /\ orders[o] \in Rows /\ reservation[o] \in Reservations /\ posts[o] \in Nat
      /\ checkout[o].provider \in Gateway \union {None} /\ checkout[o].row \in Rows
      /\ checkout[o] = [pc |-> checkout[o].pc, provider |-> checkout[o].provider, row |-> checkout[o].row]
  BY DEF OrderTypes
\* A checkout that moves, and no row, no invoice and no reservation with it.
<1>m. ASSUME NEW r \in [pc: CheckoutPcs, provider: Gateway \union {None}, row: Rows],
             checkout' = [checkout EXCEPT ![o] = r]
      PROVE  /\ checkout' \in [Order -> [pc: CheckoutPcs, provider: Gateway \union {None}, row: Rows]]
             /\ checkout'[o] = r /\ \A p \in Order \ {o} : checkout'[p] = checkout[p]
  BY <1>m DEF OrderTypes
<1>n. None \notin Open /\ OrderStatuses \cap {None} = {} /\ NoRow.status = None
  BY DEF None, Open, OrderStatuses, NoRow
<1>1. ASSUME SelectPlan(o) PROVE Goal
  <2>0. now + Life \in Nat BY BillingConstants
  <2>1. NewRow \in Rows /\ NewRow.status = "created" /\ ~NewRow.ref
    BY <2>0 DEF NewRow, Rows, OrderStatuses
  <2>w. NewRow # NoRow BY <2>1, <1>n DEF Open
  <2>2. /\ orders[o] = NoRow /\ orders' = [orders EXCEPT ![o] = NewRow]
        /\ UNCHANGED <<rewritten, reservation, invoice, posts, checkout, deaths>>
    BY <1>1 DEF SelectPlan
  <2>3. orders'[o] = NewRow /\ \A p \in Order \ {o} : orders'[p] = orders[p]
    BY <2>2 DEF OrderTypes
  <2>4. orders' \in [Order -> Rows] BY <2>1, <2>2 DEF OrderTypes
  <2>5. OrderTypes' BY <2>2, <2>4 DEF OrderTypes
  <2>6. CheckoutInv' BY <2>1, <2>w, <2>2, <2>3 DEF CheckoutInv, OneInvoicePerOrder
  <2>7. checkout[o].pc = "idle" BY <2>2 DEF CheckoutInv
  <2>8. CheckoutHeld' BY <2>2, <2>3, <2>7 DEF CheckoutHeld
  <2>9. Stays BY <1>n, <2>1, <2>2, <2>3 DEF Stays
  <2> QED BY <2>5, <2>6, <2>8, <2>9
<1>2. ASSUME NEW g \in Gateway, StartCheckout(o, g) PROVE Goal
  <2>1. /\ checkout[o].pc = "idle" /\ orders[o].status \in Open /\ reservation[o].state = "not_started"
        /\ reservation' = [reservation EXCEPT ![o].state = "attempting"]
        /\ checkout' = [checkout EXCEPT ![o] = [pc |-> "post", provider |-> g, row |-> NoRow]]
        /\ UNCHANGED <<orders, invoice, posts, rewritten, deaths>>
    BY <1>2 DEF StartCheckout, BeginCreation
  <2>2. PICK r : r = [pc |-> "post", provider |-> g, row |-> NoRow] OBVIOUS
  <2>3. r \in [pc: CheckoutPcs, provider: Gateway \union {None}, row: Rows] /\ r.pc = "post" /\ r.provider = g
    BY <1>0, <2>2
  <2>4. /\ checkout' \in [Order -> [pc: CheckoutPcs, provider: Gateway \union {None}, row: Rows]]
        /\ checkout'[o] = r /\ \A p \in Order \ {o} : checkout'[p] = checkout[p]
    BY <1>m, <2>1, <2>2, <2>3
  <2>5. /\ reservation' \in [Order -> Reservations]
        /\ reservation'[o].state = "attempting" /\ \A p \in Order \ {o} : reservation'[p] = reservation[p]
    BY <2>1 DEF OrderTypes, Reservations, CreationStates
  <2>6. OrderTypes' BY <2>1, <2>4, <2>5 DEF OrderTypes
  <2>7. orders[o] # NoRow BY <1>n, <2>1
  <2>8. posts[o] = 0 BY <1>r, <2>1 DEF CheckoutInv, OneInvoicePerOrder
  <2>9. CheckoutInv' BY <2>1, <2>3, <2>4, <2>5, <2>7, <2>8 DEF CheckoutInv, OneInvoicePerOrder
  <2>10. CheckoutHeld' BY <2>1, <2>3, <2>4 DEF CheckoutHeld
  <2>11. Stays BY <2>1 DEF Stays
  <2> QED BY <2>6, <2>9, <2>10, <2>11
<1>3. ASSUME NEW answer \in CreateAnswers, CreateInvoice(o, answer) PROVE Goal
  <2>1. PICK made \in BOOLEAN :
          /\ answer = "link" => made
          /\ invoice' = IF made THEN [invoice EXCEPT ![o] = "open"] ELSE invoice
    BY <1>3 DEF CreateInvoice
  <2>2. PICK p1 : p1 = CreateOutcome(checkout[o].provider, Amount[o], answer) OBVIOUS
  <2>3. /\ checkout[o].pc = "post" /\ posts' = [posts EXCEPT ![o] = @ + 1]
        /\ checkout' = [checkout EXCEPT ![o].pc = p1]
        /\ UNCHANGED <<orders, reservation, rewritten, deaths>>
    BY <1>3, <2>2 DEF CreateInvoice
  <2>4. /\ posts[o] = 0 /\ invoice[o] = None /\ orders[o] # NoRow /\ checkout[o].provider \in Gateway
        /\ reservation[o].state # "not_started" /\ ~orders[o].ref
    BY <1>r, <2>3 DEF CheckoutInv, OneInvoicePerOrder
  <2>5. /\ AnswerOutcome(answer) \in {"created", "ambiguous", "failed"}
        /\ AnswerOutcome(answer) = "created" => answer = "link"
    BY DEF AnswerOutcome, CreateAnswers
  <2>6. p1 \in {"created", "ambiguous", "failed"} /\ (p1 = "created" => answer = "link")
    BY <2>2, <2>4, <2>5 DEF CreateOutcome, HooshPayCreate, TetraminatorCreate, UniquePayCreate, Gateway
  <2>e. PICK r : r = [checkout[o] EXCEPT !.pc = p1] OBVIOUS
  <2>7. r = [pc |-> p1, provider |-> checkout[o].provider, row |-> checkout[o].row] BY <1>r, <2>e
  <2>8. /\ r \in [pc: CheckoutPcs, provider: Gateway \union {None}, row: Rows] /\ r.pc = p1
        /\ r.provider = checkout[o].provider
    BY <1>0, <1>r, <2>6, <2>7
  <2>9. checkout' = [checkout EXCEPT ![o] = r] BY <2>3, <2>e
  <2>10. /\ checkout' \in [Order -> [pc: CheckoutPcs, provider: Gateway \union {None}, row: Rows]]
         /\ checkout'[o] = r /\ \A p \in Order \ {o} : checkout'[p] = checkout[p]
    BY <1>m, <2>8, <2>9
  <2>11. /\ posts' \in [Order -> Nat] /\ posts'[o] = 1 /\ \A p \in Order \ {o} : posts'[p] = posts[p]
    BY <2>3, <2>4 DEF OrderTypes
  <2>12. /\ invoice' \in [Order -> InvoiceStates \union {None}]
         /\ \A p \in Order \ {o} : invoice'[p] = invoice[p]
         /\ p1 = "created" => invoice'[o] # None
    BY <2>1, <2>6 DEF OrderTypes, InvoiceStates, None
  <2>13. OrderTypes' BY <2>3, <2>10, <2>11, <2>12 DEF OrderTypes
  <2>14. CheckoutInv'
    BY <2>3, <2>4, <2>6, <2>8, <2>10, <2>11, <2>12 DEF CheckoutInv, OneInvoicePerOrder
  <2>15. CheckoutHeld' BY <2>3, <2>6, <2>8, <2>10 DEF CheckoutHeld
  <2>16. Stays BY <2>3, <2>4, <2>12 DEF Stays, None
  <2> QED BY <2>13, <2>14, <2>15, <2>16
<1>4. ASSUME ResolveCreation(o) PROVE Goal
  <2>1. /\ checkout[o].pc \in {"created", "ambiguous", "failed"}
        /\ reservation' = [reservation EXCEPT ![o].state = checkout[o].pc]
        /\ checkout' = IF checkout[o].pc = "created" THEN [checkout EXCEPT ![o].pc = "attach"]
                       ELSE [checkout EXCEPT ![o] = IdleCheckout]
        /\ UNCHANGED <<orders, invoice, posts, rewritten, deaths>>
    BY <1>4 DEF ResolveCreation
  <2>e. PICK r : r = IF checkout[o].pc = "created" THEN [checkout[o] EXCEPT !.pc = "attach"]
                     ELSE IdleCheckout
    OBVIOUS
  <2>2. r = IF checkout[o].pc = "created"
            THEN [pc |-> "attach", provider |-> checkout[o].provider, row |-> checkout[o].row]
            ELSE IdleCheckout
    BY <1>r, <2>e
  <2>3. /\ r \in [pc: CheckoutPcs, provider: Gateway \union {None}, row: Rows]
        /\ \/ r.pc = "idle"
           \/ r.pc = "attach" /\ checkout[o].pc = "created" /\ r.provider = checkout[o].provider
    BY <1>0, <1>r, <2>2 DEF IdleCheckout
  <2>4. checkout' = [checkout EXCEPT ![o] = r] BY <2>1, <2>e
  <2>5. /\ checkout' \in [Order -> [pc: CheckoutPcs, provider: Gateway \union {None}, row: Rows]]
        /\ checkout'[o] = r /\ \A p \in Order \ {o} : checkout'[p] = checkout[p]
    BY <1>m, <2>3, <2>4
  <2>6. /\ reservation' \in [Order -> Reservations]
        /\ reservation'[o].state = checkout[o].pc
        /\ \A p \in Order \ {o} : reservation'[p] = reservation[p]
    BY <2>1 DEF OrderTypes, Reservations, CreationStates
  <2>7. OrderTypes' BY <2>1, <2>5, <2>6 DEF OrderTypes
  <2>8. CheckoutInv' BY <2>1, <2>3, <2>5, <2>6 DEF CheckoutInv, OneInvoicePerOrder
  <2>9. CheckoutHeld' BY <2>1, <2>3, <2>5 DEF CheckoutHeld
  <2>10. Stays BY <2>1 DEF Stays
  <2> QED BY <2>7, <2>8, <2>9, <2>10
<1>5. ASSUME AttachCheckout(o) PROVE Goal
  <2>1. /\ checkout[o].pc = "attach"
        /\ orders' = IF orders[o].ref THEN orders
                     ELSE [orders EXCEPT ![o].ref = TRUE, ![o].provider = checkout[o].provider]
        /\ checkout' = [checkout EXCEPT ![o].pc = "reload"]
        /\ UNCHANGED <<reservation, invoice, posts, rewritten, deaths>>
    BY <1>5 DEF AttachCheckout
  <2>e. PICK r : r = [checkout[o] EXCEPT !.pc = "reload"] OBVIOUS
  <2>2. r = [pc |-> "reload", provider |-> checkout[o].provider, row |-> checkout[o].row]
    BY <1>r, <2>e
  <2>3. /\ r \in [pc: CheckoutPcs, provider: Gateway \union {None}, row: Rows]
        /\ r.pc = "reload" /\ r.provider = checkout[o].provider
    BY <1>0, <1>r, <2>2
  <2>4. checkout' = [checkout EXCEPT ![o] = r] BY <2>1, <2>e
  <2>5. /\ checkout' \in [Order -> [pc: CheckoutPcs, provider: Gateway \union {None}, row: Rows]]
        /\ checkout'[o] = r /\ \A p \in Order \ {o} : checkout'[p] = checkout[p]
    BY <1>m, <2>3, <2>4
  <2>6. /\ invoice[o] # None /\ orders[o] # NoRow /\ posts[o] = 1
        /\ checkout[o].provider \in Gateway /\ reservation[o].state # "not_started"
    BY <2>1 DEF CheckoutInv, OneInvoicePerOrder
  <2>w. PICK f : f = [orders EXCEPT ![o].ref = TRUE] OBVIOUS
  <2>v. /\ f \in [Order -> Rows]
        /\ f[o].status = orders[o].status /\ f[o].expires = orders[o].expires /\ f[o].ref
        /\ \A p \in Order \ {o} : f[p] = orders[p]
    BY <1>r, <2>w DEF OrderTypes, Rows
  <2>u. PICK g : g = [f EXCEPT ![o].provider = checkout[o].provider] OBVIOUS
  <2>t. /\ g \in [Order -> Rows]
        /\ g[o].status = f[o].status /\ g[o].expires = f[o].expires /\ g[o].ref
        /\ \A p \in Order \ {o} : g[p] = f[p]
    BY <1>r, <2>v, <2>u DEF Rows
  <2>s. orders' = IF orders[o].ref THEN orders ELSE g BY <2>1, <2>w, <2>u
  <2>7. /\ orders' \in [Order -> Rows]
        /\ orders'[o].status = orders[o].status /\ orders'[o].expires = orders[o].expires
        /\ orders'[o].ref
        /\ \A p \in Order \ {o} : orders'[p] = orders[p]
    BY <2>s, <2>t, <2>v DEF OrderTypes
  <2>8. orders'[o] # NoRow BY <2>7 DEF NoRow
  <2>9. OrderTypes' BY <2>1, <2>5, <2>7 DEF OrderTypes
  <2>a. UNCHANGED <<reservation, invoice, posts>> BY <2>1
  <2>10. CheckoutInv' BY <2>3, <2>5, <2>6, <2>7, <2>8, <2>a, SMTT(30) DEF CheckoutInv, OneInvoicePerOrder
  <2>11. CheckoutHeld' BY <2>1, <2>3, <2>5, <2>7 DEF CheckoutHeld
  <2>12. Stays BY <2>1, <2>7, <2>8 DEF Stays
  <2> QED BY <2>9, <2>10, <2>11, <2>12
<1>6. ASSUME ReloadAttached(o) PROVE Goal
  <2>1. /\ checkout[o].pc = "reload"
        /\ checkout' = [checkout EXCEPT ![o].row = orders[o], ![o].pc = "save"]
        /\ rewritten' = IF orders[o].status \notin Open THEN rewritten \union {o} ELSE rewritten
        /\ UNCHANGED <<orders, reservation, invoice, posts, deaths>>
    BY <1>6 DEF ReloadAttached
  <2>e. PICK r : r = [checkout[o] EXCEPT !.row = orders[o], !.pc = "save"] OBVIOUS
  <2>2. r = [pc |-> "save", provider |-> checkout[o].provider, row |-> orders[o]]
    BY <1>r, <2>e
  <2>3. /\ r \in [pc: CheckoutPcs, provider: Gateway \union {None}, row: Rows]
        /\ r.pc = "save" /\ r.provider = checkout[o].provider /\ r.row = orders[o]
    BY <1>0, <1>r, <2>2
  <2>4. checkout' = [checkout EXCEPT ![o] = r] BY <2>1, <2>e
  <2>5. /\ checkout' \in [Order -> [pc: CheckoutPcs, provider: Gateway \union {None}, row: Rows]]
        /\ checkout'[o] = r /\ \A p \in Order \ {o} : checkout'[p] = checkout[p]
    BY <1>m, <2>3, <2>4
  <2>6. /\ invoice[o] # None /\ orders[o] # NoRow /\ posts[o] = 1
        /\ checkout[o].provider \in Gateway /\ reservation[o].state # "not_started"
    BY <2>1 DEF CheckoutInv, OneInvoicePerOrder
  <2>7. OrderTypes' BY <2>1, <2>5 DEF OrderTypes
  <2>8. CheckoutInv' BY <2>1, <2>3, <2>5, <2>6 DEF CheckoutInv, OneInvoicePerOrder
  <2>9. CheckoutHeld' BY <2>1, <2>3, <2>5 DEF CheckoutHeld
  <2>10. Stays BY <2>1 DEF Stays
  <2> QED BY <2>7, <2>8, <2>9, <2>10
<1>7. ASSUME SavePending(o) PROVE Goal
  <2>1. PICK w : w = [checkout[o].row EXCEPT !.status = "pending", !.provider = checkout[o].provider]
    OBVIOUS
  <2>2. /\ w \in Rows /\ w.status = "pending" /\ w.expires = checkout[o].row.expires
    BY <1>0, <1>r, <2>1 DEF Rows
  <2>3. /\ checkout[o].pc = "save" /\ orders' = [orders EXCEPT ![o] = w]
        /\ rewritten' = IF orders[o] # checkout[o].row THEN rewritten \union {o} ELSE rewritten
        /\ checkout' = [checkout EXCEPT ![o] = IdleCheckout]
        /\ UNCHANGED <<reservation, invoice, posts, deaths>>
    BY <1>7, <2>1 DEF SavePending, SaveOrder
  <2>4. /\ checkout' \in [Order -> [pc: CheckoutPcs, provider: Gateway \union {None}, row: Rows]]
        /\ checkout'[o] = IdleCheckout /\ \A p \in Order \ {o} : checkout'[p] = checkout[p]
    BY <1>0, <1>m, <2>3
  <2>5. IdleCheckout.pc = "idle" BY DEF IdleCheckout
  <2>6. /\ invoice[o] # None /\ orders[o] # NoRow /\ posts[o] = 1 /\ reservation[o].state # "not_started"
    BY <2>3 DEF CheckoutInv, OneInvoicePerOrder
  <2>7. /\ orders' \in [Order -> Rows] /\ orders'[o] = w
        /\ \A p \in Order \ {o} : orders'[p] = orders[p]
    BY <2>2, <2>3 DEF OrderTypes
  <2>8. w # NoRow /\ w.expires = orders[o].expires
    BY <1>n, <2>2, <2>3 DEF CheckoutHeld, Open
  <2>9. OrderTypes' BY <2>3, <2>4, <2>7 DEF OrderTypes
  <2>10. CheckoutInv' BY <2>3, <2>4, <2>5, <2>6, <2>7, <2>8 DEF CheckoutInv, OneInvoicePerOrder
  <2>11. CheckoutHeld' BY <2>3, <2>4, <2>5, <2>7 DEF CheckoutHeld
  <2>12. orders[o].status \notin Open \union {None} => o \in rewritten'
    BY <2>3 DEF CheckoutHeld
  <2>13. Stays BY <2>2, <2>3, <2>7, <2>8, <2>12 DEF Stays
  <2> QED BY <2>9, <2>10, <2>11, <2>13
<1>8. ASSUME CheckoutDies(o) PROVE Goal
  <2>1. /\ checkout' = [checkout EXCEPT ![o] = IdleCheckout] /\ deaths < MaxDeaths /\ deaths' = deaths + 1
        /\ UNCHANGED <<orders, reservation, invoice, posts, rewritten>>
    BY <1>8 DEF CheckoutDies
  <2>2. /\ checkout' \in [Order -> [pc: CheckoutPcs, provider: Gateway \union {None}, row: Rows]]
        /\ checkout'[o] = IdleCheckout /\ \A p \in Order \ {o} : checkout'[p] = checkout[p]
    BY <1>0, <1>m, <2>1
  <2>3. IdleCheckout.pc = "idle" BY DEF IdleCheckout
  <2>4. deaths' \in 0..MaxDeaths BY <2>1, BillingConstants DEF OrderTypes
  <2>5. OrderTypes' BY <2>1, <2>2, <2>4 DEF OrderTypes
  <2>6. CheckoutInv' BY <2>1, <2>2, <2>3 DEF CheckoutInv, OneInvoicePerOrder
  <2>7. CheckoutHeld' BY <2>1, <2>2, <2>3 DEF CheckoutHeld
  <2>8. Stays BY <2>1 DEF Stays
  <2> QED BY <2>5, <2>6, <2>7, <2>8
<1>9. ASSUME NEW state \in InvoiceStates, InvoiceMoves(o, state) PROVE Goal
  <2>1. /\ invoice[o] = "open" /\ invoice' = [invoice EXCEPT ![o] = state]
        /\ UNCHANGED <<orders, reservation, posts, checkout, rewritten, deaths>>
    BY <1>9 DEF InvoiceMoves
  <2>2. state # None /\ "open" # None BY DEF InvoiceStates, None
  <2>3. /\ invoice' \in [Order -> InvoiceStates \union {None}] /\ invoice'[o] = state
        /\ \A p \in Order \ {o} : invoice'[p] = invoice[p]
    BY <2>1 DEF OrderTypes
  <2>4. OrderTypes' BY <2>1, <2>3 DEF OrderTypes
  <2>5. CheckoutInv' BY <2>1, <2>2, <2>3 DEF CheckoutInv, OneInvoicePerOrder
  <2>6. CheckoutHeld' BY <2>1 DEF CheckoutHeld
  <2>7. Stays BY <2>1, <2>2, <2>3 DEF Stays
  <2> QED BY <2>4, <2>5, <2>6, <2>7
<1> QED
  BY <1>1, <1>2, <1>3, <1>4, <1>5, <1>6, <1>7, <1>8, <1>9, BillingConstants
     DEF OrderStep, CheckoutStep

\* The same of a checker's steps: a closing save and a confirmation write one row.
LEMMA CheckerSide ==
  ASSUME BillingTypes, CheckoutInv, CheckInv, CheckoutHeld, CheckHeld, NEW c \in Checker,
         CheckStep(c) \/ CheckerDies(c) \/ (c = "cron" /\ StartBatch)
  PROVE  OrderTypes' /\ CheckoutInv' /\ CheckoutHeld' /\ Stays
<1> DEFINE k == check[c]
           o == k.order
<1>1. CheckerFrame(c) BY CheckerMoves
<1>2. OrderTypes BY DEF BillingTypes, OrderTypes
<1>3. /\ UNCHANGED <<invoice, posts, checkout>>
      /\ reservation' \in [Order -> Reservations]
      /\ \A p \in Order : reservation'[p].state = reservation[p].state
      /\ rewritten \subseteq rewritten' /\ rewritten' \subseteq Order /\ deaths' \in 0..MaxDeaths
  BY <1>1 DEF CheckerFrame
<1>n. None \notin Open \union Closings \union {"paid"} /\ NoRow.status = None
      /\ Closings \union {"paid"} \subseteq OrderStatuses
      /\ (Closings \union {"paid"}) \cap Open = {} /\ "paid" \notin Closings
  BY DEF None, Open, OrderStatuses, NoRow, Closings
\* One row is written, that of the order checked.
<1>w. ASSUME o \in Order, orders' \in [Order -> Rows], orders[o] # NoRow,
             \A p \in Order \ {o} : orders'[p] = orders[p],
             orders'[o].expires = orders[o].expires, orders'[o].ref => invoice[o] # None,
             \/ orders'[o].status \in Closings
             \/ orders'[o].status = "paid" /\ o \in claims',
             orders[o].status \notin Open \union {None} =>
               orders'[o].status = orders[o].status \/ o \in rewritten'
      PROVE  OrderTypes' /\ CheckoutInv' /\ CheckoutHeld' /\ Stays
  <2>1. orders'[o] # NoRow BY <1>n, <1>w
  <2>2. OrderTypes' BY <1>2, <1>3, <1>w DEF OrderTypes
  <2>3. CheckoutInv' BY <1>3, <1>w, <2>1 DEF CheckoutInv, OneInvoicePerOrder
  <2>4. CheckoutHeld' BY <1>3, <1>w DEF CheckoutHeld
  <2>5. Stays BY <1>3, <1>n, <1>w, <2>1 DEF Stays
  <2> QED BY <2>2, <2>3, <2>4, <2>5
<1>a. CASE UNCHANGED <<orders, claims, grants, subs, raced>>
  <2>1. OrderTypes' BY <1>2, <1>3, <1>a DEF OrderTypes
  <2>2. CheckoutInv' BY <1>3, <1>a DEF CheckoutInv, OneInvoicePerOrder
  <2>3. CheckoutHeld' BY <1>3, <1>a DEF CheckoutHeld
  <2>4. Stays BY <1>3, <1>a DEF Stays
  <2> QED BY <2>1, <2>2, <2>3, <2>4
<1>b. CASE SaveClosed(c)
  <2>0. /\ k.pc = "write" /\ o \in Order /\ orders[o] # NoRow /\ orders[o] \in Rows
        /\ k.target \in Closings /\ k.row \in Rows /\ k.provider \in Gateway \union {None}
    BY <1>b DEF SaveClosed, CheckInv, BillingTypes, CheckShape
  <2>1. PICK w : w = [k.row EXCEPT !.status = k.target, !.provider = k.provider] OBVIOUS
  <2>2. /\ w \in Rows /\ w.status = k.target /\ w.expires = k.row.expires /\ w.ref = k.row.ref
    BY <1>n, <2>0, <2>1 DEF Rows
  <2>3. /\ orders' = [orders EXCEPT ![o] = w]
        /\ rewritten' = IF orders[o] # k.row THEN rewritten \union {o} ELSE rewritten
    BY <1>b, <2>1 DEF SaveClosed, SaveOrder
  <2>4. /\ orders' \in [Order -> Rows] /\ orders'[o] = w
        /\ \A p \in Order \ {o} : orders'[p] = orders[p]
    BY <2>0, <2>2, <2>3 DEF BillingTypes
  <2>5. /\ k.row.expires = orders[o].expires
        /\ k.row.ref => invoice[o] # None
        /\ MayBecome(k.row.status, k.target) \/ o \in rewritten
    BY <2>0 DEF CheckHeld
  <2>6. orders[o].status \notin Open \union {None} => w.status = orders[o].status \/ o \in rewritten'
    BY <2>0, <2>2, <2>3, <2>5 DEF MayBecome, Open
  <2> QED BY <1>w, <2>0, <2>2, <2>4, <2>5, <2>6
<1>c. CASE ConfirmOrder(c)
  <2>0. k.pc = "confirm" /\ o \in Order /\ orders[o] # NoRow /\ orders[o] \in Rows
        /\ k.provider \in Gateway \union {None}
    BY <1>c DEF ConfirmOrder, CheckInv, BillingTypes, CheckShape
  <2>1. PICK f : f = [orders EXCEPT ![o].status = "paid"] OBVIOUS
  <2>2. /\ f \in [Order -> Rows]
        /\ f[o].status = "paid" /\ f[o].expires = orders[o].expires /\ f[o].ref = orders[o].ref
        /\ \A p \in Order \ {o} : f[p] = orders[p]
    BY <1>n, <2>0, <2>1 DEF BillingTypes, Rows
  <2>3. PICK g : g = [f EXCEPT ![o].provider = k.provider] OBVIOUS
  <2>4. /\ g \in [Order -> Rows]
        /\ g[o].status = f[o].status /\ g[o].expires = f[o].expires /\ g[o].ref = f[o].ref
        /\ \A p \in Order \ {o} : g[p] = f[p]
    BY <2>0, <2>2, <2>3 DEF Rows
  <2>5. orders' = g BY <1>c, <2>1, <2>3 DEF ConfirmOrder
  <2>6. o \in claims' /\ MayBecome(orders[o].status, "paid")
    BY <1>c DEF ConfirmOrder, Confirmable
  <2>7. orders[o].ref => invoice[o] # None BY <2>0 DEF CheckoutInv
  <2>8. orders[o].status \notin Open \union {None} => orders[o].status = "paid"
    BY <2>6 DEF MayBecome, Open
  <2>9. orders'[o].status = "paid" /\ orders'[o].expires = orders[o].expires
        /\ orders'[o].ref = orders[o].ref /\ \A p \in Order \ {o} : orders'[p] = orders[p]
    BY <2>2, <2>4, <2>5
  <2> QED BY <1>w, <2>0, <2>4, <2>5, <2>6, <2>7, <2>8, <2>9
<1> QED BY <1>1, <1>a, <1>b, <1>c DEF CheckerFrame

\* The rows, the invoices and who holds them, whatever the step.
LEMMA RowsStep ==
  ASSUME BillingTypes, CheckoutInv, CheckInv, CheckoutHeld, CheckHeld, [BillingNext]_billingVars
  PROVE  OrderTypes' /\ CheckoutInv' /\ CheckoutHeld' /\ Stays
<1>1. OrderTypes /\ now \in Nat BY BillingConstants DEF BillingTypes, OrderTypes
<1>2. ASSUME NEW o \in Order, OrderStep(o) PROVE OrderTypes' /\ CheckoutInv' /\ CheckoutHeld' /\ Stays
  BY <1>1, <1>2, OrderSide
<1>3. ASSUME NEW c \in Checker, CheckStep(c) \/ CheckerDies(c) \/ (c = "cron" /\ StartBatch)
      PROVE  OrderTypes' /\ CheckoutInv' /\ CheckoutHeld' /\ Stays
  BY <1>3, CheckerSide
<1>4. ASSUME AdminStep \/ Tick \/ UNCHANGED billingVars
      PROVE  OrderTypes' /\ CheckoutInv' /\ CheckoutHeld' /\ Stays
  <2>1. UNCHANGED <<orders, reservation, invoice, posts, checkout, rewritten, deaths>>
    BY <1>4, AdminFrame DEF Tick, billingVars, orderVars
  <2>2. OrderTypes' BY <1>1, <2>1 DEF OrderTypes
  <2>3. CheckoutInv' BY <2>1 DEF CheckoutInv, OneInvoicePerOrder
  <2>4. CheckoutHeld' BY <2>1 DEF CheckoutHeld
  <2>5. Stays BY <2>1 DEF Stays
  <2> QED BY <2>2, <2>3, <2>4, <2>5
<1> QED BY <1>2, <1>3, <1>4, StepsOf

\* What a check holds, whatever the step.
LEMMA ChecksStep ==
  ASSUME BillingTypes, CheckoutInv, CheckInv, CheckHeld, Stays, now \in Nat,
         [BillingNext]_billingVars
  PROVE  /\ DOMAIN check' = Checker /\ \A c \in Checker : CheckShape(check'[c])
         /\ CheckInv' /\ CheckHeld'
<1> DEFINE Held(c) ==
             LET k == check[c] IN
             /\ k.pc # "idle" => k.order \in Order /\ orders[k.order] # NoRow
             /\ k.pc = "ask" => k.provider \in Gateway /\ invoice[k.order] # None
             /\ k.pc \in {"close", "read", "write"} => k.target \in Closings
             /\ k.pc \in {"settle", "confirm"} => invoice[k.order] = "paid"
             /\ k.pc = "confirm" => k.stamp <= now
             /\ k.pc \in {"read", "write"} =>
                  /\ k.row.expires = orders[k.order].expires
                  /\ k.row.ref => invoice[k.order] # None
                  /\ MayBecome(k.row.status, k.target) \/ k.order \in rewritten
<1>1. \A c \in Checker : Held(c) BY DEF CheckInv, CheckHeld
<1>2. (\A c \in Checker : Held(c)') => CheckInv' /\ CheckHeld' BY DEF CheckInv, CheckHeld
<1>t. now' \in Nat /\ now <= now'
  <2>1. ASSUME NEW o \in Order, OrderStep(o) PROVE now' = now BY <2>1, OrderFrame
  <2>2. ASSUME NEW c \in Checker, CheckStep(c) \/ CheckerDies(c) \/ (c = "cron" /\ StartBatch)
        PROVE  now' = now
    BY <2>2, CheckerMoves DEF CheckerFrame
  <2>3. AdminStep \/ UNCHANGED billingVars => now' = now BY AdminFrame DEF billingVars
  <2>4. Tick => now' = now + 1 BY DEF Tick
  <2> QED BY <2>1, <2>2, <2>3, <2>4, StepsOf
<1>3. ASSUME NEW c \in Checker, check'[c] = check[c] PROVE CheckShape(check'[c]) /\ Held(c)'
  <2>1. Held(c) BY <1>1
  <2>2. CheckShape(check[c]) /\ check[c].stamp \in Nat BY DEF BillingTypes, CheckShape
  <2>3. CheckShape(check'[c]) BY <1>3, <2>2
  <2>4. Held(c)' BY <1>3, <1>t, <2>1, <2>2 DEF Stays
  <2> QED BY <2>3, <2>4
<1>4. CASE UNCHANGED check
  <2>1. DOMAIN check' = Checker BY <1>4 DEF BillingTypes
  <2> QED BY <1>2, <1>3, <1>4, <2>1
<1>5. ASSUME NEW c \in Checker, CheckStep(c) \/ CheckerDies(c) \/ (c = "cron" /\ StartBatch)
      PROVE  /\ DOMAIN check' = Checker /\ \A d \in Checker : CheckShape(check'[d]) /\ Held(d)'
  <2>1. /\ DOMAIN check' = Checker /\ \A d \in Checker \ {c} : check'[d] = check[d]
        /\ CheckShape(check'[c]) /\ CheckerGoes(check[c], check'[c]) /\ CheckerFrame(c)
    BY <1>5, CheckerMoves
  <2>2. \A d \in Checker \ {c} : CheckShape(check'[d]) /\ Held(d)' BY <1>3, <2>1
  <2>3. Held(c)'
    <3> DEFINE k == check[c]
               r == check'[c]
    <3>0. Held(c) BY <1>1
    <3>g. CheckerGoes(k, r) /\ rewritten \subseteq rewritten' BY <2>1 DEF CheckerFrame
    <3>s. \A p \in Order :
            /\ orders[p] # NoRow => orders'[p] # NoRow /\ orders'[p].expires = orders[p].expires
            /\ invoice[p] # None => invoice'[p] # None
            /\ invoice[p] = "paid" => invoice'[p] = "paid"
            /\ orders[p].ref => invoice[p] # None
      BY DEF Stays, CheckoutInv
    <3>1. CASE r.pc = "idle" BY <3>1
    <3>2. CASE /\ k.pc = "idle" /\ r.pc \in {"close", "ask", "spent"} /\ r.order \in Order
               /\ orders[r.order] # NoRow
               /\ r.pc = "close" => r.target = "expired"
               /\ r.pc = "ask" => r.provider \in Gateway /\ orders[r.order].ref
      BY <3>2, <3>s DEF Closings
    <3>3. CASE k.pc \in {"spent", "ask"} /\ r.pc = "close" /\ r.order = k.order /\ r.target \in Closings
      BY <3>0, <3>3, <3>s
    <3>4. CASE k.pc = "ask" /\ r.pc = "settle" /\ r.order = k.order /\ invoice[k.order] = "paid"
      BY <3>0, <3>4, <3>s
    <3>5. CASE /\ k.pc = "close" /\ r.pc = "read" /\ r.order = k.order /\ r.target = k.target
               /\ r.row = orders[k.order] /\ MayBecome(orders[k.order].status, k.target)
      BY <3>0, <3>5, <3>s
    <3>6. CASE /\ k.pc = "read" /\ r.pc = "write" /\ r.order = k.order /\ r.target = k.target
               /\ r.row = orders[k.order]
               /\ orders[k.order] # k.row => k.order \in rewritten'
      <4>1. k.order \in Order /\ orders[k.order] # NoRow /\ k.target \in Closings BY <3>0, <3>6
      <4>2. MayBecome(orders[k.order].status, k.target) \/ k.order \in rewritten' BY <3>0, <3>6, <3>g
      <4> QED BY <3>6, <3>s, <4>1, <4>2
    <3>7. CASE k.pc = "settle" /\ r.pc = "confirm" /\ r.order = k.order /\ r.stamp = now
      BY <1>t, <3>0, <3>7, <3>s
    <3>8. CASE k.pc = "confirm" /\ r.pc = "log" /\ r.order = k.order
      BY <3>0, <3>8, <3>s
    <3> QED BY <3>g, <3>1, <3>2, <3>3, <3>4, <3>5, <3>6, <3>7, <3>8 DEF CheckerGoes
  <2> QED BY <2>1, <2>2, <2>3
<1>6. ASSUME NEW o \in Order, OrderStep(o) PROVE UNCHANGED check
  BY <1>6, OrderFrame
<1>7. AdminStep \/ Tick \/ UNCHANGED billingVars => UNCHANGED check
  BY AdminFrame DEF Tick, billingVars
<1> QED BY <1>2, <1>4, <1>5, <1>6, <1>7, StepsOf

-----------------------------------------------------------------------------
\* What is granted, to whom, and what is shown of it.
GrantTypes ==
  /\ claims \subseteq Order
  /\ admin \in [pc: {"idle", "grant", "revoke", "reread"}, user: User \union {None},
                seen: SUBSET GrantRecords, todo: SUBSET Gift]
  /\ raced \subseteq User
  /\ GoodGrants(grants) /\ \A g \in grants : g.id \in Gift \union Order
  /\ subs \in [User -> [known: BOOLEAN, until: Int, suspended: BOOLEAN]]
  /\ now \in 0..MaxTime

GrantInv == GrantTypes /\ PaidInv /\ AdminInv /\ ProjectionIsCurrent

\* Purchases stay paid where nothing is granted.
LEMMA PaidStays ==
  ASSUME GrantTypes, PaidInv, Stays, UNCHANGED <<claims, grants>>, now <= now', now' \in Nat
  PROVE  PaidInv'
<1>1. \A g \in grants : g.at \in Nat /\ g.id \in Gift \union Order
  BY DEF GrantTypes, GoodGrants, GrantRecords
<1>2. now \in Nat BY BillingConstants DEF GrantTypes
<1>3. ClaimsAreGrants' BY DEF PaidInv, ClaimsAreGrants
<1>4. \A o \in claims : o \in Order /\ orders[o] # NoRow /\ invoice[o] = "paid" /\ o \in Toman
  BY DEF PaidInv, GrantsArePaid, GrantTypes
<1>5. \A o \in claims' : o \in Order /\ orders'[o] # NoRow /\ invoice'[o] = "paid" /\ o \in Toman
  BY <1>4 DEF Stays
<1>6. \A g \in grants' : ~g.gift => g.at <= orders'[g.id].expires
  <2> SUFFICES ASSUME NEW g \in grants, ~g.gift PROVE g.at <= orders'[g.id].expires OBVIOUS
  <2>1. g.id \in claims BY DEF PaidInv, ClaimsAreGrants
  <2>2. orders'[g.id].expires = orders[g.id].expires BY <1>4, <2>1 DEF Stays
  <2> QED BY <2>2 DEF PaidInv, GrantsArePaid
<1>7. \A o \in Order : orders'[o].status = "paid" => o \in claims'
  BY DEF Stays, PaidInv, GrantsArePaid
<1>8. GrantsArePaid' BY <1>5, <1>6, <1>7 DEF GrantsArePaid
<1>9. \A g \in grants' : (g.gift <=> g.id \in Gift) /\ g.at <= now'
  BY <1>1, <1>2 DEF PaidInv
<1> QED BY <1>3, <1>5, <1>8, <1>9 DEF PaidInv

\* A step that neither grants nor writes a projection.
LEMMA GrantsStay ==
  ASSUME GrantInv, Stays, UNCHANGED <<claims, grants, subs, raced, admin>>, now' \in {now, now + 1},
         now' \in 0..MaxTime
  PROVE  GrantInv'
<1>1. now \in Nat /\ now' \in Nat /\ now <= now' BY BillingConstants DEF GrantInv, GrantTypes
<1>2. PaidInv' BY <1>1, PaidStays DEF GrantInv
<1>3. GrantTypes' BY DEF GrantInv, GrantTypes
<1>4. AdminInv' BY DEF GrantInv, AdminInv
<1>5. ProjectionIsCurrent' BY DEF GrantInv, ProjectionIsCurrent, OfUser
<1> QED BY <1>2, <1>3, <1>4, <1>5 DEF GrantInv

\* A projection is written for a user: it is current when it was made from the grants the user now
\* has, and the others keep theirs.
LEMMA Projected ==
  ASSUME GrantTypes, ProjectionIsCurrent, NEW u \in User, NEW G, GoodGrants(G),
         subs' = [subs EXCEPT ![u] = Projection(G)],
         raced \ {u} \subseteq raced', raced' \subseteq raced \union {u},
         u \in raced' \/ OfUser(u)' = G,
         \A v \in User \ {u} : OfUser(v)' = OfUser(v)
  PROVE  /\ ProjectionIsCurrent'
         /\ subs' \in [User -> [known: BOOLEAN, until: Int, suspended: BOOLEAN]]
         /\ raced' \subseteq User
<1>1. PICK r : r = Projection(G) OBVIOUS
<1>2. /\ r \in [known: BOOLEAN, until: Int, suspended: BOOLEAN]
      /\ r.known /\ r.until = AuthorizedUntil(G)
  BY <1>1, UntilType DEF Projection
<1>3. /\ subs' \in [User -> [known: BOOLEAN, until: Int, suspended: BOOLEAN]]
      /\ subs'[u] = r /\ \A v \in User \ {u} : subs'[v] = subs[v]
  BY <1>1, <1>2 DEF GrantTypes
<1>4. ASSUME NEW v \in User, v \notin raced'
      PROVE  subs'[v].until = AuthorizedUntil(OfUser(v)') /\ (OfUser(v)' # {} => subs'[v].known)
  <2>1. CASE v = u BY <1>2, <1>3, <1>4, <2>1
  <2>2. CASE v # u
    <3>1. OfUser(v)' = OfUser(v) /\ subs'[v] = subs[v] /\ v \notin raced BY <1>3, <1>4, <2>2
    <3> QED BY <3>1 DEF ProjectionIsCurrent
  <2> QED BY <2>1, <2>2
<1>5. ProjectionIsCurrent' BY <1>4 DEF ProjectionIsCurrent
<1> QED BY <1>3, <1>5 DEF GrantTypes

\* A confirmed purchase is granted once: its order was not claimed, so no grant has its id.
LEMMA ConfirmGrants ==
  ASSUME BillingTypes, GrantTypes, PaidInv, AdminInv, ProjectionIsCurrent, CheckInv, Stays, OrderTypes', NEW c \in Checker, ConfirmOrder(c)
  PROVE  GrantInv'
<1>p. PICK o, stamp : o = check[c].order /\ stamp = check[c].stamp OBVIOUS
<1> DEFINE payer == Owner[o]
           grant == PaidGrant(o, stamp)
<1>0. /\ o \in Order /\ orders[o] # NoRow /\ invoice[o] = "paid" /\ stamp \in Nat /\ stamp <= now
  BY <1>p DEF ConfirmOrder, CheckInv, BillingTypes, CheckShape
<1>1. o \in Toman /\ stamp <= orders[o].expires /\ o \notin claims
  BY <1>p DEF ConfirmOrder, Confirmable
<1>2. /\ claims' = claims \union {o} /\ grants' = grants \union {grant}
      /\ raced' = raced \ {payer}
      /\ UNCHANGED <<invoice, admin, now>>
  BY <1>p DEF ConfirmOrder
<1>3. subs' = [subs EXCEPT ![payer] = Projection({g \in grants' : g.user = payer})]
  BY <1>p, <1>2 DEF ConfirmOrder
<1>4. payer \in User /\ o \in Nat /\ now \in Nat /\ o \notin Gift /\ Months \in Nat \ {0}
  <2>1. now \in Nat BY BillingConstants DEF GrantTypes
  <2>2. payer \in User /\ o \in Nat /\ o \notin Gift /\ Months \in Nat \ {0}
    BY <1>0, BillingConstants
  <2> QED BY <2>1, <2>2
<1>5. /\ grant \in GrantRecords /\ grant.id = o /\ grant.user = payer /\ grant.at = stamp
      /\ ~grant.gift
  BY <1>0, <1>4 DEF PaidGrant, GrantRecords
<1>6. \A g \in grants : g.id # o
  BY <1>1, <1>4 DEF PaidInv, ClaimsAreGrants
<1>7. GoodGrants(grants') BY <1>2, <1>5, <1>6, GrantsWith DEF GrantTypes
<1>8. \A g \in grants' : g \in grants \/ g = grant BY <1>2
<1> HIDE DEF grant
<1>9. GoodGrants({g \in grants' : g.user = payer}) BY <1>7, GrantsOf
<1>10. OfUser(payer)' = {g \in grants' : g.user = payer} BY DEF OfUser
<1>11. \A v \in User \ {payer} : OfUser(v)' = OfUser(v) BY <1>2, <1>5 DEF OfUser
<1>12. /\ ProjectionIsCurrent' /\ raced' \subseteq User
       /\ subs' \in [User -> [known: BOOLEAN, until: Int, suspended: BOOLEAN]]
  <2>1. PICK G : G = {g \in grants' : g.user = payer} OBVIOUS
  <2>2. GoodGrants(G) /\ OfUser(payer)' = G BY <1>9, <1>10, <2>1
  <2>3. subs' = [subs EXCEPT ![payer] = Projection(G)] BY <1>3, <2>1
  <2>4. raced \ {payer} \subseteq raced' /\ raced' \subseteq raced \union {payer} BY <1>2
  <2> QED BY <1>4, <1>11, <2>2, <2>3, <2>4, Projected
<1>13. GrantTypes'
  <2>1. \A g \in grants' : g.id \in Gift \union Order
    BY <1>0, <1>5, <1>8 DEF GrantTypes
  <2> QED BY <1>0, <1>2, <1>7, <1>12, <2>1 DEF GrantTypes
<1>14. ClaimsAreGrants'
  <2>1. \A g \in grants' : ~g.gift => g.id \in claims' /\ g.user = Owner[g.id]
    BY <1>2, <1>5, <1>8 DEF PaidInv, ClaimsAreGrants
  <2>2. \A p \in claims' : \E g \in grants' : g.id = p /\ ~g.gift
    BY <1>2, <1>5 DEF PaidInv, ClaimsAreGrants
  <2>3. \A g, h \in grants' : g.id = h.id => g = h BY <1>7 DEF GoodGrants
  <2> QED BY <2>1, <2>2, <2>3 DEF ClaimsAreGrants
<1>15. \A p \in claims : p \in Order /\ orders[p] # NoRow /\ invoice[p] = "paid" /\ p \in Toman
  BY DEF GrantTypes, PaidInv, GrantsArePaid
<1>16. \A p \in claims' : p \in Order /\ orders'[p] # NoRow /\ invoice'[p] = "paid" /\ p \in Toman
  BY <1>0, <1>1, <1>2, <1>15 DEF Stays
<1>17. \A g \in grants' : ~g.gift => g.at <= orders'[g.id].expires
  <2> SUFFICES ASSUME NEW g \in grants', ~g.gift PROVE g.at <= orders'[g.id].expires OBVIOUS
  <2>1. CASE g = grant
    <3>1. orders'[o].expires = orders[o].expires BY <1>0 DEF Stays
    <3> QED BY <1>1, <1>5, <2>1, <3>1
  <2>2. CASE g \in grants
    <3>1. g.id \in claims BY <2>2 DEF PaidInv, ClaimsAreGrants
    <3>2. orders'[g.id].expires = orders[g.id].expires BY <1>15, <3>1 DEF Stays
    <3> QED BY <2>2, <3>2 DEF PaidInv, GrantsArePaid
  <2> QED BY <1>8, <2>1, <2>2
<1>18. \A p \in Order : orders'[p].status = "paid" => p \in claims'
  BY <1>2 DEF Stays, PaidInv, GrantsArePaid
<1>19. GrantsArePaid' BY <1>16, <1>17, <1>18 DEF GrantsArePaid
<1>20. \A g \in grants' : (g.gift <=> g.id \in Gift) /\ g.at <= now'
  BY <1>0, <1>2, <1>4, <1>5, <1>8 DEF PaidInv
<1>21. PaidInv' BY <1>14, <1>16, <1>19, <1>20 DEF PaidInv
<1>22. AdminInv'
  <2>1. UNCHANGED admin /\ grants \subseteq grants' BY <1>2
  <2> QED BY <2>1 DEF AdminInv
<1> QED BY <1>12, <1>13, <1>21, <1>22 DEF GrantInv

\* A step of the admin service leaves orders, claims, invoices and the clock alone: purchases stay
\* paid when the grants keep what they are for.
LEMMA AdminPays ==
  ASSUME GrantTypes, PaidInv, UNCHANGED <<orders, claims, invoice, now>>, GoodGrants(grants'),
         \A h \in grants' :
           \/ h.gift /\ h.id \in Gift /\ h.at = now
           \/ \E g \in grants : h.id = g.id /\ h.user = g.user /\ h.at = g.at /\ h.gift = g.gift,
         \A g \in grants : \E h \in grants' : h.id = g.id /\ h.gift = g.gift
  PROVE  PaidInv'
<1>1. ClaimsAreGrants'
  <2>1. \A h \in grants' : ~h.gift => h.id \in claims' /\ h.user = Owner[h.id]
    BY DEF PaidInv, ClaimsAreGrants
  <2>2. \A o \in claims' : \E h \in grants' : h.id = o /\ ~h.gift
    BY DEF PaidInv, ClaimsAreGrants
  <2>3. \A g, h \in grants' : g.id = h.id => g = h BY DEF GoodGrants
  <2> QED BY <2>1, <2>2, <2>3 DEF ClaimsAreGrants
<1>2. GrantsArePaid'
  <2>1. \A h \in grants' : ~h.gift => h.at <= orders'[h.id].expires
    BY DEF PaidInv, GrantsArePaid
  <2> QED BY <2>1 DEF PaidInv, GrantsArePaid
<1>3. now \in Nat BY BillingConstants DEF GrantTypes
<1>4. \A h \in grants' : (h.gift <=> h.id \in Gift) /\ h.at <= now'
  <2> SUFFICES ASSUME NEW h \in grants' PROVE (h.gift <=> h.id \in Gift) /\ h.at <= now' OBVIOUS
  <2>1. h.gift \in BOOLEAN BY DEF GoodGrants, GrantRecords
  <2>2. CASE h.gift /\ h.id \in Gift /\ h.at = now BY <1>3, <2>2
  <2>3. CASE \E g \in grants : h.id = g.id /\ h.user = g.user /\ h.at = g.at /\ h.gift = g.gift
    BY <2>3 DEF PaidInv
  <2> QED BY <2>2, <2>3
<1>5. \A o \in claims' : orders'[o] # NoRow BY DEF PaidInv
<1> QED BY <1>1, <1>2, <1>4, <1>5 DEF PaidInv

\* The admin service reads.
LEMMA AdminReads ==
  ASSUME GrantInv, Stays, UNCHANGED <<orders, claims, invoice, now, grants, subs, raced>>,
         NEW u \in User, NEW p \in {"grant", "revoke"}, NEW todo \in SUBSET Gift,
         admin' = [pc |-> p, user |-> u, seen |-> OfUser(u), todo |-> todo],
         \A id \in todo : \E g \in grants : g.id = id /\ g.user = u
  PROVE  GrantInv'
<1>1. now \in Nat /\ now <= now' /\ now' \in Nat BY BillingConstants DEF GrantInv, GrantTypes
<1>2. PaidInv' BY <1>1, PaidStays DEF GrantInv
<1>3. OfUser(u) \subseteq grants /\ \A g \in OfUser(u) : g.user = u BY DEF OfUser
<1>4. GoodGrants(OfUser(u)) /\ OfUser(u) \subseteq GrantRecords
  BY <1>3, GrantsOf DEF GrantInv, GrantTypes, GoodGrants
<1>5. PICK S : S = OfUser(u) OBVIOUS
<1>6. /\ admin'.pc = p /\ admin'.user = u /\ admin'.seen = S /\ admin'.todo = todo
      /\ admin' \in [pc: {"idle", "grant", "revoke", "reread"}, user: User \union {None},
                     seen: SUBSET GrantRecords, todo: SUBSET Gift]
  BY <1>4, <1>5
<1>7. AdminInv' BY <1>3, <1>4, <1>5, <1>6 DEF AdminInv
<1>8. GrantTypes' BY <1>6 DEF GrantInv, GrantTypes
<1>9. ProjectionIsCurrent' BY DEF GrantInv, ProjectionIsCurrent, OfUser
<1> QED BY <1>2, <1>7, <1>8, <1>9 DEF GrantInv

\* A gift has an id no grant has, and is shown with what was read of its user before.
LEMMA GiftGrants ==
  ASSUME GrantInv, UNCHANGED <<orders, claims, invoice, now>>, NEW id \in Gift, GiveGift(id)
  PROVE  GrantInv'
<1>p. PICK u, seen : u = admin.user /\ seen = admin.seen OBVIOUS
<1> DEFINE grant == [id |-> id, user |-> u, months |-> Months, at |-> now, gift |-> TRUE,
                     reversed |-> FALSE]
<1>0. PICK new : new = grant OBVIOUS
<1>1. /\ u \in User /\ id \in Nat /\ now \in Nat /\ Months \in Nat \ {0}
      /\ GoodGrants(seen) /\ \A g \in seen : g.user = u /\ \E h \in grants : h.id = g.id
  <2>1. now \in Nat BY BillingConstants DEF GrantInv, GrantTypes
  <2>2. id \in Nat /\ Months \in Nat \ {0} BY BillingConstants
  <2>3. u \in User BY <1>p DEF GiveGift, GrantInv, AdminInv
  <2>4. GoodGrants(seen) /\ \A g \in seen : g.user = u /\ \E h \in grants : h.id = g.id
    BY <1>p DEF GrantInv, AdminInv
  <2> QED BY <2>1, <2>2, <2>3, <2>4
<1>2. /\ new \in GrantRecords /\ new.id = id /\ new.user = u /\ new.at = now /\ new.gift
  BY <1>0, <1>1 DEF GrantRecords
<1>3. \A g \in grants : g.id # id BY DEF GiveGift, GiftsLeft
<1>4. /\ grants' = grants \union {new}
      /\ subs' = [subs EXCEPT ![u] = Projection(seen \union {new})]
      /\ raced' = IF seen = OfUser(u) THEN raced \ {u} ELSE raced \union {u}
      /\ admin' = IdleAdmin
  <2>1. InsertGrant(new) /\ admin' = IdleAdmin BY <1>p, <1>0 DEF GiveGift
  <2> QED BY <1>p, <1>2, <2>1 DEF InsertGrant, WriteProjection
<1>5. GoodGrants(grants') BY <1>2, <1>3, <1>4, GrantsWith DEF GrantInv, GrantTypes
<1>6. GoodGrants(seen \union {new})
  <2>1. \A g \in seen : g.id # new.id BY <1>1, <1>2, <1>3
  <2> QED BY <1>1, <1>2, <2>1, GrantsWith
<1>7. /\ OfUser(u)' = OfUser(u) \union {new}
      /\ \A v \in User \ {u} : OfUser(v)' = OfUser(v)
  BY <1>2, <1>4 DEF OfUser
<1>8. /\ ProjectionIsCurrent' /\ raced' \subseteq User
      /\ subs' \in [User -> [known: BOOLEAN, until: Int, suspended: BOOLEAN]]
  <2>1. PICK G : G = seen \union {new} OBVIOUS
  <2>2. GoodGrants(G) /\ subs' = [subs EXCEPT ![u] = Projection(G)] BY <1>4, <1>6, <2>1
  <2>3. u \in raced' \/ OfUser(u)' = G BY <1>4, <1>7, <2>1
  <2>4. raced \ {u} \subseteq raced' /\ raced' \subseteq raced \union {u} BY <1>4
  <2> QED BY <1>1, <1>7, <2>2, <2>3, <2>4, Projected DEF GrantInv
<1>9. PaidInv'
  <2>1. \A h \in grants' :
          \/ h.gift /\ h.id \in Gift /\ h.at = now
          \/ \E g \in grants : h.id = g.id /\ h.user = g.user /\ h.at = g.at /\ h.gift = g.gift
    BY <1>2, <1>4
  <2>2. \A g \in grants : \E h \in grants' : h.id = g.id /\ h.gift = g.gift BY <1>4
  <2> QED BY <1>5, <2>1, <2>2, AdminPays DEF GrantInv
<1>10. /\ IdleAdmin \in [pc: {"idle", "grant", "revoke", "reread"}, user: User \union {None},
                         seen: SUBSET GrantRecords, todo: SUBSET Gift]
       /\ IdleAdmin.pc = "idle" /\ IdleAdmin.seen = {} /\ IdleAdmin.todo = {}
  BY DEF IdleAdmin
<1>11. GrantTypes'
  <2>1. \A g \in grants' : g.id \in Gift \union Order BY <1>2, <1>4 DEF GrantInv, GrantTypes
  <2> QED BY <1>4, <1>5, <1>8, <1>10, <2>1 DEF GrantInv, GrantTypes
<1>12. AdminInv'
  <2>1. GoodGrants({}) BY FS_EmptySet DEF GoodGrants
  <2> QED BY <1>4, <1>10, <2>1 DEF AdminInv
<1> QED BY <1>8, <1>9, <1>11, <1>12 DEF GrantInv

\* A revoked gift keeps all but its reversal, and is its user's.
LEMMA RevokeGrants ==
  ASSUME GrantInv, UNCHANGED <<orders, claims, invoice, now>>, NEW id \in Gift, RevokeGift(id)
  PROVE  GrantInv'
<1>p. PICK u, seen : u = admin.user /\ seen = admin.seen OBVIOUS
<1>1. /\ u \in User /\ GoodGrants(seen) /\ (\E g \in grants : g.id = id /\ g.user = u)
      /\ \A g \in seen : g.user = u /\ \E h \in grants : h.id = g.id
  <2>1. u \in User BY <1>p DEF RevokeGift, GrantInv, AdminInv
  <2>2. \E g \in grants : g.id = id /\ g.user = u BY <1>p DEF RevokeGift, GrantInv, AdminInv
  <2>3. GoodGrants(seen) /\ \A g \in seen : g.user = u /\ \E h \in grants : h.id = g.id
    BY <1>p DEF GrantInv, AdminInv
  <2> QED BY <2>1, <2>2, <2>3
<1>2. /\ grants' = Undo(grants, id)
      /\ subs' = [subs EXCEPT ![u] = Projection(Undo(seen, id))]
      /\ raced' = IF seen = OfUser(u) THEN raced \ {u} ELSE raced \union {u}
  BY <1>p DEF RevokeGift, ReverseGrant, WriteProjection
<1>3. /\ GoodGrants(grants')
      /\ \A h \in grants' : \E g \in grants :
           h.id = g.id /\ h.user = g.user /\ h.at = g.at /\ h.gift = g.gift
      /\ \A g \in grants : \E h \in grants' :
           h.id = g.id /\ h.user = g.user /\ h.at = g.at /\ h.gift = g.gift
  BY <1>2, UndoKeeps DEF GrantInv, GrantTypes
<1>4. /\ OfUser(u)' = Undo(OfUser(u), id)
      /\ \A v \in User \ {u} : OfUser(v)' = OfUser(v)
  BY <1>1, <1>2, UndoOfUser DEF GrantInv, GrantTypes
<1>5. /\ ProjectionIsCurrent' /\ raced' \subseteq User
      /\ subs' \in [User -> [known: BOOLEAN, until: Int, suspended: BOOLEAN]]
  <2>1. PICK G : G = Undo(seen, id) OBVIOUS
  <2>2. GoodGrants(G) /\ subs' = [subs EXCEPT ![u] = Projection(G)] BY <1>1, <1>2, <2>1, UndoKeeps
  <2>3. u \in raced' \/ OfUser(u)' = G BY <1>2, <1>4, <2>1
  <2>4. raced \ {u} \subseteq raced' /\ raced' \subseteq raced \union {u} BY <1>2
  <2> QED BY <1>1, <1>4, <2>2, <2>3, <2>4, Projected DEF GrantInv
<1>6. PaidInv' BY <1>3, AdminPays DEF GrantInv
<1>7. admin' \in [pc: {"idle", "grant", "revoke", "reread"}, user: User \union {None},
                  seen: SUBSET GrantRecords, todo: SUBSET Gift]
      /\ \/ admin'.pc = "idle" /\ admin'.seen = {} /\ admin'.todo = {}
         \/ admin'.user = u /\ admin'.seen = seen /\ admin'.todo \subseteq admin.todo
  <2>1. CASE admin' = IdleAdmin BY <2>1 DEF IdleAdmin
  <2>2. CASE admin' = [admin EXCEPT !.todo = @ \ {id}, !.pc = "reread"]
    <3>1. PICK r : r = [admin EXCEPT !.todo = @ \ {id}, !.pc = "reread"] OBVIOUS
    <3>2. r = [pc |-> "reread", user |-> admin.user, seen |-> admin.seen, todo |-> admin.todo \ {id}]
      BY <3>1 DEF GrantInv, GrantTypes
    <3>3. /\ admin.user \in User \union {None} /\ admin.seen \in SUBSET GrantRecords
          /\ admin.todo \in SUBSET Gift
      BY DEF GrantInv, GrantTypes
    <3>4. /\ r \in [pc: {"idle", "grant", "revoke", "reread"}, user: User \union {None},
                    seen: SUBSET GrantRecords, todo: SUBSET Gift]
          /\ r.user = admin.user /\ r.seen = admin.seen /\ r.todo \subseteq admin.todo
      BY <3>2, <3>3
    <3> QED BY <1>p, <2>2, <3>1, <3>4
  <2> QED BY <2>1, <2>2 DEF RevokeGift
<1>8. AdminInv'
  <2>1. CASE admin'.pc = "idle" /\ admin'.seen = {} /\ admin'.todo = {}
    <3>1. GoodGrants({}) BY FS_EmptySet DEF GoodGrants
    <3> QED BY <2>1, <3>1 DEF AdminInv
  <2>2. CASE admin'.user = u /\ admin'.seen = seen /\ admin'.todo \subseteq admin.todo
    <3>1. \A i \in admin.todo : \E g \in grants : g.id = i /\ g.user = u
      BY <1>p DEF GrantInv, AdminInv
    <3>2. \A i \in admin'.todo : \E g \in grants' : g.id = i /\ g.user = u BY <1>3, <2>2, <3>1
    <3>3. \A g \in seen : g.user = u /\ \E h \in grants' : h.id = g.id BY <1>1, <1>3
    <3> QED BY <1>1, <2>2, <3>2, <3>3 DEF AdminInv
  <2> QED BY <1>7, <2>1, <2>2
<1>9. GrantTypes'
  <2>1. \A g \in grants' : g.id \in Gift \union Order BY <1>3 DEF GrantInv, GrantTypes
  <2> QED BY <1>3, <1>5, <1>7, <2>1 DEF GrantInv, GrantTypes
<1> QED BY <1>5, <1>6, <1>8, <1>9 DEF GrantInv

\* Grants, claims and projections, whatever the step.
LEMMA GrantsStep ==
  ASSUME BillingTypes, CheckInv, PaidInv, AdminInv, ProjectionIsCurrent, CheckoutInv, Stays, OrderTypes',
         [BillingNext]_billingVars
  PROVE  GrantInv'
<1>0. GrantInv BY DEF GrantInv, GrantTypes, BillingTypes
<1>n. now \in 0..MaxTime /\ MaxTime \in Nat BY BillingConstants DEF BillingTypes
<1>s. \* Nothing but the clock may have changed.
      UNCHANGED <<claims, grants, subs, raced, admin, now>> => GrantInv'
  <2> HAVE UNCHANGED <<claims, grants, subs, raced, admin, now>>
  <2>1. now' \in {now, now + 1} /\ now' \in 0..MaxTime BY <1>n
  <2> QED BY <1>0, <2>1, GrantsStay
<1>1. ASSUME NEW o \in Order, OrderStep(o) PROVE GrantInv'
  BY <1>1, <1>s, OrderFrame
<1>2. ASSUME NEW c \in Checker, CheckStep(c) \/ CheckerDies(c) \/ (c = "cron" /\ StartBatch)
      PROVE  GrantInv'
  <2>1. CheckerFrame(c) BY <1>2, CheckerMoves
  <2>2. CASE ConfirmOrder(c) BY <2>2, ConfirmGrants DEF BillingTypes, GrantTypes
  <2>3. CASE UNCHANGED <<claims, grants, subs, raced>>
    BY <1>s, <2>1, <2>3 DEF CheckerFrame
  <2> QED BY <2>1, <2>2, <2>3 DEF CheckerFrame
<1>3. ASSUME AdminStep PROVE GrantInv'
  <2>0. UNCHANGED <<orders, claims, invoice, now>> BY <1>3, AdminFrame
  <2>1. ASSUME NEW u \in User, ReadForGift(u) PROVE GrantInv'
    <3>1. /\ admin' = [pc |-> "grant", user |-> u, seen |-> OfUser(u), todo |-> {}]
          /\ UNCHANGED <<grants, subs, raced>>
      BY <2>1 DEF ReadForGift, subscriptionVars
    <3>2. {} \in SUBSET Gift /\ \A id \in {} : \E g \in grants : g.id = id /\ g.user = u OBVIOUS
    <3> QED BY <1>0, <2>0, <3>1, <3>2, AdminReads
  <2>2. ASSUME NEW u \in User, ReadForRevoke(u) PROVE GrantInv'
    <3>0. PICK todo : todo = ActiveGifts(OfUser(u)) OBVIOUS
    <3>1. /\ admin' = [pc |-> "revoke", user |-> u, seen |-> OfUser(u), todo |-> todo]
          /\ UNCHANGED <<grants, subs, raced>>
      BY <2>2, <3>0 DEF ReadForRevoke, subscriptionVars
    <3>2. \A id \in todo : id \in Gift /\ \E g \in grants : g.id = id /\ g.user = u
      BY <3>0 DEF ActiveGifts, OfUser, PaidInv
    <3>3. todo \in SUBSET Gift BY <3>2
    <3> QED BY <1>0, <2>0, <3>1, <3>2, <3>3, AdminReads
  <2>3. ASSUME RereadForRevoke PROVE GrantInv'
    <3>0. PICK u, todo : u = admin.user /\ todo = admin.todo OBVIOUS
    <3>1. PICK r : r = [admin EXCEPT !.seen = OfUser(admin.user), !.pc = "revoke"] OBVIOUS
    <3>2. r = [pc |-> "revoke", user |-> u, seen |-> OfUser(u), todo |-> todo]
      BY <3>0, <3>1 DEF BillingTypes
    <3>3. admin' = r /\ admin.pc = "reread" /\ UNCHANGED <<grants, subs, raced>>
      BY <2>3, <3>1 DEF RereadForRevoke, subscriptionVars
    <3>4. /\ u \in User /\ todo \in SUBSET Gift
          /\ \A id \in todo : \E g \in grants : g.id = id /\ g.user = u
      BY <3>0, <3>3 DEF AdminInv, BillingTypes
    <3>5. admin' = [pc |-> "revoke", user |-> u, seen |-> OfUser(u), todo |-> todo] BY <3>2, <3>3
    <3>6. UNCHANGED <<grants, subs, raced>> BY <3>3
    <3> QED BY <1>0, <2>0, <3>4, <3>5, <3>6, AdminReads
  <2>4. ASSUME NEW id \in Gift, GiveGift(id) PROVE GrantInv'
    BY <1>0, <2>0, <2>4, GiftGrants
  <2>5. ASSUME NEW id \in Gift, RevokeGift(id) PROVE GrantInv'
    BY <1>0, <2>0, <2>5, RevokeGrants
  <2>6. ASSUME NEW u \in Suspensions, Suspend(u) PROVE GrantInv'
    <3>1. /\ subs' = IF subs[u].known THEN [subs EXCEPT ![u].suspended = ~subs[u].suspended] ELSE subs
          /\ UNCHANGED <<grants, admin, raced>>
      BY <2>6 DEF Suspend, SetSuspension
    <3>2. u \in User BY BillingConstants
    <3>3. /\ subs' \in [User -> [known: BOOLEAN, until: Int, suspended: BOOLEAN]]
          /\ \A v \in User : subs'[v].until = subs[v].until /\ subs'[v].known = subs[v].known
      BY <3>1, <3>2 DEF BillingTypes
    <3>4. ProjectionIsCurrent' BY <3>1, <3>3 DEF ProjectionIsCurrent, OfUser
    <3>5. GrantTypes' BY <2>0, <3>1, <3>3 DEF BillingTypes, GrantTypes
    <3>6. AdminInv' BY <3>1 DEF AdminInv
    <3>7. now <= now' /\ now' \in Nat BY <1>n, <2>0
    <3>8. PaidInv' BY <1>0, <2>0, <3>1, <3>7, PaidStays DEF GrantInv
    <3> QED BY <3>4, <3>5, <3>6, <3>8 DEF GrantInv
  <2> QED BY <1>3, <2>1, <2>2, <2>3, <2>4, <2>5, <2>6 DEF AdminStep
<1>4. ASSUME Tick PROVE GrantInv'
  <2>1. now < MaxTime /\ now' = now + 1 /\ UNCHANGED <<claims, grants, subs, raced, admin>>
    BY <1>4 DEF Tick, orderVars, subscriptionVars
  <2>2. now' \in {now, now + 1} /\ now' \in 0..MaxTime BY <1>n, <2>1
  <2> QED BY <1>0, <2>1, <2>2, GrantsStay
<1>5. UNCHANGED billingVars => GrantInv'
  BY <1>s DEF billingVars, orderVars
<1> QED BY <1>1, <1>2, <1>3, <1>4, <1>5, StepsOf

-----------------------------------------------------------------------------
\* The invariant holds where nothing has been sold.
LEMMA LedgerInitially ==
  ASSUME BillingInit
  PROVE  LedgerInv
<1> USE DEF BillingInit, SubscriptionsInit
<1>1. /\ MaxTime \in Nat /\ MaxDeaths \in Nat BY BillingConstants
<1>2. GoodGrants({}) BY FS_EmptySet DEF GoodGrants
<1>3. \A o \in Order : orders[o] = NoRow /\ orders[o].status = None /\ ~orders[o].ref
  BY DEF NoRow
<1>4. OrderTypes
  <2>1. IdleCheckout \in [pc: CheckoutPcs, provider: Gateway \union {None}, row: Rows]
    BY IdleRecord DEF IdleCheckout, CheckoutPcs
  <2>2. [state |-> "not_started", inquiries |-> 0] \in Reservations
    BY DEF Reservations, CreationStates
  <2> QED BY <1>1, <2>1, <2>2, IdleRecord DEF OrderTypes
<1>5. \A c \in Checker : CheckShape(check[c]) /\ check[c].pc = "idle"
  BY IdleMoves
<1>6. /\ admin.pc = "idle" /\ admin.seen = {} /\ admin.todo = {}
      /\ admin \in [pc: {"idle", "grant", "revoke", "reread"}, user: User \union {None},
                    seen: SUBSET GrantRecords, todo: SUBSET Gift]
  BY DEF IdleAdmin
<1>7. \A u \in User : subs[u] = NoAccount /\ NoAccount \in [known: BOOLEAN, until: Int, suspended: BOOLEAN]
  BY DEF NoAccount, NoUntil
<1>8. BillingTypes
  <2>1. subs \in [User -> [known: BOOLEAN, until: Int, suspended: BOOLEAN]] BY <1>7
  <2>2. now \in 0..MaxTime BY <1>1
  <2>3. claims \subseteq Order /\ raced \subseteq User /\ DOMAIN check = Checker OBVIOUS
  <2> QED BY <1>2, <1>4, <1>5, <1>6, <2>1, <2>2, <2>3 DEF BillingTypes, OrderTypes
<1>9. \A o \in Order : checkout[o].pc = "idle" /\ posts[o] = 0 /\ invoice[o] = None
  BY DEF IdleCheckout
<1>10. CheckoutInv BY <1>3, <1>9 DEF CheckoutInv, OneInvoicePerOrder
<1>11. CheckInv /\ CheckHeld BY <1>5 DEF CheckInv, CheckHeld
<1>12. CheckoutHeld BY <1>9 DEF CheckoutHeld
<1>13. PaidInv BY <1>3 DEF PaidInv, ClaimsAreGrants, GrantsArePaid, None
<1>14. AdminInv BY <1>2, <1>6 DEF AdminInv
<1>15. ProjectionIsCurrent
  <2>1. \A u \in User : OfUser(u) = {} BY DEF OfUser
  <2>2. \A u \in User : AuthorizedUntil(OfUser(u)) = NoUntil BY <1>2, <2>1, UntilType
  <2> QED BY <1>7, <2>1, <2>2 DEF ProjectionIsCurrent, NoAccount
<1> QED BY <1>8, <1>10, <1>11, <1>12, <1>13, <1>14, <1>15 DEF LedgerInv

\* Every step of billing keeps the invariant, and no settled row is lost.
LEMMA LedgerStep ==
  ASSUME LedgerInv, [BillingNext]_billingVars
  PROVE  LedgerInv' /\ Stays
<1>1. OrderTypes' /\ CheckoutInv' /\ CheckoutHeld' /\ Stays BY RowsStep DEF LedgerInv
<1>2. now \in Nat BY BillingConstants DEF LedgerInv, BillingTypes
<1>3. /\ DOMAIN check' = Checker /\ \A c \in Checker : CheckShape(check'[c])
      /\ CheckInv' /\ CheckHeld'
  BY <1>1, <1>2, ChecksStep DEF LedgerInv
<1>4. GrantInv' BY <1>1, GrantsStep DEF LedgerInv
<1>5. BillingTypes' BY <1>1, <1>3, <1>4 DEF BillingTypes, OrderTypes, GrantInv, GrantTypes
<1> QED BY <1>1, <1>3, <1>4, <1>5 DEF LedgerInv, GrantInv

\* What holds of orders, checks and grants whatever the interleaving of the checkouts, the three
\* checkers and the admin service.
THEOREM LedgerInvariant == BillingSpec => []LedgerInv
<1>1. BillingInit => LedgerInv BY LedgerInitially
<1>2. LedgerInv /\ [BillingNext]_billingVars => LedgerInv' BY LedgerStep
<1> QED BY <1>1, <1>2, PTL DEF BillingSpec

\* One invoice and one grant per order, for a paid invoice and its owner, in time
\* (begin_creation_attempt, confirm_order).
THEOREM PurchasesAreSound == BillingSpec => []BillingInv
<1>1. LedgerInv => BillingInv
  <2> SUFFICES ASSUME LedgerInv PROVE BillingInv OBVIOUS
  <2>1. BillingTypeOK
    BY DEF LedgerInv, BillingTypes, BillingTypeOK, CheckInv, CheckShape
  <2> QED BY <2>1 DEF LedgerInv, BillingInv, CheckoutInv, PaidInv
<1> QED BY <1>1, LedgerInvariant, PTL

\* The subscription shown is the one the grants give, but for admin writes from an older read
\* (_write_projection).
THEOREM ProjectionsAreCurrent == BillingSpec => []ProjectionIsCurrent
<1>1. LedgerInv => ProjectionIsCurrent BY DEF LedgerInv
<1> QED BY <1>1, LedgerInvariant, PTL

\* Paid time has no holes: whoever's windows reach beyond now is in one of them (grant_windows).
THEOREM PaidTimeHasNoHoles == BillingSpec => []PaidTimeIsContinuous
<1>1. LedgerInv => PaidTimeIsContinuous
  <2> SUFFICES ASSUME LedgerInv, NEW u \in User PROVE Authorize(u, now) # "not_covered"
    BY DEF PaidTimeIsContinuous
  <2>1. PICK G : G = OfUser(u) OBVIOUS
  <2>2. GoodGrants(G) BY <2>1, GrantsOf DEF LedgerInv, BillingTypes, OfUser
  <2>3. now \in Nat BY BillingConstants DEF LedgerInv, BillingTypes
  <2>4. \A g \in G : g.at <= now BY <2>1 DEF LedgerInv, PaidInv, OfUser
  <2>5. PICK w : w = GrantWindows(G) OBVIOUS
  <2>6. w # <<>> /\ ~(w[Len(w)].end <= now) => Covering(w, now) # {}
    BY <2>2, <2>3, <2>4, <2>5, WindowsCover
  <2>7. subs[u].known \in BOOLEAN /\ subs[u].suspended \in BOOLEAN BY DEF LedgerInv, BillingTypes
  <2> QED BY <2>1, <2>5, <2>6, <2>7 DEF Authorize
<1> QED BY <1>1, LedgerInvariant, PTL

\* A settled order changes its status only by a writer whose reads had been overtaken
\* (_update_order_status, start_checkout).
THEOREM SettledStays == BillingSpec => SettledUnlessOvertaken
<1>1. LedgerInv /\ [BillingNext]_billingVars
        => [\A o \in Order : orders[o].status \notin Open \union {None}
              => orders'[o].status = orders[o].status \/ o \in rewritten']_billingVars
  BY LedgerStep DEF Stays
<1> QED BY <1>1, LedgerInvariant, PTL DEF BillingSpec, SettledUnlessOvertaken
=============================================================================
