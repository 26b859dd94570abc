---------------------------- MODULE DeliveryProofs ----------------------------
(***************************************************************************)
(* Theorems about Delivery for every set of plans, every number of items   *)
(* and volumes and every limit.                                            *)
(***************************************************************************)
EXTENDS Delivery, WellFoundedInduction, TLAPS

\* A non-empty set of integers within bounds has a greatest element.
LEMMA MaxExists ==
  ASSUME NEW lo \in Int, NEW hi \in Int, NEW S, S \subseteq lo..hi, S # {}
  PROVE  Max(S) \in S /\ \A x \in S : x <= Max(S)
<1> DEFINE T == {n \in Nat : hi - n \in S}
<1>1. T \subseteq Nat /\ T # {}
  <2>1. PICK x \in S : TRUE
    OBVIOUS
  <2>2. hi - x \in Nat /\ hi - (hi - x) = x
    BY <2>1
  <2> QED BY <2>1, <2>2
<1>2. PICK n \in T : \A k \in T : ~ (<<k, n>> \in OpToRel(<, Nat))
  BY <1>1, NatLessThanWellFounded, WFMin
<1>3. \A k \in T : ~(k < n)
  BY <1>1, <1>2 DEF OpToRel
<1>4. hi - n \in S /\ \A x \in S : x <= hi - n
  <2>1. ASSUME NEW x \in S PROVE x <= hi - n
    <3>1. hi - x \in Nat /\ hi - (hi - x) = x /\ x \in Int
      OBVIOUS
    <3>2. hi - x \in T
      BY <3>1
    <3> QED BY <3>1, <3>2, <1>1, <1>3
  <2> QED BY <2>1
<1>5. \E x \in S : \A y \in S : x >= y
  BY <1>4
<1> QED BY <1>5 DEF Max

\* The smaller of two integers.
LEMMA MinOfTwo ==
  ASSUME NEW a \in Int, NEW b \in Int
  PROVE  Min({a, b}) = IF a <= b THEN a ELSE b
<1>1. \E x \in {a, b} : \A y \in {a, b} : x <= y
  OBVIOUS
<1>2. Min({a, b}) \in {a, b} /\ \A y \in {a, b} : Min({a, b}) <= y
  BY <1>1 DEF Min
<1> QED BY <1>2

\* The numbers and kinds of a plan.
LEMMA PlanFacts ==
  ASSUME TypeOK
  PROVE  /\ N \in Nat /\ N > 0
         /\ Pieces \in Nat /\ Pieces > 1
         /\ Volumes \in Nat
         /\ \A i \in 1..N : Large(i) \in BOOLEAN
         /\ plan.route \in Routes
<1>1. plan \in [route: Routes, mode: Modes, multipart: BOOLEAN, items: Seq(Items)]
      /\ plan.items # <<>>
  BY PlansAssumption DEF TypeOK
<1>2. plan.items \in Seq(Items) /\ plan.route \in Routes
  BY <1>1
<1>3. N \in Nat /\ N > 0
  BY <1>1, <1>2 DEF N
<1>4. \A i \in 1..N : plan.items[i] \in Items
  BY <1>2 DEF N
<1>5. \A i \in 1..N : Large(i) \in BOOLEAN
  BY <1>4 DEF Large, Items
<1> QED BY <1>2, <1>3, <1>5, LimitsAssumption DEF Pieces

\* An album ends where it begins or later, and within the plan.
LEMMA GroupEndInPlan ==
  ASSUME TypeOK, NEW i \in 1..N
  PROVE  /\ BatchEnd(i) \in i..N
         /\ AlbumEnd(i) \in i..N
<1>1. N \in Nat /\ i \in Nat /\ i >= 1 /\ i <= N
  BY PlanFacts
<1>2. BatchEnd(i) \in i..N
  <2> DEFINE hi == Min({i + GroupLimit - 1, N})
             S == {end \in i..hi : SameSort(i, end)}
  <2>1. hi \in Int /\ i <= hi /\ hi <= N
    BY <1>1, LimitsAssumption, MinOfTwo
  <2>2. i \in S
    BY <1>1, <2>1 DEF SameSort
  <2>3. Max(S) \in S
    <3> HIDE DEF hi
    <3> QED BY <1>1, <2>1, <2>2, MaxExists
  <2> QED BY <1>1, <2>1, <2>3 DEF BatchEnd
<1>3. AlbumEnd(i) \in i..N
  <2> DEFINE end == Min({i + AlbumLimit - 1, N})
  <2>1. end = IF i + AlbumLimit - 1 <= N THEN i + AlbumLimit - 1 ELSE N
    BY <1>1, LimitsAssumption, MinOfTwo
  <2>2. AlbumEnd(i) = IF N - end = 1 THEN end - 1 ELSE end
    BY DEF AlbumEnd
  <2> HIDE DEF end
  <2> QED BY <1>1, <2>1, <2>2, LimitsAssumption
<1> QED BY <1>2, <1>3

\* The call under way: one part, or one piece of each item from first to last.
LEMMA UnitFacts ==
  ASSUME TypeOK, CursorOK, first <= N
  PROVE  /\ Unit \in Seq((1..N) \X (1..Pieces))
         /\ Large(first) => Unit = << <<first, piece>> >> /\ Len(Unit) = 1
         /\ ~Large(first) => /\ Len(Unit) = last - first + 1
                             /\ \A n \in 1..Len(Unit) : Unit[n] = <<first + n - 1, 1>>
         /\ Len(Unit) \in 1..N
         /\ UnitSet = {Unit[n] : n \in 1..Len(Unit)}
         /\ UnitSet \subseteq (1..N) \X (1..Pieces)
         /\ Large(first) => UnitSet = {<<first, piece>>}
         /\ \A m \in UnitSet : m[1] \in first..last /\ m[2] = piece
         /\ \A a, b \in 1..Len(Unit) : a < b => Before(Unit[a], Unit[b])
<1>1. first \in 1..N /\ last \in first..N /\ piece \in 1..Pieces /\ Large(first) \in BOOLEAN
  BY PlanFacts, SMTT(30) DEF TypeOK, CursorOK
<1>2. CASE Large(first)
  <2>1. Unit = << <<first, piece>> >> /\ Len(Unit) = 1
    BY <1>2 DEF Unit
  <2>2. UnitSet = {<<first, piece>>}
    BY <2>1 DEF UnitSet
  <2> QED BY <1>1, <1>2, <2>1, <2>2, PlanFacts DEF UnitSet, CursorOK
<1>3. CASE ~Large(first)
  <2>1. Unit = [n \in 1..(last - first + 1) |-> <<first + n - 1, 1>>] /\ piece = 1
    BY <1>1, <1>3 DEF Unit, CursorOK
  <2>2. Unit \in Seq((1..N) \X (1..Pieces)) /\ Len(Unit) = last - first + 1
    <3>1. last - first + 1 \in Nat
      BY <1>1, PlanFacts
    <3>2. \A n \in 1..(last - first + 1) : <<first + n - 1, 1>> \in (1..N) \X (1..Pieces)
      BY <1>1, PlanFacts
    <3> QED BY <2>1, <3>1, <3>2
  <2>3. \A n \in 1..Len(Unit) : Unit[n] = <<first + n - 1, 1>>
    BY <2>1, <2>2
  <2>4. ASSUME NEW m \in UnitSet PROVE m[1] \in first..last /\ m[2] = piece
    <3>1. PICK n \in 1..Len(Unit) : m = Unit[n]
      BY DEF UnitSet
    <3>2. m = <<first + n - 1, 1>> /\ n \in 1..(last - first + 1)
      BY <2>2, <2>3, <3>1
    <3> QED BY <1>1, <2>1, <3>2, PlanFacts
  <2>5. ASSUME NEW a \in 1..Len(Unit), NEW b \in 1..Len(Unit), a < b
        PROVE  Before(Unit[a], Unit[b])
    <3>1. Unit[a] = <<first + a - 1, 1>> /\ Unit[b] = <<first + b - 1, 1>>
      BY <2>3
    <3>2. first + a - 1 < first + b - 1
      BY <1>1, <2>2, <2>5, PlanFacts
    <3> QED BY <3>1, <3>2 DEF Before
  <2>6. UnitSet \subseteq (1..N) \X (1..Pieces)
    BY <2>2 DEF UnitSet
  <2>7. Len(Unit) \in 1..N
    BY <1>1, <2>2, PlanFacts
  <2> QED BY <1>3, <2>2, <2>3, <2>4, <2>5, <2>6, <2>7 DEF UnitSet
<1> QED BY <1>1, <1>2, <1>3

\* The unit at the cursor has at least one item and no more than there are.
LEMMA UnitLength == TypeOK /\ CursorOK /\ first <= N => Len(Unit) \in 1..N
BY UnitFacts

\* What lies before the cursor is no part of the call under way.
LEMMA PastIsNoUnit ==
  ASSUME TypeOK, CursorOK, first <= N, NEW m, Before(m, <<first, piece>>)
  PROVE  m \notin UnitSet
<1> SUFFICES ASSUME m \in UnitSet PROVE FALSE
  OBVIOUS
<1>1. first \in Int /\ last \in Int /\ piece \in Int
  BY PlanFacts, SMTT(30) DEF TypeOK
<1>2. m[1] \in first..last /\ m[2] = piece
  BY UnitFacts
<1>3. m[1] < first \/ (m[1] = first /\ m[2] < piece)
  BY DEF Before
<1> QED BY <1>1, <1>2, <1>3

\* What an answer, or a call that went unanswered, may add to the chat.
LEMMA LandingFacts ==
  ASSUME DeliveryInv, first <= N, verdict = "running", BeforeAnswer, Lands
  PROVE  /\ chat' \in Seq((1..N) \X (1..Pieces))
         /\ {chat'[n] : n \in 1..Len(chat')} = Sent \union UnitSet
         /\ \A a, b \in 1..Len(chat') : a < b => Before(chat'[a], chat'[b])
<1> TypeOK /\ CursorOK /\ SentIsPast /\ ArrivesInOrder
  BY DEF DeliveryInv
<1>1. chat \in Seq((1..N) \X (1..Pieces)) /\ Unit \in Seq((1..N) \X (1..Pieces))
  BY UnitFacts DEF TypeOK
<1>2. chat' = chat \o Unit
  BY DEF Lands
<1>3. /\ Len(chat') = Len(chat) + Len(Unit)
      /\ \A n \in 1..Len(chat) : chat'[n] = chat[n]
      /\ \A n \in 1..Len(Unit) : chat'[Len(chat) + n] = Unit[n]
      /\ chat' \in Seq((1..N) \X (1..Pieces))
  BY <1>1, <1>2
<1>4. Len(chat) \in Nat /\ Len(Unit) \in Nat
  BY <1>1
<1>5. \A n \in 1..Len(chat') :
        n \in 1..Len(chat) \/ (n - Len(chat) \in 1..Len(Unit) /\ chat'[n] = Unit[n - Len(chat)])
  <2> SUFFICES ASSUME NEW n \in 1..Len(chat'), n \notin 1..Len(chat)
               PROVE  n - Len(chat) \in 1..Len(Unit) /\ chat'[n] = Unit[n - Len(chat)]
    OBVIOUS
  <2>1. n - Len(chat) \in 1..Len(Unit) /\ Len(chat) + (n - Len(chat)) = n
    <3>1. n \in Int /\ 1 <= n /\ n <= Len(chat) + Len(Unit)
      BY <1>3, <1>4
    <3>2. Len(chat) < n
      BY <1>4, <3>1
    <3> QED BY <1>4, <3>1, <3>2
  <2>2. chat'[Len(chat) + (n - Len(chat))] = Unit[n - Len(chat)]
    BY <1>3, <2>1
  <2> QED BY <2>1, <2>2
<1>6. {chat'[n] : n \in 1..Len(chat')} = Sent \union UnitSet
  <2>1. ASSUME NEW n \in 1..Len(chat') PROVE chat'[n] \in Sent \union UnitSet
    <3>1. CASE n \in 1..Len(chat)
      BY <1>3, <3>1 DEF Sent
    <3>2. CASE n - Len(chat) \in 1..Len(Unit) /\ chat'[n] = Unit[n - Len(chat)]
      BY <3>2 DEF UnitSet
    <3> QED BY <1>5, <3>1, <3>2
  <2>2. ASSUME NEW m \in Sent \union UnitSet PROVE m \in {chat'[n] : n \in 1..Len(chat')}
    <3>1. CASE m \in Sent
      <4>1. PICK n \in 1..Len(chat) : m = chat[n]
        BY <3>1 DEF Sent
      <4>2. n \in 1..Len(chat')
        BY <1>3, <1>4
      <4> QED BY <1>3, <4>1, <4>2
    <3>2. CASE m \in UnitSet
      <4>1. PICK n \in 1..Len(Unit) : m = Unit[n]
        BY <3>2 DEF UnitSet
      <4>2. Len(chat) + n \in 1..Len(chat')
        BY <1>3, <1>4
      <4>3. chat'[Len(chat) + n] = m
        BY <1>3, <4>1
      <4> QED BY <4>2, <4>3
    <3> QED BY <2>2, <3>1, <3>2
  <2> QED BY <2>1, <2>2
<1>7. \A m \in Sent, u \in UnitSet : Before(m, u)
  <2> SUFFICES ASSUME NEW m \in Sent, NEW u \in UnitSet PROVE Before(m, u)
    OBVIOUS
  <2>1. Before(m, <<first, piece>>)
    BY DEF SentIsPast, BeforeAnswer, AfterAnswer
  <2>2. u[1] \in first..last /\ u[2] = piece
    BY UnitFacts
  <2>3. m \in (1..N) \X (1..Pieces)
    BY <1>1 DEF Sent
  <2>4. first \in Nat /\ last \in Nat /\ piece \in Nat /\ N \in Nat /\ Pieces \in Nat
    BY PlanFacts, SMTT(30) DEF TypeOK
  <2>5. m[1] \in Nat /\ m[2] \in Nat /\ u[1] \in Nat /\ u[1] >= first
    BY <2>2, <2>3, <2>4
  <2> QED BY <2>1, <2>2, <2>4, <2>5 DEF Before
<1>8. ASSUME NEW a \in 1..Len(chat'), NEW b \in 1..Len(chat'), a < b
      PROVE  Before(chat'[a], chat'[b])
  <2>1. CASE a \in 1..Len(chat) /\ b \in 1..Len(chat)
    BY <1>3, <1>8, <2>1 DEF ArrivesInOrder
  <2>2. CASE a \in 1..Len(chat) /\ b \notin 1..Len(chat)
    <3>1. chat'[a] \in Sent
      BY <1>3, <2>2 DEF Sent
    <3>2. chat'[b] \in UnitSet
      BY <1>5, <2>2 DEF UnitSet
    <3> QED BY <1>7, <3>1, <3>2
  <2>3. CASE a \notin 1..Len(chat)
    <3>1. b \notin 1..Len(chat)
      BY <1>3, <1>4, <1>8, <2>3
    <3>2. /\ a - Len(chat) \in 1..Len(Unit) /\ chat'[a] = Unit[a - Len(chat)]
          /\ b - Len(chat) \in 1..Len(Unit) /\ chat'[b] = Unit[b - Len(chat)]
          /\ a - Len(chat) < b - Len(chat)
      <4>1. /\ a - Len(chat) \in 1..Len(Unit) /\ chat'[a] = Unit[a - Len(chat)]
            /\ b - Len(chat) \in 1..Len(Unit) /\ chat'[b] = Unit[b - Len(chat)]
        BY <1>5, <2>3, <3>1
      <4>2. a - Len(chat) < b - Len(chat)
        BY <1>3, <1>4, <1>8
      <4> QED BY <4>1, <4>2
    <3> QED BY <3>2, UnitFacts
  <2> QED BY <2>1, <2>2, <2>3
<1> QED BY <1>3, <1>6, <1>8

\* A delivery starts with nothing sent and nothing stored.
LEMMA InitDeliveryInv == Init => DeliveryInv
<1> SUFFICES ASSUME Init PROVE DeliveryInv
  OBVIOUS
<1> USE DEF Init
<1>1. plan.items \in Seq(Items) /\ plan.items # <<>> /\ plan \in Plans
  BY PlansAssumption
<1>2. N \in Nat /\ N > 0 /\ Pieces \in Nat /\ Pieces > 1
  BY <1>1, LimitsAssumption DEF N, Pieces
<1>3. TypeOK
  <2>1. chat \in Seq((1..N) \X (1..Pieces))
    OBVIOUS
  <2>2. DOMAIN rows = {}
    <3>1. rows \in Seq({}) /\ Len(rows) = 0
      OBVIOUS
    <3>2. DOMAIN rows = 1..Len(rows)
      BY <3>1
    <3> QED BY <3>1, <3>2
  <2>3. \A o \in DOMAIN rows : rows[o] \in stored
    BY <2>2
  <2>4. /\ first \in 1..(N + 1) /\ last \in 1..(N + 1)
        /\ piece \in 1..Pieces /\ singly \in 0..N /\ kept \in 0..N /\ receipts \in Nat
    BY <1>2
  <2>5. step \in Steps /\ verdict \in Verdicts
    BY DEF Steps, Verdicts
  <2> HIDE DEF Init
  <2>6. gone = {} /\ stored = {} /\ failed = {}
    BY DEF Init
  <2> QED BY <1>1, <2>1, <2>3, <2>4, <2>5, <2>6 DEF TypeOK
<1>4. Sent = {}
  BY DEF Sent
<1>5. CursorOK /\ SentIsPast /\ DeletedIsStored /\ StoredBeforeNext /\ ArrivesInOrder
  BY <1>2, <1>4 DEF CursorOK, SentIsPast, DeletedIsStored, StoredBeforeNext, ArrivesInOrder
<1>6. KeptIsStored
  <2>1. kept <= Len(Unit)
    BY <1>2, <1>3, <1>5, UnitFacts
  <2>2. 1..kept = {} /\ 1..(piece - 1) = {}
    OBVIOUS
  <2> QED BY <2>1, <2>2 DEF KeptIsStored, BeforeAnswer
<1> QED BY <1>3, <1>5, <1>6 DEF DeliveryInv

\* While the plan and the cursor stay, so does everything defined from them.
LEMMA SameCursor ==
  ASSUME UNCHANGED <<plan, first, last, piece>>
  PROVE  /\ N' = N /\ Pieces' = Pieces /\ Unit' = Unit /\ UnitSet' = UnitSet
         /\ \A i : Large(i)' = Large(i) /\ Messages(i)' = Messages(i)
BY DEF N, Pieces, Unit, UnitSet, Large, Messages

\* The run ends, and nothing else happens.
LEMMA EndKeeps ==
  ASSUME DeliveryInv, NEW v \in Verdicts \ {"running"}, EndAs(v),
         UNCHANGED <<chat, rows, gone, failed, stored>>
  PROVE  DeliveryInv'
<1> USE DEF DeliveryInv, EndAs, cursorVars
<1>1. Sent' = Sent
  BY DEF Sent
<1>2. TypeOK'
  BY SameCursor DEF TypeOK
<1>3. CursorOK' /\ KeptIsStored'
  BY SameCursor DEF CursorOK, KeptIsStored, BeforeAnswer
<1>4. SentIsPast' /\ DeletedIsStored' /\ StoredBeforeNext' /\ ArrivesInOrder'
  BY SameCursor, <1>1 DEF SentIsPast, DeletedIsStored, StoredBeforeNext, ArrivesInOrder
<1> QED BY <1>2, <1>3, <1>4

\* The run ends while a call for files is under way, and the files have arrived.
LEMMA LandAndEndKeeps ==
  ASSUME DeliveryInv, verdict = "running", Calling, Lands,
         NEW v \in Verdicts \ {"running"}, EndAs(v),
         UNCHANGED <<rows, gone, failed, stored>>
  PROVE  DeliveryInv'
<1> USE DEF DeliveryInv, EndAs, cursorVars
<1>1. first <= N /\ BeforeAnswer
  BY PlanFacts, SMTT(30) DEF CursorOK, Calling, BeforeAnswer, TypeOK
<1>2. /\ chat' \in Seq((1..N) \X (1..Pieces))
      /\ Sent' = Sent \union UnitSet
      /\ ArrivesInOrder'
  BY <1>1, LandingFacts DEF Sent, ArrivesInOrder
<1>3. TypeOK'
  BY SameCursor, <1>2 DEF TypeOK
<1>4. CursorOK' /\ KeptIsStored'
  BY SameCursor DEF CursorOK, KeptIsStored, BeforeAnswer
<1>5. SentIsPast' /\ DeletedIsStored' /\ StoredBeforeNext'
  BY SameCursor, <1>1, <1>2 DEF SentIsPast, DeletedIsStored, StoredBeforeNext
<1> QED BY <1>2, <1>3, <1>4, <1>5

\* What GoOn means for the cursor.
LEMMA GoOnFacts ==
  ASSUME DeliveryInv, first <= N, GoOn
  PROVE  /\ N' = N /\ Pieces' = Pieces /\ plan' = plan
         /\ \A i : Large(i)' = Large(i) /\ Messages(i)' = Messages(i)
         /\ first' = last + 1 /\ last' = first' /\ piece' = 1 /\ kept' = 0
         /\ first' \in 2..(N + 1)
         /\ step' \in {"choose", "summary", "returned"}
         /\ step' = "choose" <=> first' <= N
         /\ singly' \in 0..N /\ verdict' = verdict
<1>1. first \in 1..N /\ last \in first..N /\ N \in Nat
  BY PlanFacts, SMTT(30) DEF DeliveryInv, TypeOK, CursorOK
<1>2. /\ N' = N /\ Pieces' = Pieces /\ plan' = plan
      /\ \A i : Large(i)' = Large(i) /\ Messages(i)' = Messages(i)
  BY DEF GoOn, N, Pieces, Large, Messages
<1>3. /\ first' = last + 1 /\ last' = first' /\ piece' = 1 /\ kept' = 0
      /\ singly' = singly /\ verdict' = verdict
      /\ step' = IF last < N THEN "choose"
                 ELSE IF plan.route = "collection" THEN "summary" ELSE "returned"
  BY DEF GoOn
<1>4. first' \in 2..(N + 1) /\ (last < N <=> first' <= N)
  BY <1>1, <1>3
<1>5. step' \in {"choose", "summary", "returned"} /\ (step' = "choose" <=> first' <= N)
  BY <1>3, <1>4
<1>6. singly' \in 0..N
  BY <1>3 DEF DeliveryInv, TypeOK
<1> QED BY <1>2, <1>3, <1>4, <1>5, <1>6

\* Going on to the next unit moves the cursor past what was stored or skipped.
LEMMA GoOnCursor ==
  ASSUME DeliveryInv, first <= N, GoOn
  PROVE  CursorOK' /\ (TypeOK' => KeptIsStored')
<1>1. CursorOK'
  BY GoOnFacts, PlanFacts DEF CursorOK, DeliveryInv
<1>2. ASSUME TypeOK' PROVE KeptIsStored'
  <2>1. (TypeOK /\ CursorOK /\ first <= N => Len(Unit) \in 1..N)'
    BY UnitLength, PTL
  <2>2. 1..kept' = {} /\ 1..(piece' - 1) = {}
    BY GoOnFacts
  <2> QED BY <1>1, <1>2, <2>1, <2>2, GoOnFacts DEF KeptIsStored, BeforeAnswer
<1> QED BY <1>1, <1>2

\* The next item lies past everything sent so far, the call under way included.
LEMMA GoOnIsPast ==
  ASSUME DeliveryInv, verdict = "running", first <= N, GoOn,
         NEW m \in Sent \union UnitSet
  PROVE  m[1] <= last /\ Before(m, <<first', piece'>>)
<1> USE DEF DeliveryInv
<1>1. first \in Nat /\ last \in Nat /\ first <= last /\ N \in Nat
  BY PlanFacts, SMTT(30) DEF TypeOK, CursorOK
<1>2. m \in (1..N) \X (1..Pieces)
  <2>1. chat \in Seq((1..N) \X (1..Pieces))
    BY DEF TypeOK
  <2>2. Sent \subseteq (1..N) \X (1..Pieces)
    BY <2>1 DEF Sent
  <2> QED BY <2>2, UnitFacts
<1>3. m[1] \in Nat
  BY <1>1, <1>2
<1>4. m[1] <= first \/ m \in UnitSet
  BY <1>1, <1>3 DEF SentIsPast, Before
<1>5. m \in UnitSet => m[1] <= last
  BY <1>1, <1>3, UnitFacts
<1> QED BY <1>1, <1>3, <1>4, <1>5, GoOnFacts DEF Before

\* A collection counts its item as failed and goes on.
LEMMA ItemFailsKeeps ==
  ASSUME DeliveryInv, verdict = "running", plan.route = "collection", first <= N,
         UNCHANGED chat \/ (Calling /\ Lands),
         failed' = failed \union {first}, receipts' = receipts, GoOn,
         UNCHANGED <<rows, gone, stored>>
  PROVE  DeliveryInv'
<1> USE DEF DeliveryInv
<1>1. /\ chat' \in Seq((1..N) \X (1..Pieces))
      /\ Sent' \subseteq Sent \union UnitSet
      /\ ArrivesInOrder'
  <2>1. CASE UNCHANGED chat
    BY <2>1 DEF Sent, ArrivesInOrder, TypeOK
  <2>2. CASE Calling /\ Lands
    BY <2>2, LandingFacts DEF Sent, ArrivesInOrder, Calling, BeforeAnswer
  <2> QED BY <2>1, <2>2
<1>2. TypeOK'
  <2>1. first \in 1..N /\ N \in Nat /\ Pieces \in Nat /\ Pieces > 1
    BY PlanFacts, SMTT(30) DEF TypeOK
  <2>2. first' \in 1..(N + 1) /\ last' \in 1..(N + 1) /\ piece' \in 1..Pieces /\ kept' \in 0..N
    BY <2>1, GoOnFacts
  <2>3. step' \in Steps /\ verdict' \in Verdicts /\ failed' \subseteq 1..N
    BY <2>1, GoOnFacts DEF TypeOK, Steps
  <2> QED BY <1>1, <2>2, <2>3, GoOnFacts DEF TypeOK
<1>3. CursorOK' /\ KeptIsStored'
  BY <1>2, GoOnCursor
<1>4. SentIsPast'
  BY <1>1, GoOnIsPast DEF SentIsPast
<1>5. DeletedIsStored'
  BY GoOnFacts DEF DeletedIsStored
<1>6. StoredBeforeNext'
  <2> SUFFICES ASSUME NEW m \in Sent', m \notin stored, m[1] \notin failed PROVE m[1] = first
    BY DEF StoredBeforeNext
  <2>1. m \in UnitSet
    BY <1>1 DEF StoredBeforeNext
  <2>2. last = first /\ first \in Nat
    BY PlanFacts, SMTT(30) DEF CursorOK, TypeOK
  <2> QED BY <2>1, <2>2, UnitFacts
<1> QED BY <1>1, <1>2, <1>3, <1>4, <1>5, <1>6

\* A DeliveryError keeps the invariant wherever it is raised.
LEMMA DeliveryErrorKeeps ==
  ASSUME DeliveryInv, verdict = "running", first <= N, DeliveryErrorRaised,
         UNCHANGED chat \/ (Calling /\ Lands),
         UNCHANGED <<rows, gone, stored>>
  PROVE  DeliveryInv'
<1>1. CASE plan.route = "collection"
  BY <1>1, ItemFailsKeeps DEF DeliveryErrorRaised
<1>2. CASE plan.route # "collection"
  <2>1. failed' = failed /\ EndAs("uncertain") /\ "uncertain" \in Verdicts \ {"running"}
    BY <1>2 DEF DeliveryErrorRaised, Verdicts
  <2> QED BY <2>1, EndKeeps, LandAndEndKeeps
<1> QED BY <1>1, <1>2

\* The steps of the loops that only move the run on.
LEMMA MoveKeeps ==
  ASSUME DeliveryInv, ChooseFile \/ Pack \/ FileRefused \/ LinkSent \/ Summarize
  PROVE  DeliveryInv'
<1> USE DEF DeliveryInv
<1>1. /\ UNCHANGED <<plan, first, last, piece, kept, receipts, resultVars>>
      /\ At(step)
  BY DEF ChooseFile, Pack, FileRefused, LinkSent, Summarize, cursorVars, At
<1>2. N' = N /\ Pieces' = Pieces /\ Unit' = Unit /\ UnitSet' = UnitSet /\ Sent' = Sent
  BY <1>1, SameCursor DEF Sent, resultVars
<1>3. singly' \in 0..N
  <2>1. CASE ChooseFile
    <3>1. first \in 1..N
      BY <2>1, PlanFacts DEF ChooseFile, At, TypeOK, CursorOK
    <3>2. BatchEnd(first) \in first..N /\ N \in Nat
      BY <3>1, GroupEndInPlan, PlanFacts
    <3> QED BY <2>1, <3>1, <3>2 DEF ChooseFile, TypeOK
  <2> QED BY <2>1 DEF Pack, FileRefused, LinkSent, Summarize, cursorVars, TypeOK
<1>4. step' \in Steps /\ verdict' \in Verdicts
  BY DEF ChooseFile, Pack, FileRefused, LinkSent, Summarize, Steps, Verdicts, TypeOK
<1>5. TypeOK'
  BY <1>1, <1>2, <1>3, <1>4 DEF TypeOK, resultVars
<1>6. first \in 1..(N + 1) /\ (step \notin {"summary", "returned"} => first <= N)
  BY PlanFacts, SMTT(30) DEF TypeOK, CursorOK
<1>7. CursorOK'
  BY <1>1, <1>2, <1>6, SameCursor
     DEF CursorOK, ChooseFile, Pack, FileRefused, LinkSent, Summarize, At
<1>8. KeptIsStored'
  <2>1. Len(Unit) \in Nat /\ (first <= N => Len(Unit) >= 1) /\ (first <= N /\ Large(first) => Len(Unit) = 1)
    BY <1>6, UnitFacts
  <2> QED BY <1>1, <1>2, <1>6, <2>1, SameCursor
        DEF KeptIsStored, ChooseFile, Pack, FileRefused, LinkSent, Summarize, At, BeforeAnswer,
            resultVars
<1>9. SentIsPast' /\ DeletedIsStored' /\ StoredBeforeNext' /\ ArrivesInOrder'
  <2>1. AfterAnswer => AfterAnswer'
    BY DEF ChooseFile, Pack, FileRefused, LinkSent, Summarize, At, AfterAnswer
  <2> QED BY <1>1, <1>2, <2>1, SameCursor
        DEF SentIsPast, DeletedIsStored, StoredBeforeNext, ArrivesInOrder, resultVars, At
<1> QED BY <1>5, <1>7, <1>8, <1>9

\* Telegram answers: the files have arrived, in the order of the call.
LEMMA AnswerKeeps ==
  ASSUME DeliveryInv, CallAnswered
  PROVE  DeliveryInv'
<1> USE DEF DeliveryInv, CallAnswered
<1>1. first <= N /\ BeforeAnswer /\ kept = 0 /\ step' \in {"link", "store"} /\ N \in Nat
  BY PlanFacts, SMTT(30) DEF CursorOK, Calling, BeforeAnswer, TypeOK, KeptIsStored
<1>2. /\ N' = N /\ Pieces' = Pieces /\ Unit' = Unit /\ UnitSet' = UnitSet
      /\ \A i : Large(i)' = Large(i) /\ Messages(i)' = Messages(i)
  BY SameCursor DEF cursorVars
<1>3. /\ chat' \in Seq((1..N) \X (1..Pieces))
      /\ Sent' = Sent \union UnitSet
      /\ ArrivesInOrder'
  BY <1>1, LandingFacts DEF Sent, ArrivesInOrder
<1>4. TypeOK'
  BY <1>1, <1>2, <1>3 DEF TypeOK, cursorVars, Steps
<1>5. CursorOK'
  BY <1>1, <1>2 DEF CursorOK, cursorVars, Calling
<1>6. KeptIsStored'
  <2>1. Len(Unit) \in 1..N
    BY <1>1, UnitFacts
  <2> QED BY <1>1, <1>2, <2>1 DEF KeptIsStored, cursorVars, BeforeAnswer
<1>7. SentIsPast' /\ DeletedIsStored' /\ StoredBeforeNext'
  BY <1>1, <1>2, <1>3
     DEF SentIsPast, DeletedIsStored, StoredBeforeNext, cursorVars, BeforeAnswer, AfterAnswer
<1> QED BY <1>3, <1>4, <1>5, <1>6, <1>7

\* Several items become one call.
LEMMA AlbumKeeps ==
  ASSUME DeliveryInv, ChooseAlbum
  PROVE  DeliveryInv'
<1> USE DEF DeliveryInv, ChooseAlbum, At
<1>1. /\ first \in 1..N /\ last = first /\ piece = 1 /\ kept = 0
      /\ N \in Nat /\ Pieces \in Nat
  BY PlanFacts, SMTT(30) DEF CursorOK, TypeOK, KeptIsStored, BeforeAnswer
<1>2. last' \in first..N
  BY <1>1, GroupEndInPlan DEF GroupEnd
<1>3. ~Large(first) /\ plan.route \in {"artifacts", "instagram"}
  BY <1>1, <1>2 DEF Grouped, GroupEnd
<1>4. /\ N' = N /\ Pieces' = Pieces /\ Sent' = Sent
      /\ \A i : Large(i)' = Large(i) /\ Messages(i)' = Messages(i)
  BY DEF N, Pieces, Large, Messages, Sent, resultVars
<1>5. TypeOK'
  BY <1>1, <1>2, <1>4 DEF TypeOK, Steps, resultVars
<1>6. CursorOK'
  BY <1>1, <1>2, <1>3, <1>4 DEF CursorOK
<1>7. KeptIsStored'
  <2>1. (TypeOK /\ CursorOK /\ first <= N => Len(Unit) \in 1..N)'
    BY UnitLength, PTL
  <2>2. 1..kept' = {} /\ 1..(piece' - 1) = {}
    BY <1>1
  <2> QED BY <1>1, <1>3, <1>4, <1>5, <1>6, <2>1, <2>2 DEF KeptIsStored, BeforeAnswer
<1>8. SentIsPast'
  BY <1>4 DEF SentIsPast, AfterAnswer
<1>9. StoredBeforeNext'
  <2>1. UnitSet \subseteq {<<first, 1>>}
    <3>1. Unit = [n \in 1..1 |-> <<first + n - 1, 1>>]
      BY <1>1, <1>3 DEF Unit
    <3>2. \A n \in 1..Len(Unit) : Unit[n] = <<first, 1>>
      BY <1>1, <3>1
    <3> QED BY <3>2 DEF UnitSet
  <2>2. <<first, 1>> \in UnitSet'
    <3>1. Unit' = [n \in 1..(last' - first + 1) |-> <<first + n - 1, 1>>]
      BY <1>3, <1>4 DEF Unit
    <3>2. 1 \in 1..Len(Unit') /\ Unit'[1] = <<first, 1>>
      BY <1>1, <1>2, <3>1
    <3> QED BY <3>2 DEF UnitSet
  <2> QED BY <1>1, <1>4, <2>1, <2>2 DEF StoredBeforeNext, resultVars
<1>10. DeletedIsStored' /\ ArrivesInOrder'
  BY <1>4 DEF DeletedIsStored, ArrivesInOrder, resultVars
<1> QED BY <1>5, <1>6, <1>7, <1>8, <1>9, <1>10

\* A refused album has left nothing in the chat, so its items may go one by one.
LEMMA RefusalKeeps ==
  ASSUME DeliveryInv, AlbumRefused
  PROVE  DeliveryInv'
<1> USE DEF DeliveryInv, AlbumRefused, StartOver, At
<1>1. /\ first \in 1..N /\ last \in first..N /\ kept = 0 /\ ~Large(first) /\ piece = 1
      /\ N \in Nat /\ Pieces \in Nat
  BY PlanFacts, SMTT(30) DEF CursorOK, TypeOK, KeptIsStored, BeforeAnswer
<1>2. first' = first /\ last' = first
  BY PlanFacts, SMTT(30) DEF MayGoSingly, Routes
<1>3. /\ N' = N /\ Pieces' = Pieces /\ Sent' = Sent
      /\ \A i : Large(i)' = Large(i) /\ Messages(i)' = Messages(i)
  BY DEF N, Pieces, Large, Messages, Sent, resultVars
<1>4. TypeOK'
  BY <1>1, <1>2, <1>3 DEF TypeOK, Steps, resultVars
<1>5. CursorOK'
  BY <1>1, <1>2, <1>3 DEF CursorOK
<1>6. KeptIsStored'
  <2>1. (TypeOK /\ CursorOK /\ first <= N => Len(Unit) \in 1..N)'
    BY UnitLength, PTL
  <2>2. 1..kept' = {} /\ 1..(piece' - 1) = {}
    BY <1>1
  <2> QED BY <1>1, <1>2, <1>3, <1>4, <1>5, <2>1, <2>2 DEF KeptIsStored, BeforeAnswer
<1>7. SentIsPast'
  BY <1>2, <1>3 DEF SentIsPast, AfterAnswer
<1>8. StoredBeforeNext'
  <2> SUFFICES ASSUME NEW m \in Sent PROVE m \in stored \/ m[1] \in failed
    BY <1>3 DEF StoredBeforeNext, resultVars
  <2>1. Before(m, <<first, piece>>)
    BY DEF SentIsPast, AfterAnswer
  <2>2. m \notin UnitSet
    BY <1>1, <2>1, PastIsNoUnit
  <2> QED BY <2>2 DEF StoredBeforeNext
<1>9. DeletedIsStored' /\ ArrivesInOrder'
  BY <1>3 DEF DeletedIsStored, ArrivesInOrder, resultVars
<1> QED BY <1>4, <1>5, <1>6, <1>7, <1>8, <1>9

\* The receipt of the oldest message without one becomes durable.
LEMMA ReceiptKeeps ==
  ASSUME DeliveryInv, StoreReceipt
  PROVE  DeliveryInv'
<1> USE DEF DeliveryInv, StoreReceipt, At
<1>1. /\ first \in 1..N /\ kept \in Nat /\ kept < Len(Unit) /\ Len(Unit) \in 1..N
      /\ N \in Nat
  <2>1. N \in Nat /\ first \in 1..N
    BY PlanFacts, SMTT(30) DEF CursorOK, TypeOK
  <2>2. kept \in Nat
    BY <2>1 DEF TypeOK
  <2>3. kept < Len(Unit)
    BY DEF KeptIsStored
  <2>4. Len(Unit) \in 1..N
    BY <2>1, UnitFacts
  <2> QED BY <2>1, <2>2, <2>3, <2>4
<1>2. /\ N' = N /\ Pieces' = Pieces /\ Unit' = Unit /\ UnitSet' = UnitSet /\ Sent' = Sent
      /\ \A i : Large(i)' = Large(i) /\ Messages(i)' = Messages(i)
  BY SameCursor DEF Sent
<1>3. OldestUnstored = Unit[kept + 1] /\ kept + 1 \in 1..Len(Unit)
  BY <1>1 DEF OldestUnstored
<1>4. OldestUnstored \in (1..N) \X (1..Pieces)
  BY <1>1, <1>3, UnitFacts DEF UnitSet
<1>5. TypeOK'
  <2>1. \A o \in DOMAIN rows' : rows'[o] \in stored'
    BY DEF TypeOK
  <2>2. kept' \in 0..N /\ step' \in Steps
    BY <1>1 DEF Steps
  <2> QED BY <1>2, <1>4, <2>1, <2>2 DEF TypeOK
<1>6. CursorOK'
  BY <1>1, <1>2 DEF CursorOK
<1>7. KeptIsStored'
  <2>1. \A n \in 1..(kept + 1) : Unit[n] \in stored'
    <3> SUFFICES ASSUME NEW n \in 1..(kept + 1) PROVE Unit[n] \in stored'
      OBVIOUS
    <3>1. n \in 1..kept \/ n = kept + 1
      BY <1>1
    <3> QED BY <1>1, <1>3, <3>1 DEF KeptIsStored
  <2>2. Large(first) => Len(Unit) = 1
    BY <1>1, UnitFacts
  <2>3. step' = "store" => kept + 1 < Len(Unit)
    OBVIOUS
  <2>4. step' \in {"link", "delete"} => kept + 1 = Len(Unit)
    BY <1>1
  <2>5. step' = "link" => ~Large(first)
    OBVIOUS
  <2>6. step' \in {"store", "link", "delete"}
    OBVIOUS
  <2>7. Large(first) => \A p \in 1..(piece - 1) : <<first, p>> \in stored'
    BY <1>1 DEF KeptIsStored
  <2> QED BY <1>1, <1>2, <2>1, <2>3, <2>4, <2>5, <2>6, <2>7 DEF KeptIsStored, BeforeAnswer
<1>8. SentIsPast' /\ DeletedIsStored' /\ StoredBeforeNext' /\ ArrivesInOrder'
  BY <1>2 DEF SentIsPast, DeletedIsStored, StoredBeforeNext, ArrivesInOrder, AfterAnswer
<1> QED BY <1>5, <1>6, <1>7, <1>8

\* After its receipts, everything in the call under way is durable.
LEMMA UnitIsStored ==
  ASSUME DeliveryInv, first <= N, kept = Len(Unit)
  PROVE  UnitSet \subseteq stored
BY UnitFacts DEF DeliveryInv, KeptIsStored, UnitSet

\* A part is deleted; the next one is sent, or the text that explains the parts.
LEMMA PartDeletedKeeps ==
  ASSUME DeliveryInv, DeletePart
  PROVE  DeliveryInv'
<1> USE DEF DeliveryInv, DeletePart, At
<1>1. /\ first \in 1..N /\ last = first /\ piece \in 1..Pieces /\ kept = Len(Unit)
      /\ N \in Nat /\ Pieces \in Nat /\ Pieces > 1
  <2>1. N \in Nat /\ Pieces \in Nat /\ Pieces > 1
    BY PlanFacts
  <2>2. first \in 1..N
    BY <2>1 DEF CursorOK, TypeOK
  <2>3. last = first /\ piece \in 1..Pieces
    BY <2>1, <2>2 DEF CursorOK, TypeOK
  <2>4. kept = Len(Unit)
    BY DEF KeptIsStored
  <2> QED BY <2>1, <2>2, <2>3, <2>4
<1>2. /\ N' = N /\ Pieces' = Pieces /\ Sent' = Sent
      /\ \A i : Large(i)' = Large(i) /\ Messages(i)' = Messages(i)
  BY DEF N, Pieces, Large, Messages, Sent
<1>3. UnitSet = {<<first, piece>>} /\ UnitSet \subseteq stored /\ Len(Unit) = 1
  <2>1. first <= N /\ Large(first)
    BY <1>1
  <2> HIDE DEF DeletePart
  <2>2. UnitSet \subseteq stored
    BY <1>1, <2>1, UnitIsStored
  <2> QED BY <2>1, <2>2, UnitFacts
<1>4. piece' \in 1..Pieces /\ kept' \in 0..N /\ step' \in {"send", "guide"}
  BY <1>1, <1>3
<1>5. TypeOK'
  BY <1>1, <1>2, <1>3, <1>4 DEF TypeOK, Steps
<1>6. CursorOK'
  BY <1>1, <1>2, <1>4 DEF CursorOK
<1>7. \A p \in 1..piece : <<first, p>> \in stored
  <2> SUFFICES ASSUME NEW p \in 1..piece PROVE <<first, p>> \in stored
    OBVIOUS
  <2>1. p \in 1..(piece - 1) \/ p = piece
    BY <1>1
  <2> QED BY <1>1, <1>3, <2>1 DEF KeptIsStored
<1>8. KeptIsStored'
  <2>1. (TypeOK /\ CursorOK /\ first <= N => Len(Unit) \in 1..N)'
    BY UnitLength, PTL
  <2>2. CASE piece < Pieces
    <3>1. step' = "send" /\ piece' - 1 = piece /\ kept' = 0
      BY <1>1, <2>2
    <3> QED BY <1>1, <1>2, <1>5, <1>6, <1>7, <2>1, <3>1 DEF KeptIsStored, BeforeAnswer
  <2>3. CASE ~(piece < Pieces)
    <3>1. step' = "guide" /\ piece' = piece /\ piece = Pieces /\ kept' = kept
      BY <1>1, <2>3
    <3>2. Messages(first) \subseteq stored
      BY <1>7, <3>1 DEF Messages
    <3>3. Unit' = Unit
      BY <3>1, SameCursor
    <3>4. first' = first /\ stored' = stored /\ (first <= N)' = (first <= N)
      BY <1>2
    <3>5. (first <= N => kept <= Len(Unit) /\ \A n \in 1..kept : Unit[n] \in stored)'
      BY <1>2, <3>1, <3>3, <3>4 DEF KeptIsStored
    <3>6. (first <= N /\ Large(first) => \A p \in 1..(piece - 1) : <<first, p>> \in stored)'
      BY <1>1, <1>7, <3>1, <3>4
    <3>7. Messages(first)' \subseteq stored'
      BY <1>2, <3>2, <3>4
    <3> QED BY <3>1, <3>5, <3>6, <3>7 DEF KeptIsStored, BeforeAnswer
  <2> QED BY <2>2, <2>3
<1>9. SentIsPast'
  <2> SUFFICES ASSUME NEW m \in Sent, verdict = "running"
               PROVE  Before(m, <<first, piece'>>) \/ (step' = "guide" /\ m \in UnitSet')
    BY <1>2 DEF SentIsPast, AfterAnswer
  <2>1. Before(m, <<first, piece>>) \/ m = <<first, piece>>
    BY <1>3 DEF SentIsPast
  <2>2. CASE piece < Pieces
    <3>1. piece' = piece + 1
      BY <2>2
    <3>2. m \in (1..N) \X (1..Pieces)
      BY DEF TypeOK, Sent
    <3>3. m[1] \in Int /\ m[2] \in Int /\ piece \in Int
      BY <1>1, <3>2
    <3>4. CASE Before(m, <<first, piece>>)
      <4>1. m[1] < first \/ (m[1] = first /\ m[2] < piece)
        BY <3>4 DEF Before
      <4>2. m[1] < first \/ (m[1] = first /\ m[2] < piece + 1)
        BY <3>3, <4>1
      <4> QED BY <3>1, <4>2 DEF Before
    <3>5. CASE m = <<first, piece>>
      BY <1>1, <3>1, <3>5 DEF Before
    <3> QED BY <2>1, <3>4, <3>5
  <2>3. CASE ~(piece < Pieces)
    <3>1. piece' = piece /\ step' = "guide" /\ UnitSet' = UnitSet
      BY <2>3, SameCursor
    <3> QED BY <1>3, <2>1, <3>1
  <2> QED BY <2>2, <2>3
<1>10. StoredBeforeNext'
  BY <1>2, <1>3 DEF StoredBeforeNext
<1>11. DeletedIsStored'
  <2>1. piece # 0
    BY <1>1
  <2> QED BY <1>2, <1>3, <2>1 DEF DeletedIsStored
<1>12. ArrivesInOrder'
  BY DEF ArrivesInOrder
<1> QED BY <1>5, <1>6, <1>8, <1>9, <1>10, <1>11, <1>12

\* The files of a finished call, or a split file all of whose parts are durable, are deleted.
LEMMA ItemDoneKeeps ==
  ASSUME DeliveryInv, DeleteFiles \/ GuideSent
  PROVE  DeliveryInv'
<1> USE DEF DeliveryInv, At
<1>1. /\ verdict = "running" /\ first \in 1..N /\ GoOn
      /\ UNCHANGED <<chat, rows, failed, stored>>
      /\ N \in Nat /\ Pieces \in Nat /\ Pieces > 1
  BY PlanFacts, SMTT(30) DEF CursorOK, TypeOK, DeleteFiles, GuideSent
<1>2. UnitSet \subseteq stored
  <2>1. CASE DeleteFiles
    BY <1>1, <2>1, UnitIsStored DEF DeleteFiles, KeptIsStored
  <2>2. CASE GuideSent
    <3>1. Messages(first) \subseteq stored /\ Large(first)
      BY <2>2 DEF GuideSent, KeptIsStored, CursorOK
    <3>2. UnitSet = {<<first, piece>>} /\ piece \in 1..Pieces
      BY <1>1, <3>1, UnitFacts DEF TypeOK
    <3> QED BY <3>1, <3>2 DEF Messages
  <2> QED BY <2>1, <2>2
<1>3. /\ \A f \in gone' \ gone : f \in (1..N) \X (0..Pieces)
      /\ \A f \in gone' \ gone : IF f[2] = 0 THEN Messages(f[1]) \subseteq stored ELSE f \in stored
  <2>1. CASE DeleteFiles
    <3>1. \A f \in gone' \ gone : f \in UnitSet
      BY <2>1 DEF DeleteFiles, Deletable
    <3>2. \A f \in UnitSet : f \in (1..N) \X (1..Pieces)
      BY <1>1, UnitFacts
    <3>3. \A f \in UnitSet : f \in (1..N) \X (0..Pieces) /\ f[2] # 0
      BY <1>1, <3>2
    <3> QED BY <1>2, <3>1, <3>3
  <2>2. CASE GuideSent
    <3>1. \A f \in gone' \ gone : f = <<first, 0>>
      BY <2>2 DEF GuideSent
    <3>2. Messages(first) \subseteq stored
      BY <2>2 DEF GuideSent, KeptIsStored
    <3> QED BY <1>1, <3>1, <3>2
  <2> QED BY <2>1, <2>2
<1>4. receipts' \in Nat
  <2>1. receipts \in Nat
    BY DEF TypeOK
  <2>3. Len(Unit) \in 1..N /\ N \in Nat /\ Pieces \in Nat
    BY <1>1, UnitLength
  <2>2. receipts' = receipts + Len(Unit) \/ receipts' = receipts + Pieces
    BY DEF DeleteFiles, GuideSent
  <2>4. receipts + Len(Unit) \in Nat /\ receipts + Pieces \in Nat
    BY <2>1, <2>3
  <2> QED BY <2>2, <2>4
<1>5. TypeOK'
  <2>1. first' \in 1..(N + 1) /\ last' \in 1..(N + 1) /\ piece' \in 1..Pieces /\ kept' \in 0..N
    BY <1>1, GoOnFacts
  <2>2. step' \in Steps /\ gone' \subseteq (1..N) \X (0..Pieces)
    BY <1>1, <1>3, GoOnFacts DEF TypeOK, Steps
  <2>3. /\ N' = N /\ Pieces' = Pieces /\ plan' = plan /\ verdict' = verdict
        /\ singly' \in 0..N /\ UNCHANGED <<chat, rows, failed, stored>>
    BY <1>1, GoOnFacts
  <2> QED BY <1>4, <2>1, <2>2, <2>3 DEF TypeOK
<1>6. CursorOK' /\ KeptIsStored'
  BY <1>1, <1>5, GoOnCursor
<1>7. Sent' = Sent
  BY <1>1 DEF Sent
<1>8. SentIsPast'
  BY <1>1, <1>7, GoOnIsPast DEF SentIsPast
<1>9. StoredBeforeNext'
  BY <1>1, <1>2, <1>7 DEF StoredBeforeNext
<1>10. DeletedIsStored'
  BY <1>1, <1>3, GoOnFacts DEF DeletedIsStored
<1>11. ArrivesInOrder'
  BY <1>1 DEF ArrivesInOrder
<1> QED BY <1>5, <1>6, <1>8, <1>9, <1>10, <1>11

\* One case per action; the steps that raise or end share a lemma.
LEMMA StepKeepsDeliveryInv == DeliveryInv /\ [Next]_vars => DeliveryInv'
<1> SUFFICES ASSUME DeliveryInv, [Next]_vars PROVE DeliveryInv'
  OBVIOUS
<1>1. verdict \in Verdicts /\ N \in Nat /\ first \in 1..(N + 1)
  BY PlanFacts, SMTT(30) DEF DeliveryInv, TypeOK
<1>2. step \notin {"summary", "returned"} => first <= N
  BY <1>1 DEF DeliveryInv, CursorOK, TypeOK
<1>3. CASE ChooseFile \/ Pack \/ FileRefused \/ LinkSent \/ Summarize
  BY <1>3, MoveKeeps
<1>4. CASE PlanRefused \/ ItemTooLarge \/ PackFails \/ AlbumRefusedLate \/ LinkFails
           \/ ReceiptsMiscounted \/ Complete \/ CompletionFails \/ SeeCancel
  <2>1. \E v \in Verdicts \ {"running"} : EndAs(v)
    BY <1>4 DEF PlanRefused, ItemTooLarge, PackFails, AlbumRefusedLate, LinkFails,
       ReceiptsMiscounted, Complete, CompletionFails, SeeCancel, Verdicts
  <2>2. UNCHANGED resultVars
    BY <1>4 DEF PlanRefused, ItemTooLarge, PackFails, AlbumRefusedLate, LinkFails,
       ReceiptsMiscounted, Complete, CompletionFails, SeeCancel
  <2> QED BY <1>1, <2>1, <2>2, EndKeeps DEF resultVars
<1>5. CASE CallUnanswered
  BY <1>2, <1>5, DeliveryErrorKeeps DEF CallUnanswered, Calling
<1>6. CASE DocumentRefused \/ StoreFails \/ GuideFails
  BY <1>1, <1>2, <1>6, DeliveryErrorKeeps DEF DocumentRefused, StoreFails, GuideFails, At
<1>7. CASE Interrupted \/ AnswerUndecoded
  <2>1. \E v \in Verdicts \ {"running"} : EndAs(v)
    BY <1>7 DEF Interrupted, AnswerUndecoded, Verdicts
  <2>2. /\ verdict = "running" /\ (UNCHANGED chat \/ (Calling /\ Lands))
        /\ UNCHANGED <<rows, gone, failed, stored>>
    BY <1>7 DEF Interrupted, AnswerUndecoded
  <2> QED BY <1>1, <2>1, <2>2, EndKeeps, LandAndEndKeeps
<1>8. CASE CallAnswered BY <1>8, AnswerKeeps
<1>9. CASE ChooseAlbum BY <1>9, AlbumKeeps
<1>10. CASE AlbumRefused BY <1>10, RefusalKeeps
<1>11. CASE StoreReceipt BY <1>11, ReceiptKeeps
<1>12. CASE DeletePart BY <1>12, PartDeletedKeeps
<1>13. CASE DeleteFiles \/ GuideSent BY <1>13, ItemDoneKeeps
<1>14. CASE UNCHANGED vars
  <2> USE <1>14 DEF vars, cursorVars, resultVars, DeliveryInv
  <2>1. Sent' = Sent
    BY DEF Sent
  <2>2. /\ N' = N /\ Pieces' = Pieces /\ Unit' = Unit /\ UnitSet' = UnitSet
        /\ \A i : Large(i)' = Large(i) /\ Messages(i)' = Messages(i)
    BY SameCursor
  <2>3. TypeOK' /\ CursorOK'
    BY <2>2 DEF TypeOK, CursorOK
  <2>4. KeptIsStored'
    BY <2>2 DEF KeptIsStored, BeforeAnswer
  <2>5. SentIsPast' /\ DeletedIsStored' /\ StoredBeforeNext' /\ ArrivesInOrder'
    BY <2>1, <2>2 DEF SentIsPast, DeletedIsStored, StoredBeforeNext, ArrivesInOrder, AfterAnswer
  <2> QED BY <2>3, <2>4, <2>5
<1> QED BY <1>3, <1>4, <1>5, <1>6, <1>7, <1>8, <1>9, <1>10, <1>11, <1>12, <1>13, <1>14
        DEF Next, Choose, Call, Settle, End

\* The inductive invariant of a delivery run, whatever its plan.
THEOREM DeliveryInvariant == Spec => []DeliveryInv
BY InitDeliveryInv, StepKeepsDeliveryInv, PTL DEF Spec

\* No message reaches the chat twice or out of order, over every fallback of the code.
THEOREM InOrderOnce == Spec => []ArrivesInOrder
<1>1. DeliveryInv => ArrivesInOrder
  BY DEF DeliveryInv
<1> QED BY <1>1, DeliveryInvariant, PTL

\* A local file goes only when the receipts of what it became are durable.
THEOREM DeletionIsSafe == Spec => []DeletedIsStored
<1>1. DeliveryInv => DeletedIsStored
  BY DEF DeliveryInv
<1> QED BY <1>1, DeliveryInvariant, PTL

\* Nothing is sent before the receipts of what came earlier are durable.
THEOREM ReceiptsComeFirst == Spec => []StoredBeforeNext
<1>1. DeliveryInv => StoredBeforeNext
  BY DEF DeliveryInv
<1> QED BY <1>1, DeliveryInvariant, PTL

\* Whoever ends a run as succeeded or failed stands where nothing lacks its receipt.
LEMMA StepKeepsCertainty ==
  DeliveryInv /\ NothingInDoubt /\ [Next]_vars => NothingInDoubt'
<1> SUFFICES ASSUME DeliveryInv, NothingInDoubt, [Next]_vars
             PROVE  NothingInDoubt'
  OBVIOUS
<1>1. CASE verdict = "running" /\ verdict' \in {"succeeded", "failed"}
  <2>1. /\ step \in {"choose", "pack", "summary", "returned"}
        /\ UNCHANGED <<chat, stored, failed>>
    <3> USE <1>1 DEF EndAs, GoOn, At, resultVars, cursorVars, Calling
    <3>1. CASE Choose
      BY <3>1 DEF Choose, PlanRefused, ChooseAlbum, ChooseFile, ItemTooLarge, Pack, PackFails
    <3>2. CASE Call
      BY <3>2 DEF Call, CallAnswered, CallUnanswered, AnswerUndecoded, FileRefused,
         DocumentRefused, AlbumRefused, AlbumRefusedLate, StartOver, DeliveryErrorRaised
    <3>3. CASE Settle
      BY <3>3 DEF Settle, StoreReceipt, StoreFails, LinkSent, LinkFails, DeletePart,
         DeleteFiles, GuideSent, GuideFails, DeliveryErrorRaised
    <3>4. CASE End
      BY <3>4 DEF End, Summarize, ReceiptsMiscounted, Complete, CompletionFails
    <3>5. CASE SeeCancel \/ Interrupted
      BY <1>1, <3>5 DEF SeeCancel, Interrupted
    <3>6. CASE UNCHANGED vars
      BY <3>6 DEF vars
    <3> QED BY <3>1, <3>2, <3>3, <3>4, <3>5, <3>6 DEF Next
  <2>2. Sent' = Sent
    BY <2>1 DEF Sent
  <2> SUFFICES ASSUME NEW m \in Sent PROVE m \in stored \/ m[1] \in failed
    BY <2>1, <2>2 DEF NothingInDoubt
  <2>3. Before(m, <<first, piece>>)
    BY <1>1, <2>1 DEF DeliveryInv, SentIsPast, AfterAnswer
  <2>4. ~(first <= N /\ m \in UnitSet)
    BY <2>3, PastIsNoUnit DEF DeliveryInv
  <2> QED BY <2>4 DEF DeliveryInv, StoredBeforeNext
<1>2. CASE verdict # "running"
  <2>1. UNCHANGED vars
    BY <1>2 DEF Next, Choose, Call, Settle, End, PlanRefused, ChooseAlbum, ChooseFile,
       ItemTooLarge, Pack, PackFails, CallAnswered, CallUnanswered, AnswerUndecoded, FileRefused,
       DocumentRefused, AlbumRefused, AlbumRefusedLate, StoreReceipt, StoreFails, LinkSent, LinkFails, DeletePart,
       DeleteFiles, GuideSent, GuideFails, Summarize, ReceiptsMiscounted, Complete,
       CompletionFails, SeeCancel, Interrupted, At
  <2>2. Sent' = Sent /\ N' = N /\ UnitSet' = UnitSet
    BY <2>1, SameCursor DEF vars, resultVars, cursorVars, Sent, N
  <2> QED BY <2>1, <2>2 DEF vars, resultVars, cursorVars, NothingInDoubt
<1>3. CASE verdict' = "unexpected"
  <2>1. StoredBeforeNext'
    BY StepKeepsDeliveryInv DEF DeliveryInv
  <2> QED BY <1>3, <2>1 DEF StoredBeforeNext, NothingInDoubt
<1> QED BY <1>1, <1>2, <1>3 DEF NothingInDoubt

\* What may have arrived unrecorded is never called a success, nor a failure to be retried, but
\* for a collection's failed items and the one call whose answer could not be decoded.
THEOREM DoubtIsQuarantined == Spec => []NothingInDoubt
<1>1. Init => NothingInDoubt
  BY DEF Init, NothingInDoubt
<1> QED BY <1>1, DeliveryInvariant, StepKeepsCertainty, PTL DEF Spec

-----------------------------------------------------------------------------
(* What has its receipt has arrived, and what lies behind the cursor has    *)
(* both, or was counted as failed.                                          *)
StoredArrived ==
  /\ stored \subseteq Sent
  /\ AfterAnswer => UnitSet \subseteq Sent

PastIsDone ==
  /\ \A i \in 1..N : i < first => i \in failed \/ Messages(i) \subseteq stored
  /\ first <= N => \A x \in first..last : Large(x) => last = first
  /\ verdict = "succeeded" => step = "returned"

DoneInv == DeliveryInv /\ StoredArrived /\ PastIsDone

\* The greatest ordinal that a receipt has taken so far.
HighWater ==
  CASE plan.route = "single" -> (piece - 1) + kept
    [] plan.route = "artifacts" -> receipts + (piece - 1) + kept
    [] OTHER -> (first - 1) + kept

\* In the numberings that do not collide, the next ordinal is a new one.
Numbered == NumberedByItem => \A i \in 1..N : ~Large(i)
RowsInv ==
  Numbered => /\ first <= N => \A o \in DOMAIN rows : o \in Int /\ o <= HighWater
              /\ EveryReceiptIsKept

\* Where the cursor stands while an item is under way.
LEMMA CursorFacts ==
  ASSUME DeliveryInv, first <= N
  PROVE  first \in 1..N /\ last \in first..N /\ N \in Nat /\ kept \in Nat /\ piece \in 1..Pieces
BY PlanFacts, SMTT(30) DEF DeliveryInv, TypeOK, CursorOK

\* While the cursor stays, what was done stays done.
LEMMA DoneStays ==
  ASSUME DoneInv, DeliveryInv', UNCHANGED <<plan, first, last, piece>>,
         stored \subseteq stored', failed \subseteq failed', Sent \subseteq Sent',
         stored' \subseteq Sent', AfterAnswer' => AfterAnswer \/ UnitSet \subseteq Sent',
         verdict' = "succeeded" => step' = "returned"
  PROVE  DoneInv'
<1> USE DEF DoneInv
<1>1. /\ N' = N /\ UnitSet' = UnitSet
      /\ \A i : Large(i)' = Large(i) /\ Messages(i)' = Messages(i)
  BY SameCursor
<1>2. StoredArrived' BY <1>1 DEF StoredArrived
<1>3. PastIsDone' BY <1>1 DEF PastIsDone
<1> QED BY <1>2, <1>3

\* The cursor goes on past items that are done, or were counted as failed.
LEMMA DoneGoesOn ==
  ASSUME DoneInv, DeliveryInv', first <= N, GoOn, verdict = "running", stored' = stored,
         failed \subseteq failed', Sent \subseteq Sent',
         \A i \in first..last : i \in failed' \/ Messages(i) \subseteq stored
  PROVE  DoneInv'
<1> USE DEF DoneInv
<1>1. /\ N' = N /\ first' = last + 1 /\ last' = first' /\ verdict' = verdict
      /\ step' \in {"choose", "summary", "returned"}
      /\ \A i : Large(i)' = Large(i) /\ Messages(i)' = Messages(i)
  BY GoOnFacts
<1>2. first \in 1..N /\ last \in first..N /\ N \in Nat
  BY CursorFacts
<1>3. StoredArrived' BY <1>1 DEF StoredArrived, AfterAnswer
<1>4. ASSUME NEW i \in 1..N, i < first' PROVE i \in failed' \/ Messages(i) \subseteq stored
  <2>1. i < first \/ i \in first..last BY <1>1, <1>2, <1>4
  <2> QED BY <2>1 DEF PastIsDone
<1>5. \A x \in first'..last' : last' = first' BY <1>1
<1>6. PastIsDone' BY <1>1, <1>4, <1>5 DEF PastIsDone
<1> QED BY <1>3, <1>6

\* The messages of the items under way, once all are stored.
LEMMA UnitCoversItems ==
  ASSUME DoneInv, first <= N, UnitSet \subseteq stored, Large(first) => Messages(first) \subseteq stored,
         NEW i \in first..last
  PROVE  Messages(i) \subseteq stored
<1> USE DEF DoneInv, DeliveryInv
<1>1. first \in 1..N /\ last \in first..N /\ N \in Nat
  BY PlanFacts, SMTT(30) DEF TypeOK, CursorOK
<1>2. CASE Large(first)
  <2>1. last = first BY <1>2 DEF CursorOK
  <2>2. i = first BY <1>1, <2>1
  <2> QED BY <1>2, <2>2
<1>3. CASE ~Large(first)
  <2>1. ~Large(i)
    <3>1. Large(i) => last = first BY DEF PastIsDone
    <3>2. last = first => i = first BY <1>1
    <3> QED BY <1>3, <3>1, <3>2
  <2>2. Messages(i) = {<<i, 1>>} BY <2>1 DEF Messages
  <2>3. /\ Len(Unit) = last - first + 1
        /\ \A n \in 1..Len(Unit) : Unit[n] = <<first + n - 1, 1>>
    BY <1>3, UnitFacts
  <2>4. i - first + 1 \in 1..Len(Unit) /\ first + (i - first + 1) - 1 = i
    BY <1>1, <2>3
  <2>5. <<i, 1>> \in UnitSet
    BY <2>3, <2>4 DEF UnitSet
  <2> QED BY <2>2, <2>5
<1> QED BY <1>2, <1>3

\* A call under way that lands adds its messages to the chat.
LEMMA LandedAll ==
  ASSUME DeliveryInv, verdict = "running", Calling, Lands
  PROVE  Sent' = Sent \union UnitSet
<1>1. first <= N /\ BeforeAnswer
  BY PlanFacts, SMTT(30) DEF DeliveryInv, CursorOK, Calling, BeforeAnswer, TypeOK
<1> QED BY <1>1, LandingFacts DEF Sent

\* A call that raises: the run ends, or a collection counts its item and goes on.
LEMMA DoneAfterError ==
  ASSUME DoneInv, DeliveryInv', verdict = "running", first <= N, DeliveryErrorRaised,
         stored' = stored, Sent \subseteq Sent'
  PROVE  DoneInv'
<1>1. CASE plan.route = "collection"
  <2>1. failed' = failed \union {first} /\ GoOn BY <1>1 DEF DeliveryErrorRaised
  <2>2. last = first /\ first \in 1..N BY <1>1, PlanFacts DEF DoneInv, DeliveryInv, CursorOK, TypeOK
  <2>3. \A i \in first..last : i \in failed' BY <2>1, <2>2
  <2> QED BY <2>1, <2>3, DoneGoesOn
<1>2. CASE plan.route # "collection"
  <2>1. failed' = failed /\ EndAs("uncertain") BY <1>2 DEF DeliveryErrorRaised
  <2>2. stored' \subseteq Sent' BY DEF DoneInv, StoredArrived
  <2> QED BY <2>1, <2>2, DoneStays DEF EndAs, cursorVars, AfterAnswer
<1> QED BY <1>1, <1>2

\* One case per action; the steps that only end the run, or only move it, share one.
LEMMA StepKeepsDone == DoneInv /\ [Next]_vars => DoneInv'
<1> SUFFICES ASSUME DoneInv, [Next]_vars PROVE DoneInv'
  OBVIOUS
<1>1. DeliveryInv' BY StepKeepsDeliveryInv DEF DoneInv
<1>2. N \in Nat /\ first \in 1..(N + 1) /\ (step \notin {"summary", "returned"} => first <= N)
  BY PlanFacts, SMTT(30) DEF DoneInv, DeliveryInv, TypeOK, CursorOK
<1>3. stored \subseteq Sent /\ (verdict = "succeeded" => step = "returned")
  BY DEF DoneInv, StoredArrived, PastIsDone
<1>4. CASE PlanRefused \/ ItemTooLarge \/ PackFails \/ AlbumRefusedLate \/ LinkFails
           \/ ReceiptsMiscounted \/ Complete \/ CompletionFails \/ SeeCancel
  <2>1. /\ UNCHANGED <<plan, first, last, piece, step, chat, stored, failed>>
        /\ verdict' = "succeeded" => step = "returned"
    BY <1>4 DEF PlanRefused, ItemTooLarge, PackFails, AlbumRefusedLate, LinkFails, At,
       ReceiptsMiscounted, Complete, CompletionFails, SeeCancel, EndAs, resultVars, cursorVars
  <2>2. Sent' = Sent BY <2>1 DEF Sent
  <2> QED BY <1>1, <1>3, <2>1, <2>2, DoneStays DEF AfterAnswer
<1>5. CASE Interrupted \/ AnswerUndecoded
  <2>1. /\ UNCHANGED <<plan, first, last, piece, step, stored, failed>> /\ verdict' # "succeeded"
        /\ verdict = "running" /\ (UNCHANGED chat \/ (Calling /\ Lands))
    BY <1>5 DEF Interrupted, AnswerUndecoded, EndAs, cursorVars
  <2>2. Sent \subseteq Sent'
    <3>1. CASE UNCHANGED chat BY <3>1 DEF Sent
    <3>2. CASE Calling /\ Lands BY <2>1, <3>2, LandedAll DEF DoneInv
    <3> QED BY <2>1, <3>1, <3>2
  <2> QED BY <1>1, <1>3, <2>1, <2>2, DoneStays DEF AfterAnswer
<1>6. CASE ChooseFile \/ Pack \/ FileRefused \/ LinkSent \/ Summarize
  <2>1. UNCHANGED <<plan, first, last, piece, chat, stored, failed>>
    BY <1>6 DEF ChooseFile, Pack, FileRefused, LinkSent, Summarize, resultVars, cursorVars
  <2>2. /\ AfterAnswer' => AfterAnswer
        /\ verdict' = "succeeded" => step' = "returned"
    BY <1>3, <1>6 DEF ChooseFile, Pack, FileRefused, LinkSent, Summarize, AfterAnswer, At
  <2>3. Sent' = Sent BY <2>1 DEF Sent
  <2> QED BY <1>1, <1>3, <2>1, <2>2, <2>3, DoneStays
<1>7. CASE CallAnswered
  <2>1. /\ UNCHANGED <<plan, first, last, piece, stored, failed, verdict>> /\ verdict = "running"
        /\ Calling /\ Lands
    BY <1>7 DEF CallAnswered, cursorVars
  <2>2. Sent' = Sent \union UnitSet BY <2>1, LandedAll DEF DoneInv
  <2> QED BY <1>1, <1>3, <2>1, <2>2, DoneStays
<1>8. CASE CallUnanswered
  <2>1. /\ stored' = stored /\ verdict = "running" /\ Calling /\ DeliveryErrorRaised
        /\ Lands \/ UNCHANGED chat
    BY <1>8 DEF CallUnanswered
  <2>2. Sent \subseteq Sent'
    <3>1. CASE UNCHANGED chat BY <3>1 DEF Sent
    <3>2. CASE Lands BY <2>1, <3>2, LandedAll DEF DoneInv
    <3> QED BY <2>1, <3>1, <3>2
  <2> QED BY <1>1, <1>2, <2>1, <2>2, DoneAfterError DEF Calling
<1>9. CASE DocumentRefused \/ StoreFails \/ GuideFails
  <2>1. /\ stored' = stored /\ chat' = chat /\ verdict = "running" /\ DeliveryErrorRaised
        /\ step \notin {"summary", "returned"}
    BY <1>9 DEF DocumentRefused, StoreFails, GuideFails, At
  <2>2. Sent' = Sent BY <2>1 DEF Sent
  <2> QED BY <1>1, <1>2, <2>1, <2>2, DoneAfterError
<1>10. CASE StoreReceipt
  <2>1. /\ UNCHANGED <<plan, first, last, piece, chat, failed, verdict>> /\ verdict = "running"
        /\ step = "store" /\ stored' = stored \union {OldestUnstored}
    BY <1>10 DEF StoreReceipt, At
  <2>2. Sent' = Sent BY <2>1 DEF Sent
  <2>3. OldestUnstored \in UnitSet
    <3>1. kept \in Nat /\ kept < Len(Unit) /\ Len(Unit) \in Nat
      BY <1>2, <2>1, UnitFacts DEF DoneInv, DeliveryInv, TypeOK, KeptIsStored
    <3>2. kept + 1 \in 1..Len(Unit) BY <3>1
    <3> QED BY <3>2 DEF OldestUnstored, UnitSet
  <2>4. UnitSet \subseteq Sent BY <2>1 DEF DoneInv, StoredArrived, AfterAnswer
  <2>5. AfterAnswer BY <2>1 DEF AfterAnswer
  <2> QED BY <1>1, <1>3, <2>1, <2>2, <2>3, <2>4, <2>5, DoneStays
<1>11. CASE ChooseAlbum
  <2>1. /\ Grouped(first) /\ last' = GroupEnd(first) /\ step' = "album" /\ step = "choose"
        /\ UNCHANGED <<plan, first, piece, chat, stored, failed, verdict>>
    BY <1>11 DEF ChooseAlbum, resultVars, At
  <2>2. /\ N' = N /\ Sent' = Sent
        /\ \A i : Large(i)' = Large(i) /\ Messages(i)' = Messages(i)
    BY <2>1 DEF N, Sent, Large, Messages
  <2>3. first \in 1..N /\ GroupEnd(first) \in first..N
    BY <1>2, <2>1, GroupEndInPlan DEF GroupEnd, DoneInv, DeliveryInv
  <2>4. \A x \in first..GroupEnd(first) : ~Large(x)
    BY <1>2, <2>1, <2>3 DEF Grouped, GroupEnd
  <2>5. StoredArrived' BY <1>3, <2>1, <2>2 DEF StoredArrived, AfterAnswer
  <2>6. PastIsDone' BY <1>3, <2>1, <2>2, <2>4 DEF PastIsDone, DoneInv
  <2> QED BY <1>1, <2>5, <2>6 DEF DoneInv
<1>12. CASE AlbumRefused
  <2>1. /\ step' = "choose" /\ last' = first' /\ first' \in {1, first}
        /\ UNCHANGED <<plan, chat, stored, failed, verdict>> /\ verdict = "running"
    BY <1>12 DEF AlbumRefused, StartOver, resultVars, At
  <2>2. /\ N' = N /\ Sent' = Sent
        /\ \A i : Large(i)' = Large(i) /\ Messages(i)' = Messages(i)
    BY <2>1 DEF N, Sent, Large, Messages
  <2>3. first' <= first BY <1>2, <2>1
  <2>4. StoredArrived' BY <1>3, <2>1, <2>2 DEF StoredArrived, AfterAnswer
  <2>5. \A i \in 1..N : i < first' => i < first BY <1>2, <2>1, <2>3
  <2>6. PastIsDone' BY <1>3, <2>1, <2>2, <2>5 DEF PastIsDone, DoneInv
  <2> QED BY <1>1, <2>4, <2>6 DEF DoneInv
<1>13. CASE DeletePart
  <2>1. /\ UNCHANGED <<plan, first, last, chat, stored, failed, verdict>> /\ verdict = "running"
        /\ step = "delete" /\ (step' = "send" \/ (step' = "guide" /\ piece' = piece))
    BY <1>13 DEF DeletePart, At
  <2>2. /\ N' = N /\ Sent' = Sent
        /\ \A i : Large(i)' = Large(i) /\ Messages(i)' = Messages(i)
    BY <2>1 DEF N, Sent, Large, Messages
  <2>3. piece' = piece => UnitSet' = UnitSet BY <2>1, SameCursor
  <2>4. UnitSet \subseteq Sent BY <2>1 DEF DoneInv, StoredArrived, AfterAnswer
  <2>5. StoredArrived' BY <1>3, <2>1, <2>2, <2>3, <2>4 DEF StoredArrived, AfterAnswer
  <2>6. PastIsDone' BY <2>1, <2>2 DEF PastIsDone, DoneInv
  <2> QED BY <1>1, <2>5, <2>6 DEF DoneInv
<1>14. CASE DeleteFiles \/ GuideSent
  <2>1. /\ GoOn /\ verdict = "running" /\ first <= N /\ UNCHANGED <<chat, stored, failed>>
    BY <1>2, <1>14 DEF DeleteFiles, GuideSent, At
  <2>2. Sent' = Sent BY <2>1 DEF Sent
  <2>3. UnitSet \subseteq stored /\ (Large(first) => Messages(first) \subseteq stored)
    <3>1. CASE DeleteFiles
      <4>1. kept = Len(Unit) /\ ~Large(first)
        BY <3>1 DEF DeleteFiles, At, DoneInv, DeliveryInv, KeptIsStored
      <4> QED BY <2>1, <4>1, UnitIsStored DEF DoneInv
    <3>2. CASE GuideSent
      <4>1. Messages(first) \subseteq stored /\ Large(first)
        BY <3>2 DEF GuideSent, At, DoneInv, DeliveryInv, KeptIsStored, CursorOK
      <4>2. UnitSet = {<<first, piece>>} /\ piece \in 1..Pieces
        BY <2>1, <4>1, UnitFacts DEF DoneInv, DeliveryInv, TypeOK
      <4>3. <<first, piece>> \in Messages(first) BY <4>1, <4>2 DEF Messages
      <4> QED BY <4>1, <4>2, <4>3
    <3> QED BY <1>14, <3>1, <3>2
  <2>4. \A i \in first..last : Messages(i) \subseteq stored
    BY <2>1, <2>3, UnitCoversItems
  <2> QED BY <1>1, <2>1, <2>2, <2>4, DoneGoesOn
<1>15. CASE UNCHANGED vars
  <2>1. UNCHANGED <<plan, first, last, piece, step, chat, stored, failed, verdict>>
    BY <1>15 DEF vars, resultVars, cursorVars
  <2>2. Sent' = Sent BY <2>1 DEF Sent
  <2> QED BY <1>1, <1>3, <2>1, <2>2, DoneStays DEF AfterAnswer
<1> QED BY <1>4, <1>5, <1>6, <1>7, <1>8, <1>9, <1>10, <1>11, <1>12, <1>13, <1>14, <1>15
        DEF Next, Choose, Call, Settle, End

\* A delivery starts with no item behind the cursor.
LEMMA InitDone == Init => DoneInv
<1> SUFFICES ASSUME Init PROVE DoneInv
  OBVIOUS
<1>1. DeliveryInv BY InitDeliveryInv
<1>2. /\ stored = {} /\ step = "choose" /\ first = 1 /\ last = 1 /\ verdict = "running"
  BY DEF Init
<1>3. N \in Nat BY <1>1, PlanFacts DEF DeliveryInv
<1>4. StoredArrived BY <1>2 DEF StoredArrived, AfterAnswer
<1>5. PastIsDone BY <1>2, <1>3 DEF PastIsDone
<1> QED BY <1>1, <1>4, <1>5 DEF DoneInv

\* What lies behind the cursor is done, in every reachable state of a run (Delivery).
THEOREM DoneInvariant == Spec => []DoneInv
BY InitDone, StepKeepsDone, PTL DEF Spec

\* A run is called succeeded only when every item it did not count as failed has arrived whole and
\* has its receipts, over albums that were refused, parts and items that failed.
THEOREM SuccessIsComplete == Spec => []CompletedIsComplete
<1>1. DoneInv => CompletedIsComplete
  <2> SUFFICES ASSUME DoneInv, verdict = "succeeded", NEW i \in 1..N
               PROVE  i \in failed \/ Messages(i) \subseteq (Sent \intersect stored)
    BY DEF CompletedIsComplete
  <2>1. first = N + 1 /\ N \in Nat
    BY PlanFacts, SMTT(30) DEF DoneInv, PastIsDone, DeliveryInv, CursorOK
  <2>2. i < first BY <2>1
  <2>3. i \in failed \/ Messages(i) \subseteq stored BY <2>2 DEF DoneInv, PastIsDone
  <2> QED BY <2>3 DEF DoneInv, StoredArrived
<1> QED BY <1>1, DoneInvariant, PTL

\* The next receipt of the call under way takes an ordinal above all others.
LEMMA NextOrdinal ==
  ASSUME DoneInv, Numbered, step = "store", first <= N
  PROVE  /\ kept \in Nat /\ Ordinal(OldestUnstored) \in Int
         /\ Ordinal(OldestUnstored) = HighWater + 1
<1> USE DEF DoneInv, DeliveryInv
<1>1. /\ first \in 1..N /\ last \in first..N /\ N \in Nat /\ kept \in Nat /\ piece \in 1..Pieces
      /\ receipts \in Nat /\ Pieces \in Nat /\ plan.route \in Routes
  BY CursorFacts, PlanFacts DEF TypeOK
<1>2. kept < Len(Unit) /\ Len(Unit) \in 1..N BY UnitFacts DEF KeptIsStored
<1>3. kept + 1 \in 1..Len(Unit) /\ OldestUnstored = Unit[kept + 1]
  BY <1>1, <1>2 DEF OldestUnstored
<1>4. CASE Large(first)
  <2>0. Unit = << <<first, piece>> >> /\ Len(Unit) = 1 BY <1>4, UnitFacts
  <2>1. kept = 0 /\ OldestUnstored = <<first, piece>>
    <3>1. kept = 0 BY <1>1, <1>2, <2>0
    <3> QED BY <1>3, <2>0, <3>1
  <2>2. ~NumberedByItem BY <1>1, <1>4 DEF Numbered
  <2>3. plan.route \in {"single", "artifacts"} BY <1>1, <2>2 DEF NumberedByItem, Routes
  <2>4. plan.route = "single" => Ordinal(OldestUnstored) = piece BY <2>1 DEF Ordinal
  <2>5. plan.route = "artifacts" => Ordinal(OldestUnstored) = receipts + (first - first) + piece
    BY <2>1 DEF Ordinal
  <2> QED BY <1>1, <2>1, <2>3, <2>4, <2>5 DEF HighWater
<1>5. CASE ~Large(first)
  <2>1. OldestUnstored = <<first + (kept + 1) - 1, 1>> /\ piece = 1
    BY <1>1, <1>3, <1>5, UnitFacts DEF CursorOK
  <2>2. plan.route = "single" => kept = 0
    <3>1. plan.route = "single" => N = 1 BY PlansAssumption DEF TypeOK, N
    <3> QED BY <1>1, <1>2, <3>1
  <2>3. CASE plan.route = "single" BY <1>1, <2>1, <2>2, <2>3 DEF Ordinal, HighWater
  <2>4. CASE plan.route = "artifacts"
    <3>1. Ordinal(OldestUnstored) = receipts + ((first + (kept + 1) - 1) - first) + 1
      BY <2>1, <2>4 DEF Ordinal
    <3>2. HighWater = receipts + (piece - 1) + kept BY <2>4 DEF HighWater
    <3> QED BY <1>1, <2>1, <3>1, <3>2
  <2>5. CASE plan.route = "instagram" BY <1>1, <2>1, <2>5 DEF Ordinal, HighWater
  <2>6. CASE plan.route = "collection"
    <3>1. Ordinal(OldestUnstored) = ((first + (kept + 1) - 1) - 1) + 1
      BY <2>1, <2>6 DEF Ordinal
    <3>2. HighWater = (first - 1) + kept BY <2>6 DEF HighWater
    <3> QED BY <1>1, <3>1, <3>2
  <2> QED BY <1>1, <2>3, <2>4, <2>5, <2>6 DEF Routes
<1> QED BY <1>1, <1>4, <1>5

\* While no receipt is stored and the water does not fall, the ordinals stay apart.
LEMMA RowsStay ==
  ASSUME RowsInv, UNCHANGED <<plan, rows, stored>>,
         first' <= N => first <= N /\ HighWater \in Int /\ HighWater' \in Int /\ HighWater <= HighWater'
  PROVE  RowsInv'
<1>1. N' = N /\ (Numbered' <=> Numbered)
  BY DEF N, Numbered, NumberedByItem, Large
<1>2. \A o \in Int : first' <= N /\ o <= HighWater => o <= HighWater' OBVIOUS
<1>3. EveryReceiptIsKept => EveryReceiptIsKept' BY DEF EveryReceiptIsKept
<1> QED BY <1>1, <1>2, <1>3 DEF RowsInv

\* The mark is a number.
LEMMA HighWaterIsInt ==
  ASSUME TypeOK
  PROVE  HighWater \in Int
<1>1. first \in Int /\ kept \in Int /\ piece \in Int /\ receipts \in Int
  BY PlanFacts, SMTT(30) DEF TypeOK
<1> QED BY <1>1 DEF HighWater

\* When the cursor goes on, the mark does not fall: a file counts at least what was kept of it.
LEMMA WaterAfterGoingOn ==
  ASSUME DoneInv, DeliveryInv', first <= N, GoOn,
         plan.route = "artifacts" => \/ receipts' = receipts + Len(Unit) /\ ~Large(first)
                                     \/ receipts' = receipts + Pieces /\ Large(first),
         first' <= N
  PROVE  HighWater <= HighWater'
<1> USE DEF DoneInv
<1>1. /\ first \in 1..N /\ last \in first..N /\ N \in Nat /\ kept \in Nat /\ piece \in 1..Pieces
      /\ receipts \in Nat /\ Pieces \in Nat /\ plan.route \in Routes
  BY CursorFacts, PlanFacts DEF DeliveryInv, TypeOK
<1>2. /\ kept <= Len(Unit) /\ Len(Unit) \in 1..N /\ (Large(first) => Len(Unit) = 1)
      /\ (~Large(first) => Len(Unit) = last - first + 1 /\ piece = 1)
  BY UnitFacts DEF DeliveryInv, KeptIsStored, CursorOK
<1>3. /\ plan' = plan /\ first' = last + 1 /\ kept' = 0 /\ piece' = 1
  BY GoOnFacts
<1>4. CASE plan.route = "single"
  <2>1. N = 1 BY <1>4, PlansAssumption DEF DeliveryInv, TypeOK, N
  <2> QED BY <1>1, <1>3, <2>1
<1>5. CASE plan.route = "artifacts"
  <2>1. HighWater = receipts + (piece - 1) + kept /\ HighWater' = receipts' + (piece' - 1) + kept'
    BY <1>3, <1>5 DEF HighWater
  <2>2. CASE receipts' = receipts + Len(Unit) /\ ~Large(first)
    BY <1>1, <1>2, <1>3, <2>1, <2>2
  <2>3. CASE receipts' = receipts + Pieces /\ Large(first)
    <3>1. kept <= 1 BY <1>1, <1>2, <2>3
    <3> QED BY <1>1, <1>3, <2>1, <2>3, <3>1
  <2> QED BY <1>5, <2>2, <2>3
<1>6. CASE plan.route \in {"instagram", "collection"}
  <2>1. HighWater = (first - 1) + kept /\ HighWater' = (first' - 1) + kept'
    BY <1>3, <1>6 DEF HighWater
  <2>2. kept <= last - first + 1
    <3>1. CASE Large(first)
      <4>1. Len(Unit) = 1 /\ kept <= 1 BY <1>1, <1>2, <3>1
      <4> QED BY <1>1, <4>1
    <3>2. CASE ~Large(first) BY <1>1, <1>2, <3>2
    <3> QED BY <3>1, <3>2
  <2> QED BY <1>1, <1>3, <2>1, <2>2
<1> QED BY <1>1, <1>4, <1>5, <1>6 DEF Routes

\* One case per action that moves the cursor or stores a receipt.
LEMMA StepKeepsRows == DoneInv /\ DoneInv' /\ RowsInv /\ [Next]_vars => RowsInv'
<1> SUFFICES ASSUME DoneInv, DoneInv', RowsInv, [Next]_vars PROVE RowsInv'
  OBVIOUS
<1>1. TypeOK /\ TypeOK' /\ DeliveryInv /\ DeliveryInv' BY DEF DoneInv, DeliveryInv
<1>2. HighWater \in Int /\ HighWater' \in Int
  <2>1. (TypeOK => HighWater \in Int)' BY HighWaterIsInt, PTL
  <2> QED BY <1>1, <2>1, HighWaterIsInt
<1>3. N \in Nat /\ first \in 1..(N + 1) /\ (step \notin {"summary", "returned"} => first <= N)
  BY <1>1, PlanFacts, SMTT(30) DEF DeliveryInv, TypeOK, CursorOK
<1>4. ASSUME UNCHANGED <<plan, first, piece, kept, receipts, rows, stored>> PROVE RowsInv'
  <2>1. N' = N /\ HighWater' = HighWater BY <1>4 DEF N, HighWater
  <2> QED BY <1>2, <1>4, <2>1, RowsStay
<1>5. ASSUME first <= N, GoOn, UNCHANGED <<rows, stored>>,
             plan.route = "artifacts" => \/ receipts' = receipts + Len(Unit) /\ ~Large(first)
                                         \/ receipts' = receipts + Pieces /\ Large(first)
      PROVE  RowsInv'
  <2>1. plan' = plan BY <1>5 DEF GoOn
  <2>2. first' <= N => HighWater <= HighWater' BY <1>1, <1>5, WaterAfterGoingOn
  <2> QED BY <1>2, <1>5, <2>1, <2>2, RowsStay
<1>6. ASSUME first <= N, DeliveryErrorRaised, UNCHANGED <<rows, stored>> PROVE RowsInv'
  <2>1. CASE plan.route = "collection" BY <1>5, <1>6, <2>1 DEF DeliveryErrorRaised
  <2>2. CASE plan.route # "collection"
    BY <1>4, <1>6, <2>2 DEF DeliveryErrorRaised, EndAs, cursorVars
  <2> QED BY <2>1, <2>2
<1>7. CASE \/ PlanRefused \/ ItemTooLarge \/ PackFails \/ AlbumRefusedLate \/ LinkFails
          \/ ReceiptsMiscounted \/ Complete \/ CompletionFails \/ SeeCancel \/ Interrupted
          \/ AnswerUndecoded \/ ChooseFile \/ Pack \/ FileRefused \/ LinkSent \/ Summarize \/ CallAnswered
          \/ ChooseAlbum \/ UNCHANGED vars
  <2>1. UNCHANGED <<plan, first, piece, kept, receipts, rows, stored>>
    BY <1>7 DEF PlanRefused, ItemTooLarge, PackFails, AlbumRefusedLate, LinkFails,
       ReceiptsMiscounted, Complete, CompletionFails, SeeCancel, Interrupted, AnswerUndecoded,
       EndAs, ChooseFile,
       Pack, FileRefused, LinkSent, Summarize, CallAnswered, ChooseAlbum, vars, resultVars,
       cursorVars
  <2> QED BY <1>4, <2>1
<1>8. CASE CallUnanswered \/ DocumentRefused \/ StoreFails \/ GuideFails
  <2>1. /\ DeliveryErrorRaised /\ UNCHANGED <<rows, stored>>
        /\ step \notin {"summary", "returned"}
    BY <1>8 DEF CallUnanswered, Calling, DocumentRefused, StoreFails, GuideFails, At
  <2> QED BY <1>3, <1>6, <2>1
<1>9. CASE StoreReceipt
  <2> DEFINE m == OldestUnstored
             o == Ordinal(m)
  <2>1. /\ UNCHANGED <<plan, first, piece, receipts>> /\ step = "store" /\ first <= N
        /\ rows' = [q \in DOMAIN rows \union {o} |-> IF q = o THEN m ELSE rows[q]]
        /\ stored' = stored \union {m} /\ kept' = kept + 1
    BY <1>3, <1>9 DEF StoreReceipt, At
  <2>2. N' = N /\ (Numbered' <=> Numbered) BY <2>1 DEF N, Numbered, NumberedByItem, Large
  <2> SUFFICES ASSUME Numbered
               PROVE  (\A q \in DOMAIN rows' : q \in Int /\ q <= HighWater') /\ EveryReceiptIsKept'
    BY <2>2 DEF RowsInv
  <2>3. o = HighWater + 1 /\ o \in Int /\ kept \in Nat BY <2>1, NextOrdinal
  <2>4. HighWater' = HighWater + 1
    <3>1. first \in Int /\ piece \in Int /\ receipts \in Int
      BY <1>1, PlanFacts DEF TypeOK
    <3> QED BY <2>1, <2>3, <3>1 DEF HighWater
  <2>5. \A q \in DOMAIN rows : q \in Int /\ q <= HighWater BY <2>1 DEF RowsInv
  <2> HIDE DEF m, o
  <2>6. o \notin DOMAIN rows BY <1>2, <2>3, <2>5
  <2>7. DOMAIN rows' = DOMAIN rows \union {o} /\ rows'[o] = m
        /\ \A q \in DOMAIN rows : rows'[q] = rows[q]
    BY <2>1, <2>6
  <2>8. \A q \in DOMAIN rows' : q \in Int /\ q <= HighWater'
    BY <1>2, <2>3, <2>4, <2>5, <2>7
  <2>9. \A n \in stored' : \E q \in DOMAIN rows' : rows'[q] = n
    BY <2>1, <2>7 DEF RowsInv, EveryReceiptIsKept
  <2> QED BY <2>8, <2>9 DEF EveryReceiptIsKept
<1>10. CASE AlbumRefused
  <2>1. /\ UNCHANGED <<plan, piece, kept, rows, stored>> /\ step = "album" /\ verdict = "running"
        /\ plan.route # "artifacts" => UNCHANGED <<first, receipts>>
        /\ plan.route = "artifacts" => first = 1
    BY <1>10 DEF AlbumRefused, StartOver, MayGoSingly, resultVars, At
  <2>2. CASE plan.route # "artifacts" BY <1>4, <2>1, <2>2
  <2>3. CASE plan.route = "artifacts"
    <3>1. first = 1 /\ piece = 1 BY <1>1, <1>3, <2>1, <2>3 DEF DeliveryInv, CursorOK
    <3>2. Sent = {}
      <4> SUFFICES ASSUME NEW m \in Sent PROVE FALSE OBVIOUS
      <4>1. Before(m, <<1, 1>>)
        BY <1>1, <2>1, <3>1 DEF DeliveryInv, SentIsPast, AfterAnswer
      <4>2. m \in (1..N) \X (1..Pieces)
        <5>1. chat \in Seq((1..N) \X (1..Pieces)) BY <1>1 DEF TypeOK
        <5>2. PICK n \in 1..Len(chat) : m = chat[n] BY DEF Sent
        <5> QED BY <5>1, <5>2
      <4>3. Pieces \in Nat BY <1>1, PlanFacts
      <4> QED BY <1>3, <4>1, <4>2, <4>3 DEF Before
    <3>3. stored = {} BY <3>2 DEF DoneInv, StoredArrived
    <3>4. DOMAIN rows = {} BY <1>1, <3>3 DEF TypeOK
    <3>5. N' = N BY <2>1 DEF N
    <3> QED BY <2>1, <3>3, <3>4 DEF RowsInv, EveryReceiptIsKept
  <2> QED BY <2>2, <2>3
<1>11. CASE DeletePart
  <2>1. /\ UNCHANGED <<plan, first, receipts, rows, stored>> /\ step = "delete" /\ Large(first)
        /\ (piece' = piece + 1 /\ kept' = 0) \/ (piece' = piece /\ kept' = kept)
    BY <1>11 DEF DeletePart, At
  <2>2. CASE piece' = piece /\ kept' = kept BY <1>4, <2>1, <2>2
  <2>3. CASE piece' = piece + 1 /\ kept' = 0
    <3>1. kept = Len(Unit) /\ Len(Unit) = 1
      BY <1>1, <1>3, <2>1, UnitFacts DEF DeliveryInv, KeptIsStored
    <3>2. first \in Int /\ piece \in Int /\ receipts \in Int
      BY <1>1, PlanFacts DEF TypeOK
    <3>3. plan.route \in {"single", "artifacts"} => HighWater' = HighWater
      BY <2>1, <2>3, <3>1, <3>2 DEF HighWater
    <3>4. CASE plan.route \in {"single", "artifacts"}
      <4>1. N' = N BY <2>1 DEF N
      <4> QED BY <1>2, <2>1, <3>3, <3>4, <4>1, RowsStay
    <3>5. CASE plan.route \notin {"single", "artifacts"}
      <4>1. NumberedByItem /\ first \in 1..N
        BY <1>1, <1>3, <2>1, <3>5, PlanFacts DEF NumberedByItem, Routes
      <4>2. ~Numbered BY <2>1, <4>1 DEF Numbered
      <4>3. ~Numbered' BY <2>1, <4>2 DEF Numbered, NumberedByItem, N, Large
      <4> QED BY <4>3 DEF RowsInv
    <3> QED BY <3>4, <3>5
  <2> QED BY <2>1, <2>2, <2>3
<1>12. CASE DeleteFiles \/ GuideSent
  <2>1. /\ GoOn /\ first <= N /\ UNCHANGED <<rows, stored>>
        /\ \/ receipts' = receipts + Len(Unit) /\ ~Large(first)
           \/ receipts' = receipts + Pieces /\ Large(first)
    BY <1>1, <1>3, <1>12 DEF DeleteFiles, GuideSent, At, DeliveryInv, CursorOK
  <2> QED BY <1>5, <2>1
<1> QED BY <1>7, <1>8, <1>9, <1>10, <1>11, <1>12 DEF Next, Choose, Call, Settle, End

\* A receipt stays in delivery_items, whatever the plan, where its numbering does not collide.
THEOREM ReceiptsStay == Spec => []ReceiptsAreKept
<1>1. Init => RowsInv
  <2> SUFFICES ASSUME Init PROVE RowsInv OBVIOUS
  <2>1. stored = {} BY DEF Init
  <2>2. TypeOK BY InitDeliveryInv DEF DeliveryInv
  <2>3. DOMAIN rows = {} BY <2>1, <2>2 DEF TypeOK
  <2> QED BY <2>1, <2>3 DEF RowsInv, EveryReceiptIsKept
<1>2. RowsInv => ReceiptsAreKept BY DEF RowsInv, ReceiptsAreKept, Numbered
<1>3. Spec => []RowsInv BY <1>1, DoneInvariant, StepKeepsRows, PTL DEF Spec
<1> QED BY <1>2, <1>3, PTL

===============================================================================
