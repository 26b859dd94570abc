--------------------------- MODULE RecoveryProofs ---------------------------
(***************************************************************************)
(* Proofs about RecoveryBatches: however the passes of the bot and of the  *)
(* worker overlap, die and start again, a job is recovered MaxRecovery     *)
(* times and at most once more.                                            *)
(***************************************************************************)
EXTENDS RecoveryBatches, SequenceTheorems, FiniteSetTheorems, TLAPS

-----------------------------------------------------------------------------
(* The inductive invariant. *)

RowRecords == [status : {"failed", "queued", "retired"}, class : {"cookie", "app_fix", "none"},
               attempts : Nat, failedOn : Nat, triedOn : Nat]
Findings == [job : Job, attempts : Nat]
Batches == {"remediate", "maintain", "app_fix"}

\* No list holds an entry twice.
Distinct(js) == \A i, k \in DOMAIN js : js[i] = js[k] => i = k

\* A pass holds a list where it works one off, and requeues only in a batch of recovery,
\* whose jobs were below the limit when they were listed.
SoundPass(p) ==
  /\ p = [at |-> p.at, goal |-> p.goal, todo |-> p.todo, limit |-> p.limit,
          found |-> p.found, shown |-> p.shown]
  /\ p.found \in Seq(Findings)
  /\ \A i, k \in 1..Len(p.found) : p.found[i].job = p.found[k].job => i = k
  /\ p.at \in {"requeue", "enqueue", "probe"} => p.found # <<>>
  /\ p.at \in {"mark", "measure", "list", "requeue"} => p.goal # "reconcile"
  /\ p.at \in {"pending", "probe"} => p.goal = "reconcile"
  /\ p.goal # "reconcile" /\ p.at \in {"requeue", "enqueue"} =>
       \A i \in 1..Len(p.found) : p.found[i].attempts < MaxRecovery

\* The jobs a pass still means to requeue.
Awaited(p) ==
  {j \in Job : /\ p.goal # "reconcile"
               /\ \E i \in 1..Len(p.found) :
                    /\ p.found[i].job = j
                    /\ p.at = "requeue" \/ (p.at = "enqueue" /\ i # 1)}

RowsInv == rows \in [Job -> RowRecords] /\ version \in Nat
OrderInv == order \in Seq(Job) /\ Distinct(order)
PassesInv ==
  /\ pass = [x \in Process |-> pass[x]]
  /\ \A x \in Process : SoundPass(pass[x])

\* Each pass that still holds a job in its list may add one attempt to it.
OvershootInv ==
  \A j \in Job :
    /\ rows[j].attempts <= MaxRecovery + 1
    /\ \A x \in Process : j \in Awaited(pass[x]) => rows[j].attempts <= MaxRecovery
    /\ j \in Awaited(pass["bot"]) /\ j \in Awaited(pass["worker"]) => rows[j].attempts < MaxRecovery

RecoveryInv == RowsInv /\ OrderInv /\ PassesInv /\ OvershootInv

\* No job is recovered more often than the limit and one time more.
OvershootIsOne == \A j \in Job : rows[j].attempts <= MaxRecovery + 1


-----------------------------------------------------------------------------
(* Lists. *)

\* The places of a finite set are told apart by how many are not above them, and every
\* number of them is reached.
LEMMA PlacesAreRanked ==
  ASSUME NEW n \in Nat, NEW S \in SUBSET (1..n)
  PROVE  /\ Cardinality(S) \in Nat
         /\ \A m \in 1..Cardinality(S) : \E i \in S : Cardinality({k \in S : k <= i}) = m
<1> DEFINE Below(i) == {k \in S : k <= i}
           rank == [i \in S |-> Cardinality(Below(i))]
           c == Cardinality(S)
<1>0. \A k \in S : k \in Nat OBVIOUS
<1>1. IsFiniteSet(S) /\ c \in Nat
  <2>1. IsFiniteSet(1..n) BY FS_Interval
  <2>2. IsFiniteSet(S) BY <2>1, FS_Subset
  <2> QED BY <2>2, FS_CardinalityType
<1>2. ASSUME NEW i \in S
      PROVE  /\ IsFiniteSet(Below(i)) /\ Cardinality(Below(i)) \in Nat
             /\ Cardinality(Below(i)) \in 1..c
  <2>1. IsFiniteSet(Below(i)) /\ Cardinality(Below(i)) <= c BY <1>1, FS_Subset
  <2>2. Cardinality(Below(i)) \in Nat BY <2>1, FS_CardinalityType
  <2>3. i \in Below(i) OBVIOUS
  <2> HIDE DEF Below
  <2>4. Cardinality(Below(i)) # 0
    <3>1. Below(i) # {} BY <2>3
    <3> QED BY <2>1, <3>1, FS_EmptySet
  <2> QED BY <1>1, <2>1, <2>2, <2>4
<1>3. ASSUME NEW i \in S, NEW j \in S, i < j PROVE rank[i] # rank[j]
  <2>1. Below(i) \subseteq Below(j) /\ j \in Below(j) /\ j \notin Below(i)
    <3>1. \A k \in S : k \in Int /\ (k <= i => k <= j) BY <1>0, <1>3
    <3>2. i \in Int /\ j \in Int /\ j <= j /\ ~(j <= i) BY <1>0, <1>3
    <3> QED BY <3>1, <3>2
  <2>2. IsFiniteSet(Below(j)) BY <1>2
  <2>3. Cardinality(Below(i)) # Cardinality(Below(j))
    <3> HIDE DEF Below
    <3> QED BY <2>1, <2>2, FS_Subset
  <2> HIDE DEF Below
  <2> QED BY <2>3
<1>4. \A i, j \in S : rank[i] = rank[j] => i = j
  <2> SUFFICES ASSUME NEW i \in S, NEW j \in S, i # j PROVE rank[i] # rank[j] OBVIOUS
  <2>1. i < j \/ j < i OBVIOUS
  <2> HIDE DEF rank
  <2> QED BY <2>1, <1>3
<1>5. rank \in [S -> 1..c] BY <1>2
<1> HIDE DEF rank
<1>6. rank \in Injection(S, 1..c) BY <1>4, <1>5 DEF Injection, IsInjective
<1>7. IsFiniteSet(1..c) /\ Cardinality(1..c) = c BY <1>1, FS_Interval
<1>8. rank \in Surjection(S, 1..c) BY <1>1, <1>6, <1>7, FS_Injection
<1>9. \A m \in 1..c : \E i \in S : rank[i] = m BY <1>8 DEF Surjection
<1> USE DEF rank
<1> QED BY <1>1, <1>9

\* A query lists jobs of its places, none of them twice.
LEMMA QueryLists ==
  ASSUME OrderInv, NEW S \in SUBSET DOMAIN order
  PROVE  /\ JobsAt(S) \in Seq(Job)
         /\ Distinct(JobsAt(S))
         /\ \A n \in 1..Len(JobsAt(S)) : \E i \in S : JobsAt(S)[n] = order[i]
<1> DEFINE c == Cardinality(S)
           Rank(i) == Cardinality({k \in S : k <= i})
           At(m) == CHOOSE i \in S : Rank(i) = m
<1>1. Len(order) \in Nat /\ DOMAIN order = 1..Len(order) /\ \A i \in DOMAIN order : order[i] \in Job
  BY DEF OrderInv
<1>2. c \in Nat /\ \A m \in 1..c : \E i \in S : Rank(i) = m
  <2>1. S \in SUBSET (1..Len(order)) BY <1>1
  <2> QED BY <1>1, <2>1, PlacesAreRanked, ZenonT(30)
<1> HIDE DEF Rank
<1>3. \A m \in 1..c : At(m) \in S /\ Rank(At(m)) = m
  BY <1>2
<1>4. JobsAt(S) = [m \in 1..c |-> order[At(m)]]
  BY DEF JobsAt, Rank
<1> HIDE DEF At, c
<1>5. JobsAt(S) \in [1..c -> Job]
  BY <1>1, <1>3, <1>4
<1>6. JobsAt(S) \in Seq(Job) /\ Len(JobsAt(S)) = c /\ DOMAIN JobsAt(S) = 1..c
  BY <1>2, <1>5
<1>7. ASSUME NEW m \in 1..c, NEW n \in 1..c, order[At(m)] = order[At(n)] PROVE m = n
  <2>1. At(m) \in DOMAIN order /\ At(n) \in DOMAIN order BY <1>3
  <2>2. At(m) = At(n) BY <1>7, <2>1 DEF OrderInv, Distinct
  <2> QED BY <2>2, <1>3
<1>8. Distinct(JobsAt(S)) BY <1>4, <1>6, <1>7 DEF Distinct
<1> QED BY <1>3, <1>4, <1>6, <1>8

\* Without an entry the others keep their order.
LEMMA WithoutKeeps ==
  ASSUME NEW js \in Seq(Job), Distinct(js), NEW j
  PROVE  /\ Without(js, j) \in Seq(Job)
         /\ Distinct(Without(js, j))
         /\ \A i \in 1..Len(Without(js, j)) : Without(js, j)[i] # j
<1>1. CASE ~\E i \in DOMAIN js : js[i] = j
  BY <1>1 DEF Without
<1>2. CASE \E i \in DOMAIN js : js[i] = j
  <2>1. PICK p \in 1..Len(js) : js[p] = j /\ Without(js, j) = RemoveAt(js, p)
    <3>1. DOMAIN js = 1..Len(js) OBVIOUS
    <3> QED BY <1>2, <3>1, Zenon DEF Without
  <2>2. PICK r : r = RemoveAt(js, p) OBVIOUS
  <2>3. /\ r \in Seq(Job) /\ Len(r) = Len(js) - 1
        /\ \A i \in 1..(Len(js) - 1) : r[i] = IF i < p THEN js[i] ELSE js[i+1]
    <3>1. PICK a : a = SubSeq(js, 1, p-1) OBVIOUS
    <3>2. a \in Seq(Job) /\ Len(a) = p - 1 /\ \A i \in 1..(p-1) : a[i] = js[i]
      BY <3>1
    <3>3. PICK b : b = SubSeq(js, p+1, Len(js)) OBVIOUS
    <3>4. b \in Seq(Job) /\ Len(b) = Len(js) - p /\ \A i \in 1..(Len(js) - p) : b[i] = js[p+i]
      BY <3>3
    <3>5. r = a \o b BY <2>2, <3>1, <3>3 DEF RemoveAt
    <3>6. r \in Seq(Job) /\ Len(r) = Len(js) - 1 BY <3>2, <3>4, <3>5
    <3>7. ASSUME NEW i \in 1..(Len(js) - 1) PROVE r[i] = IF i < p THEN js[i] ELSE js[i+1]
      <4>1. CASE i < p
        <5>1. r[i] = a[i] BY <3>2, <3>4, <3>5, <4>1
        <5> QED BY <3>2, <4>1, <5>1
      <4>2. CASE ~(i < p)
        <5>1. r[i] = b[i - (p-1)] BY <3>2, <3>4, <3>5, <4>2
        <5>2. i - (p-1) \in 1..(Len(js) - p) /\ p + (i - (p-1)) = i + 1 BY <4>2
        <5> QED BY <3>4, <4>2, <5>1, <5>2
      <4> QED BY <4>1, <4>2
    <3> QED BY <3>6, <3>7
  <2>4. \A i, k \in 1..Len(js) : js[i] = js[k] => i = k BY DEF Distinct
  <2>5. DOMAIN r = 1..(Len(js) - 1) /\ Len(js) \in Nat BY <2>3
  <2>6. ASSUME NEW i \in 1..(Len(js) - 1), NEW k \in 1..(Len(js) - 1), r[i] = r[k] PROVE i = k
    BY <2>3, <2>4, <2>5, <2>6
  <2>7. ASSUME NEW i \in 1..(Len(js) - 1) PROVE r[i] # j
    <3>1. js[i] = j => i = p BY <2>1, <2>4, <2>5
    <3>2. js[i+1] = j => i + 1 = p BY <2>1, <2>4, <2>5
    <3>3. r[i] = IF i < p THEN js[i] ELSE js[i+1] BY <2>3
    <3> QED BY <2>5, <3>1, <3>2, <3>3
  <2> QED BY <2>1, <2>2, <2>3, <2>5, <2>6, <2>7 DEF Distinct
<1> QED BY <1>1, <1>2

\* A write of a row keeps the order a list of jobs.
LEMMA TouchKeeps ==
  ASSUME OrderInv, NEW j \in Job, order' = Append(Without(order, j), j) \/ order' = Without(order, j)
  PROVE  OrderInv'
<1>1. PICK w : w = Without(order, j) OBVIOUS
<1>2. /\ w \in Seq(Job) /\ Distinct(w)
      /\ \A i \in 1..Len(w) : w[i] # j
  BY <1>1, WithoutKeeps DEF OrderInv
<1>3. PICK a : a = Append(w, j) OBVIOUS
<1>4. /\ a \in Seq(Job) /\ Len(a) = Len(w) + 1 /\ Len(w) \in Nat
      /\ \A i \in 1..Len(w) : a[i] = w[i]
      /\ a[Len(w) + 1] = j
      /\ DOMAIN a = 1..(Len(w) + 1) /\ DOMAIN w = 1..Len(w)
  BY <1>2, <1>3
<1>5. ASSUME NEW i \in DOMAIN a, NEW k \in DOMAIN a, a[i] = a[k] PROVE i = k
  <2>1. CASE i = Len(w) + 1
    <3>1. a[k] = j BY <1>4, <1>5, <2>1
    <3>2. ~(k \in 1..Len(w)) BY <1>2, <1>4, <3>1
    <3> QED BY <1>4, <2>1, <3>2
  <2>2. CASE k = Len(w) + 1
    <3>1. a[i] = j BY <1>4, <1>5, <2>2
    <3>2. ~(i \in 1..Len(w)) BY <1>2, <1>4, <3>1
    <3> QED BY <1>4, <2>2, <3>2
  <2>3. CASE i # Len(w) + 1 /\ k # Len(w) + 1
    <3>1. i \in 1..Len(w) /\ k \in 1..Len(w) BY <1>4, <2>3
    <3>2. w[i] = w[k] BY <1>4, <1>5, <3>1
    <3> QED BY <1>2, <1>4, <3>1, <3>2 DEF Distinct
  <2> QED BY <2>1, <2>2, <2>3
<1>6. Distinct(a) BY <1>5 DEF Distinct
<1>7. order' = a \/ order' = w BY <1>1, <1>3
<1> QED BY <1>2, <1>4, <1>6, <1>7 DEF OrderInv, Distinct

-----------------------------------------------------------------------------
(* The passes. *)

\* What the queries of a batch list may still be recovered.
LEMMA CandidatesAreDue ==
  ASSUME OrderInv, NEW p, NEW limit, NEW js \in {CookieCandidates(p, limit), AppFixCandidates(limit)}
  PROVE  /\ js \in Seq(Job) /\ Distinct(js)
         /\ \A n \in 1..Len(js) : rows[js[n]].attempts < MaxRecovery
<1>1. \A class : Due(class) \subseteq DOMAIN order
                 /\ \A i \in Due(class) : rows[order[i]].attempts < MaxRecovery
  BY DEF Due, Recoverable
<1>2. \E S \in SUBSET DOMAIN order :
        js = JobsAt(S) /\ \A i \in S : rows[order[i]].attempts < MaxRecovery
  <2>1. CASE js = CookieCandidates(p, limit)
    <3> DEFINE S == FirstOf(CapPerUser({n \in CookieWindow(limit) : SiteOf[order[n]] = p}), limit)
    <3>1. S \subseteq Due("cookie") BY DEF FirstOf, CapPerUser, CookieWindow
    <3>2. js = JobsAt(S) BY <2>1 DEF CookieCandidates
    <3> HIDE DEF S
    <3> QED BY <1>1, <3>1, <3>2
  <2>2. CASE js = AppFixCandidates(limit)
    <3> DEFINE due == {n \in Due("app_fix") : /\ rows[order[n]].failedOn # version
                                             /\ rows[order[n]].triedOn # version}
               S == FirstOf(CapPerUser(FirstOf(due, limit * WindowFactor)), limit)
    <3>1. S \subseteq Due("app_fix") BY DEF FirstOf, CapPerUser
    <3>2. js = JobsAt(S) BY <2>2 DEF AppFixCandidates
    <3> HIDE DEF S
    <3> QED BY <1>1, <3>1, <3>2
  <2> QED BY <2>1, <2>2
<1>3. PICK S \in SUBSET DOMAIN order :
        js = JobsAt(S) /\ \A i \in S : rows[order[i]].attempts < MaxRecovery
  BY <1>2
<1>4. /\ js \in Seq(Job) /\ Distinct(js)
      /\ \A n \in 1..Len(js) : \E i \in S : js[n] = order[i]
  BY <1>3, QueryLists
<1> QED BY <1>3, <1>4

\* What is read keeps the jobs and notes their attempts.
LEMMA ReadKeeps ==
  ASSUME RowsInv, NEW js \in Seq(Job), Distinct(js)
  PROVE  /\ Read(js) \in Seq(Findings) /\ Len(Read(js)) = Len(js)
         /\ \A i \in 1..Len(js) : Read(js)[i] = [job |-> js[i], attempts |-> rows[js[i]].attempts]
         /\ \A i, k \in 1..Len(js) : Read(js)[i].job = Read(js)[k].job => i = k
<1>1. DOMAIN js = 1..Len(js) /\ Len(js) \in Nat /\ \A i \in 1..Len(js) : js[i] \in Job
  OBVIOUS
<1>2. \A i \in 1..Len(js) : [job |-> js[i], attempts |-> rows[js[i]].attempts] \in Findings
  BY <1>1 DEF RowsInv, RowRecords, Findings
<1>3. PICK r : r = Read(js) OBVIOUS
<1>4. /\ r \in [1..Len(js) -> Findings]
      /\ \A i \in 1..Len(js) : r[i] = [job |-> js[i], attempts |-> rows[js[i]].attempts]
  BY <1>1, <1>2, <1>3 DEF Read
<1>5. r \in Seq(Findings) /\ Len(r) = Len(js)
  BY <1>1, <1>4
<1>6. \A i \in 1..Len(js) : r[i].job = js[i] BY <1>4
<1>7. \A i, k \in 1..Len(js) : js[i] = js[k] => i = k BY <1>1 DEF Distinct
<1> QED BY <1>3, <1>4, <1>5, <1>6, <1>7

\* A pass by its fields.
PassOf(a, g, t, n, f, s) ==
  [at |-> a, goal |-> g, todo |-> t, limit |-> n, found |-> f, shown |-> s]

\* A sound pass has the six fields and no other.
LEMMA PassFields ==
  ASSUME NEW p, SoundPass(p)
  PROVE  \E a, g, t, n, f, s :
           p = [at |-> a, goal |-> g, todo |-> t, limit |-> n, found |-> f, shown |-> s]
BY DEF SoundPass

\* A pass that rests is sound and waits for nothing.
LEMMA RestingPass ==
  ASSUME NEW a, NEW g, NEW t, NEW n, NEW s, NEW f \in Seq(Findings),
         \A i, k \in 1..Len(f) : f[i].job = f[k].job => i = k,
         a \notin {"requeue", "enqueue", "probe"},
         a = "pending" => g = "reconcile", a \in {"mark", "measure", "list"} => g # "reconcile",
         NEW p, p = PassOf(a, g, t, n, f, s)
  PROVE  SoundPass(p) /\ Awaited(p) = {}
<1>1. /\ p.at = a /\ p.goal = g /\ p.todo = t /\ p.limit = n /\ p.found = f /\ p.shown = s
      /\ p = [at |-> p.at, goal |-> p.goal, todo |-> p.todo, limit |-> p.limit,
              found |-> p.found, shown |-> p.shown]
  BY DEF PassOf
<1>2. SoundPass(p) BY <1>1 DEF SoundPass
<1>3. Awaited(p) = {} BY <1>1 DEF Awaited
<1> QED BY <1>2, <1>3

\* After a batch a pass rests.
LEMMA AfterBatchRests ==
  ASSUME NEW x \in Process, SoundPass(pass[x])
  PROVE  /\ SoundPass(AfterBatch(x)) /\ Awaited(AfterBatch(x)) = {}
         /\ SoundPass(Idle) /\ Awaited(Idle) = {}
<1>1. PICK p : p = pass[x] OBVIOUS
<1>2. PICK todo : todo = Tail(p.todo) OBVIOUS
<1>3. PICK e : e = << >> /\ e \in Seq(Findings) /\ \A i, k \in 1..Len(e) : e[i].job = e[k].job => i = k
  <2>1. PICK e : e = << >> OBVIOUS
  <2>2. e \in Seq(Findings) /\ Len(e) = 0 BY <2>1
  <2>3. \A i \in 1..Len(e) : FALSE BY <2>2
  <2> QED BY <2>1, <2>2, <2>3
<1>4. ASSUME NEW a \in {"idle", "pending", "mark", "list"}, NEW g, NEW t, NEW n, NEW s,
             a = "pending" => g = "reconcile", a \in {"mark", "list"} => g # "reconcile",
             NEW q, q = PassOf(a, g, t, n, e, s)
      PROVE  SoundPass(q) /\ Awaited(q) = {}
  BY <1>3, <1>4, RestingPass
<1>5. SoundPass(p) BY <1>1
<1>6. PICK i : i = Idle OBVIOUS
<1>7. i = PassOf("idle", "none", e, 0, e, {}) BY <1>3, <1>6 DEF Idle, PassOf
<1>8. SoundPass(i) /\ Awaited(i) = {} BY <1>4, <1>7
<1>9. PICK q : q = [i EXCEPT !.at = "pending", !.goal = "reconcile"] OBVIOUS
<1>10. SoundPass(q) /\ Awaited(q) = {}
  <2>1. q = [at |-> "pending", goal |-> "reconcile", todo |-> e, limit |-> 0, found |-> e, shown |-> {}]
    <3>1. i = [at |-> "idle", goal |-> "none", todo |-> e, limit |-> 0, found |-> e, shown |-> {}]
      BY <1>7 DEF PassOf
    <3> QED BY <1>9, <3>1
  <2>2. q = PassOf("pending", "reconcile", e, 0, e, {}) BY <2>1 DEF PassOf
  <2> QED BY <1>4, <2>2
<1>11. PICK m : m = [p EXCEPT !.at = "mark", !.todo = todo, !.found = e, !.shown = {}] OBVIOUS
<1>12. PICK l : l = [p EXCEPT !.at = "list", !.todo = todo, !.found = e, !.shown = {}] OBVIOUS
<1>13. /\ m = PassOf("mark", p.goal, todo, p.limit, e, {})
       /\ l = PassOf("list", p.goal, todo, p.limit, e, {})
  <2>1. PICK a0, g0, t0, n0, f0, s0 :
        p = [at |-> a0, goal |-> g0, todo |-> t0, limit |-> n0, found |-> f0, shown |-> s0]
    BY <1>5, PassFields
  <2>2. m = [at |-> "mark", goal |-> g0, todo |-> todo, limit |-> n0, found |-> e, shown |-> {}]
    BY <1>11, <2>1
  <2>3. l = [at |-> "list", goal |-> g0, todo |-> todo, limit |-> n0, found |-> e, shown |-> {}]
    BY <1>12, <2>1
  <2>4. p.goal = g0 /\ p.limit = n0 BY <2>1
  <2> HIDE <2>1
  <2> QED BY <2>2, <2>3, <2>4 DEF PassOf
<1>14. p.goal # "reconcile" => SoundPass(m) /\ Awaited(m) = {} BY <1>4, <1>5, <1>13
<1>15. p.goal # "reconcile" => SoundPass(l) /\ Awaited(l) = {} BY <1>4, <1>5, <1>13
<1>16. \/ AfterBatch(x) \in {i, q}
       \/ AfterBatch(x) \in {m, l} /\ p.goal # "reconcile"
  BY <1>1, <1>2, <1>3, <1>6, <1>9, <1>11, <1>12 DEF AfterBatch
<1> QED BY <1>6, <1>8, <1>10, <1>14, <1>15, <1>16

\* The next entry of a list: what is awaited becomes no more.
LEMMA NextFoundKeeps ==
  ASSUME NEW x \in Process, SoundPass(pass[x]), pass[x].found # << >>,
         pass[x].at \in {"requeue", "enqueue", "probe"}
  PROVE  /\ SoundPass(NextFound(x))
         /\ Awaited(NextFound(x)) \subseteq Awaited(pass[x])
         /\ pass[x].at = "requeue" => Head(pass[x].found).job \notin Awaited(NextFound(x))
<1>1. PICK p : p = pass[x] OBVIOUS
<1>2. SoundPass(p) /\ p.found # << >> BY <1>1
<1>3. PICK f : f = p.found OBVIOUS
<1>4. PICK t : t = Tail(f) OBVIOUS
<1>5. /\ f \in Seq(Findings) /\ Len(f) \in Nat /\ Len(f) > 0
      /\ \A i, k \in 1..Len(f) : f[i].job = f[k].job => i = k
  BY <1>2, <1>3 DEF SoundPass
<1>6. /\ t \in Seq(Findings) /\ Len(t) = Len(f) - 1
      /\ \A i \in 1..Len(t) : t[i] = f[i+1] /\ i + 1 \in 1..Len(f) /\ i + 1 # 1
  BY <1>4, <1>5
<1>7. CASE Len(f) = 1
  <2>1. NextFound(x) = AfterBatch(x) BY <1>1, <1>3, <1>7 DEF NextFound
  <2> QED BY <2>1, AfterBatchRests
<1>8. CASE Len(f) # 1
  <2>1. PICK a : a = IF p.goal = "reconcile" THEN "probe" ELSE "requeue" OBVIOUS
  <2>2. PICK q : q = PassOf(a, p.goal, p.todo, p.limit, t, p.shown) OBVIOUS
  <2>3. NextFound(x) = q
    <3>1. PICK a0, g0, t0, n0, f0, s0 :
            p = [at |-> a0, goal |-> g0, todo |-> t0, limit |-> n0, found |-> f0, shown |-> s0]
      BY <1>2, PassFields
    <3>2. PICK r : r = [p EXCEPT !.at = a, !.found = t] OBVIOUS
    <3>3. NextFound(x) = r
      BY <1>1, <1>3, <1>4, <1>8, <2>1, <3>2 DEF NextFound
    <3>4. r = [at |-> a, goal |-> g0, todo |-> t0, limit |-> n0, found |-> t, shown |-> s0]
      BY <3>1, <3>2
    <3>5. p.goal = g0 /\ p.todo = t0 /\ p.limit = n0 /\ p.shown = s0 BY <3>1
    <3> QED BY <2>2, <3>3, <3>4, <3>5 DEF PassOf
  <2>4. /\ q.at = a /\ q.goal = p.goal /\ q.limit = p.limit /\ q.found = t
        /\ q = [at |-> q.at, goal |-> q.goal, todo |-> q.todo, limit |-> q.limit,
                found |-> q.found, shown |-> q.shown]
    BY <2>2 DEF PassOf
  <2>5. \A i, k \in 1..Len(t) : t[i].job = t[k].job => i = k
    <3> SUFFICES ASSUME NEW i \in 1..Len(t), NEW k \in 1..Len(t), t[i].job = t[k].job
                 PROVE  i = k
      OBVIOUS
    <3>1. i + 1 = k + 1 BY <1>5, <1>6
    <3> QED BY <1>6, <3>1
  <2>6. t # << >> BY <1>5, <1>6, <1>8
  <2>7. p.goal # "reconcile" => \A i \in 1..Len(f) : f[i].attempts < MaxRecovery
    BY <1>1, <1>2, <1>3 DEF SoundPass
  <2>8. p.goal # "reconcile" => \A i \in 1..Len(t) : t[i].attempts < MaxRecovery
    BY <1>6, <2>7
  <2>9. SoundPass(q) BY <1>6, <2>1, <2>4, <2>5, <2>6, <2>8 DEF SoundPass
  <2>10. ASSUME NEW j \in Awaited(q)
         PROVE  j \in Awaited(p) /\ (p.at = "requeue" => Head(f).job # j)
    <3>1. j \in Job /\ p.goal # "reconcile" /\ \E i \in 1..Len(t) : t[i].job = j
      BY <2>4 DEF Awaited
    <3>2. PICK i \in 1..Len(t) : t[i].job = j BY <3>1
    <3>3. f[i+1].job = j /\ i + 1 \in 1..Len(f) /\ i + 1 # 1 BY <1>6, <3>2
    <3>4. p.at \in {"requeue", "enqueue"} BY <1>1, <1>2, <3>1 DEF SoundPass
    <3>5. j \in Awaited(p) BY <1>3, <3>1, <3>3, <3>4 DEF Awaited
    <3>6. Head(f) = f[1] /\ 1 \in 1..Len(f) BY <1>5
    <3>7. Head(f).job # j BY <1>5, <3>3, <3>6
    <3> QED BY <3>5, <3>7
  <2> QED BY <1>1, <1>3, <2>3, <2>9, <2>10
<1> QED BY <1>7, <1>8

\* A pass goes on while no row gains an attempt: what it then awaits it awaited before,
\* or has just found below the limit.
LEMMA PassGoesOn ==
  ASSUME RecoveryInv, RowsInv', NEW x \in Process, NEW q, SoundPass(q), pass' = [pass EXCEPT ![x] = q],
         \A j \in Job : rows'[j].attempts <= rows[j].attempts,
         \A j \in Awaited(q) : j \in Awaited(pass[x])
                               \/ (rows[j].attempts < MaxRecovery /\ Awaited(pass[x]) = {})
  PROVE  PassesInv' /\ OvershootInv'
<1>1. PICK w : w = pass' OBVIOUS
<1>2. w = [y \in Process |-> w[y]] /\ \A y \in Process : w[y] = IF y = x THEN q ELSE pass[y]
  BY <1>1 DEF RecoveryInv, PassesInv
<1>3. PassesInv' BY <1>1, <1>2 DEF RecoveryInv, PassesInv
<1>4. ASSUME NEW j \in Job
      PROVE  /\ rows'[j].attempts <= MaxRecovery + 1
             /\ \A y \in Process : j \in Awaited(w[y]) => rows'[j].attempts <= MaxRecovery
             /\ j \in Awaited(w["bot"]) /\ j \in Awaited(w["worker"]) => rows'[j].attempts < MaxRecovery
  <2>1. /\ rows[j].attempts \in Nat /\ rows'[j].attempts \in Nat /\ MaxRecovery \in Nat
        /\ rows'[j].attempts <= rows[j].attempts
    BY RecoveryAssumption DEF RecoveryInv, RowsInv, RowRecords
  <2>2. /\ rows[j].attempts <= MaxRecovery + 1
        /\ \A y \in Process : j \in Awaited(pass[y]) => rows[j].attempts <= MaxRecovery
        /\ j \in Awaited(pass["bot"]) /\ j \in Awaited(pass["worker"]) => rows[j].attempts < MaxRecovery
    BY DEF RecoveryInv, OvershootInv
  <2>3. CASE \A y \in Process : j \in Awaited(w[y]) => j \in Awaited(pass[y])
    BY <2>1, <2>2, <2>3 DEF Process
  <2>4. CASE \E y \in Process : j \in Awaited(w[y]) /\ j \notin Awaited(pass[y])
    <3>1. rows[j].attempts < MaxRecovery BY <1>2, <2>4
    <3> QED BY <2>1, <3>1
  <2> QED BY <2>3, <2>4
<1>5. OvershootInv' BY <1>1, <1>4 DEF OvershootInv
<1> QED BY <1>3, <1>5

\* Where no pass moves and no row gains an attempt, the bounds stay.
LEMMA PassesStay ==
  ASSUME RecoveryInv, RowsInv', UNCHANGED pass, \A j \in Job : rows'[j].attempts <= rows[j].attempts
  PROVE  PassesInv' /\ OvershootInv'
<1>1. PassesInv' BY DEF RecoveryInv, PassesInv
<1>2. \A j \in Job : rows[j].attempts \in Nat /\ rows'[j].attempts \in Nat /\ MaxRecovery \in Nat
  BY RecoveryAssumption DEF RecoveryInv, RowsInv, RowRecords
<1>3. OvershootInv' BY <1>2 DEF RecoveryInv, OvershootInv
<1> QED BY <1>1, <1>3

\* Where a pass begins or turns to its next stage it rests.
LEMMA StagesRest ==
  ASSUME NEW p, SoundPass(p), NEW q, NEW a \in {"mark", "measure", "list", "clear"}, NEW t, NEW n,
         NEW s, NEW g, a # "clear" => g # "reconcile",
         \/ q = [Idle EXCEPT !.at = a, !.goal = g, !.todo = t]
         \/ q = [Idle EXCEPT !.at = a, !.goal = g]
         \/ q = [p EXCEPT !.at = a, !.limit = n, !.todo = t] /\ g = p.goal
         \/ q = [p EXCEPT !.at = a, !.limit = n] /\ g = p.goal
         \/ q = [p EXCEPT !.at = a, !.shown = s] /\ g = p.goal
         \/ q = [p EXCEPT !.at = a] /\ g = p.goal
  PROVE  SoundPass(q) /\ Awaited(q) = {}
<1>1. PICK a0, g0, t0, n0, f0, s0 :
        p = [at |-> a0, goal |-> g0, todo |-> t0, limit |-> n0, found |-> f0, shown |-> s0]
  BY PassFields
<1>2. PICK i : i = Idle OBVIOUS
<1>3. /\ f0 \in Seq(Findings) /\ g0 = p.goal
      /\ \A j, k \in 1..Len(f0) : f0[j].job = f0[k].job => j = k
  <2>1. p.found = f0 /\ p.goal = g0 BY <1>1
  <2> HIDE <1>1
  <2> QED BY <2>1 DEF SoundPass
<1>4. PICK e : e = << >> /\ e \in Seq(Findings) /\ \A j, k \in 1..Len(e) : e[j].job = e[k].job => j = k
  <2>1. PICK e : e = << >> OBVIOUS
  <2>2. e \in Seq(Findings) /\ Len(e) = 0 BY <2>1
  <2>3. \A j \in 1..Len(e) : FALSE BY <2>2
  <2> QED BY <2>1, <2>2, <2>3
<1>5. i = [at |-> "idle", goal |-> "none", todo |-> e, limit |-> 0, found |-> e, shown |-> {}]
  BY <1>2, <1>4 DEF Idle
<1>6. CASE q = [Idle EXCEPT !.at = a, !.goal = g, !.todo = t]
  <2>1. q = [i EXCEPT !.at = a, !.goal = g, !.todo = t] BY <1>2, <1>6
  <2>2. q = [at |-> a, goal |-> g, todo |-> t, limit |-> 0, found |-> e, shown |-> {}]
    BY <1>5, <2>1
  <2>3. q = PassOf(a, g, t, 0, e, {}) BY <2>2 DEF PassOf
  <2> QED BY <1>4, <2>3, RestingPass, ZenonT(30)
<1>7. CASE q = [Idle EXCEPT !.at = a, !.goal = g]
  <2>1. q = [i EXCEPT !.at = a, !.goal = g] BY <1>2, <1>7
  <2>2. q = [at |-> a, goal |-> g, todo |-> e, limit |-> 0, found |-> e, shown |-> {}]
    BY <1>5, <2>1
  <2>3. q = PassOf(a, g, e, 0, e, {}) BY <2>2 DEF PassOf
  <2> QED BY <1>4, <2>3, RestingPass, ZenonT(30)
<1>8. CASE q = [p EXCEPT !.at = a, !.limit = n, !.todo = t] /\ g = p.goal
  <2>1. g = g0 BY <1>3, <1>8
  <2>2. q = [at |-> a, goal |-> g0, todo |-> t, limit |-> n, found |-> f0, shown |-> s0]
    BY <1>1, <1>8
  <2>3. q = PassOf(a, g, t, n, f0, s0) BY <2>1, <2>2 DEF PassOf
  <2> QED BY <1>3, <2>3, RestingPass
<1>9. CASE q = [p EXCEPT !.at = a, !.limit = n] /\ g = p.goal
  <2>1. g = g0 BY <1>3, <1>9
  <2>2. q = [at |-> a, goal |-> g0, todo |-> t0, limit |-> n, found |-> f0, shown |-> s0]
    BY <1>1, <1>9
  <2>3. q = PassOf(a, g, t0, n, f0, s0) BY <2>1, <2>2 DEF PassOf
  <2> QED BY <1>3, <2>3, RestingPass
<1>10. CASE q = [p EXCEPT !.at = a, !.shown = s] /\ g = p.goal
  <2>1. g = g0 BY <1>3, <1>10
  <2>2. q = [at |-> a, goal |-> g0, todo |-> t0, limit |-> n0, found |-> f0, shown |-> s]
    BY <1>1, <1>10
  <2>3. q = PassOf(a, g, t0, n0, f0, s) BY <2>1, <2>2 DEF PassOf
  <2> QED BY <1>3, <2>3, RestingPass
<1>11. CASE q = [p EXCEPT !.at = a] /\ g = p.goal
  <2>1. g = g0 BY <1>3, <1>11
  <2>2. q = [at |-> a, goal |-> g0, todo |-> t0, limit |-> n0, found |-> f0, shown |-> s0]
    BY <1>1, <1>11
  <2>3. q = PassOf(a, g, t0, n0, f0, s0) BY <2>1, <2>2 DEF PassOf
  <2> QED BY <1>3, <2>3, RestingPass
<1> QED BY <1>6, <1>7, <1>8, <1>9, <1>10, <1>11

\* A list is taken up, to requeue its jobs or to probe them.
LEMMA ListTaken ==
  ASSUME RowsInv, NEW p, SoundPass(p), NEW a \in {"requeue", "probe"},
         NEW js \in Seq(Job), Distinct(js), js # << >>,
         a = "probe" => p.goal = "reconcile",
         a = "requeue" => p.goal # "reconcile" /\ \A n \in 1..Len(js) : rows[js[n]].attempts < MaxRecovery
  PROVE  \A q : q = [p EXCEPT !.at = a, !.found = Read(js)] =>
           /\ SoundPass(q)
           /\ \A j \in Awaited(q) : rows[j].attempts < MaxRecovery
<1>1. PICK r : r = Read(js) OBVIOUS
<1>2. /\ r \in Seq(Findings) /\ Len(r) = Len(js) /\ Len(js) \in Nat /\ Len(js) # 0
      /\ \A i \in 1..Len(js) : r[i] = [job |-> js[i], attempts |-> rows[js[i]].attempts]
      /\ \A i, k \in 1..Len(js) : r[i].job = r[k].job => i = k
  BY <1>1, ReadKeeps
<1>3. PICK z : z = PassOf(a, p.goal, p.todo, p.limit, r, p.shown) OBVIOUS
<1>4. /\ z.at = a /\ z.goal = p.goal /\ z.limit = p.limit /\ z.found = r
      /\ z = [at |-> z.at, goal |-> z.goal, todo |-> z.todo, limit |-> z.limit,
              found |-> z.found, shown |-> z.shown]
  BY <1>3 DEF PassOf
<1>5. ASSUME NEW i \in 1..Len(r) PROVE r[i].attempts = rows[js[i]].attempts /\ r[i].job = js[i]
  <2>1. r[i] = [job |-> js[i], attempts |-> rows[js[i]].attempts] BY <1>2
  <2> QED BY <2>1
<1>6. r # << >> BY <1>2
<1>7. SoundPass(z) BY <1>2, <1>4, <1>5, <1>6 DEF SoundPass
<1>8. ASSUME NEW j \in Awaited(z) PROVE rows[j].attempts < MaxRecovery
  <2>1. a = "requeue" /\ \E i \in 1..Len(r) : r[i].job = j BY <1>4 DEF Awaited
  <2> QED BY <1>2, <1>5, <2>1
<1>9. ASSUME NEW q, q = [p EXCEPT !.at = a, !.found = Read(js)] PROVE q = z
  <2>1. PICK a0, g0, t0, n0, f0, s0 :
          p = [at |-> a0, goal |-> g0, todo |-> t0, limit |-> n0, found |-> f0, shown |-> s0]
    BY PassFields
  <2>2. q = [at |-> a, goal |-> g0, todo |-> t0, limit |-> n0, found |-> r, shown |-> s0]
    BY <1>1, <1>9, <2>1
  <2>3. p.goal = g0 /\ p.limit = n0 /\ p.todo = t0 /\ p.shown = s0 BY <2>1
  <2> HIDE <2>1
  <2> QED BY <1>3, <2>2, <2>3 DEF PassOf
<1> HIDE <1>3
<1> QED BY <1>7, <1>8, <1>9

-----------------------------------------------------------------------------
(* The steps. *)

\* The rows keep their shape, and only a requeue raises their attempts.
LEMMA RowsMove ==
  ASSUME RowsInv, RecoveryNext
  PROVE  /\ RowsInv'
         /\ \/ \E x \in Process : Requeue(x)
            \/ \A j \in Job : rows'[j].attempts \in {0, rows[j].attempts}
<1>1. \A j \in Job : rows[j] \in RowRecords /\ rows[j].attempts \in Nat /\ version \in Nat
  BY DEF RowsInv, RowRecords
<1>2. CASE UNCHANGED <<rows, version>>
  BY <1>1, <1>2 DEF RowsInv
<1>3. ASSUME NEW v \in 1..MaxVersion, NewWorker(v)
      PROVE  RowsInv' /\ \A j \in Job : rows'[j].attempts \in {0, rows[j].attempts}
  BY <1>1, <1>3 DEF RowsInv, NewWorker
<1>4. ASSUME NEW j \in Job, NEW c \in Classes, FailsAgain(j, c)
      PROVE  RowsInv' /\ \A k \in Job : rows'[k].attempts \in {0, rows[k].attempts}
  <2>1. PICK r : r = [rows[j] EXCEPT !.status = "failed", !.class = c, !.failedOn = version] OBVIOUS
  <2>2. r \in RowRecords /\ r.attempts = rows[j].attempts
    BY <1>1, <2>1 DEF RowRecords, Classes
  <2>3. rows' = [rows EXCEPT ![j] = r] /\ version' = version
    <3>1. rows' = [rows EXCEPT ![j] = [rows[j] EXCEPT !.status = "failed", !.class = c, !.failedOn = version]]
          /\ version' = version
      BY <1>4 DEF FailsAgain, RowsInv
    <3> QED BY <2>1, <3>1
  <2>4. rows' \in [Job -> RowRecords] /\ \A k \in Job : rows'[k].attempts = rows[k].attempts
    BY <2>2, <2>3 DEF RowsInv
  <2> QED BY <1>1, <2>3, <2>4 DEF RowsInv
<1>5. ASSUME NEW j \in Job, Retires(j)
      PROVE  RowsInv' /\ \A k \in Job : rows'[k].attempts \in {0, rows[k].attempts}
  <2>1. Retired \in RowRecords /\ Retired.attempts = 0 BY DEF Retired, RowRecords
  <2>2. rows' = [rows EXCEPT ![j] = Retired] /\ version' = version BY <1>5 DEF Retires
  <2>3. rows' \in [Job -> RowRecords] BY <2>1, <2>2 DEF RowsInv
  <2>4. \A k \in Job : rows'[k] = IF k = j THEN Retired ELSE rows[k] BY <2>2 DEF RowsInv
  <2> QED BY <1>1, <2>1, <2>2, <2>3, <2>4 DEF RowsInv
<1>6. ASSUME NEW x \in Process, Requeue(x) PROVE RowsInv'
  <2>1. PICK j : j = Head(pass[x].found).job OBVIOUS
  <2>2. CASE MarkRequeued(j) /\ version' = version
    <3>1. CASE j \in Job
      <4>1. PICK r : r = [rows[j] EXCEPT !.status = "queued", !.attempts = @ + 1, !.triedOn = version]
        OBVIOUS
      <4>2. r \in RowRecords
        <5>1. PICK st, cl, n, f, tr :
                /\ n \in Nat /\ f \in Nat /\ cl \in {"cookie", "app_fix", "none"}
                /\ rows[j] = [status |-> st, class |-> cl, attempts |-> n, failedOn |-> f, triedOn |-> tr]
          BY <1>1, <3>1 DEF RowRecords
        <5>2. rows[j].attempts = n BY <5>1
        <5>3. PICK b : b = rows[j] OBVIOUS
        <5>4. r = [b EXCEPT !.status = "queued", !.attempts = n + 1, !.triedOn = version]
          BY <4>1, <5>2, <5>3
        <5>5. b = [status |-> st, class |-> cl, attempts |-> n, failedOn |-> f, triedOn |-> tr]
          BY <5>1, <5>3
        <5>6. r = [status |-> "queued", class |-> cl, attempts |-> n + 1, failedOn |-> f,
                   triedOn |-> version]
          BY <5>4, <5>5
        <5> QED BY <1>1, <3>1, <5>1, <5>6 DEF RowRecords
      <4>3. rows' = [rows EXCEPT ![j] = r]
        BY <2>2, <3>1, <4>1 DEF MarkRequeued, RowsInv
      <4> QED BY <2>2, <4>2, <4>3 DEF RowsInv
    <3>2. CASE j \notin Job
      <4>1. rows' = rows BY <2>2, <3>2 DEF MarkRequeued, RowsInv
      <4> QED BY <2>2, <4>1 DEF RowsInv
    <3> QED BY <3>1, <3>2
  <2>3. CASE UNCHANGED <<rows, version>>
    BY <2>3 DEF RowsInv
  <2> QED BY <1>6, <2>1, <2>2, <2>3 DEF Requeue
<1>7. \/ UNCHANGED <<rows, version>>
      \/ \E v \in 1..MaxVersion : NewWorker(v)
      \/ \E j \in Job, c \in Classes : FailsAgain(j, c)
      \/ \E j \in Job : Retires(j)
      \/ \E x \in Process : Requeue(x)
  <2>1. ASSUME NEW x \in Process, PassStep(x) PROVE UNCHANGED <<rows, version>> \/ Requeue(x)
    BY <2>1 DEF PassStep, MeasureQueue, ListCandidates, ClearMarker, EnqueueLands, EnqueueFails
  <2>2. "bot" \in Process /\ "worker" \in Process BY DEF Process
  <2>3. CASE WorkerProgress
    BY <2>1, <2>2, <2>3 DEF WorkerProgress, BeginMaintenance, ListRequeues, ProbeRequeue
  <2>4. CASE BotProgress BY <2>1, <2>2, <2>4 DEF BotProgress, MarkProvider
  <2>5. CASE RunsEnd BY <2>5 DEF RunsEnd, EntryEnds
  <2>6. ASSUME NEW ps, UploadAccepted(ps) PROVE UNCHANGED <<rows, version>> BY <2>6 DEF UploadAccepted
  <2>7. ASSUME NEW j \in Job, GrowOld(j) PROVE UNCHANGED <<rows, version>> BY <2>7 DEF GrowOld
  <2>8. CASE NewBot BY <2>8 DEF NewBot
  <2> QED BY <2>3, <2>4, <2>5, <2>6, <2>7, <2>8 DEF RecoveryNext
<1> QED BY <1>1, <1>2, <1>3, <1>4, <1>5, <1>6, <1>7

\* The order stays a list without repetitions.
LEMMA OrderMoves ==
  ASSUME OrderInv, PassesInv, RecoveryNext
  PROVE  OrderInv'
<1>1. ASSUME NEW x \in Process, Requeue(x) \/ EnqueueLands(x) PROVE OrderInv'
  <2>1. Head(pass[x].found).job \in Job
    <3>1. PICK p : p = pass[x] OBVIOUS
    <3>2. p.found \in Seq(Findings) /\ p.found # << >>
      BY <1>1, <3>1 DEF PassesInv, SoundPass, Requeue, EnqueueLands
    <3>3. Head(p.found) \in Findings BY <3>2
    <3> QED BY <3>1, <3>3 DEF Findings
  <2>2. PICK j \in Job : j = Head(pass[x].found).job BY <2>1
  <2>3. order' = order \/ order' = Append(Without(order, j), j)
    BY <1>1, <2>2 DEF Requeue, EnqueueLands, MarkRequeued, Touch
  <2>4. CASE order' = order BY <2>4 DEF OrderInv, Distinct
  <2>5. CASE order' = Append(Without(order, j), j) BY <2>5, TouchKeeps
  <2> QED BY <2>3, <2>4, <2>5
<1>2. ASSUME NEW j \in Job, Retires(j) \/ \E c \in Classes : FailsAgain(j, c) PROVE OrderInv'
  <2>1. order' = Without(order, j) \/ order' = Append(Without(order, j), j)
    BY <1>2 DEF Retires, FailsAgain, Touch
  <2> QED BY <2>1, TouchKeeps
<1>3. \/ UNCHANGED order
      \/ \E x \in Process : Requeue(x) \/ EnqueueLands(x)
      \/ \E j \in Job : Retires(j) \/ \E c \in Classes : FailsAgain(j, c)
  <2>1. ASSUME NEW x \in Process, PassStep(x) PROVE UNCHANGED order \/ Requeue(x) \/ EnqueueLands(x)
    BY <2>1 DEF PassStep, MeasureQueue, ListCandidates, ClearMarker, EnqueueFails
  <2>2. "bot" \in Process /\ "worker" \in Process BY DEF Process
  <2>3. CASE WorkerProgress
    BY <2>1, <2>2, <2>3 DEF WorkerProgress, BeginMaintenance, ListRequeues, ProbeRequeue
  <2>4. CASE BotProgress BY <2>1, <2>2, <2>4 DEF BotProgress, MarkProvider
  <2>5. CASE RunsEnd BY <2>5 DEF RunsEnd, EntryEnds
  <2>6. ASSUME NEW ps, UploadAccepted(ps) PROVE UNCHANGED order BY <2>6 DEF UploadAccepted
  <2>7. ASSUME NEW j \in Job, GrowOld(j) PROVE UNCHANGED order BY <2>7 DEF GrowOld
  <2>8. CASE NewBot BY <2>8 DEF NewBot
  <2>9. ASSUME NEW v, NewWorker(v) PROVE UNCHANGED order BY <2>9 DEF NewWorker
  <2> QED BY <2>3, <2>4, <2>5, <2>6, <2>7, <2>8, <2>9 DEF RecoveryNext
<1>4. CASE UNCHANGED order BY <1>4 DEF OrderInv, Distinct
<1> QED BY <1>1, <1>2, <1>3, <1>4

\* A requeue uses up the place of its job in the list.
LEMMA RequeueKeeps ==
  ASSUME RecoveryInv, RowsInv', NEW x \in Process, Requeue(x)
  PROVE  /\ PassesInv' /\ OvershootInv'
         /\ \A k \in Job : \/ rows'[k].attempts = rows[k].attempts
                           \/ /\ pass[x].at = "requeue" /\ Head(pass[x].found).job = k
                              /\ Head(pass[x].found).attempts < MaxRecovery
                              /\ rows'[k].attempts = rows[k].attempts + 1
<1>1. PICK p : p = pass[x] OBVIOUS
<1>2. SoundPass(p) /\ p.at = "requeue" BY <1>1 DEF RecoveryInv, PassesInv, Requeue
<1>3. PICK f : f = p.found OBVIOUS
<1>4. /\ f \in Seq(Findings) /\ f # << >> /\ Len(f) \in Nat /\ Len(f) > 0 /\ p.goal # "reconcile"
      /\ f[1].attempts < MaxRecovery /\ Head(f) = f[1] /\ f[1] \in Findings
      /\ \A i, k \in 1..Len(f) : f[i].job = f[k].job => i = k
  BY <1>2, <1>3 DEF SoundPass
<1>5. PICK j \in Job : j = f[1].job BY <1>4 DEF Findings
<1>6. j \in Awaited(p) BY <1>2, <1>3, <1>4, <1>5 DEF Awaited
<1>7. \A k \in Job : rows[k].attempts \in Nat /\ rows'[k].attempts \in Nat /\ MaxRecovery \in Nat
  BY RecoveryAssumption DEF RecoveryInv, RowsInv, RowRecords
<1>8. CASE /\ MarkRequeued(j) /\ pass' = [pass EXCEPT ![x] = [pass[x] EXCEPT !.at = "enqueue"]]
  <2>1. PICK q : q = [p EXCEPT !.at = "enqueue"] OBVIOUS
  <2>2. pass' = [pass EXCEPT ![x] = q] BY <1>1, <1>8, <2>1
  <2>3. /\ q = [at |-> "enqueue", goal |-> q.goal, todo |-> q.todo, limit |-> q.limit,
                found |-> q.found, shown |-> q.shown]
        /\ q.at = "enqueue" /\ q.goal = p.goal /\ q.limit = p.limit /\ q.found = f
    <3>1. PICK a0, g0, t0, n0, f0, s0 :
            p = [at |-> a0, goal |-> g0, todo |-> t0, limit |-> n0, found |-> f0, shown |-> s0]
      BY <1>2, PassFields
    <3>2. q = [at |-> "enqueue", goal |-> g0, todo |-> t0, limit |-> n0, found |-> f0, shown |-> s0]
      BY <2>1, <3>1
    <3>3. p.goal = g0 /\ p.limit = n0 /\ f = f0 BY <1>3, <3>1
    <3> QED BY <3>2, <3>3
  <2>4. SoundPass(q)
    <3>1. \A i \in 1..Len(f) : f[i].attempts < MaxRecovery BY <1>2, <1>3, <1>4 DEF SoundPass
    <3> QED BY <1>4, <2>3, <3>1 DEF SoundPass
  <2>5. Awaited(q) \subseteq Awaited(p) BY <1>2, <1>3, <1>4, <2>3 DEF Awaited
  <2>6. j \notin Awaited(q)
    <3> SUFFICES ASSUME NEW i \in 1..Len(f), f[i].job = j, i # 1 PROVE FALSE
      BY <2>3 DEF Awaited
    <3> QED BY <1>4, <1>5
  <2>7. \A k \in Job : rows'[k].attempts = IF k = j THEN rows[k].attempts + 1 ELSE rows[k].attempts
    <3>1. PICK r : r = [rows[j] EXCEPT !.status = "queued", !.attempts = @ + 1, !.triedOn = version]
      OBVIOUS
    <3>2. rows' = [rows EXCEPT ![j] = r]
      BY <1>8, <3>1 DEF MarkRequeued, RecoveryInv, RowsInv
    <3>3. r.attempts = rows[j].attempts + 1
      BY <3>1 DEF RecoveryInv, RowsInv, RowRecords
    <3> QED BY <3>2, <3>3 DEF RecoveryInv, RowsInv
  <2>8. PICK w : w = pass' OBVIOUS
  <2>9. w = [y \in Process |-> w[y]] /\ \A y \in Process : w[y] = IF y = x THEN q ELSE pass[y]
    BY <2>2, <2>8 DEF RecoveryInv, PassesInv
  <2>10. PassesInv' BY <2>4, <2>8, <2>9 DEF RecoveryInv, PassesInv
  <2>11. ASSUME NEW k \in Job
         PROVE  /\ rows'[k].attempts <= MaxRecovery + 1
                /\ \A y \in Process : k \in Awaited(w[y]) => rows'[k].attempts <= MaxRecovery
                /\ k \in Awaited(w["bot"]) /\ k \in Awaited(w["worker"])
                     => rows'[k].attempts < MaxRecovery
    <3>1. /\ rows[k].attempts <= MaxRecovery + 1
          /\ \A y \in Process : k \in Awaited(pass[y]) => rows[k].attempts <= MaxRecovery
          /\ k \in Awaited(pass["bot"]) /\ k \in Awaited(pass["worker"])
               => rows[k].attempts < MaxRecovery
      BY DEF RecoveryInv, OvershootInv
    <3>2. \A y \in Process : k \in Awaited(w[y]) => k \in Awaited(pass[y])
      BY <1>1, <2>5, <2>9
    <3>3. CASE k # j BY <1>7, <2>7, <3>1, <3>2, <3>3 DEF Process
    <3>4. CASE k = j
      <4>1. k \in Awaited(pass[x]) /\ k \notin Awaited(w[x]) BY <1>1, <1>6, <2>6, <2>9, <3>4
      <4>2. rows'[k].attempts = rows[k].attempts + 1 BY <2>7, <3>4
      <4>3. rows[k].attempts <= MaxRecovery BY <3>1, <4>1
      <4>4. \A y \in Process : k \in Awaited(w[y]) => rows[k].attempts < MaxRecovery
        BY <3>1, <3>2, <4>1 DEF Process
      <4>5. ~(k \in Awaited(w["bot"]) /\ k \in Awaited(w["worker"])) BY <4>1 DEF Process
      <4> QED BY <1>7, <4>2, <4>3, <4>4, <4>5
    <3> QED BY <3>3, <3>4
  <2>12. OvershootInv' BY <2>8, <2>11 DEF OvershootInv
  <2> QED BY <1>1, <1>2, <1>3, <1>4, <1>5, <1>7, <2>7, <2>10, <2>12
<1>9. CASE UNCHANGED rows /\ pass' = [pass EXCEPT ![x] = NextFound(x)]
  <2>1. SoundPass(NextFound(x)) /\ Awaited(NextFound(x)) \subseteq Awaited(pass[x])
    BY <1>1, <1>2, <1>3, <1>4, NextFoundKeeps
  <2>2. \A k \in Job : rows'[k].attempts <= rows[k].attempts BY <1>7, <1>9
  <2>3. PICK q : q = NextFound(x) OBVIOUS
  <2>4. PassesInv' /\ OvershootInv' BY <1>9, <2>1, <2>2, <2>3, PassGoesOn
  <2> QED BY <1>9, <2>4
<1>10. j = Head(pass[x].found).job BY <1>1, <1>3, <1>4, <1>5
<1> QED BY <1>8, <1>9, <1>10 DEF Requeue, Set

\* The other steps of a pass: it turns to its next stage, takes up a list or leaves an entry.
LEMMA PassStepKeeps ==
  ASSUME RecoveryInv, RowsInv', NEW x \in Process, UNCHANGED rows,
         \/ MeasureQueue(x) \/ ListCandidates(x) \/ ClearMarker(x) \/ EnqueueLands(x) \/ EnqueueFails(x)
         \/ x = "worker" /\ (BeginMaintenance \/ ListRequeues \/ ProbeRequeue)
         \/ x = "worker" /\ \E v \in 1..MaxVersion : NewWorker(v)
         \/ x = "bot" /\ (MarkProvider \/ NewBot)
         \/ x = "bot" /\ \E ps : UploadAccepted(ps)
  PROVE  PassesInv' /\ OvershootInv'
<1>1. PICK p : p = pass[x] OBVIOUS
<1>2. SoundPass(p) BY <1>1 DEF RecoveryInv, PassesInv
<1>3. SoundPass(Idle) /\ Awaited(Idle) = {} BY <1>1, <1>2, AfterBatchRests
<1>4. SoundPass(AfterBatch(x)) /\ Awaited(AfterBatch(x)) = {} BY <1>1, <1>2, AfterBatchRests
<1>5. \A j \in Job : rows[j].attempts \in Nat /\ rows'[j].attempts <= rows[j].attempts
  BY DEF RecoveryInv, RowsInv, RowRecords
\* It is enough that the pass is sound after the step and awaits nothing new.
<1>6. ASSUME NEW q, SoundPass(q), pass' = [pass EXCEPT ![x] = q],
             \/ Awaited(q) \subseteq Awaited(p)
             \/ Awaited(p) = {} /\ \A j \in Awaited(q) : rows[j].attempts < MaxRecovery
      PROVE  PassesInv' /\ OvershootInv'
  BY <1>1, <1>5, <1>6, PassGoesOn
<1>7. CASE MeasureQueue(x)
  <2>1. PICK q : pass' = [pass EXCEPT ![x] = q]
                 /\ (q = Deferred(x) \/ \E n : q = WithLimit(x, n))
    BY <1>7 DEF MeasureQueue, Set
  <2>2. p.at = "measure" BY <1>1, <1>7 DEF MeasureQueue
  <2>3. SoundPass(q) /\ Awaited(q) = {}
    <3>1. CASE q = Deferred(x) BY <1>3, <1>4, <3>1 DEF Deferred
    <3>2. ASSUME NEW n, q = WithLimit(x, n) PROVE SoundPass(q) /\ Awaited(q) = {}
      <4>1. p.goal # "reconcile" BY <1>2, <2>2 DEF SoundPass
      <4>2. \/ q = Idle
            \/ q = [p EXCEPT !.at = "list", !.limit = n]
            \/ q = [p EXCEPT !.at = "list", !.limit = n, !.todo = markers]
        BY <1>1, <3>2 DEF WithLimit
      <4>3. CASE q = [p EXCEPT !.at = "list", !.limit = n]
        BY <1>2, <4>1, <4>3, StagesRest
      <4>4. CASE q = [p EXCEPT !.at = "list", !.limit = n, !.todo = markers]
        BY <1>2, <4>1, <4>4, StagesRest
      <4> QED BY <1>3, <4>2, <4>3, <4>4
    <3> QED BY <2>1, <3>1, <3>2
  <2> QED BY <1>6, <2>1, <2>3
<1>8. CASE ListCandidates(x)
  <2>1. p.at = "list" /\ p.goal # "reconcile" BY <1>1, <1>2, <1>8 DEF ListCandidates, SoundPass
  <2>2. Awaited(p) = {} BY <2>1 DEF Awaited
  <2>3. PICK js : js = IF p.goal = "app_fix" THEN AppFixCandidates(p.limit)
                       ELSE CookieCandidates(Head(p.todo), p.limit)
    OBVIOUS
  <2>4. PICK q :
          /\ pass' = [pass EXCEPT ![x] = q]
          /\ \/ js # << >> /\ q = [p EXCEPT !.at = "requeue", !.found = Read(js)]
             \/ q = AfterBatch(x)
             \/ q = [p EXCEPT !.at = "clear", !.shown = InSight(p.limit)]
    BY <1>1, <1>8, <2>3 DEF ListCandidates, Set
  <2>5. js \in Seq(Job) /\ Distinct(js) /\ \A n \in 1..Len(js) : rows[js[n]].attempts < MaxRecovery
    BY <2>3, CandidatesAreDue DEF RecoveryInv
  <2>6. CASE js # << >> /\ q = [p EXCEPT !.at = "requeue", !.found = Read(js)]
    <3>1. SoundPass(q) /\ \A j \in Awaited(q) : rows[j].attempts < MaxRecovery
      BY <1>2, <2>1, <2>5, <2>6, ListTaken DEF RecoveryInv
    <3> QED BY <1>6, <2>2, <2>4, <3>1
  <2>7. CASE q = AfterBatch(x) BY <1>4, <1>6, <2>4, <2>7
  <2>8. CASE q = [p EXCEPT !.at = "clear", !.shown = InSight(p.limit)]
    <3>1. SoundPass(q) /\ Awaited(q) = {} BY <1>2, <2>8, StagesRest
    <3> QED BY <1>6, <2>4, <3>1
  <2> QED BY <2>4, <2>6, <2>7, <2>8
<1>9. CASE ClearMarker(x)
  <2>1. PICK q : q = AfterBatch(x) OBVIOUS
  <2> QED BY <1>4, <1>6, <1>9, <2>1 DEF ClearMarker, Set
<1>10. ASSUME p.at \in {"requeue", "enqueue", "probe"}, pass' = [pass EXCEPT ![x] = NextFound(x)]
       PROVE  PassesInv' /\ OvershootInv'
  <2>1. p.found # << >> BY <1>2, <1>10 DEF SoundPass
  <2>2. SoundPass(NextFound(x)) /\ Awaited(NextFound(x)) \subseteq Awaited(p)
    BY <1>1, <1>2, <1>10, <2>1, NextFoundKeeps
  <2>3. PICK q : q = NextFound(x) OBVIOUS
  <2> QED BY <1>6, <1>10, <2>2, <2>3
<1>11. CASE EnqueueLands(x) BY <1>1, <1>10, <1>11 DEF EnqueueLands, Set
<1>12. CASE EnqueueFails(x) BY <1>1, <1>10, <1>12 DEF EnqueueFails, Set
<1>13. CASE x = "worker" /\ BeginMaintenance
  <2>1. PICK q : q = [Idle EXCEPT !.at = "measure", !.goal = "maintain"] OBVIOUS
  <2>2. SoundPass(q) /\ Awaited(q) = {} BY <1>2, <2>1, StagesRest
  <2> QED BY <1>6, <1>13, <2>1, <2>2 DEF BeginMaintenance, Set
<1>14. CASE x = "worker" /\ ListRequeues
  <2>1. p.at = "pending" /\ p.goal = "reconcile" BY <1>1, <1>2, <1>14 DEF ListRequeues, SoundPass
  <2>2. Awaited(p) = {} BY <2>1 DEF Awaited
  <2>3. PICK js : js = PendingRequeues OBVIOUS
  <2>4. js \in Seq(Job) /\ Distinct(js)
    <3> DEFINE S == FirstOf({n \in DOMAIN order : rows[order[n]].status = "queued"
                                                  /\ rows[order[n]].attempts > 0}, ReconcileSize)
    <3>1. S \in SUBSET DOMAIN order BY DEF FirstOf
    <3>2. js = JobsAt(S) BY <2>3 DEF PendingRequeues
    <3> HIDE DEF S
    <3> QED BY <3>1, <3>2, QueryLists DEF RecoveryInv
  <2>5. PICK q : /\ pass' = [pass EXCEPT ![x] = q]
                 /\ q = Idle \/ (js # << >> /\ q = [p EXCEPT !.at = "probe", !.found = Read(js)])
    BY <1>1, <1>14, <2>3 DEF ListRequeues, Set
  <2>6. CASE q = Idle BY <1>3, <1>6, <2>5, <2>6
  <2>7. CASE js # << >> /\ q = [p EXCEPT !.at = "probe", !.found = Read(js)]
    <3>1. SoundPass(q) /\ \A j \in Awaited(q) : rows[j].attempts < MaxRecovery
      BY <1>2, <2>1, <2>4, <2>7, ListTaken DEF RecoveryInv
    <3> QED BY <1>6, <2>2, <2>5, <3>1
  <2> QED BY <2>5, <2>6, <2>7
<1>15. CASE x = "worker" /\ ProbeRequeue
  <2>1. p.at = "probe" /\ p.goal = "reconcile" BY <1>1, <1>2, <1>15 DEF ProbeRequeue, SoundPass
  <2>2. CASE pass' = [pass EXCEPT ![x] = NextFound(x)] BY <1>10, <2>1, <2>2
  <2>3. CASE pass' = [pass EXCEPT ![x] = [p EXCEPT !.at = "enqueue"]]
    <3>1. PICK q : q = [p EXCEPT !.at = "enqueue"] OBVIOUS
    <3>2. PICK a0, g0, t0, n0, f0, s0 :
            p = [at |-> a0, goal |-> g0, todo |-> t0, limit |-> n0, found |-> f0, shown |-> s0]
      BY <1>2, PassFields
    <3>3. q = [at |-> "enqueue", goal |-> g0, todo |-> t0, limit |-> n0, found |-> f0, shown |-> s0]
      BY <3>1, <3>2
    <3>4. p.goal = g0 /\ p.limit = n0 /\ p.found = f0 BY <3>2
    <3>5. /\ q.at = "enqueue" /\ q.goal = p.goal /\ q.limit = p.limit /\ q.found = p.found
          /\ q = [at |-> q.at, goal |-> q.goal, todo |-> q.todo, limit |-> q.limit,
                  found |-> q.found, shown |-> q.shown]
      BY <3>3, <3>4
    <3>6. SoundPass(q)
      <4> HIDE <3>1, <3>2, <3>3
      <4> QED BY <1>2, <2>1, <3>5 DEF SoundPass
    <3>7. Awaited(q) = {} BY <2>1, <3>5 DEF Awaited
    <3> QED BY <1>6, <2>3, <3>1, <3>6, <3>7
  <2> QED BY <1>1, <1>15, <2>2, <2>3 DEF ProbeRequeue, Set
<1>16. CASE x = "worker" /\ \E v \in 1..MaxVersion : NewWorker(v)
  <2>1. PICK q : q = [Idle EXCEPT !.at = "measure", !.goal = "app_fix"] OBVIOUS
  <2>2. SoundPass(q) /\ Awaited(q) = {} BY <1>2, <2>1, StagesRest
  <2> QED BY <1>6, <1>16, <2>1, <2>2 DEF NewWorker, Set
<1>17. CASE x = "bot" /\ MarkProvider
  <2>1. p.at = "mark" /\ p.goal # "reconcile" BY <1>1, <1>2, <1>17 DEF MarkProvider, SoundPass
  <2>2. PICK q : q = [p EXCEPT !.at = "measure"] OBVIOUS
  <2>3. SoundPass(q) /\ Awaited(q) = {} BY <1>2, <2>1, <2>2, StagesRest
  <2> QED BY <1>1, <1>6, <1>17, <2>2, <2>3 DEF MarkProvider, Set
<1>18. CASE x = "bot" /\ NewBot
  <2>1. PICK q : q = Idle OBVIOUS
  <2> QED BY <1>3, <1>6, <1>18, <2>1 DEF NewBot, Set
<1>19. ASSUME x = "bot", NEW ps, UploadAccepted(ps) PROVE PassesInv' /\ OvershootInv'
  <2>1. PICK q : q = [Idle EXCEPT !.at = "mark", !.goal = "remediate", !.todo = ps] OBVIOUS
  <2>2. SoundPass(q) /\ Awaited(q) = {} BY <1>2, <2>1, StagesRest
  <2> QED BY <1>6, <1>19, <2>1, <2>2 DEF UploadAccepted, Set
<1> QED BY <1>7, <1>8, <1>9, <1>11, <1>12, <1>13, <1>14, <1>15, <1>16, <1>17, <1>18, <1>19

\* The invariant at the start.
LEMMA RecoveryInitially == RecoveryInit => RecoveryInv
<1> SUFFICES ASSUME RecoveryInit PROVE RecoveryInv OBVIOUS
<1>1. RowsInv
  <2>1. PICK classes \in FailedFor :
          rows = [j \in Job |-> [status |-> "failed", class |-> classes[j], attempts |-> 0,
                                 failedOn |-> 1, triedOn |-> 0]]
    BY DEF RecoveryInit
  <2>2. \A j \in Job : classes[j] \in {"cookie", "app_fix"} BY <2>1, RecoveryAssumption
  <2>3. version \in Nat BY DEF RecoveryInit
  <2> QED BY <2>1, <2>2, <2>3 DEF RowsInv, RowRecords
<1>2. \A j \in Job : rows[j].attempts = 0 BY DEF RecoveryInit
<1>3. OrderInv BY RecoveryAssumption DEF RecoveryInit, OrderInv, Distinct
<1>4. pass = [x \in Process |-> Idle] BY DEF RecoveryInit
<1>5. SoundPass(Idle) /\ Awaited(Idle) = {}
  <2>1. PICK e : e = << >> OBVIOUS
  <2>2. e \in Seq(Findings) /\ Len(e) = 0 BY <2>1
  <2>3. \A i \in 1..Len(e) : FALSE BY <2>2
  <2>4. Idle = PassOf("idle", "none", e, 0, e, {}) BY <2>1 DEF Idle, PassOf
  <2>5. \A i, k \in 1..Len(e) : e[i].job = e[k].job => i = k BY <2>3
  <2> QED BY <2>2, <2>4, <2>5, RestingPass
<1>6. PassesInv BY <1>4, <1>5 DEF PassesInv
<1>7. OvershootInv BY <1>2, <1>4, <1>5, RecoveryAssumption DEF OvershootInv, Process
<1> QED BY <1>1, <1>3, <1>6, <1>7 DEF RecoveryInv

\* Every step keeps the invariant; an attempt beyond the limit is only added from a list
\* that is older than the job's last one.
LEMMA RecoveryStep ==
  ASSUME RecoveryInv, [RecoveryNext]_recoveryVars
  PROVE  /\ RecoveryInv'
         /\ \A j \in Job : rows'[j].attempts > MaxRecovery =>
              \/ rows'[j].attempts = rows[j].attempts
              \/ \E x \in Process : /\ pass[x].at = "requeue"
                                    /\ Head(pass[x].found).job = j
                                    /\ Head(pass[x].found).attempts < MaxRecovery
                                    /\ rows'[j].attempts = rows[j].attempts + 1
<1>1. \A j \in Job : rows[j].attempts \in Nat
  BY DEF RecoveryInv, RowsInv, RowRecords
<1>2. CASE UNCHANGED recoveryVars
  <2>1. RecoveryInv'
    BY <1>2 DEF recoveryVars, RecoveryInv, RowsInv, OrderInv, Distinct, PassesInv, OvershootInv
  <2> QED BY <1>1, <1>2, <2>1 DEF recoveryVars
<1>3. CASE RecoveryNext
  <2>1. RowsInv' BY <1>3, RowsMove DEF RecoveryInv
  <2>2. OrderInv' BY <1>3, OrderMoves DEF RecoveryInv
  <2>3. ASSUME NEW x \in Process, Requeue(x)
        PROVE  /\ PassesInv' /\ OvershootInv'
               /\ \A j \in Job : \/ rows'[j].attempts = rows[j].attempts
                                 \/ /\ pass[x].at = "requeue" /\ Head(pass[x].found).job = j
                                    /\ Head(pass[x].found).attempts < MaxRecovery
                                    /\ rows'[j].attempts = rows[j].attempts + 1
    BY <2>1, <2>3, RequeueKeeps
  <2>4. ASSUME ~\E x \in Process : Requeue(x) PROVE PassesInv' /\ OvershootInv'
    <3>1. \A j \in Job : rows'[j].attempts <= rows[j].attempts
      BY <1>1, <1>3, <2>4, RowsMove DEF RecoveryInv
    <3>2. PICK b \in Process : b = "bot" BY DEF Process
    <3>3. PICK w \in Process : w = "worker" BY DEF Process
    <3>4. ASSUME NEW x \in Process, PassStep(x) PROVE PassesInv' /\ OvershootInv'
      <4>1. MeasureQueue(x) \/ ListCandidates(x) \/ ClearMarker(x) \/ EnqueueLands(x) \/ EnqueueFails(x)
        BY <2>4, <3>4 DEF PassStep
      <4>2. UNCHANGED rows
        BY <4>1 DEF MeasureQueue, ListCandidates, ClearMarker, EnqueueLands, EnqueueFails
      <4> QED BY <2>1, <4>1, <4>2, PassStepKeeps
    <3>5. CASE WorkerProgress
      <4>1. CASE BeginMaintenance \/ ListRequeues \/ ProbeRequeue
        <5>1. UNCHANGED rows BY <4>1 DEF BeginMaintenance, ListRequeues, ProbeRequeue
        <5> QED BY <2>1, <3>3, <4>1, <5>1, PassStepKeeps
      <4> QED BY <3>3, <3>4, <3>5, <4>1 DEF WorkerProgress
    <3>6. CASE BotProgress
      <4>1. CASE MarkProvider
        <5>1. UNCHANGED rows BY <4>1 DEF MarkProvider
        <5> QED BY <2>1, <3>2, <4>1, <5>1, PassStepKeeps
      <4> QED BY <3>2, <3>4, <3>6, <4>1 DEF BotProgress
    <3>7. CASE RunsEnd \/ \E j \in Job : GrowOld(j)
      <4>1. UNCHANGED pass
        BY <3>7 DEF RunsEnd, FailsAgain, Retires, EntryEnds, GrowOld
      <4> QED BY <2>1, <3>1, <4>1, PassesStay
    <3>8. ASSUME NEW ps, UploadAccepted(ps) PROVE PassesInv' /\ OvershootInv'
      <4>1. UNCHANGED rows BY <3>8 DEF UploadAccepted
      <4> QED BY <2>1, <3>2, <3>8, <4>1, PassStepKeeps
    <3>9. CASE NewBot
      <4>1. UNCHANGED rows BY <3>9 DEF NewBot
      <4> QED BY <2>1, <3>2, <3>9, <4>1, PassStepKeeps
    <3>10. CASE \E v \in 1..MaxVersion : NewWorker(v)
      <4>1. UNCHANGED rows BY <3>10 DEF NewWorker
      <4> QED BY <2>1, <3>3, <3>10, <4>1, PassStepKeeps
    <3> QED BY <1>3, <3>5, <3>6, <3>7, <3>8, <3>9, <3>10 DEF RecoveryNext
  <2>5. \/ \E x \in Process : Requeue(x)
        \/ \A j \in Job : rows'[j].attempts \in {0, rows[j].attempts}
    BY <1>3, RowsMove DEF RecoveryInv
  <2>6. MaxRecovery \in Nat BY RecoveryAssumption
  <2> QED BY <2>1, <2>2, <2>3, <2>4, <2>5, <2>6 DEF RecoveryInv
<1> QED BY <1>2, <1>3

-----------------------------------------------------------------------------
(* The theorems. *)

\* The invariant of the passes and their lists.
THEOREM RecoveryInvariant == RecoverySpec => []RecoveryInv
<1>1. RecoveryInv /\ [RecoveryNext]_recoveryVars => RecoveryInv' BY RecoveryStep
<1> QED BY RecoveryInitially, <1>1, PTL DEF RecoverySpec

\* A job is recovered at most MaxRecovery times, unless a pass listed it before the other
\* pass's attempt (mark_recovery_requeued looks at the status only).
THEOREM RecoveriesAreBounded == RecoverySpec => RecoveryIsBounded
<1> DEFINE Bounded ==
      \A j \in Job : rows'[j].attempts > MaxRecovery =>
        \/ rows'[j].attempts = rows[j].attempts
        \/ \E x \in Process : /\ pass[x].at = "requeue"
                              /\ Head(pass[x].found).job = j
                              /\ Head(pass[x].found).attempts < rows[j].attempts
<1>1. ASSUME RecoveryInv, [RecoveryNext]_recoveryVars PROVE Bounded
  <2> SUFFICES ASSUME NEW j \in Job, rows'[j].attempts > MaxRecovery,
                      rows'[j].attempts # rows[j].attempts
               PROVE  \E x \in Process : /\ pass[x].at = "requeue"
                                         /\ Head(pass[x].found).job = j
                                         /\ Head(pass[x].found).attempts < rows[j].attempts
    OBVIOUS
  <2>1. /\ rows[j].attempts \in Nat /\ rows'[j].attempts \in Nat /\ MaxRecovery \in Nat
    <3>1. RecoveryInv' BY <1>1, RecoveryStep
    <3> QED BY <1>1, <3>1, RecoveryAssumption DEF RecoveryInv, RowsInv, RowRecords
  <2>2. PICK x \in Process : /\ pass[x].at = "requeue"
                             /\ Head(pass[x].found).job = j
                             /\ Head(pass[x].found).attempts < MaxRecovery
                             /\ rows'[j].attempts = rows[j].attempts + 1
    BY <1>1, RecoveryStep
  <2>3. Head(pass[x].found) \in Findings
    <3>1. SoundPass(pass[x]) BY <1>1 DEF RecoveryInv, PassesInv
    <3>2. PICK f : f = pass[x].found OBVIOUS
    <3>3. f \in Seq(Findings) /\ f # << >> BY <2>2, <3>1, <3>2 DEF SoundPass
    <3> QED BY <3>2, <3>3
  <2>4. Head(pass[x].found).attempts \in Nat BY <2>3 DEF Findings
  <2>5. Head(pass[x].found).attempts < rows[j].attempts BY <2>1, <2>2, <2>4
  <2> QED BY <2>2, <2>5
<1> QED BY RecoveryInvariant, <1>1, PTL DEF RecoverySpec, RecoveryIsBounded

\* Whatever passes overlap, no job is recovered more than once beyond the limit.
THEOREM OvershootsOnce == RecoverySpec => []OvershootIsOne
<1>1. RecoveryInv => OvershootIsOne BY DEF RecoveryInv, OvershootInv, OvershootIsOne
<1> QED BY RecoveryInvariant, <1>1, PTL
=============================================================================
