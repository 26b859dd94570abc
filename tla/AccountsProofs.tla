--------------------------- MODULE AccountsProofs ---------------------------
(***************************************************************************)
(* A user's Instagram account: what is proved of the menus between a link  *)
(* and its downloads (Menus), of the jobs that borrow the user's session   *)
(* (InstagramSessions) and of the browser that connects it (WebCompanion). *)
(***************************************************************************)
EXTENDS WebCompanion, Menus, SequenceTheorems, FiniteSetTheorems, TLAPS

(***************************************************************************)
(* Menus.                                                                  *)
(***************************************************************************)

Topics == {"item", "profile", "highlights"}
Buttons == {"option", "image", "bundle", "single", "all", "highlight", "open", "pick", "auto"}
What == Topics \union ((Topics \union {"highlight"}) \X Buttons)
Kinds == {"tray", "inspection", "download"}
Policies == {"none", "user_only", "user_first", "operator_public"}
Keys == Kinds \X User \X What \X (Policies \union {"any"}) \X Nat
Origins == [user : User, asked : {"private", "forgotten", "public"}, generation : Nat]
Row == [kind : Kinds, user : User, what : What, key : Keys, policy : Policies,
        generation : Nat, status : {"active", "uncertain", "done", "failed"},
        entry : BOOLEAN, stuck : BOOLEAN, origin : Origins, askers : SUBSET Origins]
MenuType == [source : Nat, user : User, topic : Topics \union {"highlight"},
             shows : SUBSET Buttons, origin : Origins]

\* A request may be given the row of a job for the same user, private exactly if private
\* media was asked for, and then of the same generation of the session.
Fits(a, r) ==
  /\ a.user = r.user
  /\ a.asked = "private" <=> r.policy = "user_only"
  /\ a.asked = "private" => r.generation = a.generation

\* The key tells private rows from others, and it is of the row's user and generation.
KeyTells(r) ==
  /\ r.key[2] = r.user
  /\ r.key[4] = "user_only" <=> r.policy = "user_only"
  /\ r.policy = "user_only" => r.key[5] = r.generation

RowOK(r) ==
  /\ r \in Row
  /\ r.kind # "download" => r.what \in Topics
  /\ KeyTells(r)
  /\ Fits(r.origin, r)
  /\ \A a \in r.askers : Fits(a, r)
  /\ r.status = "active" => r.entry \/ r.stuck

\* At most one unfinished row has a key.
OnePerKey(t) ==
  \A i, j \in 1..Len(t) :
    t[i].status \in ActiveStatuses /\ t[j].status \in ActiveStatuses /\ t[i].key = t[j].key
      => i = j

GoodTable(t) == t \in Seq(Row) /\ (\A i \in 1..Len(t) : RowOK(t[i])) /\ OnePerKey(t)

\* What never changes of a row.
Same(r, s) ==
  /\ s.user = r.user /\ s.origin = r.origin /\ s.key = r.key
  /\ s.policy = "user_only" <=> r.policy = "user_only"
  /\ r.policy = "user_only" => s.generation = r.generation

Follows(t, n) == Len(t) <= Len(n) /\ \A i \in 1..Len(t) : Same(t[i], n[i])

MenuOK(m) ==
  /\ m \in MenuType
  /\ m.source \in 1..Len(rows)
  /\ m.user = rows[m.source].user /\ m.origin = rows[m.source].origin

UsersOK ==
  /\ fsm \in [User -> {"none", "private"}] /\ prompt \in [User -> {"none", "private"}]
  /\ \A u \in User : fsm[u] = "private" => prompt[u] = "private"
  /\ again \in [User -> Topic \union {"none"}]
  /\ account \in [User -> [entitled : BOOLEAN, connected : BOOLEAN, generation : Nat \ {0}]]

MenusInv == GoodTable(rows) /\ (\A m \in menus : MenuOK(m)) /\ UsersOK

\* Writing a row back keeps the table good, if it is still the same row and no more active.
LEMMA PutRow ==
  ASSUME NEW t, GoodTable(t), NEW i \in 1..Len(t), NEW r, RowOK(r), Same(t[i], r),
         r.status \in ActiveStatuses => t[i].status \in ActiveStatuses
  PROVE  GoodTable([t EXCEPT ![i] = r]) /\ Follows(t, [t EXCEPT ![i] = r])
<1> DEFINE n == [t EXCEPT ![i] = r]
<1>1. t \in Seq(Row) /\ r \in Row BY DEF GoodTable, RowOK
<1>2. /\ n \in Seq(Row) /\ Len(n) = Len(t)
      /\ \A j \in 1..Len(t) : n[j] = IF j = i THEN r ELSE t[j]
  BY <1>1, ExceptSeq
<1> HIDE DEF n
<1>3. \A j \in 1..Len(n) : RowOK(n[j]) BY <1>2 DEF GoodTable
<1>4. \A j \in 1..Len(t) : /\ n[j].key = t[j].key
                           /\ n[j].status \in ActiveStatuses => t[j].status \in ActiveStatuses
  BY <1>2 DEF Same
<1>5. OnePerKey(n)
  <2>1. OnePerKey(t) BY DEF GoodTable
  <2>2. Len(n) = Len(t) BY <1>2
  <2> QED BY <1>4, <2>1, <2>2, SMTT(30) DEF OnePerKey
<1>6. Follows(t, n) BY <1>2 DEF Follows, Same
<1> QED BY <1>2, <1>3, <1>5, <1>6 DEF GoodTable, n

\* So does a new row whose key no unfinished row has.
LEMMA AddRow ==
  ASSUME NEW t, GoodTable(t), NEW r, RowOK(r),
         \A i \in 1..Len(t) : t[i].status \in ActiveStatuses => t[i].key # r.key
  PROVE  GoodTable(Append(t, r)) /\ Follows(t, Append(t, r))
<1> DEFINE n == Append(t, r)
<1>1. t \in Seq(Row) /\ r \in Row /\ Len(t) \in Nat BY DEF GoodTable, RowOK
<1>2. /\ n \in Seq(Row) /\ Len(n) = Len(t) + 1 /\ n[Len(t) + 1] = r
      /\ \A j \in 1..Len(t) : n[j] = t[j]
  <2>1. /\ Append(t, r) \in Seq(Row) /\ Len(Append(t, r)) = Len(t) + 1
        /\ Append(t, r)[Len(t) + 1] = r
    BY <1>1
  <2>2. \A j \in 1..Len(t) : Append(t, r)[j] = t[j] BY <1>1
  <2> QED BY <2>1, <2>2
<1> HIDE DEF n
<1>3. \A j \in 1..Len(n) : j \in 1..Len(t) \/ j = Len(t) + 1 BY <1>1, <1>2
<1>4. \A j \in 1..Len(n) : RowOK(n[j]) BY <1>2, <1>3 DEF GoodTable
<1>5. OnePerKey(n) BY <1>2, <1>3 DEF GoodTable, OnePerKey
<1>6. Follows(t, n) BY <1>1, <1>2 DEF Follows, Same
<1> QED BY <1>2, <1>4, <1>5, <1>6 DEF GoodTable, n

\* The twin that is given to a request fits it, and a new row too.
LEMMA SubmitFits ==
  ASSUME GoodTable(rows), NEW t, GoodTable(t), Len(t) = Len(rows),
         \A i \in 1..Len(t) : /\ t[i].key = rows[i].key
                              /\ t[i].status \in ActiveStatuses => rows[i].status \in ActiveStatuses,
         NEW kind \in Kinds, NEW u \in User, NEW what \in What, NEW policy \in Policies,
         NEW generation \in Nat, NEW origin \in Origins, NEW ok \in BOOLEAN,
         NEW caller \in {"link", "cut", "download", "open", "inspection"},
         kind # "download" => what \in Topics,
         origin.user = u, origin.asked = "private" <=> policy = "user_only",
         origin.asked = "private" => origin.generation = generation
  PROVE  LET n == Submit(t, kind, u, what, policy, generation, origin, caller, ok)
         IN GoodTable(n) /\ Follows(t, n)
<1> DEFINE key == Key(kind, u, what, policy, generation)
           new == [kind |-> kind, user |-> u, what |-> what, key |-> key, policy |-> policy,
                   generation |-> generation, status |-> "active", entry |-> FALSE,
                   stuck |-> FALSE, origin |-> origin, askers |-> {}]
           given(row) == [row EXCEPT !.askers = @ \union {origin},
                            !.stuck = @ \/ (~ok /\ caller \in {"open", "cut", "inspection"})]
           twins == SameKey(key)
           x == Max(twins)
<1>1. /\ key \in Keys /\ key[2] = u
      /\ key[4] = "user_only" <=> policy = "user_only"
      /\ policy = "user_only" => key[5] = generation
  BY DEF Key, Keys, Policies
<1> HIDE DEF key
<1>2. CASE twins = {}
  <2> DEFINE r == Handed(given(new), TRUE, caller, ok)
             cut == ~ok /\ caller \in {"open", "cut", "inspection"}
             status == IF ~ok /\ caller \in {"link", "download"} THEN "failed" ELSE "active"
  <2>1. new \in Row BY <1>1 DEF Row
  <2>2. /\ given(new) \in Row /\ given(new).askers = {origin}
        /\ given(new).stuck <=> cut
        /\ given(new).kind = kind /\ given(new).user = u /\ given(new).what = what
        /\ given(new).key = key /\ given(new).policy = policy
        /\ given(new).generation = generation /\ given(new).origin = origin
        /\ given(new).status = "active" /\ given(new).entry = FALSE
    <3> DEFINE askers == new.askers \union {origin}
               stuck == new.stuck \/ cut
    <3>1. askers \in SUBSET Origins /\ askers = {origin} OBVIOUS
    <3>2. stuck \in BOOLEAN /\ (stuck <=> cut) OBVIOUS
    <3>3. given(new) = [new EXCEPT !.askers = askers, !.stuck = stuck] OBVIOUS
    <3>4. /\ new.kind = kind /\ new.user = u /\ new.what = what /\ new.key = key
          /\ new.policy = policy /\ new.generation = generation /\ new.origin = origin
          /\ new.status = "active" /\ new.entry = FALSE
      OBVIOUS
    <3> HIDE DEF askers, stuck, new, given, cut
    <3> QED BY <2>1, <3>1, <3>2, <3>3, <3>4 DEF Row
  <2> HIDE DEF given, new
  <2>3. r \in Row /\ RowOK(r) /\ r.key = key
    <3>1. CASE ok
      <4>1. r = [given(new) EXCEPT !.entry = TRUE]
        BY <2>2, <3>1 DEF Handed, Enqueues, Row
      <4>2. r \in Row BY <2>2, <4>1 DEF Row
      <4>3. /\ r.kind = kind /\ r.user = u /\ r.what = what /\ r.key = key /\ r.policy = policy
            /\ r.generation = generation /\ r.origin = origin /\ r.askers = {origin}
            /\ r.status = "active" => r.entry
        BY <2>2, <4>1 DEF Row
      <4> HIDE DEF r
      <4> QED BY <1>1, <4>2, <4>3 DEF RowOK, KeyTells, Fits
    <3>2. CASE ~ok /\ caller \in {"link", "download"}
      <4>1. r = [given(new) EXCEPT !.status = "failed"] BY <3>2 DEF Handed
      <4>2. r \in Row BY <2>2, <4>1 DEF Row
      <4>3. /\ r.kind = kind /\ r.user = u /\ r.what = what /\ r.key = key /\ r.policy = policy
            /\ r.generation = generation /\ r.origin = origin /\ r.askers = {origin}
            /\ r.status = "active" => r.entry
        BY <2>2, <4>1 DEF Row
      <4> HIDE DEF r
      <4> QED BY <1>1, <4>2, <4>3 DEF RowOK, KeyTells, Fits
    <3>3. CASE cut
      <4>1. r = given(new) BY <3>3 DEF Handed
      <4>2. r \in Row BY <2>2, <4>1
      <4>3. /\ r.kind = kind /\ r.user = u /\ r.what = what /\ r.key = key /\ r.policy = policy
            /\ r.generation = generation /\ r.origin = origin /\ r.askers = {origin}
            /\ r.stuck
        BY <2>2, <3>3, <4>1
      <4> HIDE DEF r
      <4> QED BY <1>1, <4>2, <4>3 DEF RowOK, KeyTells, Fits
    <3> QED BY <3>1, <3>2, <3>3
  <2> HIDE DEF r
  <2>4. \A i \in 1..Len(t) : t[i].status \in ActiveStatuses => t[i].key # key
    BY <1>2 DEF SameKey, GoodTable
  <2>5. Submit(t, kind, u, what, policy, generation, origin, caller, ok) = Append(t, r)
    BY <1>2 DEF Submit, r, key, given, new
  <2> QED BY <2>3, <2>4, <2>5, AddRow
<1>3. CASE twins # {}
  <2>1. PICK y \in twins : TRUE BY <1>3
  <2>2. twins = {y} /\ y \in 1..Len(rows)
    BY <2>1 DEF SameKey, GoodTable, OnePerKey
  <2>3. y \in Int BY <2>2 DEF GoodTable
  <2>4. x = y BY <2>2, <2>3 DEF Max
  <2> DEFINE r == Handed(given(t[x]), FALSE, caller, ok)
  <2>5. /\ t[x] \in Row /\ t[x].key = key /\ RowOK(t[x])
    BY <2>1, <2>2, <2>4 DEF SameKey, GoodTable, RowOK
  <2>6. r = [t[x] EXCEPT !.askers = t[x].askers \union {origin},
                         !.stuck = t[x].stuck \/ (~ok /\ caller \in {"open", "cut", "inspection"}),
                         !.entry = t[x].entry \/ (ok /\ Enqueues(given(t[x]), FALSE, caller))]
    <3>1. CASE ok BY <2>5, <3>1 DEF Handed, Row
    <3>2. CASE ~ok BY <2>5, <3>2 DEF Handed, Row
    <3> QED BY <3>1, <3>2
  <2>7. /\ r \in Row /\ Same(t[x], r) /\ r.kind = t[x].kind /\ r.what = t[x].what
        /\ r.status = t[x].status /\ r.askers = t[x].askers \union {origin}
        /\ t[x].entry \/ t[x].stuck => r.entry \/ r.stuck
    <3> DEFINE stuck == t[x].stuck \/ (~ok /\ caller \in {"open", "cut", "inspection"})
               entry == t[x].entry \/ (ok /\ Enqueues(given(t[x]), FALSE, caller))
               askers == t[x].askers \union {origin}
    <3>1. /\ stuck \in BOOLEAN /\ entry \in BOOLEAN /\ askers \in SUBSET Origins
          /\ t[x].entry \/ t[x].stuck => entry \/ stuck
      BY <2>5 DEF Row
    <3>2. r = [t[x] EXCEPT !.askers = askers, !.stuck = stuck, !.entry = entry] BY <2>6
    <3> HIDE DEF stuck, entry, askers, r
    <3>3. r.stuck = stuck /\ r.entry = entry BY <2>5, <3>2 DEF Row
    <3> USE DEF askers
    <3> QED BY <2>5, <3>1, <3>2, <3>3 DEF Row, Same
  <2> HIDE DEF r
  <2>8. Fits(origin, t[x]) /\ Fits(t[x].origin, t[x]) /\ KeyTells(t[x])
    BY <1>1, <2>5 DEF Fits, RowOK, KeyTells
  <2>9. RowOK(r)
    BY <2>5, <2>7, <2>8 DEF RowOK, Same, Fits, KeyTells
  <2>10. Submit(t, kind, u, what, policy, generation, origin, caller, ok) = [t EXCEPT ![x] = r]
    BY <1>3 DEF Submit, r, key
  <2>11. x \in 1..Len(t) BY <2>2, <2>4
  <2> HIDE DEF x
  <2>12. GoodTable([t EXCEPT ![x] = r]) /\ Follows(t, [t EXCEPT ![x] = r])
    BY <2>7, <2>9, <2>11, PutRow
  <2> QED BY <2>10, <2>12
<1> QED BY <1>2, <1>3

\* A link gets a row of the session it was accepted for, or a public one.
LEMMA LinkStep ==
  ASSUME MenusInv, NEW u \in User, NEW t \in Topic, NEW ok \in BOOLEAN,
         NEW caller \in {"link", "cut"}
  PROVE  GoodTable(LinkRows(u, t, ok, caller)) /\ Follows(rows, LinkRows(u, t, ok, caller))
<1> DEFINE authorization == IF fsm[u] = "private" THEN account[u].generation ELSE 0
           kind == IF t = "highlights" THEN "tray" ELSE "inspection"
<1>1. /\ authorization \in Nat /\ (authorization = 0 <=> fsm[u] # "private")
      /\ fsm[u] = "private" => authorization = account[u].generation
  BY DEF MenusInv, UsersOK
<1>2. /\ LinkOrigin(u).user = u /\ LinkOrigin(u) \in Origins
      /\ LinkOrigin(u).asked = "private" <=> fsm[u] = "private"
      /\ LinkOrigin(u).generation = authorization
  BY <1>1 DEF LinkOrigin, Origins, MenusInv, UsersOK
<1>3. /\ PolicyOf(authorization) \in Policies
      /\ PolicyOf(authorization) = "user_only" <=> fsm[u] = "private"
  BY <1>1 DEF PolicyOf, Policies
<1>4. kind \in Kinds /\ t \in What /\ t \in Topics /\ GoodTable(rows)
  BY TopicAssumption DEF Kinds, What, Topics, MenusInv
<1>5. LinkRows(u, t, ok, caller) = Submit(rows, kind, u, t, PolicyOf(authorization),
                                          authorization, LinkOrigin(u), caller, ok)
  BY DEF LinkRows
<1> HIDE DEF authorization, kind
<1> QED BY <1>1, <1>2, <1>3, <1>4, <1>5, SubmitFits

\* A button is answered with a row that is private exactly if the row its menu comes from
\* is, and then of the same generation.
LEMMA PressStep ==
  ASSUME MenusInv, NEW u \in User, NEW m \in menus, MayContinue(u, m), NEW kind \in Kinds,
         NEW what \in What, kind # "download" => what \in Topics, NEW ok \in BOOLEAN,
         NEW caller \in {"download", "open"}
  PROVE  LET n == Submit(rows, kind, u, what, PolicyOf(Continuation(u, m)),
                         Continuation(u, m), Asker(u, m), caller, ok)
         IN GoodTable(n) /\ Follows(rows, n)
<1>1. /\ m \in MenuType /\ m.source \in 1..Len(rows) /\ m.source # 0
      /\ m.user = rows[m.source].user /\ m.origin = rows[m.source].origin
      /\ RowOK(rows[m.source]) /\ GoodTable(rows)
  BY DEF MenusInv, MenuOK, GoodTable
<1>2. m.user = u /\ Asker(u, m) = m.origin
  BY <1>1 DEF MayContinue, Asker, RowOK, Fits, MenuType, Origins
<1>3. account[u].generation \in Nat \ {0} BY DEF MenusInv, UsersOK
<1>4. /\ Continuation(u, m) \in Nat
      /\ Continuation(u, m) = 0 <=> rows[m.source].policy # "user_only"
      /\ rows[m.source].policy = "user_only" =>
           Continuation(u, m) = rows[m.source].generation
  BY <1>1, <1>3 DEF Continuation, IsPrivate, MayContinue
<1>5. /\ PolicyOf(Continuation(u, m)) \in Policies
      /\ PolicyOf(Continuation(u, m)) = "user_only" <=> rows[m.source].policy = "user_only"
  BY <1>4 DEF PolicyOf, Policies
<1>6. /\ m.origin \in Origins /\ m.origin.user = u
      /\ m.origin.asked = "private" <=> rows[m.source].policy = "user_only"
      /\ m.origin.asked = "private" => m.origin.generation = rows[m.source].generation
  BY <1>1, <1>2 DEF RowOK, Fits, MenuType
<1> QED BY <1>1, <1>2, <1>4, <1>5, <1>6, SubmitFits

\* The session of a public job changes neither whose it is nor whether it is private.
LEMMA SessionKeeps ==
  ASSUME MenusInv, NEW r, RowOK(r), NEW status \in {"active", "uncertain", "done", "failed"}
  PROVE  /\ RowOK(WithSession(r)) /\ Same(r, WithSession(r))
         /\ WithSession(r).status = r.status /\ WithSession(r).kind = r.kind
         /\ WithSession(r).what = r.what
         /\ status # "active" => /\ RowOK(Ended(r, status)) /\ Same(r, Ended(r, status))
                                 /\ Ended(r, status).status = status
<1>1. r \in Row /\ r.user \in User /\ account[r.user].generation \in Nat
  BY DEF RowOK, Row, MenusInv, UsersOK
<1>2. \/ WithSession(r) = r
      \/ /\ r.policy = "none"
         /\ \E policy \in {"user_first", "operator_public"}, n \in Nat :
              WithSession(r) = [r EXCEPT !.policy = policy, !.generation = n]
  <2>1. CASE r.policy # "none" BY <2>1 DEF WithSession
  <2>2. CASE r.policy = "none" /\ account[r.user].connected
    BY <1>1, <2>2 DEF WithSession
  <2>3. CASE r.policy = "none" /\ ~account[r.user].connected
    <3>1. WithSession(r) = [r EXCEPT !.policy = "operator_public"] BY <2>3 DEF WithSession
    <3>2. @ = [r EXCEPT !.policy = "operator_public", !.generation = r.generation]
      BY <1>1 DEF Row
    <3>3. r.generation \in Nat BY <1>1 DEF Row
    <3> QED BY <2>3, <3>1, <3>2, <3>3
  <2> QED BY <2>1, <2>2, <2>3
<1> DEFINE s == WithSession(r)
<1>3. /\ s \in Row /\ s.user = r.user /\ s.origin = r.origin /\ s.key = r.key
      /\ s.askers = r.askers /\ s.kind = r.kind /\ s.what = r.what
      /\ s.status = r.status /\ s.entry = r.entry /\ s.stuck = r.stuck
      /\ s.policy = "user_only" <=> r.policy = "user_only"
      /\ r.policy = "user_only" => s.generation = r.generation
  BY <1>1, <1>2 DEF Row, Policies
<1> HIDE DEF s
<1>4. RowOK(s) /\ Same(r, s) BY <1>3 DEF RowOK, Same, KeyTells, Fits
<1>5. ASSUME status # "active"
      PROVE  RowOK(Ended(r, status)) /\ Same(r, Ended(r, status)) /\ Ended(r, status).status = status
  <2> DEFINE e == Ended(r, status)
  <2>1. e = [s EXCEPT !.status = status, !.entry = FALSE] BY DEF Ended, s
  <2>2. /\ e \in Row /\ e.user = s.user /\ e.origin = s.origin /\ e.key = s.key
        /\ e.askers = s.askers /\ e.kind = s.kind /\ e.what = s.what
        /\ e.status = status /\ e.policy = s.policy /\ e.generation = s.generation
    BY <1>3, <2>1 DEF Row
  <2> HIDE DEF e
  <2>3. RowOK(e) /\ Same(r, e) BY <1>4, <1>5, <2>2 DEF RowOK, Same, KeyTells, Fits
  <2> QED BY <2>2, <2>3 DEF e
<1> QED BY <1>3, <1>4, <1>5 DEF s

\* The automatic continuation carries what its inspection was accepted for.
LEMMA ContinueStep ==
  ASSUME MenusInv, NEW i \in DOMAIN rows, NEW ok \in BOOLEAN,
         rows[i].what = "item", rows[i].status = "active"
  PROVE  GoodTable(ContinueAs(i, ok)) /\ Follows(rows, ContinueAs(i, ok))
<1> DEFINE s == WithSession(rows[i])
           e == IF ok THEN Ended(rows[i], "done") ELSE s
           t == [rows EXCEPT ![i] = e]
<1>1. /\ GoodTable(rows) /\ i \in 1..Len(rows) /\ RowOK(rows[i]) /\ rows \in Seq(Row)
  BY DEF MenusInv, GoodTable
<1>2. /\ RowOK(s) /\ Same(rows[i], s) /\ s.status = "active"
      /\ RowOK(e) /\ Same(rows[i], e)
  BY <1>1, SessionKeeps
<1>3. rows[i].status \in ActiveStatuses BY DEF ActiveStatuses
<1>4. GoodTable(t) /\ Follows(rows, t) BY <1>1, <1>2, <1>3, PutRow
<1>5. /\ Len(t) = Len(rows)
      /\ \A j \in 1..Len(t) : t[j] = IF j = i THEN e ELSE rows[j]
  BY <1>1
<1>6. ContinueAs(i, ok) = Submit(t, "download", s.user, <<rows[i].what, "auto">>, s.policy,
                                 s.generation, s.origin, "inspection", ok)
  <2>1. s.what = rows[i].what BY <1>1, SessionKeeps
  <2>2. t = [rows EXCEPT ![i] = IF ok THEN Ended(@, "done") ELSE WithSession(@)] OBVIOUS
  <2> QED BY <2>1, <2>2 DEF ContinueAs
<1> HIDE DEF s, e, t
<1>7. \A j \in 1..Len(t) :
        /\ t[j].key = rows[j].key
        /\ t[j].status \in ActiveStatuses => rows[j].status \in ActiveStatuses
  BY <1>2, <1>3, <1>5 DEF Same
<1>8. /\ s.user \in User /\ s.policy \in Policies /\ s.generation \in Nat /\ s.origin \in Origins
      /\ Fits(s.origin, s) /\ <<rows[i].what, "auto">> \in What /\ "download" \in Kinds
  BY <1>2 DEF RowOK, Row, What, Topics, Buttons, Kinds
<1>9. GoodTable(ContinueAs(i, ok)) /\ Follows(t, ContinueAs(i, ok))
  BY <1>1, <1>4, <1>5, <1>6, <1>7, <1>8, SubmitFits DEF Fits
<1> QED BY <1>4, <1>5, <1>9 DEF Follows, Same

\* Every step leaves a good table that follows the one before.
LEMMA TableStep ==
  ASSUME MenusInv, MenusSteps
  PROVE  GoodTable(rows') /\ Follows(rows, rows')
<1>1. /\ GoodTable(rows) /\ Follows(rows, rows) /\ rows \in Seq(Row)
      /\ Len(rows) \in Nat /\ DOMAIN rows = 1..Len(rows)
  BY DEF MenusInv, GoodTable, Follows, Same
<1>2. ASSUME UNCHANGED rows PROVE GoodTable(rows') /\ Follows(rows, rows')
  BY <1>1, <1>2
<1>3. ASSUME NEW i \in 1..Len(rows), NEW r, RowOK(r), Same(rows[i], r),
             r.status \in ActiveStatuses => rows[i].status \in ActiveStatuses,
             rows' = [rows EXCEPT ![i] = r]
      PROVE  GoodTable(rows') /\ Follows(rows, rows')
  <2>1. GoodTable([rows EXCEPT ![i] = r]) /\ Follows(rows, [rows EXCEPT ![i] = r])
    BY <1>1, <1>3, PutRow
  <2> QED BY <1>3, <2>1
<1>4. ASSUME NEW u \in User, NEW t \in Topic, NEW ok \in BOOLEAN, SubmitLink(u, t, ok)
      PROVE  GoodTable(rows') /\ Follows(rows, rows')
  BY <1>2, <1>4, LinkStep DEF SubmitLink
<1>5. ASSUME NEW u \in User,
             \/ BeginPublic(u) \/ BeginPrivate(u) \/ ReplayLink(u) \/ UserChanges(u) \/ Recheck(u)
      PROVE  GoodTable(rows') /\ Follows(rows, rows')
  <2>1. CASE ReplayLink(u)
    <3>1. again[u] \in Topic BY <2>1 DEF ReplayLink, MenusInv, UsersOK
    <3> QED BY <1>4, <2>1, <3>1 DEF ReplayLink
  <2> QED BY <1>2, <1>5, <2>1 DEF BeginPublic, BeginPrivate, UserChanges, Recheck
<1>6. ASSUME NEW u \in User, NEW t \in Topic,
             CutLink(u, t) \/ \E ok \in BOOLEAN : SendLink(u, t, ok)
      PROVE  GoodTable(rows') /\ Follows(rows, rows')
  BY <1>4, <1>6, LinkStep DEF CutLink, SendLink
<1>7. ASSUME NEW u \in User, NEW m \in menus, NEW ok \in BOOLEAN, NEW button \in Buttons,
             PressDownload(u, m, button, ok)
      PROVE  GoodTable(rows') /\ Follows(rows, rows')
  <2>1. /\ MayContinue(u, m) /\ m.user = u
        /\ rows' = Submit(rows, "download", u, <<m.topic, button>>, PolicyOf(Continuation(u, m)),
                          Continuation(u, m), Asker(u, m), "download", ok)
    BY <1>7 DEF PressDownload, PressStarts, MayContinue
  <2>2. <<m.topic, button>> \in What /\ "download" \in Kinds
    BY DEF MenusInv, MenuOK, MenuType, What, Kinds
  <2> QED BY <2>1, <2>2, PressStep
<1>8. ASSUME NEW u \in User, NEW m \in menus, NEW ok \in BOOLEAN,
             \/ ChooseNativeOption(u, m, ok) \/ ChooseImageDelivery(u, m, ok)
             \/ ChooseMediaBundle(u, m, ok) \/ ChooseSingleStory(u, m, ok)
             \/ ChooseAllStories(u, m, ok)
      PROVE  GoodTable(rows') /\ Follows(rows, rows')
  BY <1>7, <1>8 DEF ChooseNativeOption, ChooseImageDelivery, ChooseMediaBundle,
                    ChooseSingleStory, ChooseAllStories, Buttons
<1>9. ASSUME NEW u \in User, NEW m \in menus, NEW ok \in BOOLEAN, PressOpen(u, m, ok)
      PROVE  GoodTable(rows') /\ Follows(rows, rows')
  <2>1. /\ MayContinue(u, m)
        /\ rows' = Submit(rows, "tray", u, "highlights", PolicyOf(Continuation(u, m)),
                          Continuation(u, m), Asker(u, m), "open", ok)
    BY <1>9 DEF PressOpen, PressStarts
  <2>2. "highlights" \in What /\ "highlights" \in Topics /\ "tray" \in Kinds
    BY DEF What, Topics, Kinds
  <2> QED BY <2>1, <2>2, PressStep
<1>10. ASSUME NEW i \in DOMAIN rows, NEW status \in {"done", "failed", "uncertain"},
              rows[i].status = "active", rows' = [rows EXCEPT ![i] = Ended(@, status)]
       PROVE  GoodTable(rows') /\ Follows(rows, rows')
  <2>1. RowOK(rows[i]) BY <1>1 DEF GoodTable
  <2>2. RowOK(Ended(rows[i], status)) /\ Same(rows[i], Ended(rows[i], status))
    BY <2>1, SessionKeeps
  <2> QED BY <1>1, <1>3, <1>10, <2>2 DEF ActiveStatuses
<1>11. ASSUME NEW i \in DOMAIN rows,
              \/ \E shows \in MenusOf[rows[i].what] : PublishMenu(i, shows)
              \/ \E status \in {"done", "failed", "uncertain"} : JobEndsAs(i, status)
       PROVE  GoodTable(rows') /\ Follows(rows, rows')
  BY <1>10, <1>11 DEF PublishMenu, Runs, JobEndsAs
<1>12. ASSUME NEW i \in DOMAIN rows, NEW ok \in BOOLEAN, AutoContinue(i, ok)
       PROVE  GoodTable(rows') /\ Follows(rows, rows')
  BY <1>12, ContinueStep DEF AutoContinue, Runs
<1>13. ASSUME NEW i \in DOMAIN rows, ResolveUncertain(i)
       PROVE  GoodTable(rows') /\ Follows(rows, rows')
  <2> DEFINE r == [rows[i] EXCEPT !.status = "failed"]
  <2>1. RowOK(rows[i]) BY <1>1 DEF GoodTable
  <2>2. /\ r \in Row /\ r.kind = rows[i].kind /\ r.what = rows[i].what
        /\ r.askers = rows[i].askers /\ r.policy = rows[i].policy
        /\ r.generation = rows[i].generation /\ r.user = rows[i].user
        /\ r.key = rows[i].key /\ r.origin = rows[i].origin /\ r.status = "failed"
    BY <2>1 DEF RowOK, Row
  <2>3. rows' = [rows EXCEPT ![i] = r] BY <1>13 DEF ResolveUncertain
  <2> HIDE DEF r
  <2>4. RowOK(r) /\ Same(rows[i], r) BY <2>1, <2>2 DEF RowOK, Same, KeyTells, Fits
  <2> QED BY <1>1, <1>3, <2>2, <2>3, <2>4 DEF ActiveStatuses
<1>14. CASE WorkerRestarts
  <2>1. rows' = ReconcileRows BY <1>14 DEF WorkerRestarts
  <2>2. \A i \in 1..Len(rows) :
          /\ rows'[i] \in Row /\ rows'[i].status = rows[i].status
          /\ rows'[i].kind = rows[i].kind /\ rows'[i].what = rows[i].what
          /\ rows'[i].askers = rows[i].askers /\ rows'[i].policy = rows[i].policy
          /\ rows'[i].generation = rows[i].generation /\ rows'[i].user = rows[i].user
          /\ rows'[i].key = rows[i].key /\ rows'[i].origin = rows[i].origin
          /\ rows'[i].status = "active" => rows'[i].entry
    <3> TAKE i \in 1..Len(rows)
    <3>1. rows[i] \in Row BY <1>1
    <3>2. rows'[i] = IF rows[i].status = "active" THEN [rows[i] EXCEPT !.entry = TRUE]
                     ELSE rows[i]
      BY <1>1, <2>1 DEF ReconcileRows
    <3>3. CASE rows[i].status = "active"
      <4>1. rows'[i] = [rows[i] EXCEPT !.entry = TRUE] BY <3>2, <3>3
      <4> QED BY <3>1, <4>1 DEF Row
    <3>4. CASE rows[i].status # "active"
      <4>1. rows'[i] = rows[i] BY <3>2, <3>4
      <4> QED BY <3>1, <3>4, <4>1
    <3> QED BY <3>3, <3>4
  <2>3. rows' \in Seq(Row) /\ Len(rows') = Len(rows)
    BY <1>1, <2>1, <2>2 DEF ReconcileRows
  <2>4. \A i \in 1..Len(rows) : RowOK(rows'[i]) /\ Same(rows[i], rows'[i])
    BY <1>1, <2>2 DEF GoodTable, RowOK, Same, KeyTells, Fits
  <2>5. OnePerKey(rows') BY <1>1, <2>2, <2>3 DEF GoodTable, OnePerKey
  <2> QED BY <2>3, <2>4, <2>5 DEF GoodTable, Follows
<1>15. CASE BotRestarts BY <1>2, <1>15 DEF BotRestarts
<1>16. ASSUME NEW u \in User, NEW m \in menus, PressPick(u, m) \/ PressRefused(u)
       PROVE  GoodTable(rows') /\ Follows(rows, rows')
  BY <1>2, <1>16 DEF PressPick, PressRefused
<1>17. ASSUME NEW m \in menus, MenuExpires(m) PROVE GoodTable(rows') /\ Follows(rows, rows')
  BY <1>2, <1>17 DEF MenuExpires
<1> QED BY SenderAssumption, <1>5, <1>6, <1>8, <1>9, <1>11, <1>12, <1>13, <1>14, <1>15, <1>16, <1>17
        DEF MenusSteps

\* The memory of a prompt is never more private than the prompt itself.
LEMMA UsersStep ==
  ASSUME UsersOK, MenusSteps
  PROVE  UsersOK'
<1> USE DEF UsersOK
<1>1. ASSUME NEW u \in User,
             \/ BeginPublic(u) \/ BeginPrivate(u)
             \/ \E t \in Topic, ok \in BOOLEAN : SendLink(u, t, ok)
      PROVE  UsersOK'
  BY <1>1 DEF BeginPublic, BeginPrivate, SendLink, SubmitLink
<1>2. ASSUME NEW u \in User, ReplayLink(u) PROVE UsersOK'
  <2>1. again' \in [User -> Topic \union {"none"}] BY <1>2 DEF ReplayLink, Nobody
  <2>2. UNCHANGED account BY <1>2 DEF ReplayLink, SubmitLink
  <2>3. \/ UNCHANGED <<fsm, prompt>>
        \/ fsm' = [fsm EXCEPT ![u] = "none"] /\ prompt' = [prompt EXCEPT ![u] = "none"]
    BY <1>2 DEF ReplayLink, SubmitLink
  <2> QED BY <2>1, <2>2, <2>3
<1>3. ASSUME NEW u \in User, NEW t \in Topic, CutLink(u, t) PROVE UsersOK'
  BY <1>3 DEF CutLink, Nobody
<1>4. ASSUME NEW u \in User, UserChanges(u) PROVE UsersOK'
  <2>1. UNCHANGED <<fsm, prompt, again>> BY <1>4 DEF UserChanges
  <2>2. account' \in [User -> [entitled : BOOLEAN, connected : BOOLEAN, generation : Nat \ {0}]]
    <3>1. CASE account' = [account EXCEPT ![u].entitled = ~@]
      <4>1. account' = [account EXCEPT ![u] = [account[u] EXCEPT !.entitled = ~account[u].entitled]]
        BY <3>1
      <4>2. [account[u] EXCEPT !.entitled = ~account[u].entitled]
              \in [entitled : BOOLEAN, connected : BOOLEAN, generation : Nat \ {0}]
        OBVIOUS
      <4> QED BY <4>1, <4>2
    <3>2. CASE account' = [account EXCEPT ![u].connected = FALSE]
      <4>1. account' = [account EXCEPT ![u] = [account[u] EXCEPT !.connected = FALSE]] BY <3>2
      <4>2. [account[u] EXCEPT !.connected = FALSE]
              \in [entitled : BOOLEAN, connected : BOOLEAN, generation : Nat \ {0}]
        OBVIOUS
      <4> QED BY <4>1, <4>2
    <3>3. CASE account' = [account EXCEPT ![u].connected = TRUE, ![u].generation = @ + 1]
      <4>1. account' = [account EXCEPT ![u] = [account[u] EXCEPT
                          !.connected = TRUE, !.generation = account[u].generation + 1]]
        BY <3>3
      <4>2. account[u].generation + 1 \in Nat \ {0} OBVIOUS
      <4>3. [account[u] EXCEPT !.connected = TRUE, !.generation = account[u].generation + 1]
              \in [entitled : BOOLEAN, connected : BOOLEAN, generation : Nat \ {0}]
        BY <4>2
      <4> QED BY <4>1, <4>3
    <3>4. CASE account' = account BY <3>4
    <3> QED BY <1>4, <3>1, <3>2, <3>3, <3>4 DEF UserChanges, AccountChanges, AccessChanges
  <2> QED BY <2>1, <2>2
<1>5. CASE BotRestarts BY <1>5 DEF BotRestarts, Nobody
<1>6. CASE UNCHANGED <<fsm, prompt, again, account>> BY <1>6
<1>7. ASSUME NEW u \in User, NEW m \in menus,
             \/ PressPick(u, m) \/ PressRefused(u)
             \/ \E ok \in BOOLEAN :
                  \/ ChooseNativeOption(u, m, ok) \/ ChooseImageDelivery(u, m, ok)
                  \/ ChooseMediaBundle(u, m, ok) \/ ChooseSingleStory(u, m, ok)
                  \/ ChooseAllStories(u, m, ok) \/ PressOpen(u, m, ok)
      PROVE  UNCHANGED <<fsm, prompt, again, account>>
  BY <1>7 DEF PressPick, PressRefused, ChooseNativeOption, ChooseImageDelivery,
              ChooseMediaBundle, ChooseSingleStory, ChooseAllStories, PressOpen, PressDownload
<1>8. ASSUME NEW i \in DOMAIN rows,
             \/ ResolveUncertain(i)
             \/ \E shows \in MenusOf[rows[i].what] : PublishMenu(i, shows)
             \/ \E ok \in BOOLEAN : AutoContinue(i, ok)
             \/ \E status \in {"done", "failed", "uncertain"} : JobEndsAs(i, status)
      PROVE  UNCHANGED <<fsm, prompt, again, account>>
  BY <1>8 DEF ResolveUncertain, PublishMenu, AutoContinue, JobEndsAs
<1>9. ASSUME NEW u \in User, Recheck(u) PROVE UNCHANGED <<fsm, prompt, again, account>>
  BY <1>9 DEF Recheck
<1>10. ASSUME NEW m \in menus, MenuExpires(m) PROVE UNCHANGED <<fsm, prompt, again, account>>
  BY <1>10 DEF MenuExpires
<1>11. ASSUME WorkerRestarts PROVE UNCHANGED <<fsm, prompt, again, account>>
  BY <1>11 DEF WorkerRestarts
<1> HIDE DEF UsersOK
<1> QED BY SenderAssumption, <1>1, <1>2, <1>3, <1>4, <1>5, <1>6, <1>7, <1>8, <1>9, <1>10, <1>11
        DEF MenusSteps

\* A menu keeps the user and the request of the job it comes from.
LEMMA MenuStep ==
  ASSUME MenusInv, MenusSteps
  PROVE  \A m \in menus' : MenuOK(m)'
<1>1. GoodTable(rows') /\ Follows(rows, rows') BY TableStep
<1>2. Len(rows) \in Nat /\ Len(rows') \in Nat BY <1>1 DEF MenusInv, GoodTable
<1>3. ASSUME NEW m, MenuOK(m) PROVE MenuOK(m)'
  <2>1. /\ m.source \in 1..Len(rows') /\ Same(rows[m.source], rows'[m.source])
    BY <1>1, <1>2, <1>3 DEF MenuOK, Follows
  <2> QED BY <1>3, <2>1 DEF MenuOK, Same
<1>4. CASE menus' \subseteq menus BY <1>3, <1>4 DEF MenusInv
<1>5. ASSUME NEW u \in User, NEW m \in menus, PressPick(u, m) PROVE \A n \in menus' : MenuOK(n)'
  <2>1. menus' = menus \union {PickFrom(m)} BY <1>5 DEF PressPick
  <2>2. MenuOK(m) BY DEF MenusInv
  <2>3. MenuOK(PickFrom(m)) BY <2>2 DEF MenuOK, PickFrom, MenuType, Buttons
  <2> QED BY <1>3, <2>1, <2>3 DEF MenusInv
<1>6. ASSUME NEW i \in DOMAIN rows, NEW shows \in MenusOf[rows[i].what],
             rows[i].kind # "download", PublishMenu(i, shows)
      PROVE  \A n \in menus' : MenuOK(n)'
  <2>1. menus' = menus \union {Menu(i, rows[i].what, shows)} BY <1>6 DEF PublishMenu
  <2>2. i \in 1..Len(rows) /\ RowOK(rows[i]) BY DEF MenusInv, GoodTable
  <2>3. rows[i].what \in Topics /\ rows[i].user \in User /\ rows[i].origin \in Origins
    BY <1>6, <2>2 DEF RowOK, Row
  <2>4. MenusOf[rows[i].what] \subseteq SUBSET Buttons
    BY <2>3 DEF MenusOf, Topics, Buttons
  <2>5. MenuOK(Menu(i, rows[i].what, shows))
    BY <1>6, <2>2, <2>3, <2>4 DEF MenuOK, Menu, MenuType
  <2> QED BY <1>3, <2>1, <2>5 DEF MenusInv
<1>7. ASSUME NEW u \in User,
             \/ BeginPublic(u) \/ BeginPrivate(u) \/ ReplayLink(u) \/ UserChanges(u) \/ Recheck(u)
             \/ \E t \in Topic : CutLink(u, t) \/ \E ok \in BOOLEAN : SendLink(u, t, ok)
      PROVE  menus' \subseteq menus
  BY <1>7 DEF BeginPublic, BeginPrivate, ReplayLink, UserChanges, Recheck, CutLink, SendLink,
              SubmitLink
<1>8. ASSUME NEW u \in User, NEW m \in menus,
             \/ PressRefused(u)
             \/ \E ok \in BOOLEAN :
                  \/ ChooseNativeOption(u, m, ok) \/ ChooseImageDelivery(u, m, ok)
                  \/ ChooseMediaBundle(u, m, ok) \/ ChooseSingleStory(u, m, ok)
                  \/ ChooseAllStories(u, m, ok) \/ PressOpen(u, m, ok)
      PROVE  menus' \subseteq menus
  BY <1>8 DEF PressRefused, ChooseNativeOption, ChooseImageDelivery,
              ChooseMediaBundle, ChooseSingleStory, ChooseAllStories, PressOpen, PressDownload
<1>9. ASSUME NEW i \in DOMAIN rows,
             \/ ResolveUncertain(i)
             \/ \E ok \in BOOLEAN : AutoContinue(i, ok)
             \/ \E status \in {"done", "failed", "uncertain"} : JobEndsAs(i, status)
      PROVE  menus' \subseteq menus
  BY <1>9 DEF ResolveUncertain, AutoContinue, JobEndsAs
<1>10. ASSUME (\E m \in menus : MenuExpires(m)) \/ BotRestarts \/ WorkerRestarts
       PROVE  menus' \subseteq menus
  BY <1>10 DEF MenuExpires, BotRestarts, WorkerRestarts
<1> QED BY SenderAssumption, <1>4, <1>5, <1>6, <1>7, <1>8, <1>9, <1>10 DEF MenusSteps

\* The table, the menus and the prompts agree (job_service.py, handlers.py).
THEOREM MenusInvariant == MenusSpec => []MenusInv
<1>1. MenusInit => MenusInv
  BY DEF MenusInit, MenusInv, GoodTable, OnePerKey, UsersOK, Nobody
<1>2. MenusInv /\ [MenusNext]_menuVars => MenusInv'
  <2> SUFFICES ASSUME MenusInv, [MenusNext]_menuVars PROVE MenusInv'
    OBVIOUS
  <2>1. CASE MenusNext
    <3>1. MenusSteps BY <2>1 DEF MenusNext
    <3>2. UsersOK' BY <3>1, UsersStep DEF MenusInv
    <3> QED BY <3>1, <3>2, TableStep, MenuStep DEF MenusInv
  <2>2. CASE UNCHANGED menuVars
    BY <2>2 DEF menuVars, MenusInv, UsersOK, MenuOK
  <2> QED BY <2>1, <2>2
<1> QED BY <1>1, <1>2, PTL DEF MenusSpec

\* What was asked for as private media is fetched as such, for the user who asked and with
\* the generation of the session it was accepted for, however many menus, buttons, replays
\* and jobs lie between; a request for public media is never given such a job.
THEOREM PrivateIsKept == MenusSpec => []PrivateStaysPrivate
<1>1. MenusInv => PrivateStaysPrivate
  BY DEF MenusInv, GoodTable, RowOK, Fits, PrivateStaysPrivate, IsPrivate
<1> QED BY MenusInvariant, <1>1, PTL

\* An active job that was given to a request is in the queue, unless the bot died before
\* its enqueue or an enqueue failed that nothing catches.
THEOREM GivenJobsAreQueued == MenusSpec => []GivenIsQueued
<1>1. MenusInv => GivenIsQueued
  BY DEF MenusInv, GoodTable, RowOK, GivenIsQueued
<1> QED BY MenusInvariant, <1>1, PTL

(***************************************************************************)
(* The user's session and the jobs that borrow it.                         *)
(***************************************************************************)

Sessions == Login \union {"none"}

VaultTypeOK ==
  /\ credential \in [state : {"none", "connected", "expired", "disconnected"},
                     generation : Nat, session : Sessions]
  /\ connecting \in [Login -> [step : {"new", "read", "done"}, generation : Nat]]
  /\ leaving \in [step : {"off", "read"}, generation : Nat, count : Nat]
  /\ refused \in SUBSET Sessions /\ issued \in SUBSET (Nat \X Login)

JobRows == [status : {"new", "active", "succeeded", "failed", "cancelled"},
            phase : {"not_started", "user", "operator"}, generation : Nat, tries : Nat]
Attempts == [step : Steps, generation : Nat, session : Sessions,
             error : {"none", "refused", "other"}]

JobTypeOK == job \in [Job -> JobRows] /\ attempt \in [Job -> Attempts]

\* Leases, which end by themselves, exclude one another.
LeasesExclude ==
  /\ now \in Nat /\ lease \in [Job -> [generation : Nat, until : Nat]]
  /\ \A i, j \in Job : i # j => ~Live(i) \/ ~Live(j)

KnownIn(saved, g) == \E l \in Login : <<g, l>> \in saved
Known(g) == KnownIn(issued, g)

\* A session that was saved is of its generation, and each login saves one.
IssuedOK ==
  /\ credential.state \in {"connected", "expired"} =>
       credential.generation # 0 /\ <<credential.generation, credential.session>> \in issued
  /\ \A g \in Nat, l \in Login : <<g, l>> \in issued => connecting[l].step = "done"

\* The generation is replaced for good, or was given to two sessions.
GoneIn(row, saved, g) ==
  /\ g = 0 \/ KnownIn(saved, g)
  /\ \/ ~(row.state = "connected" /\ row.generation = g)
     \/ \E l1, l2 \in Login : l1 # l2 /\ {<<g, l1>>, <<g, l2>>} \subseteq saved
Gone(g) == GoneIn(credential, issued, g)

\* A row that has decided keeps a generation that was saved, and goes over to the operator
\* when that one is gone.
DecidedOK(j) ==
  /\ job[j].phase = "operator" => Public(j) /\ Gone(job[j].generation)
  /\ job[j].phase = "user" \/ (j \in Private /\ job[j].status # "new") => Known(job[j].generation)

\* An attempt works with the generation of its row, and gives up on a session only when
\* that session was refused or is gone.
AttemptOK(j) ==
  LET a == attempt[j]
      g == job[j].generation
  IN /\ a.step # "idle" => job[j].status # "new"
     /\ a.step = "choose" => Public(j) /\ (a.generation = 0 \/ Known(a.generation))
     /\ a.step \in {"open", "lease", "use", "release", "mark", "switch"} => Known(g)
     /\ a.step \in {"lease", "use", "release"} => a.generation = g /\ <<g, a.session>> \in issued
     /\ a.step = "release" /\ a.error = "refused" => a.session \in refused
     /\ a.step = "mark" => Gone(g) \/ (a.session \in refused /\ <<g, a.session>> \in issued)
     /\ a.step = "switch" => Public(j) /\ Gone(g)

SessionsInv ==
  /\ VaultTypeOK /\ JobTypeOK /\ LeasesExclude /\ IssuedOK
  /\ ExpiredWasRefused
  /\ \A j \in Job : DecidedOK(j) /\ AttemptOK(j)

\* Who touches the vault: the stores, the disconnection and a mark.
LEMMA VaultActions ==
  ASSUME SessionsNext
  PROVE  \/ \E l \in Login : ReadForStore(l) \/ StoreSession(l)
         \/ ReadForDisconnect \/ Disconnect
         \/ \E j \in Job : Mark(j)
         \/ \E j \in Job, error \in {"none", "refused", "other"} : Use(j, error)
         \/ UNCHANGED <<vaultVars, refused>>
<1>1. ASSUME NEW j \in Job, \/ Accept(j) \/ Continue(j) \/ Cancel(j) \/ Begin(j) \/ Choose(j)
                            \/ Open(j) \/ AcquireLease(j) \/ Release(j) \/ Switch(j)
                            \/ UseOperator(j)
      PROVE  UNCHANGED <<vaultVars, refused>>
  BY <1>1 DEF Accept, Continue, Cancel, Begin, Choose, Open, AcquireLease, Release, Switch,
              UseOperator
<1>2. ASSUME WorkerDies \/ Tick PROVE UNCHANGED <<vaultVars, refused>>
  BY <1>2 DEF WorkerDies, Tick
<1> QED BY <1>1, <1>2 DEF SessionsNext, AttemptStep, StoreStep

\* The rows, the vault's generations and the operators' sessions keep their types.
LEMMA VaultTypeStep ==
  ASSUME VaultTypeOK, JobTypeOK, SessionsNext
  PROVE  VaultTypeOK'
<1> USE DEF VaultTypeOK, Sessions, vaultVars
<1>1. ASSUME NEW l \in Login, ReadForStore(l) PROVE VaultTypeOK'
  BY <1>1 DEF ReadForStore
<1>2. ASSUME NEW l \in Login, StoreSession(l) PROVE VaultTypeOK'
  BY <1>2 DEF StoreSession
<1>3. CASE ReadForDisconnect BY <1>3 DEF ReadForDisconnect
<1>4. CASE Disconnect BY <1>4 DEF Disconnect
<1>5. ASSUME NEW j \in Job, Mark(j) PROVE VaultTypeOK'
  BY <1>5 DEF Mark, MarkSessionInvalid
<1>6. ASSUME NEW j \in Job, NEW error, Use(j, error) PROVE VaultTypeOK'
  <2>1. attempt[j].session \in Sessions BY DEF JobTypeOK, Attempts
  <2> QED BY <1>6, <2>1 DEF Use
<1>7. CASE UNCHANGED <<vaultVars, refused>> BY <1>7
<1> QED BY <1>1, <1>2, <1>3, <1>4, <1>5, <1>6, <1>7, VaultActions

\* A saved session is of the generation it was saved under, and comes of a login of its own.
LEMMA IssuedStep ==
  ASSUME VaultTypeOK, IssuedOK, SessionsNext
  PROVE  IssuedOK'
<1> USE DEF VaultTypeOK, Sessions, vaultVars, IssuedOK
<1>1. ASSUME NEW l \in Login, ReadForStore(l) PROVE IssuedOK'
  BY <1>1 DEF ReadForStore
<1>2. ASSUME NEW l \in Login, StoreSession(l) PROVE IssuedOK'
  BY <1>2 DEF StoreSession
<1>3. CASE ReadForDisconnect BY <1>3 DEF ReadForDisconnect
<1>4. CASE Disconnect BY <1>4 DEF Disconnect
<1>5. ASSUME NEW j \in Job, Mark(j) PROVE IssuedOK'
  BY <1>5 DEF Mark, MarkSessionInvalid, Connected
<1>6. ASSUME NEW j \in Job, NEW error, Use(j, error) PROVE IssuedOK'
  BY <1>6 DEF Use
<1>7. CASE UNCHANGED <<vaultVars, refused>> BY <1>7
<1> QED BY <1>1, <1>2, <1>3, <1>4, <1>5, <1>6, <1>7, VaultActions

\* A generation that is gone comes back only as that of two sessions.
LEMMA GoneStays ==
  ASSUME VaultTypeOK, IssuedOK, SessionsNext, NEW g \in Nat
  PROVE  (Known(g) => Known(g)') /\ (Gone(g) => Gone(g)')
<1> USE DEF VaultTypeOK, Sessions, vaultVars, Known, Gone, KnownIn, GoneIn, Twins, Connected
<1>1. issued \subseteq issued' /\ refused \subseteq refused'
  BY VaultActions DEF ReadForStore, StoreSession, ReadForDisconnect, Disconnect, Mark, Use
<1>s. /\ Twins(g) <=> \E l1, l2 \in Login :
                         l1 # l2 /\ <<g, l1>> \in issued /\ <<g, l2>> \in issued
      /\ Twins(g)' <=> \E l1, l2 \in Login :
                         l1 # l2 /\ <<g, l1>> \in issued' /\ <<g, l2>> \in issued'
  <2> HIDE DEF VaultTypeOK, Sessions, vaultVars, Known, Gone, KnownIn, GoneIn, Connected, IssuedOK
  <2>1. \A a, b : {a, b} \subseteq issued <=> a \in issued /\ b \in issued OBVIOUS
  <2>2. \A a, b : {a, b} \subseteq issued' <=> a \in issued' /\ b \in issued' OBVIOUS
  <2>3. Twins(g) <=> \E l1, l2 \in Login : l1 # l2 /\ <<g, l1>> \in issued /\ <<g, l2>> \in issued
    BY <2>1, ZenonT(30)
  <2>4. Twins(g)' <=> \E l1, l2 \in Login :
                         l1 # l2 /\ <<g, l1>> \in issued' /\ <<g, l2>> \in issued'
    BY <2>2, ZenonT(30)
  <2> HIDE DEF Twins
  <2> QED BY <2>3, <2>4
<1>t. (Twins(g) => Twins(g)') /\ (Known(g) => Known(g)')
  <2> HIDE DEF Twins
  <2> QED BY <1>1, <1>s
<1>g. /\ Gone(g) <=> (g = 0 \/ Known(g)) /\ (~Connected(g) \/ Twins(g))
      /\ Gone(g)' <=> (g = 0 \/ Known(g)') /\ (~Connected(g)' \/ Twins(g)')
  OBVIOUS
<1>2. ASSUME NEW l \in Login, StoreSession(l), Gone(g) PROVE Gone(g)'
  <2>1. CASE credential' = credential
    <3>1. Connected(g)' => Connected(g) BY <2>1
    <3> HIDE DEF Twins, Known, Connected, Gone
    <3> QED BY <1>t, <1>g, <1>2, <3>1
  <2>2. CASE credential' # credential
    <3>1. /\ credential'.state = "connected"
          /\ credential'.generation = connecting[l].generation + 1
          /\ issued' = issued \union {<<connecting[l].generation + 1, l>>}
          /\ connecting[l].step = "read"
      BY <1>2, <2>2 DEF StoreSession
    <3>2. \A n \in Nat : <<n, l>> \notin issued BY <3>1 DEF IssuedOK
    <3>3. CASE g = connecting[l].generation + 1
      <4>1. g # 0 BY <3>3
      <4>2. PICK other \in Login : <<g, other>> \in issued BY <1>2, <4>1
      <4>3. other # l /\ <<g, l>> \in issued' /\ <<g, other>> \in issued'
        BY <1>1, <3>1, <3>2, <3>3, <4>2
      <4>4. Twins(g)'
        <5> HIDE DEF Twins
        <5> QED BY <1>s, <4>3
      <4> HIDE DEF Twins, Known, Connected, Gone
      <4> QED BY <1>t, <1>g, <1>2, <4>4
    <3>4. CASE g # connecting[l].generation + 1
      <4>1. ~Connected(g)' BY <3>1, <3>4
      <4> HIDE DEF Twins, Known, Connected, Gone
      <4> QED BY <1>t, <1>g, <1>2, <4>1
    <3> QED BY <3>3, <3>4
  <2> QED BY <2>1, <2>2
<1>3. ASSUME Connected(g)' => Connected(g), Gone(g) PROVE Gone(g)'
  <2> HIDE DEF Twins, Known, Connected, Gone
  <2> QED BY <1>t, <1>g, <1>3
<1>4. ASSUME NEW l \in Login, ReadForStore(l) PROVE Connected(g)' => Connected(g)
  BY <1>4 DEF ReadForStore
<1>5. ASSUME ReadForDisconnect \/ Disconnect PROVE Connected(g)' => Connected(g)
  BY <1>5 DEF ReadForDisconnect, Disconnect
<1>6. ASSUME NEW j \in Job, Mark(j) PROVE Connected(g)' => Connected(g)
  BY <1>6 DEF Mark, MarkSessionInvalid
<1>7. ASSUME NEW j \in Job, NEW error, Use(j, error) PROVE Connected(g)' => Connected(g)
  BY <1>7 DEF Use
<1>8. ASSUME UNCHANGED <<vaultVars, refused>> PROVE Connected(g)' => Connected(g)
  BY <1>8
<1>9. Gone(g) => Gone(g)'
  BY <1>2, <1>3, <1>4, <1>5, <1>6, <1>7, <1>8, VaultActions
<1> QED BY <1>1, <1>9

\* The attempts and what their last verdict said keep their types.
LEMMA JobTypeStep ==
  ASSUME VaultTypeOK, JobTypeOK, SessionsNext
  PROVE  JobTypeOK'
<1> USE SessionsAssumption DEF JobTypeOK
<1>a. /\ Idle \in Attempts /\ NewRow \in JobRows
      /\ \A a \in Attempts, step \in Steps : [a EXCEPT !.step = step] \in Attempts
      /\ \A a \in Attempts, step \in Steps, error \in {"none", "refused", "other"} :
           [a EXCEPT !.step = step, !.error = error] \in Attempts
      /\ \A step \in Steps, g \in Nat : [Idle EXCEPT !.step = step, !.generation = g] \in Attempts
      /\ \A step \in Steps : [Idle EXCEPT !.step = step] \in Attempts
      /\ \A step \in Steps, g \in Nat, session \in Sessions :
           [Idle EXCEPT !.step = step, !.generation = g, !.session = session] \in Attempts
  <2>1. Idle \in Attempts BY DEF Idle, Attempts, Steps, Sessions
  <2>2. NewRow \in JobRows BY DEF NewRow, JobRows
  <2>3. \A a \in Attempts, step \in Steps, error \in {"none", "refused", "other"} :
          /\ [a EXCEPT !.step = step] \in Attempts
          /\ [a EXCEPT !.step = step, !.error = error] \in Attempts
    BY DEF Attempts
  <2>4. \A step \in Steps, g \in Nat, session \in Sessions :
          /\ [Idle EXCEPT !.step = step, !.generation = g] \in Attempts
          /\ [Idle EXCEPT !.step = step] \in Attempts
          /\ [Idle EXCEPT !.step = step, !.generation = g, !.session = session] \in Attempts
    BY <2>1 DEF Attempts
  <2>5. "none" \in Sessions /\ 0 \in Nat BY DEF Sessions
  <2> QED BY <2>1, <2>2, <2>3, <2>4, <2>5
<1>b. /\ \A r \in JobRows, status \in {"active", "succeeded", "failed", "cancelled"} :
           [r EXCEPT !.status = status] \in JobRows
      /\ \A r \in JobRows : [r EXCEPT !.status = "active", !.tries = 0] \in JobRows
      /\ \A r \in JobRows : [r EXCEPT !.phase = "operator"] \in JobRows
      /\ \A r \in JobRows, g \in Nat, phase \in {"user", "operator"} :
           [r EXCEPT !.generation = g, !.phase = phase] \in JobRows
  BY DEF JobRows
<1>d. \A r \in JobRows : [r EXCEPT !.tries = r.tries + 1] \in JobRows
  <2> TAKE r \in JobRows
  <2>1. r.tries + 1 \in Nat BY DEF JobRows
  <2> QED BY <2>1 DEF JobRows
<1>e. \A g \in Nat : [NewRow EXCEPT !.status = "active", !.generation = g] \in JobRows
  BY DEF NewRow, JobRows
<1>c. credential.generation \in Nat /\ credential.session \in Sessions
  BY DEF VaultTypeOK
<1>1. ASSUME NEW j \in Job, Accept(j) PROVE JobTypeOK'
  BY <1>a, <1>e, <1>c, <1>1 DEF Accept
<1>2. ASSUME NEW j \in Job, Continue(j) PROVE JobTypeOK'
  <2>1. job[Inspected[j]] \in JobRows OBVIOUS
  <2> QED BY <1>b, <1>2, <2>1 DEF Continue
<1>3. ASSUME NEW j \in Job, NEW status \in {"active", "succeeded", "failed", "cancelled"},
             job' = [job EXCEPT ![j].status = status]
      PROVE  job' \in [Job -> JobRows]
  BY <1>b, <1>3
<1>4. ASSUME NEW j \in Job, Begin(j) PROVE JobTypeOK'
  <2>1. job' \in [Job -> JobRows]
    <3>1. job' = [job EXCEPT ![j] = [job[j] EXCEPT !.tries = job[j].tries + 1]]
      BY <1>4 DEF Begin
    <3> QED BY <1>d, <3>1
  <2>2. attempt' \in [Job -> Attempts] BY <1>a, <1>c, <1>4 DEF Begin, Steps
  <2> QED BY <2>1, <2>2
<1>5. ASSUME NEW j \in Job, Choose(j) PROVE JobTypeOK'
  <2>1. Frozen(j) \in JobRows
    <3>1. attempt[j].generation \in Nat BY DEF Attempts
    <3> QED BY <1>b, <3>1 DEF Frozen
  <2>2. attempt' \in [Job -> Attempts] BY <1>a, <1>5 DEF Choose, Steps
  <2> QED BY <1>5, <2>1, <2>2 DEF Choose
<1>6. ASSUME NEW j \in Job, NEW retryable \in BOOLEAN, Raise(j, retryable) PROVE JobTypeOK'
  <2>1. attempt' \in [Job -> Attempts] BY <1>a, <1>6 DEF Raise
  <2>2. job' = job \/ (\E status \in {"active", "failed"} : job' = [job EXCEPT ![j].status = status])
    <3>1. CASE job[j].status # "active"
      <4>1. job' = [job EXCEPT ![j].status = job[j].status] BY <1>6, <3>1 DEF Raise
      <4>2. [job EXCEPT ![j].status = job[j].status] = job BY DEF JobRows
      <4> QED BY <4>1, <4>2
    <3>2. CASE job[j].status = "active" BY <1>6, <3>2 DEF Raise
    <3> QED BY <3>1, <3>2
  <2> QED BY <1>3, <2>1, <2>2
<1>9. ASSUME NEW j \in Job, NEW step \in Steps, Goto(j, step) PROVE attempt' \in [Job -> Attempts]
  <2>1. [attempt[j] EXCEPT !.step = step] \in Attempts BY <1>a
  <2> QED BY <1>9, <2>1 DEF Goto
<1>7. ASSUME NEW j \in Job, RaiseInvalid(j) PROVE JobTypeOK'
  BY <1>7, <1>9 DEF RaiseInvalid, Steps, Goto
<1>8. ASSUME NEW j \in Job, Open(j) PROVE JobTypeOK'
  <2>1. CASE Connected(job[j].generation)
    <3>1. UNCHANGED job BY <1>8, <2>1 DEF Open
    <3>2. attempt' = [attempt EXCEPT ![j] = [Idle EXCEPT
            !.step = "lease", !.generation = credential.generation,
            !.session = credential.session]]
      BY <1>8, <2>1 DEF Open
    <3>3. "lease" \in Steps BY DEF Steps
    <3> QED BY <1>a, <1>c, <3>1, <3>2, <3>3
  <2>2. CASE ~Connected(job[j].generation) BY <1>7, <1>8, <2>2 DEF Open
  <2> QED BY <2>1, <2>2
<1>10. ASSUME NEW j \in Job, AcquireLease(j) PROVE JobTypeOK'
  BY <1>6, <1>7, <1>9, <1>10 DEF AcquireLease, Steps
<1>11. ASSUME NEW j \in Job, NEW error \in {"none", "refused", "other"}, Use(j, error)
       PROVE  JobTypeOK'
  <2>1. attempt' = [attempt EXCEPT ![j] = [attempt[j] EXCEPT !.step = "release", !.error = error]]
    BY <1>11 DEF Use
  <2>2. UNCHANGED job BY <1>11 DEF Use
  <2>3. attempt[j] \in Attempts /\ "release" \in Steps BY DEF Steps
  <2> QED BY <1>a, <2>1, <2>2, <2>3
<1>12. ASSUME NEW j \in Job, Succeed(j) PROVE JobTypeOK'
  <2>1. attempt' \in [Job -> Attempts] BY <1>a, <1>12 DEF Succeed
  <2>2. job' = job \/ job' = [job EXCEPT ![j].status = "succeeded"]
    <3>1. CASE job[j].status # "active"
      <4>1. job' = [job EXCEPT ![j].status = job[j].status] BY <1>12, <3>1 DEF Succeed
      <4>2. [job EXCEPT ![j].status = job[j].status] = job BY DEF JobRows
      <4> QED BY <4>1, <4>2
    <3>2. CASE job[j].status = "active" BY <1>12, <3>2 DEF Succeed
    <3> QED BY <3>1, <3>2
  <2> QED BY <1>3, <2>1, <2>2
<1>13. ASSUME NEW j \in Job, Release(j) \/ UseOperator(j) PROVE JobTypeOK'
  BY <1>6, <1>7, <1>12, <1>13 DEF Release, UseOperator
<1>14. ASSUME NEW j \in Job, Mark(j) PROVE JobTypeOK'
  BY <1>6, <1>9, <1>14 DEF Mark, Steps
<1>15. ASSUME NEW j \in Job, Switch(j) PROVE JobTypeOK'
  <2>1. CASE Raise(j, FALSE) BY <1>6, <2>1
  <2>2. CASE job' = [job EXCEPT ![j].phase = "operator"] /\ Goto(j, "operator")
    BY <1>b, <1>9, <2>2 DEF Steps
  <2> QED BY <1>15, <2>1, <2>2 DEF Switch
<1>16. CASE WorkerDies BY <1>a, <1>16 DEF WorkerDies
<1>17. CASE UNCHANGED <<job, attempt>> BY <1>17
<1>18. ASSUME NEW l \in Login, StoreStep(l) PROVE UNCHANGED <<job, attempt>>
  BY <1>18 DEF StoreStep, ReadForStore, StoreSession
<1>19. ASSUME ReadForDisconnect \/ Disconnect \/ Tick PROVE UNCHANGED <<job, attempt>>
  BY <1>19 DEF ReadForDisconnect, Disconnect, Tick
<1>20. ASSUME NEW j \in Job, Cancel(j) PROVE JobTypeOK'
  BY <1>3, <1>20 DEF Cancel
<1> HIDE DEF JobTypeOK
<1> QED BY <1>1, <1>2, <1>4, <1>5, <1>8, <1>10, <1>11, <1>13, <1>14, <1>15, <1>16, <1>17,
           <1>18, <1>19, <1>20 DEF SessionsNext, AttemptStep

\* A lease is taken when no lease is live.
LEMMA ExclusionStep ==
  ASSUME LeasesExclude, JobTypeOK, SessionsNext
  PROVE  LeasesExclude'
<1> USE SessionsAssumption DEF LeasesExclude, Live
<1>1. ASSUME NEW j \in Job, AcquireLease(j) PROVE LeasesExclude'
  <2>1. UNCHANGED now BY <1>1 DEF AcquireLease
  <2>2. CASE UNCHANGED lease BY <2>1, <2>2
  <2>3. CASE lease' # lease
    <3>1. /\ \A i \in Job : ~Live(i)
          /\ lease' = [lease EXCEPT ![j] = [generation |-> attempt[j].generation,
                                            until |-> now + LeaseTime]]
      BY <1>1, <2>3 DEF AcquireLease, LeaseBusy
    <3>2. attempt[j].generation \in Nat /\ LeaseTime \in Nat BY DEF JobTypeOK, Attempts
    <3>3. lease' \in [Job -> [generation : Nat, until : Nat]] BY <3>1, <3>2
    <3>4. \A i \in Job : i # j => lease'[i] = lease[i] BY <3>1
    <3> QED BY <2>1, <3>1, <3>3, <3>4
  <2> QED BY <2>2, <2>3
<1>2. ASSUME NEW j \in Job, Release(j) PROVE LeasesExclude'
  BY <1>2 DEF Release, NoLease
<1>3. CASE Tick
  <2>1. UNCHANGED lease /\ now' = now + 1 BY <1>3 DEF Tick
  <2>2. \A i \in Job : lease[i].until \in Nat OBVIOUS
  <2> QED BY <2>1, <2>2
<1>4. CASE UNCHANGED <<now, lease>> BY <1>4
<1>5. ASSUME NEW l \in Login, StoreStep(l) PROVE UNCHANGED <<now, lease>>
  BY <1>5 DEF StoreStep, ReadForStore, StoreSession
<1>6. ASSUME NEW j \in Job, \/ Accept(j) \/ Continue(j) \/ Cancel(j) \/ Begin(j) \/ Choose(j)
                            \/ Open(j) \/ Mark(j) \/ Switch(j) \/ UseOperator(j)
                            \/ \E error \in {"none", "refused", "other"} : Use(j, error)
      PROVE  UNCHANGED <<now, lease>>
  BY <1>6 DEF Accept, Continue, Cancel, Begin, Choose, Open, Mark, Switch, UseOperator, Use
<1>7. ASSUME ReadForDisconnect \/ Disconnect \/ WorkerDies PROVE UNCHANGED <<now, lease>>
  BY <1>7 DEF ReadForDisconnect, Disconnect, WorkerDies
<1> HIDE DEF LeasesExclude
<1> QED BY <1>1, <1>2, <1>3, <1>4, <1>5, <1>6, <1>7 DEF SessionsNext, AttemptStep

\* What was issued or refused once stays so (credential_resolution.py keeps no undo).
LEMMA OnlyMore ==
  ASSUME SessionsNext
  PROVE  issued \subseteq issued' /\ refused \subseteq refused'
BY VaultActions DEF ReadForStore, StoreSession, ReadForDisconnect, Disconnect, Mark, Use, vaultVars

\* What is known of a job whose row does not move stays true.
LEMMA Unmoved ==
  ASSUME SessionsInv, SessionsNext, NEW j \in Job, job'[j] = job[j]
  PROVE  /\ DecidedOK(j)'
         /\ attempt'[j] = attempt[j] => AttemptOK(j)'
<1>1. job[j].generation \in Nat /\ attempt[j].generation \in Nat
  BY DEF SessionsInv, JobTypeOK, JobRows, Attempts
<1>2. \A g \in Nat : /\ KnownIn(issued, g) => KnownIn(issued', g)
                     /\ GoneIn(credential, issued, g) => GoneIn(credential', issued', g)
  BY GoneStays DEF SessionsInv, Known, Gone
<1>3. issued \subseteq issued' /\ refused \subseteq refused' BY OnlyMore
<1>4. DecidedOK(j)' BY <1>1, <1>2 DEF DecidedOK, SessionsInv, Public, Known, Gone
<1>5. ASSUME attempt'[j] = attempt[j] PROVE AttemptOK(j)'
  <2>1. AttemptOK(j) BY DEF SessionsInv
  <2> DEFINE a == attempt[j]
             g == job[j].generation
  <2>2. AttemptOK(j)' <=>
          /\ a.step # "idle" => job[j].status # "new"
          /\ a.step = "choose" => Public(j) /\ (a.generation = 0 \/ KnownIn(issued', a.generation))
          /\ a.step \in {"open", "lease", "use", "release", "mark", "switch"} => KnownIn(issued', g)
          /\ a.step \in {"lease", "use", "release"} =>
               a.generation = g /\ <<g, a.session>> \in issued'
          /\ a.step = "release" /\ a.error = "refused" => a.session \in refused'
          /\ a.step = "mark" => \/ GoneIn(credential', issued', g)
                                \/ a.session \in refused' /\ <<g, a.session>> \in issued'
          /\ a.step = "switch" => Public(j) /\ GoneIn(credential', issued', g)
    BY <1>5 DEF AttemptOK, Known, Gone, Public
  <2> QED BY <1>1, <1>2, <1>3, <2>1, <2>2 DEF AttemptOK, Known, Gone
<1> QED BY <1>4, <1>5

\* The steps of a job move its own row and attempt only.
LEMMA OthersUnmoved ==
  ASSUME SessionsInv, SessionsNext, NEW j \in Job,
         \/ Accept(j) \/ Continue(j) \/ Cancel(j) \/ AttemptStep(j)
  PROVE  \A i \in Job \ {j} : job'[i] = job[i] /\ attempt'[i] = attempt[i]
<1> USE DEF SessionsInv, JobTypeOK, Raise, RaiseInvalid, Goto, Succeed
<1>1. CASE Accept(j) \/ Continue(j) \/ Cancel(j) BY <1>1 DEF Accept, Continue, Cancel
<1>2. CASE Begin(j) \/ Choose(j) \/ Open(j) BY <1>2 DEF Begin, Choose, Open
<1>3. CASE AcquireLease(j) BY <1>3 DEF AcquireLease
<1>4. ASSUME NEW error, Use(j, error) PROVE \A i \in Job \ {j} : job'[i] = job[i] /\ attempt'[i] = attempt[i]
  BY <1>4 DEF Use
<1>5. CASE Release(j) BY <1>5 DEF Release
<1>6. CASE Mark(j) \/ Switch(j) \/ UseOperator(j) BY <1>6 DEF Mark, Switch, UseOperator
<1> QED BY <1>1, <1>2, <1>3, <1>4, <1>5, <1>6 DEF AttemptStep

\* What was saved under the connected generation.
LEMMA ConnectedIsKnown ==
  ASSUME SessionsInv, credential.state = "connected"
  PROVE  /\ credential.generation \in Nat \ {0} /\ credential.session \in Login
         /\ <<credential.generation, credential.session>> \in issued
         /\ Known(credential.generation)
BY DEF SessionsInv, VaultTypeOK, IssuedOK, Known, KnownIn

\* A row that ends, or goes on with its next try, keeps what it decided.
LEMMA RowEnds ==
  ASSUME SessionsInv, SessionsNext, NEW j \in Job, job[j].status # "new",
         attempt'[j] = Idle,
         \E status \in {"active", "succeeded", "failed", "cancelled"} :
           job'[j] = [job[j] EXCEPT !.status = status]
  PROVE  DecidedOK(j)' /\ AttemptOK(j)'
<1>1. /\ job'[j].generation = job[j].generation /\ job'[j].phase = job[j].phase
      /\ job'[j].status # "new" /\ job[j].generation \in Nat
  BY DEF SessionsInv, JobTypeOK, JobRows
<1>2. \A g \in Nat : /\ KnownIn(issued, g) => KnownIn(issued', g)
                     /\ GoneIn(credential, issued, g) => GoneIn(credential', issued', g)
  BY GoneStays DEF SessionsInv, Known, Gone
<1>3. DecidedOK(j) BY DEF SessionsInv
<1> QED BY <1>1, <1>2, <1>3 DEF DecidedOK, AttemptOK, Idle, Known, Gone, Public

\* So an attempt that raises or succeeds leaves the row as decided.
LEMMA AttemptEnds ==
  ASSUME SessionsInv, SessionsNext, NEW j \in Job, attempt[j].step # "idle",
         Succeed(j) \/ \E retryable \in BOOLEAN : Raise(j, retryable)
  PROVE  DecidedOK(j)' /\ AttemptOK(j)'
<1>1. job[j].status # "new" BY DEF SessionsInv, AttemptOK
<1>2. job \in [Job -> JobRows] /\ job[j] \in JobRows /\ attempt \in [Job -> Attempts]
  BY DEF SessionsInv, JobTypeOK
<1>3. attempt'[j] = Idle BY <1>2 DEF Succeed, Raise
<1>4. job[j].status \in {"active", "succeeded", "failed", "cancelled"}
  BY <1>1, <1>2 DEF JobRows
<1>5. \E status \in {"active", "succeeded", "failed", "cancelled"} :
        job'[j] = [job[j] EXCEPT !.status = status]
  <2>1. CASE Succeed(j) BY <1>2, <1>4, <2>1 DEF Succeed
  <2>2. ASSUME NEW retryable \in BOOLEAN, Raise(j, retryable)
        PROVE  \E status \in {"active", "succeeded", "failed", "cancelled"} :
                 job'[j] = [job[j] EXCEPT !.status = status]
    <3>1. job'[j].status \in {"active", "succeeded", "failed", "cancelled"}
      BY <1>2, <1>4, <2>2 DEF Raise, JobRows
    <3>2. job'[j] = [job[j] EXCEPT !.status = job'[j].status]
      BY <1>2, <2>2 DEF Raise, JobRows
    <3> QED BY <3>1, <3>2
  <2> QED BY <2>1, <2>2
<1> QED BY <1>1, <1>3, <1>5, RowEnds

\* Acceptance and cancellation.
LEMMA RowStep ==
  ASSUME SessionsInv, SessionsNext, NEW j \in Job, Accept(j) \/ Continue(j) \/ Cancel(j)
  PROVE  DecidedOK(j)' /\ AttemptOK(j)'
<1> USE SessionsAssumption
<1>t. /\ job \in [Job -> JobRows] /\ job[j] \in JobRows /\ attempt \in [Job -> Attempts]
      /\ DecidedOK(j) /\ AttemptOK(j)
  BY DEF SessionsInv, JobTypeOK
<1>1. CASE Accept(j)
  <2>1. /\ attempt'[j] = attempt[j] /\ attempt[j].step = "idle"
        /\ job'[j].phase = "not_started" /\ UNCHANGED issued
        /\ j \in Private => job'[j].generation = credential.generation
    BY <1>t, <1>1 DEF Accept, AttemptOK, vaultVars, NewRow
  <2>2. j \in Private => Known(credential.generation)
    BY <1>1, ConnectedIsKnown DEF Accept
  <2> QED BY <2>1, <2>2 DEF DecidedOK, AttemptOK, Known
<1>2. CASE Continue(j)
  <2> DEFINE i == Inspected[j]
  <2>1. i \in Job /\ job[i] \in JobRows /\ DecidedOK(i) BY DEF SessionsInv, JobTypeOK
  <2>2. /\ attempt'[j] = attempt[j] /\ attempt[j].step = "idle"
        /\ job'[j].phase = job[i].phase /\ job'[j].generation = job[i].generation
        /\ job[i].status # "new" /\ UNCHANGED <<issued, credential>>
    BY <1>t, <1>2, <2>1 DEF Continue, AttemptOK, vaultVars, JobRows
  <2>3. Public(j) <=> Public(i) BY DEF Public
  <2> QED BY <2>1, <2>2, <2>3 DEF DecidedOK, AttemptOK, Known, Gone, Public
<1>3. CASE Cancel(j)
  <2>1. /\ attempt' = attempt /\ job'[j] = [job[j] EXCEPT !.status = "cancelled"]
        /\ job[j].status # "new" /\ UNCHANGED <<issued, credential, refused>>
    BY <1>t, <1>3 DEF Cancel, Active, vaultVars
  <2>2. /\ job'[j].phase = job[j].phase /\ job'[j].generation = job[j].generation
        /\ job'[j].status # "new"
    BY <1>t, <2>1 DEF JobRows
  <2>3. DecidedOK(j)' BY <1>t, <2>1, <2>2 DEF DecidedOK, Known, Gone, Public
  <2>4. AttemptOK(j)' BY <1>t, <2>1, <2>2 DEF AttemptOK, Known, Gone, Public
  <2> QED BY <2>3, <2>4
<1> QED BY <1>1, <1>2, <1>3

\* The steps of an attempt.
LEMMA BeginStep ==
  ASSUME SessionsInv, SessionsNext, NEW j \in Job, Begin(j) \/ Choose(j)
  PROVE  DecidedOK(j)' /\ AttemptOK(j)'
<1>t. /\ job \in [Job -> JobRows] /\ job[j] \in JobRows /\ attempt \in [Job -> Attempts]
      /\ attempt[j] \in Attempts /\ DecidedOK(j) /\ AttemptOK(j) /\ VaultTypeOK /\ IssuedOK
  BY DEF SessionsInv, JobTypeOK
<1>1. CASE Begin(j)
  <2>1. /\ job'[j].phase = job[j].phase /\ job'[j].generation = job[j].generation
        /\ job'[j].status = "active" /\ job[j].status = "active"
        /\ UNCHANGED <<credential, issued>>
    BY <1>t, <1>1 DEF Begin, Active, vaultVars, JobRows
  <2>2. /\ attempt'[j].step = IF Public(j) THEN "choose" ELSE "open"
        /\ attempt'[j].generation \in {0, credential.generation}
        /\ attempt'[j].generation # 0 => credential.state = "connected"
    BY <1>t, <1>1 DEF Begin, Idle, Attempts
  <2>3. attempt'[j].generation = 0 \/ Known(attempt'[j].generation)
    BY <2>2, ConnectedIsKnown
  <2>4. DecidedOK(j)' BY <1>t, <2>1 DEF DecidedOK, Known, Gone, Public
  <2>5. AttemptOK(j)' BY <1>t, <2>1, <2>2, <2>3 DEF AttemptOK, DecidedOK, Known, Gone, Public
  <2> QED BY <2>4, <2>5
<1>2. CASE Choose(j)
  <2> DEFINE a == attempt[j]
  <2>1. /\ UNCHANGED <<credential, issued, refused>> /\ job' = [job EXCEPT ![j] = Frozen(j)]
        /\ a.step = "choose" /\ Public(j) /\ (a.generation = 0 \/ Known(a.generation))
        /\ job[j].status # "new" /\ job[j].generation \in Nat
    BY <1>t, <1>2 DEF Choose, vaultVars, AttemptOK, JobRows
  <2>2. Gone(0)
    BY <1>t DEF Gone, GoneIn, IssuedOK
  <2>3. CASE Frozen(j) = job[j]
    <3>1. job'[j] = job[j] BY <1>t, <2>1, <2>3
    <3>2. DecidedOK(j)' BY <3>1, Unmoved
    <3>3. /\ attempt'[j].step \in {"idle", "open", "operator"}
          /\ attempt'[j].step = "open" => Active(j) /\ job[j].phase # "operator"
      <4>1. CASE ~Active(j) BY <1>t, <1>2, <4>1 DEF Choose, Idle
      <4>2. CASE Active(j)
        <5>1. attempt'[j].step = IF job[j].phase = "operator" THEN "operator" ELSE "open"
          BY <1>t, <1>2, <2>3, <4>2 DEF Choose, Idle
        <5> QED BY <4>2, <5>1
      <4> QED BY <4>1, <4>2
    <3>4. Active(j) /\ job[j].phase # "operator" => job[j].phase = "user"
      <4> SUFFICES ASSUME Active(j), job[j].phase = "not_started" PROVE FALSE
        BY <1>t DEF JobRows
      <4>1. Frozen(j).phase \in {"operator", "user"} BY <1>t DEF Frozen, JobRows
      <4> QED BY <4>1, <2>3
    <3>5. attempt'[j].step = "open" => Known(job[j].generation)
      BY <1>t, <3>3, <3>4 DEF DecidedOK
    <3> QED BY <2>1, <3>1, <3>2, <3>3, <3>5 DEF AttemptOK, Known, Gone, Public
  <2>4. CASE Frozen(j) # job[j]
    <3>1. /\ Active(j)
          /\ Frozen(j) = [job[j] EXCEPT !.generation = a.generation,
                                        !.phase = IF a.generation = 0 THEN "operator" ELSE "user"]
      BY <2>4 DEF Frozen
    <3>2. /\ job'[j].generation = a.generation /\ job'[j].status = "active"
          /\ job'[j].phase = IF a.generation = 0 THEN "operator" ELSE "user"
      BY <1>t, <2>1, <3>1 DEF JobRows, Active
    <3>3. attempt'[j].step = IF a.generation = 0 THEN "operator" ELSE "open"
      BY <1>t, <1>2, <3>1 DEF Choose, Idle, JobRows
    <3>4. DecidedOK(j)' BY <2>1, <2>2, <3>2 DEF DecidedOK, Known, Gone, Public
    <3> QED BY <2>1, <3>2, <3>3, <3>4 DEF AttemptOK, Known, Gone, Public
  <2> QED BY <2>3, <2>4
<1> QED BY <1>1, <1>2

\* An attempt that opens or takes a lease decides for the generation it then holds.
LEMMA BorrowStep ==
  ASSUME SessionsInv, SessionsNext, NEW j \in Job, Open(j) \/ AcquireLease(j)
  PROVE  DecidedOK(j)' /\ AttemptOK(j)'
<1>t. /\ job \in [Job -> JobRows] /\ job[j] \in JobRows /\ attempt \in [Job -> Attempts]
      /\ attempt[j] \in Attempts /\ DecidedOK(j) /\ AttemptOK(j) /\ VaultTypeOK /\ IssuedOK
  BY DEF SessionsInv, JobTypeOK
<1>u. UNCHANGED <<credential, issued, refused>>
  BY DEF Open, AcquireLease, vaultVars
<1> DEFINE g == job[j].generation
<1>1. ASSUME RaiseInvalid(j), attempt[j].step # "idle", Known(g), ~Connected(g)
      PROVE  DecidedOK(j)' /\ AttemptOK(j)'
  <2>1. /\ job' = job /\ attempt'[j].step = "mark" /\ job[j].status # "new"
    BY <1>t, <1>1 DEF RaiseInvalid, Attempts, AttemptOK
  <2>2. Gone(g) BY <1>1 DEF Gone, GoneIn, Known, Connected
  <2>3. DecidedOK(j)' BY <2>1, Unmoved
  <2> QED BY <1>1, <1>u, <2>1, <2>2, <2>3 DEF AttemptOK, Known, Gone
<1>2. CASE Open(j)
  <2>1. Known(g) /\ job[j].status # "new" /\ attempt[j].step = "open"
    BY <1>t, <1>2 DEF AttemptOK, Open
  <2>2. CASE Connected(g)
    <3>1. /\ job' = job /\ attempt'[j].step = "lease" /\ attempt'[j].generation = g
          /\ attempt'[j].session = credential.session
      BY <1>t, <1>2, <2>2 DEF Open, Idle, Connected
    <3>2. <<g, credential.session>> \in issued BY <2>2, ConnectedIsKnown DEF Connected
    <3>3. DecidedOK(j)' BY <3>1, Unmoved
    <3> QED BY <1>u, <2>1, <3>1, <3>2, <3>3 DEF AttemptOK, Known, Gone
  <2>3. CASE ~Connected(g)
    <3>1. RaiseInvalid(j) BY <1>2, <2>3 DEF Open
    <3> QED BY <1>1, <2>1, <2>3, <3>1
  <2> QED BY <2>2, <2>3
<1>3. CASE AcquireLease(j)
  <2>1. /\ Known(g) /\ attempt[j].generation = g /\ <<g, attempt[j].session>> \in issued
        /\ attempt[j].step = "lease" /\ job[j].status # "new"
    BY <1>t, <1>3 DEF AttemptOK, AcquireLease
  <2>2. CASE RaiseInvalid(j) /\ ~Connected(g)
    BY <1>1, <2>1, <2>2
  <2>3. CASE Raise(j, FALSE)
    BY <2>1, <2>3, AttemptEnds
  <2>4. CASE Goto(j, "use") /\ UNCHANGED job
    <3>1. /\ attempt'[j].step = "use" /\ attempt'[j].generation = g
          /\ attempt'[j].session = attempt[j].session
      BY <1>t, <2>1, <2>4 DEF Goto, Attempts
    <3>2. DecidedOK(j)' BY <2>4, Unmoved
    <3> QED BY <1>u, <2>1, <2>4, <3>1, <3>2 DEF AttemptOK, Known, Gone
  <2> QED BY <1>3, <2>1, <2>2, <2>3, <2>4 DEF AcquireLease
<1> QED BY <1>2, <1>3

\* An attempt that works, or turns to the operator, keeps what it decided from.
LEMMA WorkStep ==
  ASSUME SessionsInv, SessionsNext, NEW j \in Job,
         Release(j) \/ UseOperator(j) \/ \E error \in {"none", "refused", "other"} : Use(j, error)
  PROVE  DecidedOK(j)' /\ AttemptOK(j)'
<1>t. /\ job \in [Job -> JobRows] /\ job[j] \in JobRows /\ attempt \in [Job -> Attempts]
      /\ attempt[j] \in Attempts /\ DecidedOK(j) /\ AttemptOK(j)
  BY DEF SessionsInv, JobTypeOK
<1> DEFINE g == job[j].generation
<1>1. ASSUME NEW error \in {"none", "refused", "other"}, Use(j, error)
      PROVE  DecidedOK(j)' /\ AttemptOK(j)'
  <2>1. /\ job' = job /\ attempt'[j].step = "release" /\ attempt'[j].error = error
        /\ attempt'[j].generation = attempt[j].generation
        /\ attempt'[j].session = attempt[j].session
        /\ UNCHANGED <<credential, issued>> /\ attempt[j].step = "use"
    BY <1>t, <1>1 DEF Use, vaultVars, Attempts
  <2>2. error = "refused" => attempt[j].session \in refused'
    BY <1>1 DEF Use
  <2>3. DecidedOK(j)' BY <2>1, Unmoved
  <2> QED BY <1>t, <2>1, <2>2, <2>3 DEF AttemptOK, Known, Gone
<1>2. CASE Release(j)
  <2>1. /\ Known(g) /\ attempt[j].generation = g /\ <<g, attempt[j].session>> \in issued
        /\ attempt[j].step = "release" /\ job[j].status # "new"
        /\ attempt[j].error = "refused" => attempt[j].session \in refused
        /\ UNCHANGED <<credential, issued, refused>>
    BY <1>t, <1>2 DEF AttemptOK, Release, vaultVars
  <2>2. CASE Succeed(j) \/ \E retryable \in BOOLEAN : Raise(j, retryable)
    BY <2>1, <2>2, AttemptEnds
  <2>3. CASE attempt[j].error = "refused" /\ RaiseInvalid(j)
    <3>1. job' = job /\ attempt'[j].step = "mark" /\ attempt'[j].session = attempt[j].session
      BY <1>t, <2>3 DEF RaiseInvalid, Attempts
    <3>2. DecidedOK(j)' BY <3>1, Unmoved
    <3> QED BY <2>1, <2>3, <3>1, <3>2 DEF AttemptOK, Known, Gone
  <2> QED BY <1>2, <2>2, <2>3 DEF Release
<1>3. CASE UseOperator(j)
  <2>1. /\ attempt[j].step # "idle"
        /\ Succeed(j) \/ \E retryable \in BOOLEAN : Raise(j, retryable)
    BY <1>3 DEF UseOperator
  <2> QED BY <2>1, AttemptEnds
<1> QED BY <1>1, <1>2, <1>3

\* An attempt that marks a session or goes on to the next keeps what it decided from.
LEMMA GiveUpStep ==
  ASSUME SessionsInv, SessionsNext, NEW j \in Job, Mark(j) \/ Switch(j)
  PROVE  DecidedOK(j)' /\ AttemptOK(j)'
<1>t. /\ job \in [Job -> JobRows] /\ job[j] \in JobRows /\ attempt \in [Job -> Attempts]
      /\ attempt[j] \in Attempts /\ DecidedOK(j) /\ AttemptOK(j)
  BY DEF SessionsInv, JobTypeOK
<1> DEFINE g == job[j].generation
<1>1. CASE Mark(j)
  <2>1. CASE Public(j)
    <3>1. job' = job /\ attempt'[j].step = "switch" /\ Known(g) /\ job[j].status # "new"
      BY <1>t, <1>1, <2>1 DEF Mark, Goto, Attempts, AttemptOK
    <3>2. ~(credential'.state = "connected" /\ credential'.generation = g) /\ issued' = issued
      BY <1>1 DEF Mark, MarkSessionInvalid, Connected, SessionsInv, VaultTypeOK
    <3>3. DecidedOK(j)' BY <3>1, Unmoved
    <3>4. GoneIn(credential', issued', g) BY <3>1, <3>2 DEF GoneIn, Known
    <3> QED BY <2>1, <3>1, <3>2, <3>3, <3>4 DEF AttemptOK, Known, Gone, Public
  <2>2. CASE ~Public(j)
    <3>1. attempt[j].step # "idle" /\ Raise(j, FALSE) BY <1>1, <2>2 DEF Mark
    <3> QED BY <3>1, AttemptEnds
  <2> QED BY <2>1, <2>2
<1>2. CASE Switch(j)
  <2>1. CASE Active(j) /\ job[j].phase = "user"
    <3>1. /\ job'[j].phase = "operator" /\ job'[j].generation = g /\ job'[j].status = "active"
          /\ attempt'[j].step = "operator" /\ Public(j) /\ Gone(g) /\ Known(g)
          /\ UNCHANGED <<credential, issued>>
      BY <1>t, <1>2, <2>1 DEF Switch, Goto, Attempts, JobRows, Active, AttemptOK, vaultVars
    <3> QED BY <3>1 DEF AttemptOK, DecidedOK, Known, Gone, Public
  <2>2. CASE ~(Active(j) /\ job[j].phase = "user")
    <3>1. attempt[j].step # "idle" /\ Raise(j, FALSE) BY <1>2, <2>2 DEF Switch
    <3> QED BY <3>1, AttemptEnds
  <2> QED BY <2>1, <2>2
<1> QED BY <1>1, <1>2

\* Every row and every attempt.
LEMMA RowsStep ==
  ASSUME SessionsInv, SessionsNext
  PROVE  \A j \in Job : DecidedOK(j)' /\ AttemptOK(j)'
<1>1. ASSUME NEW j \in Job, Accept(j) \/ Continue(j) \/ Cancel(j) \/ AttemptStep(j)
      PROVE  \A i \in Job : DecidedOK(i)' /\ AttemptOK(i)'
  <2>1. DecidedOK(j)' /\ AttemptOK(j)'
    BY <1>1, RowStep, BeginStep, BorrowStep, WorkStep, GiveUpStep DEF AttemptStep
  <2>2. \A i \in Job \ {j} : DecidedOK(i)' /\ AttemptOK(i)'
    BY <1>1, OthersUnmoved, Unmoved
  <2> QED BY <2>1, <2>2
<1>2. CASE WorkerDies
  <2> TAKE j \in Job
  <2>1. job' = job /\ attempt'[j].step = "idle" BY <1>2 DEF WorkerDies, Idle
  <2>2. DecidedOK(j)' BY <2>1, Unmoved
  <2>3. AttemptOK(j)' BY <2>1 DEF AttemptOK
  <2> QED BY <2>2, <2>3
<1>3. ASSUME UNCHANGED <<job, attempt>>
      PROVE  \A i \in Job : DecidedOK(i)' /\ AttemptOK(i)'
  BY <1>3, Unmoved
<1>4. ASSUME NEW l \in Login, StoreStep(l) PROVE UNCHANGED <<job, attempt>>
  BY <1>4 DEF StoreStep, ReadForStore, StoreSession
<1>5. CASE ReadForDisconnect \/ Disconnect \/ Tick
  BY <1>3, <1>5 DEF ReadForDisconnect, Disconnect, Tick
<1> QED BY <1>1, <1>2, <1>3, <1>4, <1>5 DEF SessionsNext

\* A mark expires what the attempt was refused, or what was saved twice.
LEMMA ExpiryStep ==
  ASSUME SessionsInv, SessionsNext
  PROVE  ExpiredWasRefused'
<1> DEFINE Refused(row, saved, refusals) ==
      row.state = "expired" =>
        \/ row.session \in refusals
        \/ \E l1, l2 \in Login :
             l1 # l2 /\ {<<row.generation, l1>>, <<row.generation, l2>>} \subseteq saved
<1>1. /\ ExpiredWasRefused <=> Refused(credential, issued, refused)
      /\ ExpiredWasRefused' <=> Refused(credential', issued', refused')
  BY DEF ExpiredWasRefused, Twins
<1>2. issued \subseteq issued' /\ refused \subseteq refused' BY OnlyMore
<1>3. ASSUME credential' = credential PROVE ExpiredWasRefused'
  BY <1>1, <1>2, <1>3 DEF SessionsInv
<1>4. ASSUME credential'.state # "expired" PROVE ExpiredWasRefused'
  BY <1>1, <1>4
<1>5. ASSUME NEW l \in Login, ReadForStore(l) \/ StoreSession(l) PROVE ExpiredWasRefused'
  BY <1>3, <1>4, <1>5 DEF ReadForStore, StoreSession
<1>6. CASE ReadForDisconnect \/ Disconnect
  BY <1>3, <1>4, <1>6 DEF ReadForDisconnect, Disconnect
<1>7. ASSUME NEW j \in Job, Mark(j) PROVE ExpiredWasRefused'
  <2> DEFINE g == job[j].generation
  <2>1. CASE ~Connected(g)
    BY <1>3, <1>7, <2>1 DEF Mark, MarkSessionInvalid
  <2>2. CASE Connected(g)
    <3>1. /\ credential'.generation = g /\ credential'.session = credential.session
          /\ issued' = issued /\ refused' = refused
      BY <1>7, <2>2 DEF Mark, MarkSessionInvalid, Connected, SessionsInv, VaultTypeOK
    <3>2. <<g, credential.session>> \in issued /\ credential.session \in Login
      BY <2>2, ConnectedIsKnown DEF Connected
    <3>3. Gone(g) \/ (attempt[j].session \in refused /\ <<g, attempt[j].session>> \in issued)
      BY <1>7 DEF Mark, SessionsInv, AttemptOK
    <3>4. CASE Gone(g)
      <4>1. PICK l1, l2 \in Login : l1 # l2 /\ {<<g, l1>>, <<g, l2>>} \subseteq issued
        BY <2>2, <3>4 DEF Gone, GoneIn, Connected
      <4>2. /\ l1 # l2
            /\ {<<credential'.generation, l1>>, <<credential'.generation, l2>>} \subseteq issued'
        BY <3>1, <4>1
      <4> QED BY <1>1, <4>2
    <3>5. CASE attempt[j].session \in refused /\ <<g, attempt[j].session>> \in issued
      <4>1. attempt[j].session \in Login BY <3>5 DEF SessionsInv, VaultTypeOK
      <4>2. CASE attempt[j].session = credential.session BY <1>1, <3>1, <3>5, <4>2
      <4>3. CASE attempt[j].session # credential.session
        <5>1. {<<g, attempt[j].session>>, <<g, credential.session>>} \subseteq issued'
          BY <3>1, <3>2, <3>5
        <5> QED BY <1>1, <3>1, <3>2, <4>1, <4>3, <5>1
      <4> QED BY <4>2, <4>3
    <3> QED BY <3>3, <3>4, <3>5
  <2> QED BY <2>1, <2>2
<1>8. ASSUME NEW j \in Job, NEW error, Use(j, error) PROVE ExpiredWasRefused'
  BY <1>3, <1>8 DEF Use, vaultVars
<1>9. CASE UNCHANGED <<vaultVars, refused>> BY <1>3, <1>9 DEF vaultVars
<1> HIDE DEF Refused
<1> QED BY <1>5, <1>6, <1>7, <1>8, <1>9, VaultActions

\* The rows and attempts of the user's jobs always agree with the vault (InstagramSessions).
THEOREM SessionsInvariant == SessionsSpec => []SessionsInv
<1>1. SessionsInit => SessionsInv
  BY SessionsAssumption
  DEF SessionsInit, SessionsInv, VaultTypeOK, JobTypeOK, LeasesExclude, IssuedOK, DecidedOK,
      AttemptOK, ExpiredWasRefused, Sessions, JobRows, Attempts, Steps, NoCredential, NoLease, Idle,
      NewRow, Live
<1>2. SessionsInv /\ [SessionsNext]_sessionVars => SessionsInv'
  <2> SUFFICES ASSUME SessionsInv, [SessionsNext]_sessionVars PROVE SessionsInv' OBVIOUS
  <2>1. CASE SessionsNext
    <3>1. VaultTypeOK' /\ JobTypeOK' /\ LeasesExclude' /\ IssuedOK' /\ ExpiredWasRefused'
      BY <2>1, VaultTypeStep, JobTypeStep, ExclusionStep, IssuedStep, ExpiryStep DEF SessionsInv
    <3>2. \A j \in Job : DecidedOK(j)' /\ AttemptOK(j)' BY <2>1, RowsStep
    <3> QED BY <3>1, <3>2 DEF SessionsInv
  <2>2. CASE UNCHANGED sessionVars
    <3> USE <2>2 DEF sessionVars, vaultVars, SessionsInv
    <3>1. VaultTypeOK' /\ JobTypeOK' BY DEF VaultTypeOK, JobTypeOK
    <3>2. LeasesExclude' /\ IssuedOK' BY DEF LeasesExclude, IssuedOK, Live
    <3>3. ExpiredWasRefused' BY DEF ExpiredWasRefused, Twins
    <3>4. \A g : (Known(g) <=> Known(g)') /\ (Gone(g) <=> Gone(g)')
      BY DEF Known, KnownIn, Gone, GoneIn
    <3>5. ASSUME NEW j \in Job PROVE DecidedOK(j)' /\ AttemptOK(j)'
      <4>1. DecidedOK(j)' BY <3>4 DEF DecidedOK, Public
      <4>2. AttemptOK(j)' BY <3>4 DEF AttemptOK, Public
      <4> QED BY <4>1, <4>2
    <3> HIDE DEF SessionsInv
    <3> QED BY <3>1, <3>2, <3>3, <3>5 DEF SessionsInv
  <2> QED BY <2>1, <2>2
<1> QED BY <1>1, <1>2, PTL DEF SessionsSpec

\* One job at a time holds a session the user connected, while its lease lasts
\* (AcquireLease against the leases of every generation).
THEOREM SessionsExclude == SessionsSpec => []SessionsAreExclusive
<1>1. SessionsInv => SessionsAreExclusive
  BY DEF SessionsInv, LeasesExclude, SessionsAreExclusive
<1> QED BY <1>1, SessionsInvariant, PTL

\* What the vault shows as expired was refused: MarkSessionInvalid compares the generation.
THEOREM ExpiryIsJustified == SessionsSpec => []ExpiredWasRefused
<1>1. SessionsInv => ExpiredWasRefused BY DEF SessionsInv
<1> QED BY <1>1, SessionsInvariant, PTL

\* No job goes over to the operator's cookie while the session it was given is connected.
THEOREM OperatorComesLast == SessionsSpec => []OperatorIsLastResort
<1>1. SessionsInv => OperatorIsLastResort
  BY DEF SessionsInv, OperatorIsLastResort, DecidedOK, Gone, GoneIn, Connected, Twins
<1> QED BY <1>1, SessionsInvariant, PTL

(***************************************************************************)
(* The browser that connects the account.                                  *)
(***************************************************************************)

Requests == [step : {"idle", "body", "acquire", "store", "stored", "failed"},
             from : Link \union {"none"}, id : Nat, saving : Sessions, detached : BOOLEAN]
Logins == [id : Nat, until : Nat, phase : {"creds", "2fa"}, locked : BOOLEAN]

CompanionTypeOK ==
  /\ now \in Nat /\ consumed \subseteq Link /\ excused \subseteq Link
  /\ saves \subseteq Link \X Login
  /\ browser \in [Link -> Nat] /\ opened \in [Link -> Nat] /\ tried \in [Link -> Nat]
  /\ login \in [Link -> Logins] /\ request \in [Request -> Requests]

\* A request is of a link that was consumed; past the body it works on an attempt, and
\* one that stores has a session to store.
RequestOK(r) ==
  LET q == request[r]
  IN /\ q.step = "idle" <=> q.from = "none"
     /\ q.from \in Link => q.from \in consumed
     /\ q.id = 0 <=> q.step \in {"idle", "body"}
     /\ q.from \in Link => q.id <= tried[q.from]
     /\ q.id # 0 /\ login[q.from].id = q.id => login[q.from].locked
     /\ q.step \in {"store", "stored"} => q.saving \in Login
     /\ q.detached => q.from \in excused

\* A link that is not excused: whoever stores is on the current attempt.
StoresOnCurrent(k) ==
  \A r \in Request : request[r].from = k /\ request[r].step \in {"store", "stored"} =>
    login[k].id = request[r].id

\* Nothing is left of the link but its consumption.
Over(k) == k \in consumed /\ browser[k] = Closed /\ \A r \in Request : request[r].from # k

\* A session was saved: its request is still there to end the browser session, or did.
SavedOnce(k) ==
  /\ \A s, t \in saves : s[1] = k /\ t[1] = k => s = t
  /\ (\E s \in saves : s[1] = k) =>
       Over(k) \/ \E r \in Request : request[r].from = k /\ request[r].step = "stored"

LinkOK(k) ==
  /\ opened[k] <= 1 /\ (k \notin consumed => opened[k] = 0)
  /\ browser[k] # Closed => k \in consumed
  /\ login[k].id <= tried[k]
  /\ k \notin excused => StoresOnCurrent(k) /\ SavedOnce(k)

CompanionIInv ==
  /\ CompanionTypeOK
  /\ OneLoginAtATime
  /\ \A r \in Request : RequestOK(r)
  /\ \A k \in Link : LinkOK(k)

\* Every move of a request or a login yields a request or a login again.
LEMMA RequestsClosed ==
  /\ NoRequest \in Requests /\ NoLogin \in Logins
  /\ \A k \in Link : [NoRequest EXCEPT !.step = "body", !.from = k] \in Requests
  /\ \A q \in Requests, id \in Nat : [q EXCEPT !.step = "acquire", !.id = id] \in Requests
  /\ \A q \in Requests, l \in Login : [q EXCEPT !.step = "store", !.saving = l] \in Requests
  /\ \A q \in Requests, step \in {"stored", "failed"} : [q EXCEPT !.step = step] \in Requests
  /\ \A q \in Requests : [q EXCEPT !.detached = TRUE] \in Requests
  /\ \A a \in Logins : [a EXCEPT !.locked = TRUE] \in Logins
  /\ \A a \in Logins : [a EXCEPT !.phase = "2fa", !.locked = FALSE] \in Logins
  /\ \A id, until \in Nat :
       [id |-> id, until |-> until, phase |-> "creds", locked |-> FALSE] \in Logins
BY DEF Requests, Logins, NoRequest, NoLogin, Sessions

\* A link's login is of its type, and so are the logins after old ones expire.
LEMMA JoinedType ==
  ASSUME CompanionTypeOK, NEW k \in Link
  PROVE  Joined(k) \in Logins /\ Unexpired \in [Link -> Logins]
<1>1. tried[k] + 1 \in Nat /\ now + AttemptLife \in Nat
  BY CompanionAssumption DEF CompanionTypeOK
<1>2. login \in [Link -> Logins] BY DEF CompanionTypeOK
<1> QED BY <1>1, <1>2, RequestsClosed DEF Joined, Unexpired

\* What the moves of the companion leave of its types.
LEMMA CompanionTypeStep ==
  ASSUME CompanionTypeOK, CompanionNext, \A r \in Request : RequestOK(r)
  PROVE  CompanionTypeOK'
<1> USE CompanionAssumption, SessionsAssumption DEF CompanionTypeOK
<1>w. Closed \in Nat BY DEF Closed
<1>1. ASSUME NEW k \in Link, MintLink(k) PROVE CompanionTypeOK'
  BY <1>1 DEF MintLink, sessionVars
<1>2. ASSUME NEW k \in Link, Exchange(k) PROVE CompanionTypeOK'
  <2>1. WithBrowser(k) \in [Link -> Nat] BY <1>w DEF WithBrowser
  <2>2. opened[k] + 1 \in Nat OBVIOUS
  <2> QED BY <1>2, <2>1, <2>2 DEF Exchange, sessionVars
<1>3. ASSUME NEW r \in Request, request[r].from \in Link, login' \in [Link -> Logins],
             request' \in [Request -> Requests], tried' \in [Link -> Nat],
             excused' \subseteq Link, saves' \subseteq Link \X Login,
             browser' \in [Link -> Nat], UNCHANGED <<consumed, opened, now>>
      PROVE  CompanionTypeOK'
  BY <1>3
<1>4. ASSUME NEW r \in Request, request[r].step # "idle"
      PROVE  request[r].from \in Link /\ request[r] \in Requests
  BY <1>4 DEF RequestOK, Requests
<1>p. ASSUME NEW k \in Link, Pop(k) PROVE login' \in [Link -> Logins]
  BY <1>p, RequestsClosed DEF Pop
<1>o. Outlived \subseteq Link BY DEF Outlived
<1>a. ASSUME NEW r \in Request, Answer(r) PROVE request' \in [Request -> Requests]
  BY <1>a, RequestsClosed DEF Answer
<1>5. ASSUME NEW r \in Request, NEW k \in Link, Authorize(r, k) PROVE CompanionTypeOK'
  <2>1. [NoRequest EXCEPT !.step = "body", !.from = k] \in Requests BY RequestsClosed
  <2> QED BY <1>5, <2>1 DEF Authorize, sessionVars
<1>6. ASSUME NEW r \in Request, StepRefused(r) PROVE CompanionTypeOK'
  <2>1. request[r].from \in Link BY <1>4, <1>6 DEF StepRefused
  <2>2. Unexpired \in [Link -> Logins] BY <2>1, JoinedType
  <2> QED BY <1>6, <1>a, <1>o, <2>1, <2>2 DEF StepRefused, sessionVars
<1>7. ASSUME NEW r \in Request, StepAsksInput(r) PROVE CompanionTypeOK'
  <2>1. request[r].from \in Link BY <1>4, <1>7 DEF StepAsksInput
  <2>2. Unexpired \in [Link -> Logins] /\ Joined(request[r].from) \in Logins BY <2>1, JoinedType
  <2>3. login' \in [Link -> Logins] BY <1>7, <2>1, <2>2 DEF StepAsksInput
  <2>4. tried' \in [Link -> Nat]
    <3>1. tried[request[r].from] \in Nat /\ tried[request[r].from] + 1 \in Nat BY <2>1
    <3> QED BY <1>7, <2>1, <3>1 DEF StepAsksInput
  <2> QED BY <1>7, <1>a, <1>o, <2>3, <2>4 DEF StepAsksInput, sessionVars
<1>8. ASSUME NEW r \in Request, StepCallsProvider(r) PROVE CompanionTypeOK'
  <2> DEFINE k == request[r].from
  <2>1. k \in Link /\ request[r] \in Requests BY <1>4, <1>8 DEF StepCallsProvider
  <2>2. Unexpired \in [Link -> Logins] /\ Joined(k) \in Logins BY <2>1, JoinedType
  <2>3. login' \in [Link -> Logins]
    <3>1. [Joined(k) EXCEPT !.locked = TRUE] \in Logins BY <2>2, RequestsClosed
    <3> QED BY <1>8, <2>1, <2>2, <3>1 DEF StepCallsProvider
  <2>4. tried' \in [Link -> Nat]
    <3>1. tried[k] \in Nat /\ tried[k] + 1 \in Nat BY <2>1
    <3> QED BY <1>8, <2>1, <3>1 DEF StepCallsProvider
  <2>5. request' \in [Request -> Requests]
    <3>1. Joined(k).id \in Nat BY <2>2 DEF Logins
    <3>2. [request[r] EXCEPT !.step = "acquire", !.id = Joined(k).id] \in Requests
      BY <2>1, <3>1, RequestsClosed
    <3>3. request' = [request EXCEPT ![r] =
            [request[r] EXCEPT !.step = "acquire", !.id = Joined(k).id]]
      BY <1>8 DEF StepCallsProvider
    <3> QED BY <3>2, <3>3
  <2> QED BY <1>8, <1>o, <2>3, <2>4, <2>5 DEF StepCallsProvider, sessionVars
<1>9. ASSUME NEW r \in Request, LoginDenied(r) \/ StoreFailed(r) PROVE CompanionTypeOK'
  <2>1. request[r].from \in Link BY <1>4, <1>9 DEF LoginDenied, StoreFailed
  <2> QED BY <1>9, <1>a, <1>o, <1>p, <2>1 DEF LoginDenied, StoreFailed, sessionVars
<1>10. ASSUME NEW r \in Request, CodeWanted(r) PROVE CompanionTypeOK'
  <2> DEFINE k == request[r].from
  <2>1. k \in Link BY <1>4, <1>10 DEF CodeWanted
  <2>2. [login[k] EXCEPT !.phase = "2fa", !.locked = FALSE] \in Logins BY <2>1, RequestsClosed
  <2>3. login' = [login EXCEPT ![k] = [login[k] EXCEPT !.phase = "2fa", !.locked = FALSE]]
    BY <1>10 DEF CodeWanted
  <2>4. login' \in [Link -> Logins] BY <2>1, <2>2, <2>3
  <2> QED BY <1>10, <1>a, <2>4 DEF CodeWanted, sessionVars
<1>11. ASSUME NEW r \in Request, NEW l \in Login, LoggedIn(r, l) PROVE CompanionTypeOK'
  <2>1. [request[r] EXCEPT !.step = "store", !.saving = l] \in Requests BY RequestsClosed
  <2>2. request' = [request EXCEPT ![r] = [request[r] EXCEPT !.step = "store", !.saving = l]]
    BY <1>11 DEF LoggedIn
  <2> QED BY <1>11, <2>1, <2>2 DEF LoggedIn, sessionVars
<1>12. ASSUME NEW r \in Request, StoreReads(r) PROVE CompanionTypeOK'
  BY <1>12 DEF StoreReads, ReadForStore, companionVars
<1>13. ASSUME NEW r \in Request, StoreWrites(r) PROVE CompanionTypeOK'
  <2>1. request[r].from \in Link /\ request[r] \in Requests /\ request[r].saving \in Login
    BY <1>4, <1>13 DEF StoreWrites, RequestOK
  <2>2. request' \in [Request -> Requests]
    <3>1. \A step \in {"stored", "failed"} : [request[r] EXCEPT !.step = step] \in Requests
      BY <2>1, RequestsClosed
    <3> QED BY <1>13, <3>1, RequestsClosed DEF StoreWrites
  <2>3. saves' \subseteq Link \X Login BY <1>13, <2>1 DEF StoreWrites
  <2> QED BY <1>13, <2>2, <2>3 DEF StoreWrites, StoreSession
<1>14. ASSUME NEW r \in Request, LoginFinished(r) PROVE CompanionTypeOK'
  <2>1. request[r].from \in Link BY <1>4, <1>14 DEF LoginFinished
  <2>2. browser' \in [Link -> Nat] BY <1>14, <1>w, <2>1 DEF LoginFinished
  <2>3. excused' \subseteq Link BY <1>14, <2>1 DEF LoginFinished
  <2> QED BY <1>14, <1>a, <1>p, <2>1, <2>2, <2>3 DEF LoginFinished, sessionVars
<1>15. ASSUME NEW r \in Request, RequestTimesOut(r) PROVE CompanionTypeOK'
  <2>1. request[r].from \in Link /\ request[r] \in Requests
    BY <1>4, <1>15 DEF RequestTimesOut
  <2>2. login' \in [Link -> Logins] BY <1>15, <1>p, <2>1 DEF RequestTimesOut
  <2>3. request' \in [Request -> Requests]
    <3>1. [request[r] EXCEPT !.detached = TRUE] \in Requests BY <2>1, RequestsClosed
    <3> QED BY <1>15, <3>1, RequestsClosed DEF RequestTimesOut
  <2>4. excused' \subseteq Link BY <1>15, <1>o, <2>1 DEF RequestTimesOut
  <2> QED BY <1>15, <2>2, <2>3, <2>4 DEF RequestTimesOut, sessionVars
<1>16. CASE CompanionDies
  BY <1>16, <1>w, RequestsClosed DEF CompanionDies
<1>17. CASE Tick /\ UNCHANGED companionVars
  BY <1>17 DEF Tick, companionVars
<1> QED
  BY <1>1, <1>2, <1>5, <1>6, <1>7, <1>8, <1>9, <1>10, <1>11, <1>12, <1>13, <1>14, <1>15, <1>16,
     <1>17 DEF CompanionNext, RequestStep

\* Requests, attempts and links that agree.
Agree ==
  /\ OneLoginAtATime
  /\ \A r \in Request : RequestOK(r)
  /\ \A k \in Link : LinkOK(k)

\* A request that is answered and attempts that are forgotten.
LEMMA AnswerStep ==
  ASSUME CompanionIInv, CompanionTypeOK', NEW r \in Request, Answer(r),
         \A k \in Link : login'[k] \in {login[k], NoLogin},
         UNCHANGED <<consumed, opened, tried, saves>>,
         \A k \in Link : browser'[k] = browser[k] \/ browser'[k] = Closed,
         excused \union Outlived \subseteq excused',
         request[r].step = "stored" => request[r].from \in excused',
         request[r].step # "idle"
  PROVE  Agree'
<1> USE CompanionAssumption DEF CompanionIInv, CompanionTypeOK
<1>1. /\ request'[r] = NoRequest
      /\ \A x \in Request \ {r} : request'[x] = request[x]
  BY DEF Answer
<1>2. OneLoginAtATime' BY <1>1 DEF OneLoginAtATime, NoRequest
<1>3. ASSUME NEW x \in Request PROVE RequestOK(x)'
  <2>1. CASE x = r BY <1>1, <2>1 DEF RequestOK, NoRequest
  <2>2. CASE x # r
    <3>1. request'[x] = request[x] /\ RequestOK(x) BY <1>1, <2>2
    <3>2. ASSUME request[x].id # 0, login'[request[x].from].id = request[x].id,
                 request[x].from \in Link
          PROVE  login'[request[x].from].locked
      BY <3>1, <3>2 DEF RequestOK, NoLogin
    <3>3. request[x].id # 0 => request[x].from \in Link
      BY <3>1 DEF RequestOK, Requests
    <3> QED BY <3>1, <3>2, <3>3 DEF RequestOK
  <2> QED BY <2>1, <2>2
<1>4. ASSUME NEW k \in Link PROVE LinkOK(k)'
  <2>1. LinkOK(k) OBVIOUS
  <2>2. /\ opened'[k] <= 1 /\ (k \notin consumed' => opened'[k] = 0)
        /\ browser'[k] # Closed => k \in consumed'
        /\ login'[k].id <= tried'[k]
    BY <2>1 DEF LinkOK, NoLogin
  <2>3. ASSUME k \notin excused' PROVE StoresOnCurrent(k)'
    <3>1. StoresOnCurrent(k) /\ k \notin Outlived BY <2>1, <2>3 DEF LinkOK
    <3> SUFFICES ASSUME NEW x \in Request, request'[x].from = k,
                        request'[x].step \in {"store", "stored"}
                 PROVE  login'[k].id = request'[x].id
      BY DEF StoresOnCurrent
    <3>2. request'[x] = request[x] BY <1>1 DEF NoRequest
    <3>3. login[k].id = request[x].id BY <3>1, <3>2 DEF StoresOnCurrent
    <3> QED BY <3>1, <3>2, <3>3 DEF Outlived, Current
  <2>4. ASSUME k \notin excused' PROVE SavedOnce(k)'
    <3>1. SavedOnce(k) BY <2>1, <2>4 DEF LinkOK
    <3>2. Over(k) => Over(k)' BY <1>1 DEF Over, NoRequest, Closed
    <3>3. ASSUME NEW x \in Request, request[x].from = k, request[x].step = "stored"
          PROVE  request'[x] = request[x]
      BY <1>1, <2>4, <3>3
    <3> QED BY <3>1, <3>2, <3>3 DEF SavedOnce
  <2> QED BY <2>2, <2>3, <2>4 DEF LinkOK
<1> QED BY <1>2, <1>3, <1>4 DEF Agree

\* Attempts that are neither joined nor popped by their session stay or are forgotten.
LEMMA ForgetStep ==
  ASSUME CompanionIInv, CompanionNext, NEW r \in Request,
         \/ StepRefused(r) \/ LoginDenied(r) \/ StoreFailed(r)
         \/ RequestTimesOut(r) /\ request[r].step # "store"
  PROVE  Agree'
<1>1. CompanionTypeOK' BY CompanionTypeStep DEF CompanionIInv
<1>2. login \in [Link -> Logins] BY DEF CompanionIInv, CompanionTypeOK
<1>3. \A k \in Link : login'[k] \in {login[k], NoLogin}
  BY <1>2 DEF StepRefused, LoginDenied, StoreFailed, RequestTimesOut, Unexpired, Pop
<1>4. /\ Answer(r) /\ UNCHANGED <<consumed, opened, tried, saves, browser>>
      /\ excused \union Outlived \subseteq excused'
      /\ request[r].step = "stored" => request[r].from \in excused'
      /\ request[r].step # "idle"
  BY DEF StepRefused, LoginDenied, StoreFailed, RequestTimesOut, Answer
<1> QED BY <1>1, <1>3, <1>4, AnswerStep

\* The request that finishes the login drops the session; others that passed its lookup excuse
\* the link.
LEMMA FinishStep ==
  ASSUME CompanionIInv, CompanionNext, NEW r \in Request, LoginFinished(r)
  PROVE  Agree'
<1> DEFINE k == request[r].from
<1>1. CompanionTypeOK' BY CompanionTypeStep DEF CompanionIInv
<1>2. /\ k \in Link /\ k \in consumed /\ login \in [Link -> Logins] /\ browser \in [Link -> Nat]
  BY CompanionAssumption DEF CompanionIInv, CompanionTypeOK, RequestOK, LoginFinished, Requests
<1>3. /\ request'[r] = NoRequest /\ \A x \in Request \ {r} : request'[x] = request[x]
  BY DEF LoginFinished, Answer, CompanionIInv, CompanionTypeOK
<1>4. /\ \A x \in Link : login'[x] \in {login[x], NoLogin}
      /\ \A x \in Link \ {k} : login'[x] = login[x] /\ browser'[x] = browser[x]
      /\ browser'[k] = Closed
      /\ UNCHANGED <<consumed, opened, tried, saves>>
      /\ excused' = IF \E x \in Request \ {r} : request[x].from = k
                    THEN excused \union {k} ELSE excused
  BY <1>2 DEF LoginFinished, Pop
<1> USE CompanionAssumption DEF CompanionIInv, CompanionTypeOK
<1>5. OneLoginAtATime' BY <1>3 DEF OneLoginAtATime, NoRequest
<1>6. ASSUME NEW x \in Request PROVE RequestOK(x)'
  <2>1. CASE x = r BY <1>3, <2>1 DEF RequestOK, NoRequest
  <2>2. CASE x # r
    <3>1. request'[x] = request[x] /\ RequestOK(x) BY <1>3, <2>2
    <3>2. ASSUME request[x].id # 0, login'[request[x].from].id = request[x].id,
                 request[x].from \in Link
          PROVE  login'[request[x].from].locked
      BY <1>4, <3>1, <3>2 DEF RequestOK, NoLogin
    <3>3. request[x].id # 0 => request[x].from \in Link
      BY <3>1 DEF RequestOK, Requests
    <3> QED BY <1>4, <3>1, <3>2, <3>3 DEF RequestOK
  <2> QED BY <2>1, <2>2
<1>7. ASSUME NEW x \in Link PROVE LinkOK(x)'
  <2>1. LinkOK(x) OBVIOUS
  <2>2. /\ opened'[x] <= 1 /\ (x \notin consumed' => opened'[x] = 0)
        /\ browser'[x] # Closed => x \in consumed'
        /\ login'[x].id <= tried'[x]
    BY <1>4, <2>1 DEF LinkOK, NoLogin
  <2>3. CASE x = k
    <3>1. ASSUME x \notin excused' PROVE \A y \in Request : request'[y].from # x
      BY <1>2, <1>3, <1>4, <2>3, <3>1 DEF NoRequest
    <3>2. ASSUME x \notin excused' PROVE Over(x)' /\ StoresOnCurrent(x)'
      BY <1>2, <1>4, <2>3, <3>1, <3>2 DEF Over, StoresOnCurrent, Closed
    <3>3. x \notin excused' => x \notin excused BY <1>4
    <3> QED BY <1>4, <2>1, <2>2, <2>3, <3>2, <3>3 DEF LinkOK, SavedOnce
  <2>4. CASE x # k
    <3>1. x \notin excused' => x \notin excused BY <1>4
    <3>2. StoresOnCurrent(x) => StoresOnCurrent(x)'
      BY <1>3, <1>4, <2>4 DEF StoresOnCurrent, NoRequest
    <3>3. Over(x) => Over(x)' BY <1>3, <1>4, <2>4 DEF Over, NoRequest, Closed
    <3>4. ASSUME NEW y \in Request, request[y].from = x PROVE request'[y] = request[y]
      BY <1>3, <2>4, <3>4
    <3>5. SavedOnce(x) => SavedOnce(x)' BY <1>4, <3>3, <3>4 DEF SavedOnce
    <3> QED BY <2>1, <2>2, <3>1, <3>2, <3>5 DEF LinkOK
  <2> QED BY <2>3, <2>4
<1> QED BY <1>5, <1>6, <1>7 DEF Agree

\* A step that a request takes to work on an attempt: no other request is on it.
LEMMA JoinStep ==
  ASSUME CompanionIInv, CompanionNext, NEW r \in Request,
         StepAsksInput(r) \/ StepCallsProvider(r)
  PROVE  Agree'
<1> DEFINE from == request[r].from
<1>1. CompanionTypeOK' BY CompanionTypeStep DEF CompanionIInv
<1>k. PICK k \in Link : k = from /\ k \in consumed /\ request[r].step = "body" /\ request[r].id = 0
  BY CompanionAssumption
  DEF CompanionIInv, CompanionTypeOK, RequestOK, StepAsksInput, StepCallsProvider, Requests
<1> HIDE DEF from
<1> DEFINE a == Joined(k)
           on == request'[r].step = "acquire"
<1>2. /\ login \in [Link -> Logins] /\ tried \in [Link -> Nat] /\ request \in [Request -> Requests]
      /\ a \in Logins /\ Unexpired \in [Link -> Logins]
  BY JoinedType DEF CompanionIInv, CompanionTypeOK
<1>3. /\ CanJoin(k) /\ UNCHANGED <<consumed, browser, opened, saves>>
      /\ excused' = excused \union Outlived
      /\ tried' = [tried EXCEPT ![k] = IF Trying(k) THEN tried[k] ELSE tried[k] + 1]
      /\ \A x \in Request \ {r} : request'[x] = request[x]
  BY <1>k, <1>2 DEF StepAsksInput, StepCallsProvider, Answer, from
<1>4. /\ a.id <= tried'[k] /\ a.id # 0 /\ tried[k] <= tried'[k]
      /\ \A x \in Link : tried[x] <= tried'[x]
      /\ Trying(k) => a = login[k] /\ ~login[k].locked
      /\ ~Trying(k) => a.id = tried[k] + 1 /\ login[k].id = 0
  <2>1. LinkOK(k) BY DEF CompanionIInv
  <2>2. tried[k] \in Nat /\ login[k].id \in Nat BY <1>2 DEF Logins
  <2>3. CASE Trying(k)
    BY <1>2, <1>3, <2>1, <2>2, <2>3 DEF Joined, Trying, LinkOK, CanJoin
  <2>4. CASE ~Trying(k)
    BY <1>2, <1>3, <2>1, <2>2, <2>4 DEF Joined, Trying
  <2> QED BY <2>3, <2>4
<1>5. /\ \A x \in Link \ {k} : login'[x] \in {login[x], NoLogin}
      /\ login'[k].id = a.id
      /\ \/ request'[r] = NoRequest
         \/ /\ request'[r].step = "acquire" /\ request'[r].from = k
            /\ request'[r].id = a.id /\ request'[r].detached = request[r].detached
            /\ login'[k].locked
  <2>1. CASE StepAsksInput(r)
    BY <1>k, <1>2, <2>1 DEF StepAsksInput, Answer, Unexpired, from
  <2>2. CASE StepCallsProvider(r)
    <3>1. [a EXCEPT !.locked = TRUE].id = a.id /\ [a EXCEPT !.locked = TRUE].locked
      BY <1>2 DEF Logins
    <3>2. /\ login'[k] = [a EXCEPT !.locked = TRUE]
          /\ \A x \in Link \ {k} : login'[x] \in {login[x], NoLogin}
      BY <1>k, <1>2, <2>2 DEF StepCallsProvider, Unexpired, from
    <3>3. request'[r] = [request[r] EXCEPT !.step = "acquire", !.id = a.id]
      BY <1>k, <1>2, <2>2 DEF StepCallsProvider, from
    <3>4. /\ request'[r].step = "acquire" /\ request'[r].from = request[r].from
          /\ request'[r].id = a.id /\ request'[r].detached = request[r].detached
      BY <1>2, <3>3 DEF Requests
    <3> QED BY <1>k, <3>1, <3>2, <3>4 DEF from
  <2> QED BY <2>1, <2>2
<1>6. \A x \in Request \ {r} : request[x].from = k /\ request[x].id # 0 => request[x].id # a.id
  <2> SUFFICES ASSUME NEW x \in Request \ {r}, request[x].from = k, request[x].id # 0,
                      request[x].id = a.id
               PROVE  FALSE
    OBVIOUS
  <2>1. RequestOK(x) BY DEF CompanionIInv
  <2>2. request[x].id <= tried[k] /\ (login[k].id = request[x].id => login[k].locked)
    BY <2>1 DEF RequestOK
  <2>3. Trying(k) BY <1>2, <1>4, <2>2 DEF Requests
  <2> QED BY <1>4, <2>2, <2>3
<1>7. OneLoginAtATime'
  <2> SUFFICES ASSUME NEW x \in Request, NEW y \in Request, x # y, request'[x].id # 0,
                      request'[x].from = request'[y].from
               PROVE  request'[x].id # request'[y].id
    BY DEF OneLoginAtATime
  <2>1. CASE x # r /\ y # r
    BY <1>3, <2>1 DEF CompanionIInv, OneLoginAtATime
  <2>2. CASE x = r
    BY <1>2, <1>3, <1>4, <1>5, <1>6, <2>2 DEF NoRequest
  <2>3. CASE y = r
    BY <1>2, <1>3, <1>4, <1>5, <1>6, <2>3 DEF NoRequest
  <2> QED BY <2>1, <2>2, <2>3
<1>8. ASSUME NEW x \in Request PROVE RequestOK(x)'
  <2>1. RequestOK(x) /\ request[x] \in Requests BY <1>2 DEF CompanionIInv
  <2>2. CASE x = r
    <3>1. request[r].detached => k \in excused'
      BY <1>k, <1>3, <2>1, <2>2 DEF RequestOK, from
    <3> QED BY <1>k, <1>3, <1>4, <1>5, <2>1, <2>2, <3>1, CompanionAssumption
            DEF RequestOK, NoRequest
  <2>3. CASE x # r
    <3>1. request'[x] = request[x] BY <1>3, <2>3
    <3>2. request[x].from \in Link => request[x].id <= tried'[request[x].from]
      <4> SUFFICES ASSUME request[x].from \in Link PROVE request[x].id <= tried'[request[x].from]
        OBVIOUS
      <4>1. /\ request[x].id \in Nat /\ tried[request[x].from] \in Nat
            /\ tried'[request[x].from] \in Nat
        BY <1>1, <1>2 DEF Requests, CompanionTypeOK
      <4>2. request[x].id <= tried[request[x].from] BY <2>1 DEF RequestOK
      <4>3. tried[request[x].from] <= tried'[request[x].from] BY <1>4
      <4> QED BY <4>1, <4>2, <4>3
    <3>3. ASSUME request[x].id # 0, login'[request[x].from].id = request[x].id,
                 request[x].from \in Link
          PROVE  login'[request[x].from].locked
      <4>1. request[x].from # k BY <1>5, <1>6, <2>3, <3>3
      <4>2. login'[request[x].from] = login[request[x].from]
        BY <1>5, <3>3, <4>1 DEF NoLogin
      <4> QED BY <2>1, <3>3, <4>2 DEF RequestOK
    <3>4. request[x].id # 0 => request[x].from \in Link
      BY <2>1 DEF RequestOK, Requests
    <3> QED BY <1>3, <2>1, <3>1, <3>2, <3>3, <3>4 DEF RequestOK
  <2> QED BY <2>2, <2>3
<1>9. ASSUME NEW x \in Link PROVE LinkOK(x)'
  <2>1. LinkOK(x) /\ tried'[x] \in Nat /\ tried[x] \in Nat /\ login[x].id \in Nat
    BY <1>1, <1>2 DEF CompanionIInv, CompanionTypeOK, Logins
  <2>2. login'[x].id <= tried'[x]
    <3>1. CASE x = k BY <1>4, <1>5, <3>1
    <3>2. CASE x # k
      <4>1. login'[x].id \in {login[x].id, 0} BY <1>5, <3>2 DEF NoLogin
      <4> QED BY <1>4, <2>1, <4>1 DEF LinkOK
    <3> QED BY <3>1, <3>2
  <2>3. ASSUME x \notin excused', NEW y \in Request, request'[y].from = x,
               request'[y].step \in {"store", "stored"}
        PROVE  login'[x].id = request'[y].id
    <3>1. y # r BY <1>5, <2>3 DEF NoRequest
    <3>2. request'[y] = request[y] BY <1>3, <3>1
    <3>3. x \notin excused /\ x \notin Outlived BY <1>3, <2>3
    <3>4. login[x].id = request[y].id BY <2>1, <2>3, <3>2, <3>3 DEF LinkOK, StoresOnCurrent
    <3> QED BY <2>3, <3>2, <3>3, <3>4 DEF Outlived, Current
  <2>4. ASSUME x \notin excused' PROVE SavedOnce(x)'
    <3>1. SavedOnce(x) BY <1>3, <2>1, <2>4 DEF LinkOK
    <3>2. Over(x) => Over(x)'
      BY <1>k, <1>3, <1>5, CompanionAssumption DEF Over, NoRequest, Closed, from
    <3>3. ASSUME NEW y \in Request, request[y].from = x, request[y].step = "stored"
          PROVE  request'[y] = request[y]
      BY <1>k, <1>3, <3>3
    <3> QED BY <1>3, <3>1, <3>2, <3>3 DEF SavedOnce
  <2> QED BY <1>3, <2>1, <2>2, <2>3, <2>4 DEF LinkOK, StoresOnCurrent
<1> QED BY <1>7, <1>8, <1>9 DEF Agree

\* Links, sessions and lookups.
LEMMA OpenStep ==
  ASSUME CompanionIInv, CompanionNext, NEW k \in Link,
         MintLink(k) \/ Exchange(k) \/ \E r \in Request : Authorize(r, k)
  PROVE  Agree'
<1> USE CompanionAssumption, SessionsAssumption DEF CompanionIInv, CompanionTypeOK
<1>1. CASE MintLink(k)
  BY <1>1 DEF MintLink, Agree, OneLoginAtATime, RequestOK, LinkOK, StoresOnCurrent, SavedOnce, Over
<1>2. CASE Exchange(k)
  <2>1. /\ consumed' = consumed \union {k} /\ k \notin consumed
        /\ opened' = [opened EXCEPT ![k] = opened[k] + 1]
        /\ UNCHANGED <<login, tried, request, saves, excused>>
    BY <1>2 DEF Exchange, ReserveOnce
  <2>2. \A x \in Link : browser'[x] # Closed => x = k \/ browser[x] # Closed
    BY <1>2 DEF Exchange, WithBrowser
  <2>3. \A x \in Link : browser[x] = Closed /\ x # k => browser'[x] = Closed
    BY <2>2
  <2>4. OneLoginAtATime' BY <2>1 DEF OneLoginAtATime
  <2>5. \A r \in Request : RequestOK(r)' BY <2>1 DEF RequestOK
  <2>6. ASSUME NEW x \in Link PROVE LinkOK(x)'
    <3>1. LinkOK(x) /\ opened[x] \in Nat OBVIOUS
    <3>2. opened'[x] <= 1 /\ (x \notin consumed' => opened'[x] = 0)
      BY <2>1, <3>1 DEF LinkOK
    <3>3. browser'[x] # Closed => x \in consumed' BY <2>1, <2>2, <3>1 DEF LinkOK
    <3>4. Over(x) => Over(x)' BY <2>1, <2>3 DEF Over, Closed
    <3> QED BY <2>1, <3>1, <3>2, <3>3, <3>4 DEF LinkOK, StoresOnCurrent, SavedOnce
  <2> QED BY <2>4, <2>5, <2>6 DEF Agree
<1>3. ASSUME NEW r \in Request, Authorize(r, k) PROVE Agree'
  <2>1. /\ request[r] = NoRequest /\ browser[k] # Closed /\ k \in consumed
        /\ request'[r] = [NoRequest EXCEPT !.step = "body", !.from = k]
        /\ \A x \in Request \ {r} : request'[x] = request[x]
        /\ UNCHANGED <<consumed, browser, opened, login, tried, saves, excused>>
    BY <1>3 DEF Authorize, Lives, LinkOK
  <2>2. /\ request'[r].step = "body" /\ request'[r].from = k /\ request'[r].id = 0
        /\ ~request'[r].detached
    BY <2>1 DEF NoRequest
  <2>3. OneLoginAtATime'
    <3> SUFFICES ASSUME NEW x \in Request, NEW y \in Request, x # y, request'[x].id # 0,
                        request'[x].from = request'[y].from
                 PROVE  request'[x].id # request'[y].id
      BY DEF OneLoginAtATime
    <3>1. x # r BY <2>2
    <3>2. CASE y = r BY <2>2, <3>2
    <3>3. CASE y # r BY <2>1, <3>1, <3>3 DEF OneLoginAtATime
    <3> QED BY <3>2, <3>3
  <2>4. ASSUME NEW x \in Request PROVE RequestOK(x)'
    <3>1. CASE x = r
      <4>1. tried[k] \in Nat /\ k # "none" OBVIOUS
      <4>2. RequestOK(r)' <=>
              LET q == request'[r] IN
              /\ q.step = "idle" <=> q.from = "none"
              /\ q.from \in Link => q.from \in consumed
              /\ q.id = 0 <=> q.step \in {"idle", "body"}
              /\ q.from \in Link => q.id <= tried[q.from]
              /\ q.id # 0 /\ login[q.from].id = q.id => login[q.from].locked
              /\ q.step \in {"store", "stored"} => q.saving \in Login
              /\ q.detached => q.from \in excused
        BY <2>1 DEF RequestOK
      <4>3. 0 <= tried[k] BY <4>1
      <4> QED BY <2>1, <2>2, <3>1, <4>1, <4>2, <4>3
    <3>2. CASE x # r BY <2>1, <3>2 DEF RequestOK
    <3> QED BY <3>1, <3>2
  <2>5. ASSUME NEW x \in Link PROVE LinkOK(x)'
    <3>1. LinkOK(x) OBVIOUS
    <3>2. StoresOnCurrent(x) => StoresOnCurrent(x)' BY <2>1, <2>2 DEF StoresOnCurrent
    <3>3. Over(x) => Over(x)' BY <2>1, <2>2 DEF Over, Closed
    <3>4. ASSUME NEW y \in Request, request[y].step = "stored" PROVE request'[y] = request[y]
      BY <2>1, <3>4 DEF NoRequest
    <3>5. SavedOnce(x) => SavedOnce(x)' BY <2>1, <3>3, <3>4 DEF SavedOnce
    <3> QED BY <2>1, <3>1, <3>2, <3>5 DEF LinkOK
  <2> QED BY <2>3, <2>4, <2>5 DEF Agree
<1> QED BY <1>1, <1>2, <1>3

\* A request that finds a code wanted changes nothing that links and logins agree on.
LEMMA CodeStep ==
  ASSUME CompanionIInv, CompanionNext, NEW r \in Request, CodeWanted(r)
  PROVE  Agree'
<1>1. CompanionTypeOK' BY CompanionTypeStep DEF CompanionIInv
<1> USE CompanionAssumption DEF CompanionIInv, CompanionTypeOK
<1>2. PICK k \in Link : k = request[r].from /\ request[r].id # 0 /\ login[k].id = request[r].id
  BY DEF RequestOK, CodeWanted, StillTaken, Current, Requests
<1>3. /\ request'[r] = NoRequest /\ request[r].step = "acquire"
      /\ \A x \in Request \ {r} : request'[x] = request[x]
      /\ login'[k].id = login[k].id
      /\ \A x \in Link \ {k} : login'[x] = login[x]
      /\ UNCHANGED <<consumed, browser, opened, tried, saves, excused>>
  BY <1>2 DEF CodeWanted, Answer, Logins
<1>4. OneLoginAtATime' BY <1>3 DEF OneLoginAtATime, NoRequest
<1>5. ASSUME NEW x \in Request PROVE RequestOK(x)'
  <2>1. CASE x = r BY <1>3, <2>1 DEF RequestOK, NoRequest
  <2>2. CASE x # r
    <3>1. request'[x] = request[x] /\ RequestOK(x) BY <1>3, <2>2
    <3>2. request[x].from = k => request[x].id # login'[k].id
      BY <1>2, <1>3, <2>2 DEF OneLoginAtATime
    <3>3. request[x].id # 0 => request[x].from \in Link
      BY <3>1 DEF RequestOK, Requests
    <3> QED BY <1>3, <3>1, <3>2, <3>3 DEF RequestOK
  <2> QED BY <2>1, <2>2
<1>6. ASSUME NEW x \in Link PROVE LinkOK(x)'
  <2>1. LinkOK(x) OBVIOUS
  <2>2. login'[x].id = login[x].id BY <1>3
  <2>3. StoresOnCurrent(x) => StoresOnCurrent(x)'
    BY <1>3, <2>2 DEF StoresOnCurrent, NoRequest
  <2>4. Over(x) => Over(x)' BY <1>3 DEF Over, NoRequest, Closed
  <2>5. ASSUME NEW y \in Request, request[y].step = "stored" PROVE request'[y] = request[y]
    BY <1>3, <2>5
  <2>6. SavedOnce(x) => SavedOnce(x)' BY <1>3, <2>4, <2>5 DEF SavedOnce
  <2> QED BY <1>3, <2>1, <2>2, <2>3, <2>6 DEF LinkOK
<1> QED BY <1>4, <1>5, <1>6 DEF Agree

\* A login that is taken to the vault.
LEMMA TakeStep ==
  ASSUME CompanionIInv, CompanionNext, NEW r \in Request, NEW l \in Login, LoggedIn(r, l)
  PROVE  Agree'
<1> USE CompanionAssumption DEF CompanionIInv, CompanionTypeOK
<1>1. /\ request'[r] = [request[r] EXCEPT !.step = "store", !.saving = l]
      /\ request[r].step = "acquire" /\ login[request[r].from].id = request[r].id
      /\ \A x \in Request \ {r} : request'[x] = request[x]
      /\ UNCHANGED <<consumed, browser, opened, login, tried, saves, excused>>
  BY DEF LoggedIn, StillTaken, Current
<1>2. /\ request'[r].step = "store" /\ request'[r].from = request[r].from
      /\ request'[r].id = request[r].id /\ request'[r].saving = l
      /\ request'[r].detached = request[r].detached
  BY <1>1 DEF Requests
<1>i. \A x \in Request : request'[x].id = request[x].id /\ request'[x].from = request[x].from
  BY <1>1, <1>2
<1>3. OneLoginAtATime' BY <1>i DEF OneLoginAtATime
<1>4. ASSUME NEW x \in Request PROVE RequestOK(x)'
  <2>1. CASE x = r BY <1>1, <1>2, <2>1 DEF RequestOK
  <2>2. CASE x # r BY <1>1, <2>2 DEF RequestOK
  <2> QED BY <2>1, <2>2
<1>5. ASSUME NEW x \in Link PROVE LinkOK(x)'
  <2>1. LinkOK(x) OBVIOUS
  <2>2. ASSUME StoresOnCurrent(x) PROVE StoresOnCurrent(x)'
    <3> SUFFICES ASSUME NEW y \in Request, request'[y].from = x,
                        request'[y].step \in {"store", "stored"}
                 PROVE  login'[x].id = request'[y].id
      BY DEF StoresOnCurrent
    <3>1. CASE y = r BY <1>1, <1>2, <3>1
    <3>2. CASE y # r BY <1>1, <2>2, <3>2 DEF StoresOnCurrent
    <3> QED BY <3>1, <3>2
  <2>3. Over(x) => Over(x)'
    <3>1. \A y \in Request : request'[y].from = request[y].from BY <1>i
    <3>2. consumed' = consumed /\ browser' = browser BY <1>1
    <3> HIDE DEF CompanionIInv, CompanionTypeOK
    <3> QED BY <3>1, <3>2 DEF Over, Closed
  <2>4. ASSUME NEW y \in Request, request[y].step = "stored" PROVE request'[y] = request[y]
    BY <1>1, <2>4
  <2>5. SavedOnce(x) => SavedOnce(x)' BY <1>1, <2>3, <2>4 DEF SavedOnce
  <2> QED BY <1>1, <2>1, <2>2, <2>5 DEF LinkOK
<1> QED BY <1>3, <1>4, <1>5 DEF Agree

\* The store writes: on the current attempt, unless its link is excused, and then no other
\* request of the link has saved.
LEMMA WriteStep ==
  ASSUME CompanionIInv, CompanionNext, NEW r \in Request, StoreWrites(r)
  PROVE  Agree'
<1> USE CompanionAssumption DEF CompanionIInv, CompanionTypeOK
<1>1. PICK k \in Link : k = request[r].from /\ request[r].id # 0 /\ k \in consumed
  BY DEF RequestOK, StoreWrites, Requests
<1>2. /\ request[r].step = "store"
      /\ \A x \in Request \ {r} : request'[x] = request[x]
      /\ UNCHANGED <<consumed, browser, opened, login, tried, excused>>
      /\ \/ saves' = saves /\ credential' = credential
         \/ /\ saves' = saves \union {<<k, request[r].saving>>}
            /\ credential' # credential
      /\ request[r].saving \in Login
  BY <1>1 DEF StoreWrites, RequestOK
<1>3. \/ request'[r] = NoRequest /\ request[r].detached
      \/ /\ request'[r].step = IF credential' = credential THEN "failed" ELSE "stored"
         /\ request'[r].from = k /\ request'[r].id = request[r].id
         /\ request'[r].saving = request[r].saving
         /\ ~request'[r].detached
  <2>1. CASE request[r].detached BY <2>1 DEF StoreWrites
  <2>2. CASE ~request[r].detached
    <3>1. request'[r] = [request[r] EXCEPT
            !.step = IF credential' = credential THEN "failed" ELSE "stored"]
      BY <2>2 DEF StoreWrites
    <3>2. /\ request'[r].from = request[r].from /\ request'[r].id = request[r].id
          /\ request'[r].saving = request[r].saving
          /\ request'[r].detached = request[r].detached
          /\ request'[r].step = IF credential' = credential THEN "failed" ELSE "stored"
      BY <3>1 DEF Requests
    <3> QED BY <1>1, <2>2, <3>2
  <2> QED BY <2>1, <2>2
<1>4. OneLoginAtATime' BY <1>1, <1>2, <1>3 DEF OneLoginAtATime, NoRequest
<1>5. ASSUME NEW x \in Request PROVE RequestOK(x)'
  <2>1. CASE x = r /\ request'[r] = NoRequest BY <2>1 DEF RequestOK, NoRequest
  <2>2. CASE x = r /\ request'[r] # NoRequest
    <3>1. RequestOK(r) OBVIOUS
    <3> QED BY <1>1, <1>2, <1>3, <2>2, <3>1 DEF RequestOK
  <2>3. CASE x # r BY <1>2, <2>3 DEF RequestOK
  <2> QED BY <2>1, <2>2, <2>3
<1>6. ASSUME NEW x \in Link PROVE LinkOK(x)'
  <2>1. LinkOK(x) OBVIOUS
  <2>2. ASSUME x \notin excused' PROVE StoresOnCurrent(x)'
    <3>1. StoresOnCurrent(x) BY <1>2, <2>1, <2>2 DEF LinkOK
    <3>2. x = k => login[k].id = request[r].id
      BY <1>1, <1>2, <3>1 DEF StoresOnCurrent
    <3> SUFFICES ASSUME NEW y \in Request, request'[y].from = x,
                        request'[y].step \in {"store", "stored"}
                 PROVE  login'[x].id = request'[y].id
      BY DEF StoresOnCurrent
    <3>3. CASE y = r BY <1>2, <1>3, <3>2, <3>3 DEF NoRequest
    <3>4. CASE y # r BY <1>2, <3>1, <3>4 DEF StoresOnCurrent
    <3> QED BY <3>3, <3>4
  <2>3. ASSUME x \notin excused' PROVE SavedOnce(x)'
    <3>1. SavedOnce(x) /\ StoresOnCurrent(x) BY <1>2, <2>1, <2>3 DEF LinkOK
    <3>2. \A y \in Request : request[y].step = "stored" => request'[y] = request[y]
      BY <1>2
    <3>3. CASE x # k \/ saves' = saves
      <4>0. request'[r].from \in {k, "none"} BY <1>3 DEF NoRequest
      <4>1. Over(x) => Over(x)' BY <1>1, <1>2, <4>0 DEF Over, Closed
      <4>2. \A s \in saves' : s[1] = x => s \in saves BY <1>2, <3>3
      <4>3. saves \subseteq saves' BY <1>2
      <4> QED BY <3>1, <3>2, <4>1, <4>2, <4>3 DEF SavedOnce
    <3>4. CASE x = k /\ saves' # saves
      <4>1. ~Over(x) BY <1>1, <3>4 DEF Over
      <4>2. login[k].id = request[r].id BY <1>1, <1>2, <3>1, <3>4 DEF StoresOnCurrent
      <4>3. \A y \in Request : ~(request[y].from = x /\ request[y].step = "stored")
        <5> SUFFICES ASSUME NEW y \in Request, request[y].from = x, request[y].step = "stored"
                     PROVE  FALSE
          OBVIOUS
        <5>1. y # r BY <1>2
        <5>2. request[y].id = login[k].id BY <3>1, <3>4 DEF StoresOnCurrent
        <5> QED BY <1>1, <3>4, <4>2, <5>1, <5>2 DEF OneLoginAtATime
      <4>4. \A s \in saves : s[1] # x BY <3>1, <4>1, <4>3 DEF SavedOnce
      <4>5. saves' = saves \union {<<k, request[r].saving>>} /\ credential' # credential
        BY <1>2, <3>4
      <4>6. ~request[r].detached
        BY <1>1, <1>2, <2>3, <3>4 DEF RequestOK
      <4>7. request'[r].from = x /\ request'[r].step = "stored"
        BY <1>3, <3>4, <4>5, <4>6
      <4>8. \A s, t \in saves' : s[1] = x /\ t[1] = x => s = t
        BY <4>4, <4>5
      <4> QED BY <4>7, <4>8 DEF SavedOnce
    <3> QED BY <3>3, <3>4
  <2> QED BY <1>2, <2>1, <2>2, <2>3 DEF LinkOK
<1> QED BY <1>4, <1>5, <1>6 DEF Agree

\* A store that times out goes on, and excuses its link.
LEMMA DetachStep ==
  ASSUME CompanionIInv, CompanionNext, NEW r \in Request, RequestTimesOut(r),
         request[r].step = "store"
  PROVE  Agree'
<1> USE CompanionAssumption DEF CompanionIInv, CompanionTypeOK
<1>1. PICK k \in Link : k = request[r].from /\ request[r].id # 0 /\ k \in consumed
  BY DEF RequestOK, Requests
<1>2. /\ request'[r] = [request[r] EXCEPT !.detached = TRUE]
      /\ \A x \in Request \ {r} : request'[x] = request[x]
      /\ UNCHANGED <<consumed, browser, opened, tried, saves>>
      /\ login' = [login EXCEPT ![k] = NoLogin]
      /\ excused' = (excused \union Outlived) \union {k}
  BY <1>1 DEF RequestTimesOut, Pop
<1>3. /\ request'[r].step = "store" /\ request'[r].from = k /\ request'[r].id = request[r].id
      /\ request'[r].saving = request[r].saving
  BY <1>1, <1>2 DEF Requests
<1>i. \A x \in Request : request'[x].id = request[x].id /\ request'[x].from = request[x].from
  BY <1>1, <1>2, <1>3
<1>4. OneLoginAtATime' BY <1>i DEF OneLoginAtATime
<1>5. ASSUME NEW x \in Request PROVE RequestOK(x)'
  <2>1. RequestOK(x) /\ request[x] \in Requests OBVIOUS
  <2>2. login'[request[x].from].id = request[x].id /\ request[x].id # 0
          /\ request[x].from \in Link => login'[request[x].from] = login[request[x].from]
    BY <1>2 DEF NoLogin
  <2>3. request[x].id # 0 => request[x].from \in Link
    BY <2>1 DEF RequestOK, Requests
  <2>4. CASE x = r BY <1>1, <1>2, <1>3, <2>1, <2>2, <2>3, <2>4 DEF RequestOK
  <2>5. CASE x # r BY <1>2, <2>1, <2>2, <2>3, <2>5 DEF RequestOK
  <2> QED BY <2>4, <2>5
<1>6. ASSUME NEW x \in Link PROVE LinkOK(x)'
  <2>1. LinkOK(x) OBVIOUS
  <2>2. login'[x].id <= tried'[x] BY <1>2, <2>1 DEF LinkOK, NoLogin
  <2>3. ASSUME x \notin excused' PROVE StoresOnCurrent(x)' /\ SavedOnce(x)'
    <3>1. x # k /\ x \notin excused BY <1>2, <2>3
    <3>2. StoresOnCurrent(x) /\ SavedOnce(x) BY <2>1, <3>1 DEF LinkOK
    <3>3. StoresOnCurrent(x)' BY <1>2, <1>3, <3>1, <3>2 DEF StoresOnCurrent
    <3>4. Over(x) => Over(x)' BY <1>2, <1>3, <3>1 DEF Over, Closed
    <3>5. \A y \in Request : request[y].step = "stored" => request'[y] = request[y]
      BY <1>2
    <3>6. SavedOnce(x)' BY <1>2, <3>2, <3>4, <3>5 DEF SavedOnce
    <3> QED BY <3>3, <3>6
  <2> QED BY <1>2, <2>1, <2>2, <2>3 DEF LinkOK
<1> QED BY <1>4, <1>5, <1>6 DEF Agree

\* A dead companion forgets everything but the links.
LEMMA DeathStep ==
  ASSUME CompanionIInv, CompanionNext, CompanionDies
  PROVE  Agree'
<1> USE CompanionAssumption DEF CompanionIInv, CompanionTypeOK
<1>1. /\ \A x \in Request : request'[x] = NoRequest
      /\ \A x \in Link : login'[x] = NoLogin /\ browser'[x] = Closed
      /\ UNCHANGED <<consumed, opened, tried, saves, excused>>
  BY DEF CompanionDies
<1>2. OneLoginAtATime' BY <1>1 DEF OneLoginAtATime, NoRequest
<1>3. \A x \in Request : RequestOK(x)' BY <1>1 DEF RequestOK, NoRequest
<1>4. ASSUME NEW x \in Link PROVE LinkOK(x)'
  <2>1. LinkOK(x) OBVIOUS
  <2>2. StoresOnCurrent(x)' BY <1>1 DEF StoresOnCurrent, NoRequest
  <2>3. ASSUME x \notin excused' PROVE SavedOnce(x)'
    <3>1. SavedOnce(x) BY <1>1, <2>1, <2>3 DEF LinkOK
    <3>2. (\E s \in saves : s[1] = x) => x \in consumed
      BY <3>1 DEF SavedOnce, Over, RequestOK
    <3>3. x \in consumed => Over(x)' BY <1>1 DEF Over, NoRequest, Closed
    <3> QED BY <1>1, <3>1, <3>2, <3>3 DEF SavedOnce
  <2> QED BY <1>1, <2>1, <2>2, <2>3 DEF LinkOK, NoLogin, Closed
<1> QED BY <1>2, <1>3, <1>4 DEF Agree

\* The companion's tables agree with its requests in every reachable state (WebCompanion).
THEOREM CompanionInvariant == CompanionSpec => []CompanionIInv
<1>1. CompanionInit => CompanionIInv
  <2> SUFFICES ASSUME CompanionInit PROVE CompanionIInv OBVIOUS
  <2>1. CompanionTypeOK
    <3>1. Closed \in Nat BY SessionsAssumption DEF Closed
    <3>2. now = 0 BY DEF CompanionInit, SessionsInit
    <3> QED BY <3>1, <3>2, RequestsClosed DEF CompanionInit, CompanionTypeOK
  <2>2. /\ \A r \in Request : request[r] = NoRequest
        /\ \A k \in Link : login[k] = NoLogin /\ browser[k] = Closed /\ opened[k] = 0 /\ tried[k] = 0
        /\ consumed = {} /\ saves = {} /\ excused = {}
    BY DEF CompanionInit
  <2>3. OneLoginAtATime BY <2>2 DEF OneLoginAtATime, NoRequest
  <2>4. \A r \in Request : RequestOK(r)
    BY <2>2, CompanionAssumption DEF RequestOK, NoRequest
  <2>5. \A k \in Link : LinkOK(k)
    BY <2>2 DEF LinkOK, StoresOnCurrent, SavedOnce, NoRequest, NoLogin
  <2> QED BY <2>1, <2>3, <2>4, <2>5 DEF CompanionIInv
<1>2. CompanionIInv /\ [CompanionNext]_allVars => CompanionIInv'
  <2> SUFFICES ASSUME CompanionIInv, [CompanionNext]_allVars PROVE CompanionIInv' OBVIOUS
  <2>1. ASSUME UNCHANGED companionVars PROVE Agree'
    BY <2>1 DEF companionVars, CompanionIInv, Agree, OneLoginAtATime, RequestOK, LinkOK,
                StoresOnCurrent, SavedOnce, Over, Closed
  <2>2. CASE CompanionNext
    <3>1. CompanionTypeOK' BY <2>2, CompanionTypeStep DEF CompanionIInv
    <3>2. ASSUME NEW r \in Request, RequestStep(r) PROVE Agree'
      <4>1. CASE StoreReads(r) BY <2>1, <4>1 DEF StoreReads
      <4> QED BY <2>2, <3>2, <4>1, OpenStep, ForgetStep, JoinStep, CodeStep, TakeStep, WriteStep,
                 FinishStep, DetachStep DEF RequestStep
    <3>3. Agree'
      BY <2>1, <2>2, <3>2, OpenStep, DeathStep DEF CompanionNext
    <3> QED BY <3>1, <3>3 DEF CompanionIInv, Agree
  <2>3. CASE UNCHANGED allVars
    <3>1. Agree' BY <2>1, <2>3 DEF allVars
    <3>2. CompanionTypeOK'
      BY <2>3 DEF allVars, companionVars, sessionVars, CompanionIInv, CompanionTypeOK
    <3> QED BY <3>1, <3>2 DEF CompanionIInv, Agree
  <2> QED BY <2>2, <2>3
<1> QED BY <1>1, <1>2, PTL DEF CompanionSpec

\* A link opens one browser session ever, two requests never share a login attempt, and a link
\* saves one session unless it is excused (exchange, step and store of the companion).
THEOREM CompanionIsSafe == CompanionSpec => []CompanionInv
<1>1. CompanionIInv => CompanionInv
  <2> SUFFICES ASSUME CompanionIInv PROVE CompanionInv OBVIOUS
  <2>1. LinksOpenOnce BY DEF CompanionIInv, LinkOK, LinksOpenOnce
  <2>2. OneLoginAtATime BY DEF CompanionIInv
  <2>3. ConnectsOnce
    <3> SUFFICES ASSUME NEW k \in Link, k \notin excused
                 PROVE  Cardinality({s \in saves : s[1] = k}) <= 1
      BY DEF ConnectsOnce
    <3> DEFINE mine == {s \in saves : s[1] = k}
    <3>1. \A s, t \in mine : s = t BY DEF CompanionIInv, LinkOK, SavedOnce
    <3>2. Cardinality(mine) <= 1
      <4>1. CASE mine = {} BY <4>1, FS_EmptySet
      <4>2. CASE mine # {}
        <5>1. PICK s \in mine : TRUE BY <4>2
        <5>2. mine = {s} BY <3>1, <5>1
        <5>3. Cardinality({s}) = 1 BY FS_Singleton
        <5> HIDE DEF mine
        <5> QED BY <5>2, <5>3
      <4> QED BY <4>1, <4>2
    <3> QED BY <3>2
  <2> QED BY <2>1, <2>2, <2>3 DEF CompanionInv
<1> QED BY <1>1, CompanionInvariant, PTL
=============================================================================
