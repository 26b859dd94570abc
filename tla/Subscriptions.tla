---------------------------- MODULE Subscriptions ----------------------------
(***************************************************************************)
(* Entitlement grants and the subscription row derived from them           *)
(* (domain/subscriptions.py, sqlite_subscriptions.py, entitlements.py).    *)
(* Time is a number of ticks and a plan month a number of ticks: calendar  *)
(* clamping is left out.                                                   *)
(***************************************************************************)
EXTENDS Integers, Sequences, SequencesExt

CONSTANT User
VARIABLES
  grants,  \* entitlement_grants
  subs     \* subscriptions: the projection shown to the user and the suspension

subscriptionVars == <<grants, subs>>

NoUntil == -1
NoAccount == [known |-> FALSE, until |-> NoUntil, suspended |-> FALSE]
SubscriptionsInit == grants = {} /\ subs = [u \in User |-> NoAccount]

OfUser(u) == {g \in grants : g.user = u}
Valid(G) == {g \in G : ~g.reversed}

\* Payment-confirmation order, then grant id.
Earlier(g, h) == g.at < h.at \/ (g.at = h.at /\ g.id < h.id)
OrderedValid(G) ==
  CHOOSE s \in [1..Cardinality(Valid(G)) -> Valid(G)] :
    \A i, j \in DOMAIN s : i < j => Earlier(s[i], s[j])

\* Mutant: a grant starts where the one before it ends, even if that is long past or yet to come.
GrantWindowsFromEnd(G) ==
  LET s == OrderedValid(G)
      end[i \in 0..Len(s)] ==
        IF i = 0 THEN 0 ELSE (IF i = 1 THEN s[i].at ELSE end[i-1] + 1) + s[i].months
  IN [i \in 1..Len(s) |-> [grant |-> s[i], start |-> end[i] - s[i].months, end |-> end[i]]]

\* A grant starts where the one before it ends, or when it was confirmed if that is later.
GrantWindows(G) ==
  LET s == OrderedValid(G)
      end[i \in 0..Len(s)] ==
        IF i = 0 THEN 0
        ELSE (IF s[i].at > end[i-1] THEN s[i].at ELSE end[i-1]) + s[i].months
  IN [i \in 1..Len(s) |-> [grant |-> s[i], start |-> end[i] - s[i].months, end |-> end[i]]]

AuthorizedUntil(G) ==
  LET w == GrantWindows(G) IN IF w = <<>> THEN NoUntil ELSE w[Len(w)].end

\* The projection every writer stores: it carries neither suspension nor cancellation.
Projection(G) == [known |-> TRUE, until |-> AuthorizedUntil(G), suspended |-> FALSE]

SetSuspension(u, on) ==
  /\ subs' = IF subs[u].known THEN [subs EXCEPT ![u].suspended = on] ELSE subs
  /\ UNCHANGED grants

\* The windows a moment lies in: an attempt is bound to one of them.
Covering(w, t) == {i \in 1..Len(w) : w[i].start <= t /\ t < w[i].end}

\* What authorize answers about a user at a moment, for a plan that covers the capability.
Authorize(u, t) ==
  LET w == GrantWindows(OfUser(u)) IN
  CASE ~subs[u].known -> "no_history"
    [] subs[u].known /\ subs[u].suspended -> "suspended"
    [] subs[u].known /\ ~subs[u].suspended /\ w = <<>> -> "no_paid_time"
    [] subs[u].known /\ ~subs[u].suspended /\ w # <<>> ->
         IF w[Len(w)].end <= t THEN "expired"
         ELSE IF Covering(w, t) # {} THEN "granted" ELSE "not_covered"
=============================================================================
