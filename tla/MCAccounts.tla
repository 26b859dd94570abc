----------------------------- MODULE MCAccounts -----------------------------
(* A user's Instagram account, from three sides: the jobs that borrow its      *)
(* session (InstagramSessions), the browser that connects it (WebCompanion),   *)
(* and the links, menus and buttons that ask for private media (Menus).  Each  *)
(* side is run on bounds of its own, and part says which one a behaviour is of.*)
EXTENDS WebCompanion, Menus, TLC

CONSTANTS u1, u2, l1, l2, j1, j2, j3, k1, k2, r1, r2

VARIABLE part

\* Links, logins and requests are interchangeable.
Alike == Permutations(Link) \union Permutations(Login) \union Permutations(Request)

\* j3 downloads what the inspection j1 found.
Continues == [j \in Job |-> IF j = j3 THEN j1 ELSE j]

vars == <<part, allVars, menuVars>>

Init ==
  /\ CompanionInit /\ MenusInit
  /\ part \in {"jobs", "browser", "menus"}

\* Two of the jobs meet, within one tick, the lease's; the browser goes on for two ticks, which
\* outlive a link.  One process dies, or the user disconnects or
\* cancels once.
TwoJobs == Cardinality({j \in Job : job'[j].status # "new"}) <= 2
OneMishap ==
  deaths' + leaving'.count + Cardinality({j \in Job : job'[j].status = "cancelled"}) <= 1

InJobs == part = "jobs" /\ SessionsNext /\ UNCHANGED companionVars /\ TwoJobs /\ now' <= LeaseTime
InBrowser == part = "browser" /\ CompanionNext

InMenus == part = "menus" /\ MenusNext /\ UNCHANGED allVars

Next ==
  /\ \/ (InJobs \/ InBrowser) /\ OneMishap /\ UNCHANGED menuVars
     \/ InMenus
  /\ UNCHANGED part

Spec == Init /\ [][Next]_vars
=============================================================================
