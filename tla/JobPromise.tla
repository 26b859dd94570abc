----------------------------- MODULE JobPromise -----------------------------
(***************************************************************************)
(* What the service promises about one request, with no queue, no worker,  *)
(* no crash and no cancellation flag.  A request is accepted once, and     *)
(* then has one outcome at a time:                                         *)
(*   - success and cancellation are final;                                 *)
(*   - a failure may be reopened, by a retry of the queue or a recovery;   *)
(*   - a delivery whose result is unknown waits for an operator, who can   *)
(*     only declare it failed.                                             *)
(* A download is counted at most once, and never succeeds uncounted.       *)
(***************************************************************************)
CONSTANTS
  Request,
  Counted       \* the requests whose outcome is counted: the downloads

VARIABLES
  outcome,
  counted

promiseVars == <<outcome, counted>>

Outcomes == {"absent", "accepted", "succeeded", "failed", "cancelled", "review", "gone"}

Init ==
  /\ outcome = [r \in Request |-> "absent"]
  /\ counted = {}

Becomes(r, o) == outcome' = [outcome EXCEPT ![r] = o]

Accept(r) == outcome[r] = "absent" /\ Becomes(r, "accepted") /\ UNCHANGED counted

Succeed(r) ==
  /\ outcome[r] = "accepted"
  /\ Becomes(r, "succeeded")
  /\ counted' = counted \union ({r} \intersect Counted)

Fail(r) == outcome[r] = "accepted" /\ Becomes(r, "failed") /\ UNCHANGED counted

Cancel(r) == outcome[r] = "accepted" /\ Becomes(r, "cancelled") /\ UNCHANGED counted

\* A restart may put several interrupted deliveries up for review at once.
Quarantine ==
  \E lost \in SUBSET {r \in Request : outcome[r] = "accepted"} :
    /\ outcome' = [r \in Request |-> IF r \in lost THEN "review" ELSE outcome[r]]
    /\ UNCHANGED counted

Review(r) == outcome[r] = "review" /\ Becomes(r, "failed") /\ UNCHANGED counted

Reopen(r) == outcome[r] = "failed" /\ Becomes(r, "accepted") /\ UNCHANGED counted

Count(r) ==
  /\ outcome[r] # "absent" /\ r \in Counted
  /\ counted' = counted \union {r}
  /\ UNCHANGED outcome

Forget(r) ==
  /\ outcome[r] \in {"succeeded", "failed", "cancelled", "review"}
  /\ Becomes(r, "gone")
  /\ UNCHANGED counted

Next ==
  \/ \E r \in Request : \/ Accept(r) \/ Succeed(r) \/ Fail(r) \/ Cancel(r)
                        \/ Review(r) \/ Reopen(r) \/ Count(r) \/ Forget(r)
  \/ Quarantine

Spec == Init /\ [][Next]_promiseVars
=============================================================================
