---------------------------- MODULE EffectLedger ----------------------------
(***************************************************************************)
(* The telegram_effects table: one row for the status message a handler    *)
(* sends for an update.  Each operator is one SQLite transaction; an       *)
(* UPDATE of a row that is gone changes nothing.                           *)
(***************************************************************************)
EXTENDS Updates

VARIABLE effect    \* telegram_effects.state of the update's key, or "none"

EffectStates == {"pending", "completed", "uncertain"}

LedgerTypeOK == effect \in [Update -> EffectStates \union {"none"}]

LedgerInit == effect = [u \in Update |-> "none"]

Reserve(u) ==
  effect' = IF effect[u] = "none" THEN [effect EXCEPT ![u] = "pending"] ELSE effect

Conclude(u, state) ==
  effect' = IF effect[u] = "none" THEN effect ELSE [effect EXCEPT ![u] = state]

\* reconcile_stale_pending: which of the pending rows are old enough is open.
ReconcileStalePending(stale) ==
  effect' = [u \in Update |-> IF u \in stale /\ effect[u] = "pending" THEN "uncertain"
                                                                      ELSE effect[u]]

\* purge_retention: by the age of the reservation, and never a pending row.
PurgeEffect(u) ==
  /\ effect[u] \in {"completed", "uncertain"}
  /\ effect' = [effect EXCEPT ![u] = "none"]
=============================================================================
