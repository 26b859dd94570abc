----------------------------- MODULE MCRecovery -----------------------------
(* Three failed jobs, two of one user and site, the oldest a highlight tray of *)
(* another site, which no recovery can enqueue; a window of two rows.          *)
EXTENDS RecoveryBatches, TLC

CONSTANTS a, b, c, site1, site2

MCSiteOf == a :> site1 @@ b :> site1 @@ c :> site2
MCOwnerOf == a :> 1 @@ b :> 1 @@ c :> 2
MCFailedFirst == <<c, b, a>>
MCFailedFor == {[j \in Job |-> "cookie"], [j \in Job |-> IF j = b THEN "app_fix" ELSE "cookie"]}
MCMarkedFirst == {<<>>, <<site1, site2>>}
=============================================================================
