--------------------------- MODULE MCJobLifecycle ---------------------------
(***************************************************************************)
(* Small instances of JobLifecycle for TLC.                                *)
(***************************************************************************)
EXTENDS JobLifecycle, FiniteSets

CONSTANTS a, b

Downloads == [j \in Job |-> "download"]
\* a publishes, b delivers: two jobs of one process, with keys of their own.
Mixed == [j \in Job |-> IF j = a THEN "highlight_tray" ELSE "download"]

OwnKeys == [j \in Job |-> j]
=============================================================================
