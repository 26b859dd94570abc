-------------------------- MODULE MCUpdatePolling ---------------------------
(***************************************************************************)
(* Small instances of UpdatePolling for TLC: which updates are choices.    *)
(***************************************************************************)
EXTENDS UpdatePolling

LinkAfterChoice == {1}
=============================================================================
