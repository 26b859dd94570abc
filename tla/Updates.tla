------------------------------ MODULE Updates -------------------------------
(***************************************************************************)
(* The Telegram updates of one run of the model, numbered in the order in  *)
(* which Telegram created them.                                            *)
(***************************************************************************)
EXTENDS Naturals

CONSTANT LastUpdate   \* bound: how many updates ever arrive

ASSUME LastUpdateAssumption == LastUpdate \in Nat \ {0}

Update == 1..LastUpdate
=============================================================================
