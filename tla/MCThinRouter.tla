---------------------------- MODULE MCThinRouter ----------------------------
(***************************************************************************)
(* A small instance of ThinRouter for TLC: rates of up to two in five, and *)
(* yields that leave every remainder.                                      *)
(***************************************************************************)
EXTENDS ThinRouter

MCAmounts == {0, 1, 3, 7}
=============================================================================
