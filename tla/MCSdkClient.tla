---------------------------- MODULE MCSdkClient -----------------------------
(***************************************************************************)
(* A small instance of SdkClient for TLC: four calls, of the integrator   *)
(* or left to the automatic checks.                                        *)
(***************************************************************************)
EXTENDS SdkClient

CONSTANTS c1, c2, c3, c4
=============================================================================
