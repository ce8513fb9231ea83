---------------------------- MODULE ForwardClaims ---------------------------
(***************************************************************************)
(* A sentence of the repository about the receipts that the shared router  *)
(* holds, which its code does not keep.  TLC refutes it.                   *)
(***************************************************************************)
EXTENDS MCForward

(***************************************************************************)
(* lib.rs:185-188: withdrawing waits for a record that "binds the          *)
(* router-held protocol receipt to this signer.  A signer-owned payout ATA *)
(* alone is not sufficient authority to withdraw a router-held position";  *)
(* and lib.rs:5354-5356: what is parked on the router is recovered by the  *)
(* authority, which is "Not a user path".  So what the router holds of a   *)
(* venue's receipts is not redeemed into tokens of a user.  The withdrawal *)
(* gate keeps that for ForwardWithdraw; ForwardDeposit dispatches to the   *)
(* same arms, and takes the direction from the payload.                    *)
(***************************************************************************)
RouterHeldNotWithdrawnByUsers ==
    [][\A arm \in Arms, owner \in Owners :
        ~ (Gain(arm, RouterPda) < 0 /\ Gain("liquidity", owner) > 0)
      ]_vars
=============================================================================
