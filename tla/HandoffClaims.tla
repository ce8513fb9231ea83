---------------------------- MODULE HandoffClaims ---------------------------
(***************************************************************************)
(* Sentences of the repository about handoffs that its code does not keep. *)
(* Each is stated as the sentence reads; TLC refutes each of them.         *)
(***************************************************************************)
EXTENDS MCHandoff

(***************************************************************************)
(* lib.rs:1150-1151: "we reject any origin_owner that is not a real Solana *)
(* account key (on-curve)", since admitting a left-padded EVM address      *)
(* "would create a position that CAN NEVER BE EXITED".  The function the   *)
(* comment introduces, assert_solana_origin_owner, refuses only the null   *)
(* key.                                                                    *)
(***************************************************************************)
OnlyPayableOwners ==
    \A id \in DayTxIds : Opened(id) => position[id].origin_owner \in Owners

(***************************************************************************)
(* README.md:24: "the owner always holds funds and keys, and can exit at   *)
(* any time"; WHITEPAPER.md:7: "Owners always exit."  An exit goes through *)
(* the registry gate, so an adapter the authority deactivates closes the   *)
(* exit of positions that hold enough to be recovered.                     *)
(***************************************************************************)
CanExitAnyTime ==
    \A id \in DayTxIds : Active(id) /\ Recoverable(id) => ENABLED Exit(id)
=============================================================================
