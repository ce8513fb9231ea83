------------------------------ MODULE MCForward -----------------------------
(***************************************************************************)
(* A small instance of ForwardRouter for TLC.  The registry is filled when *)
(* it starts, its last slot naming Save, Save bound to a foreign program,  *)
(* or an adapter no arm knows.  Registrations are checked with Handoff.    *)
(***************************************************************************)
EXTENDS ForwardRouter

CONSTANTS a, b, authority, router,
          kamino, marginfi, jupiter_lend, save, other,
          klend, mfi, earn, so1end, foreign

MCArmOf == [id \in AdapterIds |->
    CASE id = kamino       -> "kamino"
      [] id = marginfi     -> "marginfi"
      [] id = jupiter_lend -> "jupiter_lend"
      [] id = save         -> "save"
      [] OTHER             -> "unknown"]

MCPinnedProgram == [arm \in Arms |->
    CASE arm = "kamino"       -> klend
      [] arm = "marginfi"     -> mfi
      [] arm = "jupiter_lend" -> earn
      [] arm = "save"         -> so1end]

MCSupply == [owner \in Owners |-> IF owner = a THEN 2 ELSE 0]

RequestOf(direction, layout, amount, signer, dest) ==
    [direction |-> direction, layout |-> layout, amount |-> amount,
     authority |-> signer, dest |-> dest]

\* Every well-formed request, and one of each kind of malformed one.
MCRequests ==
    {RequestOf(direction, direction, amount, signer, dest) :
        direction \in {"deposit", "withdraw"}, amount \in {1, 2},
        signer \in {a, b, router}, dest \in {a, b, router}}
    \cup {RequestOf("unknown", "deposit", 1, a, a),
          RequestOf("deposit", "withdraw", 1, router, router),
          RequestOf("withdraw", "unpinned", 1, router, router),
          RequestOf("deposit", "deposit", 0, a, a)}

ClaimOf(amount, profit, treasury, payee) ==
    [amount_micros |-> amount, realized_profit |-> profit,
     treasury_token |-> treasury, owner_token |-> payee]

MCClaims ==
    {ClaimOf(0, 0, authority, payee) : payee \in {a, b}}
    \cup {ClaimOf(1, 0, authority, a), ClaimOf(0, 1, authority, a),
          ClaimOf(0, 0, b, a), ClaimOf(0, 0, authority, router)}

Slot(id, program) ==
    [adapter_id |-> id, protocol_program |-> program, active |-> TRUE]

MCInit ==
    /\ registry_v2_exists = TRUE
    /\ \E last \in {Slot(save, so1end), Slot(save, foreign), Slot(other, foreign)} :
        registry_v2 = <<Slot(kamino, klend), Slot(marginfi, mfi),
                        Slot(jupiter_lend, earn), last>>
    /\ ForwardInit

MCSpec == MCInit /\ [][Next]_vars /\ SetUp
=============================================================================
