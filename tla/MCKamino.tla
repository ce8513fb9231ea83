------------------------------ MODULE MCKamino ------------------------------
(***************************************************************************)
(* A small instance of KaminoSequence for TLC: two pinned reserves, one    *)
(* the program does not list, and frames of up to MaxFrame accounts.       *)
(***************************************************************************)
EXTENDS KaminoSequence

CONSTANTS usdc, sol, xyz, usdc_ref, sol_ref, xyz_ref, MaxFrame

States == [r \in {usdc, sol, xyz} |->
            CASE r = usdc -> usdc_ref [] r = sol -> sol_ref [] OTHER -> xyz_ref]

\* Accounts as a frame may list them; only a delimiter is well-formed read-only.
Metas ==
    [key : {usdc, sol, usdc_ref}, writable : {TRUE}]
        \cup [key : {KLEND}, writable : {FALSE}]

OddMetas ==
    {[key |-> usdc, writable |-> FALSE], [key |-> KLEND, writable |-> TRUE],
     [key |-> NullKey, writable |-> TRUE], [key |-> xyz, writable |-> TRUE]}

Frames(metas, n) == UNION {[1..k -> metas] : k \in 0..n}

AllStrays == Frames(Metas, MaxFrame) \cup Frames(Metas \cup OddMetas, MaxFrame - 2)

\* Whatever the obligation: a first deposit's frame, one that lists a deposit,
\* and one with a borrow's referrer state where it lists a deposit.
FewStrays ==
    {FrameOf(<<>>, <<>>, <<>>), FrameOf(<<usdc>>, <<>>, <<>>),
     FrameOf(<<usdc>>, <<>>, <<usdc_ref>>)}

\* Every other frame, against an obligation still without positions.
StrayNext ==
    /\ obligation.deposits = <<>> /\ obligation.borrows = <<>>
    /\ \E reserve \in {usdc, xyz}, disc \in {"deposit", "withdraw"}, frame \in AllStrays :
        Submit(disc, disc, reserve, TRUE, frame)

MCSpec == Init /\ [][Next \/ StrayNext]_vars
=============================================================================
