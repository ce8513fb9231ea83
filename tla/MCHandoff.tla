------------------------------ MODULE MCHandoff -----------------------------
(***************************************************************************)
(* Small instances of Handoff for TLC.                                     *)
(***************************************************************************)
EXTENDS Handoff, TLC

CONSTANTS a, b, evm, null, label, nolabel

Origin(owner, chain, asset) == [owner |-> owner, chain |-> chain, asset |-> asset]

\* Well-formed records of two payable owners.
GoodOrigins == {Origin(owner, label, label) : owner \in {a, b}}

\* One record of each malformed or foreign kind beside a good one.
AllOrigins ==
    {Origin(a, label, label), Origin(evm, label, label),
     Origin(null, label, label), Origin(a, nolabel, label),
     Origin(a, label, nolabel)}

\* Handoffs are alike, and so are payable owners in the good records.
Symmetric == Permutations(DayTxIds) \cup Permutations(Owners)
=============================================================================
