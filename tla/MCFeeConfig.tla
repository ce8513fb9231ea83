---------------------------- MODULE MCFeeConfig -----------------------------
(***************************************************************************)
(* Small instances of FeeConfig for TLC: the shipped override tables and   *)
(* sparse ones a release may ship, with two strategies and one yield       *)
(* opportunity.  Amounts sit on both sides of the roundings of the rates.  *)
(***************************************************************************)
EXTENDS FeeConfig, TLC

CONSTANTS stable_leg, roi_leg, lead, pool, none

NoTable == << >>

\* Sparse rows, each of which replaces some of the fields of a global row.
SparseRows ==
    {[enabled |-> TRUE, bps |-> 9999], [bps |-> 10001],
     [enabled |-> TRUE, bps |-> 3333, max_bps |-> 10000],
     [superseded |-> FALSE, enabled |-> TRUE, bps |-> 777],
     [locked_off |-> FALSE, enabled |-> TRUE, fixed_micros |-> 7]}

Overridden == {"strategy_performance", "protocol_performance", "deposit"}

Tables(ids) ==
    {NoTable} \cup
    {id :> (name :> row) : id \in ids, name \in Overridden, row \in SparseRows}

\* The lead's strategy, and a table that overrides two fees of it at once.
TwoRows ==
    {lead :> (("strategy_performance" :> row) @@ ("protocol_performance" :> share)) :
        row, share \in SparseRows}

AllStrategyTables ==
    {ShippedStrategyTable}
        \cup {table @@ ShippedStrategyTable : table \in Tables({lead}) \cup TwoRows}

AllOpportunityTables == Tables({pool})

ShippedTables == {ShippedStrategyTable}

NoTables == {NoTable}

AllContexts ==
    [strategyId : {none, stable_leg, roi_leg, lead}, opportunityId : {none, pool}]

AllProfitFees == [enabled : BOOLEAN, bps : {0, 1, 100, 200}, cap : {0, 1, 10}]
=============================================================================
