-------------------------- MODULE FeeConfigProofs ---------------------------
(***************************************************************************)
(* Theorems about FeeConfig: for every override table, rate and amount,    *)
(* the waterfall conserves the profit it splits, and the runtime and the   *)
(* Solana program quote the same profit fee.  Nothing is accumulated from  *)
(* one quote to the next, so each invariant is inductive as it stands: it  *)
(* comes down to what a fraction of an amount is.                          *)
(***************************************************************************)
EXTENDS FeeConfig, TLAPS

(***************************************************************************)
(* A product with a rate: what an amount times a rate is bounded by.       *)
(***************************************************************************)
LEMMA ProductBounds ==
    ASSUME NEW amount \in Nat, NEW bps \in Bps
    PROVE  /\ amount * bps \in Nat
           /\ amount * bps <= amount * BASIS_POINTS
  BY DEF Bps, BASIS_POINTS

(***************************************************************************)
(* A fraction of an amount, rounded down, is part of the amount.           *)
(***************************************************************************)
LEMMA FractionBounds ==
    ASSUME NEW amount \in Nat, NEW bps \in Bps
    PROVE  Fraction(amount, bps) \in 0..amount
  <1>1. PICK product \in Nat : product = amount * bps /\ product <= amount * 10000
    BY ProductBounds DEF BASIS_POINTS
  <1>2. product \div 10000 \in 0..amount
    BY <1>1
  <1> QED
    BY <1>1, <1>2 DEF Fraction, BASIS_POINTS

(***************************************************************************)
(* The shares of a split are never negative and add up to the profit.      *)
(***************************************************************************)
LEMMA SplitConserves ==
    ASSUME NEW gross \in Nat, NEW leadBps \in Bps, NEW protocolBps \in Bps
    PROVE  LET split == SplitProfit(gross, leadBps, protocolBps)
           IN  /\ split.leadNet >= 0
               /\ split.protocolFromLead >= 0
               /\ split.userResidual >= 0
               /\ gross = split.leadNet + split.protocolFromLead + split.userResidual
  <1> DEFINE leadFee == Fraction(gross, leadBps)
             protocolFromLead == Fraction(leadFee, protocolBps)
  <1>1. leadFee \in 0..gross
    BY FractionBounds
  <1>2. leadFee \in Nat
    BY <1>1
  <1>3. protocolFromLead \in 0..leadFee
    BY <1>2, FractionBounds
  <1> HIDE DEF leadFee, protocolFromLead
  <1>4. /\ leadFee - protocolFromLead >= 0
        /\ protocolFromLead >= 0
        /\ gross - leadFee >= 0
        /\ gross = (leadFee - protocolFromLead) + protocolFromLead + (gross - leadFee)
    BY <1>1, <1>3
  <1> QED
    BY <1>4 DEF SplitProfit, leadFee, protocolFromLead

(***************************************************************************)
(* Whatever its tables resolve to, a waterfall is refused or conserves.    *)
(***************************************************************************)
LEMMA WaterfallSplits ==
    ASSUME NEW gross \in Nat, NEW ctx,
           ApplyStrategyPerformanceWaterfall(gross, ctx) # Refused
    PROVE  LET split == ApplyStrategyPerformanceWaterfall(gross, ctx)
           IN  /\ split.leadNet >= 0
               /\ split.protocolFromLead >= 0
               /\ split.userResidual >= 0
               /\ gross = split.leadNet + split.protocolFromLead + split.userResidual
  <1> DEFINE leadBps == FeeBps("strategy_performance", ctx)
             protocolBps == FeeBps("protocol_performance", ctx)
  <1>1. leadBps \in Bps /\ protocolBps \in Bps
    BY DEF ApplyStrategyPerformanceWaterfall
  <1>2. ApplyStrategyPerformanceWaterfall(gross, ctx)
            = SplitProfit(gross, leadBps, protocolBps)
    BY <1>1 DEF ApplyStrategyPerformanceWaterfall
  <1> HIDE DEF leadBps, protocolBps
  <1> QED
    BY <1>1, <1>2, SplitConserves

(***************************************************************************)
(* Every quote of a strategy's profit conserves it (the waterfall of       *)
(* fee-config.mjs), for all tables, amounts and contexts.                  *)
(***************************************************************************)
THEOREM WaterfallAlwaysConserves == Spec => []WaterfallConserves
  <1>1. Init => WaterfallConserves
    BY DEF Init, Idle, WaterfallConserves
  <1>2. WaterfallConserves /\ [Next]_vars => WaterfallConserves'
    <2> SUFFICES ASSUME WaterfallConserves, [Next]_vars
                 PROVE  WaterfallConserves'
      OBVIOUS
    <2>1. ASSUME NEW gross \in Amounts, NEW ctx \in Contexts, QuoteWaterfall(gross, ctx)
          PROVE  WaterfallConserves'
      <3> DEFINE answer == ApplyStrategyPerformanceWaterfall(gross, ctx)
      <3>1. quote'.split = answer /\ quote'.gross = gross
        BY <2>1 DEF QuoteWaterfall, Answer
      <3>2. gross \in Nat
        BY FeeAssumption
      <3>3. answer # Refused =>
                /\ answer.leadNet >= 0
                /\ answer.protocolFromLead >= 0
                /\ answer.userResidual >= 0
                /\ gross = answer.leadNet + answer.protocolFromLead + answer.userResidual
        BY <3>2, WaterfallSplits
      <3> HIDE DEF answer
      <3> QED
        BY <3>1, <3>3 DEF WaterfallConserves
    <2>2. ASSUME NEW stableProfit \in Amounts, NEW roiProfit \in Amounts,
                 NEW ctx \in Contexts,
                 QuoteFund3(stableProfit, roiProfit, ctx.opportunityId)
          PROVE  WaterfallConserves'
      BY <2>2 DEF QuoteFund3, Answer, WaterfallConserves
    <2>3. ASSUME NEW fee \in ProfitFees, NEW profit \in Amounts, QuoteProfit(fee, profit)
          PROVE  WaterfallConserves'
      BY <2>3 DEF QuoteProfit, Answer, WaterfallConserves
    <2>4. ASSUME NEW swapReading \in Readings, NEW gasReading \in Readings,
                 NEW ctx \in Contexts, QuoteSchedule(swapReading, gasReading, ctx)
          PROVE  WaterfallConserves'
      BY <2>4 DEF QuoteSchedule, Answer, WaterfallConserves
    <2>5. CASE Return
      BY <2>5 DEF Return, Idle, WaterfallConserves
    <2>6. CASE UNCHANGED vars
      BY <2>6 DEF vars, WaterfallConserves
    <2> QED
      BY <2>1, <2>2, <2>3, <2>4, <2>5, <2>6 DEF Next
  <1> QED
    BY <1>1, <1>2, PTL DEF Spec

(***************************************************************************)
(* Both sides of DAY-763 compute the same fee, within the profit and the   *)
(* cap: the bounds the two configurations enforce make the runtime's       *)
(* second bound on the rate redundant.                                     *)
(***************************************************************************)
LEMMA ProfitFeesAgree ==
    ASSUME NEW fee \in ProfitFees, NEW profit \in Nat
    PROVE  /\ ComputeProfitFee(fee, profit) = QuoteProfitFee(fee, profit)
           /\ ComputeProfitFee(fee, profit) <= profit
           /\ fee.cap > 0 => ComputeProfitFee(fee, profit) <= fee.cap
  <1> DEFINE raw == Fraction(profit, fee.bps)
  <1>1. /\ fee.cap \in Nat
        /\ fee.bps \in 0..MAX_PROFIT_FEE_BPS
    BY FeeAssumption
  <1>2. Lesser(fee.bps, MAX_PROFIT_FEE_BPS) = fee.bps
    BY <1>1 DEF Lesser, MAX_PROFIT_FEE_BPS
  <1>3. raw \in 0..profit
    <2>1. fee.bps \in Bps
      BY <1>1 DEF Bps, BASIS_POINTS, MAX_PROFIT_FEE_BPS
    <2> QED
      BY <2>1, FractionBounds
  <1> HIDE DEF raw
  <1>4. /\ ComputeProfitFee(fee, profit)
             = IF ~ fee.enabled \/ fee.bps = 0 \/ profit = 0 THEN 0
               ELSE IF fee.cap > 0 /\ raw > fee.cap THEN fee.cap ELSE raw
        /\ QuoteProfitFee(fee, profit)
             = IF ~ fee.enabled \/ fee.bps = 0 \/ profit = 0 THEN 0
               ELSE IF fee.cap # 0 /\ raw > fee.cap THEN fee.cap ELSE raw
    BY <1>2 DEF ComputeProfitFee, QuoteProfitFee, raw
  <1> QED
    BY <1>1, <1>3, <1>4

(***************************************************************************)
(* Every quote of a profit fee agrees with the chain's and stays within    *)
(* the profit and the cap.                                                 *)
(***************************************************************************)
THEOREM ProfitQuotesAlwaysAgree == Spec => []ProfitQuotesAgree
  <1>1. Init => ProfitQuotesAgree
    BY DEF Init, Idle, ProfitQuotesAgree
  <1>2. ProfitQuotesAgree /\ [Next]_vars => ProfitQuotesAgree'
    <2> SUFFICES ASSUME ProfitQuotesAgree, [Next]_vars
                 PROVE  ProfitQuotesAgree'
      OBVIOUS
    <2>1. ASSUME NEW gross \in Amounts, NEW ctx \in Contexts, QuoteWaterfall(gross, ctx)
          PROVE  ProfitQuotesAgree'
      BY <2>1 DEF QuoteWaterfall, Answer, ProfitQuotesAgree
    <2>2. ASSUME NEW stableProfit \in Amounts, NEW roiProfit \in Amounts,
                 NEW ctx \in Contexts,
                 QuoteFund3(stableProfit, roiProfit, ctx.opportunityId)
          PROVE  ProfitQuotesAgree'
      BY <2>2 DEF QuoteFund3, Answer, ProfitQuotesAgree
    <2>3. ASSUME NEW fee \in ProfitFees, NEW profit \in Amounts, QuoteProfit(fee, profit)
          PROVE  ProfitQuotesAgree'
      <3>1. /\ quote'.runtime = ComputeProfitFee(fee, profit)
            /\ quote'.onchain = QuoteProfitFee(fee, profit)
            /\ quote'.fee = fee
            /\ quote'.profit = profit
        BY <2>3 DEF QuoteProfit, Answer
      <3>2. profit \in Nat
        BY FeeAssumption
      <3> QED
        BY <3>1, <3>2, ProfitFeesAgree DEF ProfitQuotesAgree
    <2>4. ASSUME NEW swapReading \in Readings, NEW gasReading \in Readings,
                 NEW ctx \in Contexts, QuoteSchedule(swapReading, gasReading, ctx)
          PROVE  ProfitQuotesAgree'
      BY <2>4 DEF QuoteSchedule, Answer, ProfitQuotesAgree
    <2>5. CASE Return
      BY <2>5 DEF Return, Idle, ProfitQuotesAgree
    <2>6. CASE UNCHANGED vars
      BY <2>6 DEF vars, ProfitQuotesAgree
    <2> QED
      BY <2>1, <2>2, <2>3, <2>4, <2>5, <2>6 DEF Next
  <1> QED
    BY <1>1, <1>2, PTL DEF Spec

(***************************************************************************)
(* A spread has the fields of both, the second's where both have one.      *)
(***************************************************************************)
LEMMA FieldsWin ==
    ASSUME NEW row, NEW fields
    PROVE  /\ \A f \in DOMAIN fields :
                f \in DOMAIN Spread(row, fields) /\ Spread(row, fields)[f] = fields[f]
           /\ \A f \in DOMAIN row :
                /\ f \in DOMAIN Spread(row, fields)
                /\ f \notin DOMAIN fields => Spread(row, fields)[f] = row[f]
  BY DEF Spread

(***************************************************************************)
(* The lock of a principal rail leaves nothing of what overrides put       *)
(* there: neither switch nor rate nor fixed amount.                        *)
(***************************************************************************)
LEMMA LockedFields ==
    ASSUME NEW row
    PROVE  LET locked == Spread(row, LockedOff)
           IN  /\ "locked_off" \in DOMAIN locked /\ locked["locked_off"] = TRUE
               /\ locked["bps"] = 0 /\ locked["fixed_micros"] = 0
  <1> DEFINE lock == [locked_off |-> TRUE]
  <1>1. /\ "locked_off" \in DOMAIN lock /\ lock["locked_off"] = TRUE
        /\ "bps" \notin DOMAIN lock /\ "fixed_micros" \notin DOMAIN lock
    OBVIOUS
  <1>2. /\ "bps" \in DOMAIN Off /\ Off["bps"] = 0
        /\ "fixed_micros" \in DOMAIN Off /\ Off["fixed_micros"] = 0
    BY DEF Off
  <1> HIDE DEF lock
  <1>3. LockedOff = Spread(Off, lock)
    BY DEF LockedOff, lock
  <1> DEFINE locked == Spread(Off, lock)
  <1>4. /\ "locked_off" \in DOMAIN locked /\ locked["locked_off"] = TRUE
        /\ "bps" \in DOMAIN locked /\ locked["bps"] = 0
        /\ "fixed_micros" \in DOMAIN locked /\ locked["fixed_micros"] = 0
    BY <1>1, <1>2, FieldsWin
  <1> HIDE DEF locked
  <1>5. LockedOff = locked
    BY <1>3 DEF locked
  <1>6. /\ "locked_off" \in DOMAIN LockedOff /\ LockedOff["locked_off"] = TRUE
        /\ "bps" \in DOMAIN LockedOff /\ LockedOff["bps"] = 0
        /\ "fixed_micros" \in DOMAIN LockedOff /\ LockedOff["fixed_micros"] = 0
    BY <1>4, <1>5
  <1> QED
    BY <1>6, FieldsWin

(***************************************************************************)
(* A principal rail resolves to a fee that is off, or throws.              *)
(***************************************************************************)
LEMMA PrincipalResolvesOff ==
    ASSUME NEW name \in {"deposit", "withdraw"}, NEW ctx
    PROVE  /\ ResolveFee(name, ctx) \in {Off, Refused}
           /\ FeeBps(name, ctx) \in {0, Refused}
           /\ FeeBps(name, ctx) # Refused => ResolveFee(name, ctx) = Off
  <1> DEFINE row == LockedRow(name, ctx)
  <1>1. /\ "locked_off" \in DOMAIN row /\ row["locked_off"] = TRUE
        /\ row["bps"] = 0 /\ row["fixed_micros"] = 0
    BY LockedFields DEF LockedRow
  <1>2. CappedBps(name, row) = 0
    BY <1>1 DEF CappedBps, IsCapped
  <1>3. EffectivelyEnabled(name, row, 0) = FALSE
    BY <1>1 DEF EffectivelyEnabled, Field
  <1>4. ResolveFee(name, ctx) \in {Off, Refused}
    BY <1>1, <1>2, <1>3 DEF ResolveFee, Off
  <1>5. FeeBps(name, ctx) = FeeField(ResolveFee(name, ctx), ResolveFee(name, ctx).bps)
    BY DEF FeeBps
  <1> QED
    BY <1>4, <1>5 DEF FeeField, Off

(***************************************************************************)
(* So a schedule that is published charges no principal.                   *)
(***************************************************************************)
LEMMA ScheduleFreesPrincipal ==
    ASSUME NEW swapReading, NEW gasReading, NEW ctx,
           FeeSchedule(swapReading, gasReading, ctx) # Refused,
           NEW name \in {"deposit", "withdraw"}
    PROVE  LET schedule == FeeSchedule(swapReading, gasReading, ctx)
           IN  schedule.rates[name] = 0 /\ schedule.fees[name] = Off
  <1> DEFINE schedule == FeeSchedule(swapReading, gasReading, ctx)
  <1>1. name \in FeeNames
    BY DEF FeeNames, GLOBAL_FEE_DEFAULTS
  <1>2. /\ schedule.rates[name] = FeeBps(name, ctx)
        /\ schedule.fees[name] = ResolveFee(name, ctx)
        /\ schedule.rates[name] # Refused
    BY <1>1 DEF FeeSchedule
  <1> HIDE DEF schedule
  <1> QED
    BY <1>2, PrincipalResolvesOff DEF schedule

(***************************************************************************)
(* No table ever makes a deposit or a withdrawal cost a fee in a schedule  *)
(* that is published (fee-config.mjs 425-434), whatever rows it overrides. *)
(***************************************************************************)
THEOREM PrincipalNeverEverCharged == Spec => []PrincipalNeverCharged
  <1>1. Init => PrincipalNeverCharged
    BY DEF Init, Idle, PrincipalNeverCharged
  <1>2. PrincipalNeverCharged /\ [Next]_vars => PrincipalNeverCharged'
    <2> SUFFICES ASSUME PrincipalNeverCharged, [Next]_vars
                 PROVE  PrincipalNeverCharged'
      OBVIOUS
    <2>1. ASSUME NEW gross \in Amounts, NEW ctx \in Contexts, QuoteWaterfall(gross, ctx)
          PROVE  PrincipalNeverCharged'
      BY <2>1 DEF QuoteWaterfall, Answer, PrincipalNeverCharged
    <2>2. ASSUME NEW stableProfit \in Amounts, NEW roiProfit \in Amounts,
                 NEW ctx \in Contexts,
                 QuoteFund3(stableProfit, roiProfit, ctx.opportunityId)
          PROVE  PrincipalNeverCharged'
      BY <2>2 DEF QuoteFund3, Answer, PrincipalNeverCharged
    <2>3. ASSUME NEW fee \in ProfitFees, NEW profit \in Amounts, QuoteProfit(fee, profit)
          PROVE  PrincipalNeverCharged'
      BY <2>3 DEF QuoteProfit, Answer, PrincipalNeverCharged
    <2>4. ASSUME NEW swapReading \in Readings, NEW gasReading \in Readings,
                 NEW ctx \in Contexts, QuoteSchedule(swapReading, gasReading, ctx)
          PROVE  PrincipalNeverCharged'
      <3> DEFINE answer == FeeSchedule(swapReading, gasReading, ctx)
      <3>1. quote'.schedule = answer
        BY <2>4 DEF QuoteSchedule, Answer
      <3>2. answer # Refused =>
                \A name \in {"deposit", "withdraw"} :
                    answer.rates[name] = 0 /\ answer.fees[name] = Off
        BY ScheduleFreesPrincipal
      <3> HIDE DEF answer
      <3>3. Off' = Off
        BY DEF Off
      <3> QED
        BY <3>1, <3>2, <3>3 DEF PrincipalNeverCharged
    <2>5. CASE Return
      BY <2>5 DEF Return, Idle, PrincipalNeverCharged
    <2>6. CASE UNCHANGED vars
      BY <2>6 DEF vars, PrincipalNeverCharged
    <2> QED
      BY <2>1, <2>2, <2>3, <2>4, <2>5, <2>6 DEF Next
  <1> QED
    BY <1>1, <1>2, PTL DEF Spec

-----------------------------------------------------------------------------
(***************************************************************************)
(* Fund #3.  What the shipped rows leave open is a switch that an          *)
(* opportunity could throw: one that marks the strategies' fee superseded  *)
(* or locked takes it from every strategy placed there.                    *)
(***************************************************************************)
LeadFee == "strategy_performance"

Unmarked(row) ==
    /\ "superseded" \in DOMAIN row => row["superseded"] = FALSE
    /\ "locked_off" \in DOMAIN row => row["locked_off"] = FALSE

OpportunitiesMarkNothing ==
    \A table \in OpportunityTables : \A id \in DOMAIN table :
        LeadFee \in DOMAIN table[id] => Unmarked(table[id][LeadFee])

LEMMA SpreadUnmarked ==
    ASSUME NEW row, NEW fields, Unmarked(row), Unmarked(fields)
    PROVE  Unmarked(Spread(row, fields))
  BY DEF Unmarked, Spread

\* The rows a leg of the fund has in the shipped table.
StableRow == [enabled |-> FALSE, bps |-> 0]
RoiRow == [enabled |-> TRUE, bps |-> 1500, max_bps |-> 2500]

LEMMA LegRows ==
    ASSUME strategyOverrides = ShippedStrategyTable,
           opportunityOverrides \in OpportunityTables, OpportunitiesMarkNothing,
           NEW id
    PROVE  \E base :
            /\ Unmarked(base)
            /\ LockedRow(LeadFee, Leg(StableLeg, id)) = Spread(base, StableRow)
            /\ LockedRow(LeadFee, Leg(RoiLeg, id)) = Spread(base, RoiRow)
  <1> DEFINE global == GLOBAL_FEE_DEFAULTS[LeadFee]
             base == Overlay(global, opportunityOverrides, id, LeadFee)
  <1>1. Unmarked(global)
    <2>1. global = Spread(Off, [max_bps |-> 2500])
      BY DEF GLOBAL_FEE_DEFAULTS, LeadFee
    <2>2. Unmarked(Off) /\ Unmarked([max_bps |-> 2500])
      BY DEF Unmarked, Off
    <2> QED
      BY <2>1, <2>2, SpreadUnmarked
  <1> HIDE DEF global
  <1>2. Unmarked(base)
    BY <1>1, SpreadUnmarked DEF Overlay, OpportunitiesMarkNothing
  <1>3. /\ StableLeg \in DOMAIN ShippedStrategyTable
        /\ RoiLeg \in DOMAIN ShippedStrategyTable
        /\ LeadFee \in DOMAIN ShippedStrategyTable[StableLeg]
        /\ LeadFee \in DOMAIN ShippedStrategyTable[RoiLeg]
        /\ ShippedStrategyTable[StableLeg][LeadFee] = StableRow
        /\ ShippedStrategyTable[RoiLeg][LeadFee] = RoiRow
    <2> DEFINE RowOf(leg) == IF leg = StableLeg THEN StableRow ELSE RoiRow
    <2>1. ShippedStrategyTable
            = [leg \in {StableLeg, RoiLeg} |-> [strategy_performance |-> RowOf(leg)]]
      BY Zenon DEF ShippedStrategyTable, StableRow, RoiRow
    <2>2. RowOf(StableLeg) = StableRow /\ RowOf(RoiLeg) = RoiRow
      BY FeeAssumption
    <2> HIDE DEF RowOf
    <2> QED
      BY <2>1, <2>2 DEF LeadFee
  <1>4. \A leg : LockedRow(LeadFee, Leg(leg, id))
                    = Overlay(base, strategyOverrides, leg, LeadFee)
    BY DEF LockedRow, MergedRow, Leg, LeadFee, global
  <1> HIDE DEF base
  <1>5. /\ LockedRow(LeadFee, Leg(StableLeg, id)) = Spread(base, StableRow)
        /\ LockedRow(LeadFee, Leg(RoiLeg, id)) = Spread(base, RoiRow)
    BY <1>3, <1>4 DEF Overlay
  <1> QED
    BY <1>2, <1>5

LEMMA LegRates ==
    ASSUME strategyOverrides = ShippedStrategyTable,
           opportunityOverrides \in OpportunityTables, OpportunitiesMarkNothing,
           NEW id
    PROVE  /\ FeeBps(LeadFee, Leg(StableLeg, id)) \in {0, Refused}
           /\ FeeBps(LeadFee, Leg(RoiLeg, id)) \in {1500, Refused}
  <1>1. PICK base :
            /\ Unmarked(base)
            /\ LockedRow(LeadFee, Leg(StableLeg, id)) = Spread(base, StableRow)
            /\ LockedRow(LeadFee, Leg(RoiLeg, id)) = Spread(base, RoiRow)
    BY LegRows
  <1>2. FeeBps(LeadFee, Leg(StableLeg, id)) \in {0, Refused}
    <2> DEFINE row == LockedRow(LeadFee, Leg(StableLeg, id))
    <2>1. row["enabled"] = FALSE
      BY <1>1 DEF StableRow, Spread
    <2>2. EffectivelyEnabled(LeadFee, row, CappedBps(LeadFee, row)) = FALSE
      BY <2>1 DEF EffectivelyEnabled
    <2>3. \/ ResolveFee(LeadFee, Leg(StableLeg, id)) = Refused
          \/ ResolveFee(LeadFee, Leg(StableLeg, id)).enabled = FALSE
      BY <2>2 DEF ResolveFee
    <2> QED
      BY <2>3 DEF FeeBps, FeeField
  <1>3. FeeBps(LeadFee, Leg(RoiLeg, id)) \in {1500, Refused}
    <2> DEFINE row == LockedRow(LeadFee, Leg(RoiLeg, id))
    <2>1. /\ row["enabled"] = TRUE /\ row["bps"] = 1500 /\ row["max_bps"] = 2500
          /\ "max_bps" \in DOMAIN row
      BY <1>1 DEF RoiRow, Spread
    <2>2. Unmarked(row)
      <3>1. Unmarked(RoiRow)
        BY DEF Unmarked, RoiRow
      <3> QED
        BY <1>1, <3>1, SpreadUnmarked
    <2> HIDE DEF row
    <2>3. CappedBps(LeadFee, row) = 1500
      BY <2>1 DEF CappedBps, IsCapped, Lesser, LeadFee
    <2>4. EffectivelyEnabled(LeadFee, row, 1500) = TRUE
      BY <2>1, <2>2 DEF EffectivelyEnabled, Field, Unmarked
    <2>5. \/ ResolveFee(LeadFee, Leg(RoiLeg, id)) = Refused
          \/ /\ ResolveFee(LeadFee, Leg(RoiLeg, id)).enabled = TRUE
             /\ ResolveFee(LeadFee, Leg(RoiLeg, id)).bps = 1500
      BY <2>3, <2>4 DEF ResolveFee, row
    <2> QED
      BY <2>5 DEF FeeBps, FeeField
  <1> QED
    BY <1>2, <1>3

(***************************************************************************)
(* Floors of a share of a whole: no larger share of a larger whole.        *)
(***************************************************************************)
LEMMA BlendBounded ==
    ASSUME NEW part \in Nat, NEW whole \in Nat, part <= whole, whole # 0,
           NEW fee \in Nat, fee * 10000 <= part * 1500
    PROVE  (fee * 10000) \div whole <= 1500
  <1> DEFINE product == fee * 10000
             q == product \div whole
  <1>1. product \in Nat /\ product <= 1500 * whole
    OBVIOUS
  <1> HIDE DEF product
  <1>2. q \in Nat /\ q * whole <= product
    BY <1>1
  <1> HIDE DEF q
  <1>3. ~(q >= 1501)
    <2> SUFFICES ASSUME q >= 1501 PROVE FALSE
      OBVIOUS
    <2>1. q * whole >= 1501 * whole
      BY <1>2
    <2> QED
      BY <1>1, <1>2, <2>1
  <1> QED
    BY <1>2, <1>3 DEF q, product

LEMMA FundDisclosed ==
    ASSUME strategyOverrides = ShippedStrategyTable,
           opportunityOverrides \in OpportunityTables, OpportunitiesMarkNothing,
           NEW stableProfit \in Nat, NEW roiProfit \in Nat, NEW id,
           Fund3FeeDisclosure(stableProfit, roiProfit, id) # Refused
    PROVE  LET disclosure == Fund3FeeDisclosure(stableProfit, roiProfit, id)
           IN  /\ disclosure.stable.leadFee = 0
               /\ disclosure.roi.leadFee = (roiProfit * 15) \div 100
               /\ disclosure.blendedBps <= 1500
  <1> DEFINE stable == ApplyStrategyPerformanceWaterfall(stableProfit, Leg(StableLeg, id))
             roi == ApplyStrategyPerformanceWaterfall(roiProfit, Leg(RoiLeg, id))
             disclosure == Fund3FeeDisclosure(stableProfit, roiProfit, id)
             gross == stableProfit + roiProfit
  <1>1. /\ stable # Refused /\ roi # Refused
        /\ disclosure.stable = stable /\ disclosure.roi = roi
        /\ disclosure.blendedBps = IF gross = 0 THEN 0
                ELSE ((stable.leadFee + roi.leadFee) * BASIS_POINTS) \div gross
    BY Zenon DEF Fund3FeeDisclosure
  <1>2. FeeBps(LeadFee, Leg(StableLeg, id)) = 0 /\ FeeBps(LeadFee, Leg(RoiLeg, id)) = 1500
    <2>1. /\ FeeBps(LeadFee, Leg(StableLeg, id)) \in Bps
          /\ FeeBps(LeadFee, Leg(RoiLeg, id)) \in Bps
      BY <1>1 DEF ApplyStrategyPerformanceWaterfall, LeadFee
    <2> QED
      BY <2>1, LegRates, FeeAssumption
  <1>3. stable.leadFee = Fraction(stableProfit, 0) /\ roi.leadFee = Fraction(roiProfit, 1500)
    BY <1>1, <1>2 DEF ApplyStrategyPerformanceWaterfall, SplitProfit, LeadFee
  <1> HIDE DEF stable, roi, disclosure
  <1>4. /\ stable.leadFee = 0
        /\ roi.leadFee = (roiProfit * 1500) \div 10000
    BY <1>3 DEF Fraction, BASIS_POINTS
  <1>5. /\ (roiProfit * 1500) \div 10000 = (roiProfit * 15) \div 100
        /\ (roiProfit * 1500) \div 10000 \in Nat
        /\ ((roiProfit * 1500) \div 10000) * 10000 <= roiProfit * 1500
    OBVIOUS
  <1>6. disclosure.blendedBps <= 1500
    <2>1. CASE gross = 0
      BY <1>1, <2>1
    <2>2. CASE gross # 0
      <3>1. disclosure.blendedBps = (roi.leadFee * 10000) \div gross
        BY <1>1, <1>4, <1>5, <2>2 DEF BASIS_POINTS
      <3>2. roi.leadFee \in Nat /\ roi.leadFee * 10000 <= roiProfit * 1500
        BY <1>4, <1>5
      <3>3. gross \in Nat /\ roiProfit <= gross
        OBVIOUS
      <3> QED
        BY <2>2, <3>1, <3>2, <3>3, BlendBounded
    <2> QED
      BY <2>1, <2>2
  <1> QED
    BY <1>1, <1>4, <1>5, <1>6 DEF disclosure, stable, roi

(***************************************************************************)
(* Fund #3 keeps its rates (DAY-568) wherever its legs are placed, for all *)
(* profits and all opportunity tables that mark no strategy's fee          *)
(* superseded or locked (fee-config.mjs 403-434, 687-800).                 *)
(***************************************************************************)
THEOREM FundLegsAlwaysKeepRates ==
    ASSUME OpportunitiesMarkNothing
    PROVE  Spec => []FundLegsKeepRates
  <1> DEFINE Kept == opportunityOverrides \in OpportunityTables /\ FundLegsKeepRates
  <1>1. Init => Kept
    BY DEF Init, Idle, FundLegsKeepRates
  <1>2. Kept /\ [Next]_vars => Kept'
    <2> SUFFICES ASSUME Kept, [Next]_vars PROVE Kept'
      OBVIOUS
    <2>1. ASSUME NEW gross \in Amounts, NEW ctx \in Contexts, QuoteWaterfall(gross, ctx)
          PROVE  Kept'
      BY <2>1 DEF QuoteWaterfall, Answer, tables, FundLegsKeepRates
    <2>2. ASSUME NEW stableProfit \in Amounts, NEW roiProfit \in Amounts,
                 NEW ctx \in Contexts,
                 QuoteFund3(stableProfit, roiProfit, ctx.opportunityId)
          PROVE  Kept'
      <3> DEFINE answer == Fund3FeeDisclosure(stableProfit, roiProfit, ctx.opportunityId)
      <3>1. /\ quote'.disclosure = answer /\ quote'.roiProfit = roiProfit
            /\ UNCHANGED <<strategyOverrides, opportunityOverrides>>
        BY <2>2 DEF QuoteFund3, Answer, tables
      <3>2. stableProfit \in Nat /\ roiProfit \in Nat
        BY FeeAssumption
      <3>3. strategyOverrides = ShippedStrategyTable /\ answer # Refused =>
                /\ answer.stable.leadFee = 0
                /\ answer.roi.leadFee = (roiProfit * 15) \div 100
                /\ answer.blendedBps <= 1500
        BY <3>2, FundDisclosed
      <3> HIDE DEF answer
      <3>4. ShippedStrategyTable' = ShippedStrategyTable
        BY DEF ShippedStrategyTable
      <3> QED
        BY <3>1, <3>3, <3>4 DEF FundLegsKeepRates
    <2>3. ASSUME NEW fee \in ProfitFees, NEW profit \in Amounts, QuoteProfit(fee, profit)
          PROVE  Kept'
      BY <2>3 DEF QuoteProfit, Answer, tables, FundLegsKeepRates
    <2>4. ASSUME NEW swapReading \in Readings, NEW gasReading \in Readings,
                 NEW ctx \in Contexts, QuoteSchedule(swapReading, gasReading, ctx)
          PROVE  Kept'
      BY <2>4 DEF QuoteSchedule, Answer, tables, FundLegsKeepRates
    <2>5. CASE Return
      BY <2>5 DEF Return, Idle, tables, FundLegsKeepRates
    <2>6. CASE UNCHANGED vars
      BY <2>6 DEF vars, tables, ShippedStrategyTable, FundLegsKeepRates
    <2> QED
      BY <2>1, <2>2, <2>3, <2>4, <2>5, <2>6 DEF Next
  <1> QED
    BY <1>1, <1>2, PTL DEF Spec
=============================================================================
