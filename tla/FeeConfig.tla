----------------------------- MODULE FeeConfig ------------------------------
(***************************************************************************)
(* Fee resolution and fee quotes of the DAY runtime                        *)
(* (runtime/config/fee-config.mjs), beside the quote the Solana program    *)
(* computes for the same fee.  A fee has a global row; a release may ship  *)
(* sparse override tables, by yield opportunity and by strategy, whose     *)
(* fields replace the global ones.  A quote resolves its row, then takes   *)
(* integer fractions of an amount in micros.                               *)
(*                                                                         *)
(* A row is a record of the fields the arithmetic reads; labels, notes and *)
(* the lower bounds the table only publishes are left out.  A rate that is *)
(* not an integer number of basis points throws: Refused.                  *)
(***************************************************************************)
EXTENDS Integers

CONSTANTS
    StrategyTables,    \* override tables by strategy, one of which is shipped
    OpportunityTables, \* override tables by yield opportunity
    Contexts,          \* [strategyId, opportunityId]: what is quoted
    StableLeg, RoiLeg, \* strategy ids of the two legs of fund #3
    Amounts,           \* amounts in micros
    ProfitFees,        \* [enabled, bps, cap] of a profit-fee configuration
    Readings,          \* rates read from the chain, NoReading for none
    NoReading,
    Refused            \* the answer of a call that throws

BASIS_POINTS == 10000
MAX_PROFIT_FEE_BPS == 200

Bps == 0..BASIS_POINTS

ASSUME FeeAssumption ==
    /\ StableLeg # RoiLeg
    /\ Refused \notin Bps
    /\ Amounts \subseteq Nat
    /\ \A fee \in ProfitFees :
        /\ fee.enabled \in BOOLEAN
        /\ fee.bps \in 0..MAX_PROFIT_FEE_BPS
        /\ fee.cap \in Nat

VARIABLES
    strategyOverrides,    \* STRATEGY_FEE_OVERRIDES of this release
    opportunityOverrides, \* OPPORTUNITY_FEE_OVERRIDES of this release
    quote                 \* the last answer: its kind, request and result

tables == <<strategyOverrides, opportunityOverrides>>
vars == <<tables, quote>>

-----------------------------------------------------------------------------
(* Tables.                                                                 *)

\* { ...row, ...fields }
Spread(row, fields) ==
    [f \in DOMAIN row \cup DOMAIN fields |->
        IF f \in DOMAIN fields THEN fields[f] ELSE row[f]]

Off == [enabled |-> FALSE, bps |-> 0, fixed_micros |-> 0]

LockedOff == Spread(Off, [locked_off |-> TRUE])

Rail(rate) == [enabled |-> TRUE, bps |-> rate, fixed_micros |-> 0]

GLOBAL_FEE_DEFAULTS == [
    routing             |-> Spread(Off, [fixed_usd_micros |-> 0]),
    swap                |-> Rail(10),
    bridge              |-> Rail(10),
    gas_sponsor_markup  |-> Rail(10),
    strategy_performance |-> Spread(Off, [max_bps |-> 2500]),
    protocol_performance |-> Spread(Off, [max_bps |-> 4000, superseded |-> TRUE]),
    management          |-> Spread(Off, [bps_annual |-> 0]),
    auto_pay            |-> Off,
    deposit             |-> LockedOff,
    withdraw            |-> LockedOff,
    profit_performance  |->
        [enabled |-> FALSE, bps |-> 100, fixed_micros |-> 0,
         max_bps |-> MAX_PROFIT_FEE_BPS],
    protocol_yield_skim |-> Spread(Off, [superseded |-> TRUE]),
    keeper_reward       |-> Spread(Off, [max_bps |-> 100])]

FeeNames == DOMAIN GLOBAL_FEE_DEFAULTS

\* STRATEGY_FEE_OVERRIDES as the repository ships it.
ShippedStrategyTable ==
    [leg \in {StableLeg, RoiLeg} |->
        [strategy_performance |->
            IF leg = StableLeg
            THEN [enabled |-> FALSE, bps |-> 0]
            ELSE [enabled |-> TRUE, bps |-> 1500, max_bps |-> 2500]]]

-----------------------------------------------------------------------------
(* Resolution of a row.                                                    *)

Overlay(row, table, id, name) ==
    IF id \in DOMAIN table /\ name \in DOMAIN table[id]
    THEN Spread(row, table[id][name])
    ELSE row

\* A wrong order of the overlays.
OpportunityLast(name, ctx) ==
    Overlay(Overlay(GLOBAL_FEE_DEFAULTS[name],
                    strategyOverrides, ctx.strategyId, name),
            opportunityOverrides, ctx.opportunityId, name)

\* The opportunity's fields replace the global ones, the strategy's both.
MergedRow(name, ctx) ==
    Overlay(Overlay(GLOBAL_FEE_DEFAULTS[name],
                    opportunityOverrides, ctx.opportunityId, name),
            strategyOverrides, ctx.strategyId, name)

\* A lock the overrides come after: the global rows are locked as it is.
LockedGlobally(name, ctx) == MergedRow(name, ctx)

\* Principal rails are locked off after every override.
LockedRow(name, ctx) ==
    IF name \in {"deposit", "withdraw"}
    THEN Spread(MergedRow(name, ctx), LockedOff)
    ELSE MergedRow(name, ctx)

IsCapped(name) == name \in {"strategy_performance", "protocol_performance"}

Field(row, field, default) ==
    IF field \in DOMAIN row THEN row[field] ELSE default

AllBps(name, row) ==
    /\ row.bps \in Bps
    /\ IsCapped(name) \/ name \in {"keeper_reward", "profit_performance"} =>
        Field(row, "max_bps", 0) \in Bps
    /\ Field(row, "bps_annual", 0) \in Bps

Lesser(m, n) == IF m <= n THEN m ELSE n

CappedBps(name, row) ==
    IF IsCapped(name) /\ "max_bps" \in DOMAIN row
    THEN Lesser(row.bps, row.max_bps)
    ELSE row.bps

EffectivelyEnabled(name, row, bps) ==
    /\ ~ Field(row, "locked_off", FALSE)
    /\ ~ Field(row, "superseded", FALSE)
    /\ row.enabled
    /\ \/ bps > 0
       \/ row.fixed_micros > 0
       \/ Field(row, "fixed_usd_micros", 0) > 0
       \/ name = "management" /\ Field(row, "bps_annual", bps) > 0

ResolveFee(name, ctx) ==
    LET row == LockedRow(name, ctx)
        bps == CappedBps(name, row)
    IN  IF AllBps(name, row)
        THEN [enabled |-> EffectivelyEnabled(name, row, bps), bps |-> bps,
              fixed_micros |-> row.fixed_micros]
        ELSE Refused

\* What a getter returns of a resolved row: the rate it reads, if charged.
FeeField(row, rate) ==
    IF row = Refused THEN Refused
    ELSE IF row.enabled THEN rate ELSE 0

FeeBps(name, ctx) ==
    LET row == ResolveFee(name, ctx)
    IN  FeeField(row, row.bps)

ManagementFeeBpsAnnual(ctx) ==
    LET row == ResolveFee("management", ctx)
    IN  FeeField(row, Field(LockedRow("management", ctx), "bps_annual", row.bps))

RoutingFeeUsdMicros(ctx) ==
    LET row == ResolveFee("routing", ctx)
    IN  FeeField(row, Field(LockedRow("routing", ctx), "fixed_usd_micros", 0))

\* Keeper reward and profit fee: at most the maximum of their row.
LimitedFeeBps(name, ctx) ==
    LET row == ResolveFee(name, ctx)
    IN  FeeField(row, Lesser(row.bps, LockedRow(name, ctx).max_bps))

\* A rail's rate prefers a reading from the chain within its bounds.
ReadOrResolved(name, reading, min, max, ctx) ==
    IF reading # NoReading /\ reading \in min..max
    THEN reading
    ELSE FeeBps(name, ctx)

SwapFeeBps(reading, ctx) == ReadOrResolved("swap", reading, 5, 30, ctx)

GasSponsorFeeBps(reading, ctx) ==
    ReadOrResolved("gas_sponsor_markup", reading, 0, 1500, ctx)

NoContext == [strategyId |-> "", opportunityId |-> ""]

Leg(strategyId, opportunityId) ==
    [strategyId |-> strategyId, opportunityId |-> opportunityId]

\* assertFeeConfigLocked: what the product has fixed, resolved from the tables.
FeeConfigLocked ==
    /\ \A name \in {"auto_pay", "strategy_performance", "protocol_performance",
                    "protocol_yield_skim", "profit_performance"} :
        FeeBps(name, NoContext) = 0
    /\ \A name \in {"swap", "bridge", "gas_sponsor_markup"} :
        FeeBps(name, NoContext) = 10
    /\ RoutingFeeUsdMicros(NoContext) = 0
    /\ FeeBps("strategy_performance", Leg(StableLeg, "")) = 0
    /\ FeeBps("strategy_performance", Leg(RoiLeg, "")) = 1500

-----------------------------------------------------------------------------
(* Quotes.                                                                 *)

Fraction(amount, bps) == (amount * bps) \div BASIS_POINTS

\* The residual as a fraction of its own, not as what the fee leaves.
SplitByRates(gross, leadBps, protocolBps) ==
    LET leadFee == Fraction(gross, leadBps)
        protocolFromLead == Fraction(leadFee, protocolBps)
    IN  [gross |-> gross,
         leadFee |-> leadFee,
         protocolFromLead |-> protocolFromLead,
         leadNet |-> leadFee - protocolFromLead,
         userResidual |-> Fraction(gross, BASIS_POINTS - leadBps)]

SplitProfit(gross, leadBps, protocolBps) ==
    LET leadFee == Fraction(gross, leadBps)
        protocolFromLead == Fraction(leadFee, protocolBps)
    IN  [gross |-> gross,
         leadFee |-> leadFee,
         protocolFromLead |-> protocolFromLead,
         leadNet |-> leadFee - protocolFromLead,
         userResidual |-> gross - leadFee]

ApplyStrategyPerformanceWaterfall(gross, ctx) ==
    LET leadBps == FeeBps("strategy_performance", ctx)
        protocolBps == FeeBps("protocol_performance", ctx)
    IN  IF leadBps \in Bps /\ protocolBps \in Bps
        THEN SplitProfit(gross, leadBps, protocolBps)
        ELSE Refused

Fund3FeeDisclosure(stableProfit, roiProfit, opportunityId) ==
    LET stable ==
            ApplyStrategyPerformanceWaterfall(stableProfit, Leg(StableLeg, opportunityId))
        roi == ApplyStrategyPerformanceWaterfall(roiProfit, Leg(RoiLeg, opportunityId))
        gross == stableProfit + roiProfit
        fee == stable.leadFee + roi.leadFee
    IN  IF Refused \in {stable, roi}
        THEN Refused
        ELSE [stable |-> stable,
              roi |-> roi,
              blendedFee |-> fee,
              blendedBps |-> IF gross = 0 THEN 0 ELSE (fee * BASIS_POINTS) \div gross]

\* getProfitFeeConfig and computeProfitFee of the runtime.
ComputeProfitFee(fee, profit) ==
    LET bps == Lesser(fee.bps, MAX_PROFIT_FEE_BPS)
        raw == Fraction(profit, bps)
    IN  IF ~ fee.enabled \/ bps = 0 \/ profit = 0 THEN 0
        ELSE IF fee.cap > 0 /\ raw > fee.cap THEN fee.cap ELSE raw

\* A quote that takes a cap of zero for a cap.
QuoteAlwaysCapped(fee, profit) ==
    IF ~ fee.enabled \/ fee.bps = 0 \/ profit = 0 THEN 0
    ELSE Lesser(fee.cap, Fraction(profit, fee.bps))

\* RouterFeeConfig::quote_profit_fee of the program; products are 128 bits wide.
QuoteProfitFee(fee, profit) ==
    IF ~ fee.enabled \/ fee.bps = 0 \/ profit = 0 THEN 0
    ELSE IF fee.cap # 0 /\ Fraction(profit, fee.bps) > fee.cap
         THEN fee.cap
         ELSE Fraction(profit, fee.bps)

\* dayFeeSchedule, with the resolved rows publicFeeSchedule adds to it.
FeeSchedule(swapReading, gasReading, ctx) ==
    LET rates == [name \in FeeNames |->
            CASE name = "swap" -> SwapFeeBps(swapReading, ctx)
              [] name = "gas_sponsor_markup" -> GasSponsorFeeBps(gasReading, ctx)
              [] name = "management" -> ManagementFeeBpsAnnual(ctx)
              [] name = "routing" -> RoutingFeeUsdMicros(ctx)
              [] name \in {"keeper_reward", "profit_performance"} ->
                    LimitedFeeBps(name, ctx)
              [] OTHER -> FeeBps(name, ctx)]
    IN  IF ~ FeeConfigLocked \/ \E name \in FeeNames : rates[name] = Refused
        THEN Refused
        ELSE [rates |-> rates, fees |-> [name \in FeeNames |-> ResolveFee(name, ctx)]]

-----------------------------------------------------------------------------
Idle == [kind |-> "none"]

Init ==
    /\ strategyOverrides \in StrategyTables
    /\ opportunityOverrides \in OpportunityTables
    /\ quote = Idle

Answer(answer) ==
    /\ quote = Idle
    /\ quote' = answer
    /\ UNCHANGED tables

QuoteWaterfall(gross, ctx) ==
    Answer([kind |-> "waterfall", gross |-> gross, ctx |-> ctx,
            split |-> ApplyStrategyPerformanceWaterfall(gross, ctx)])

QuoteFund3(stableProfit, roiProfit, opportunityId) ==
    Answer([kind |-> "fund3", stableProfit |-> stableProfit, roiProfit |-> roiProfit,
            disclosure |-> Fund3FeeDisclosure(stableProfit, roiProfit, opportunityId)])

QuoteProfit(fee, profit) ==
    Answer([kind |-> "profit", fee |-> fee, profit |-> profit,
            runtime |-> ComputeProfitFee(fee, profit),
            onchain |-> QuoteProfitFee(fee, profit)])

QuoteSchedule(swapReading, gasReading, ctx) ==
    Answer([kind |-> "schedule", ctx |-> ctx,
            schedule |-> FeeSchedule(swapReading, gasReading, ctx)])

\* The caller takes the answer; no call leaves anything behind.
Return ==
    /\ quote # Idle
    /\ quote' = Idle
    /\ UNCHANGED tables

Next ==
    \/ \E gross \in Amounts, ctx \in Contexts : QuoteWaterfall(gross, ctx)
    \/ \E stableProfit, roiProfit \in Amounts, ctx \in Contexts :
        QuoteFund3(stableProfit, roiProfit, ctx.opportunityId)
    \/ \E fee \in ProfitFees, profit \in Amounts : QuoteProfit(fee, profit)
    \/ \E swapReading, gasReading \in Readings, ctx \in Contexts :
        QuoteSchedule(swapReading, gasReading, ctx)
    \/ Return

Spec == Init /\ [][Next]_vars

-----------------------------------------------------------------------------
(***************************************************************************)
(* The three shares of a strategy's profit are never negative and add up   *)
(* to it, to the micro, whatever the overrides and roundings.              *)
(***************************************************************************)
WaterfallConserves ==
    quote.kind = "waterfall" /\ quote.split # Refused =>
        /\ quote.split.leadNet >= 0
        /\ quote.split.protocolFromLead >= 0
        /\ quote.split.userResidual >= 0
        /\ quote.gross = quote.split.leadNet + quote.split.protocolFromLead
                            + quote.split.userResidual

(***************************************************************************)
(* Fund #3 (DAY-568) takes nothing from its stable leg and 15% of its ROI  *)
(* leg, whatever yield opportunity each is placed in: the strategy's row   *)
(* wins over the opportunity's, field by field, and an opportunity that    *)
(* marks no fee superseded cannot change it.  The lock checked at each     *)
(* schedule asks this only with no opportunity.                            *)
(***************************************************************************)
FundLegsKeepRates ==
    /\ quote.kind = "fund3"
    /\ strategyOverrides = ShippedStrategyTable
    /\ quote.disclosure # Refused
    =>  /\ quote.disclosure.stable.leadFee = 0
        /\ quote.disclosure.roi.leadFee = (quote.roiProfit * 15) \div 100
        /\ quote.disclosure.blendedBps <= 1500

(***************************************************************************)
(* No override of any table makes a deposit or a withdrawal cost a fee in  *)
(* a published schedule.                                                   *)
(***************************************************************************)
PrincipalNeverCharged ==
    quote.kind = "schedule" /\ quote.schedule # Refused =>
        \A name \in {"deposit", "withdraw"} :
            /\ quote.schedule.rates[name] = 0
            /\ quote.schedule.fees[name] = Off

(***************************************************************************)
(* The runtime and the Solana program compute the same profit fee from the *)
(* same configuration (DAY-763); it is at most the profit, and at most the *)
(* cap when there is one.                                                  *)
(***************************************************************************)
ProfitQuotesAgree ==
    quote.kind = "profit" =>
        /\ quote.runtime = quote.onchain
        /\ quote.runtime <= quote.profit
        /\ quote.fee.cap > 0 => quote.runtime <= quote.fee.cap
=============================================================================
