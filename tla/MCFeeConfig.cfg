SPECIFICATION Spec
CONSTANTS
    stable_leg = stable_leg
    roi_leg = roi_leg
    lead = lead
    pool = pool
    none = none
    StableLeg = stable_leg
    RoiLeg = roi_leg
    StrategyTables <- AllStrategyTables
    OpportunityTables <- AllOpportunityTables
    Contexts <- AllContexts
    Amounts = {0, 1, 9999, 10001}
    ProfitFees <- AllProfitFees
    Readings = {noreading, 4, 30, 1501}
    NoReading = noreading
    Refused = refused
INVARIANTS WaterfallConserves FundLegsKeepRates PrincipalNeverCharged ProfitQuotesAgree
