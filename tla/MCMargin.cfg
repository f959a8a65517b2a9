SPECIFICATION Spec
CONSTANTS
    m1 = m1
    m2 = m2
    AMM_TO_QUOTE_PRECISION_RATIO = 1
    PEG_PRECISION = 10
    MARK_PRICE_PRECISION = 100
    FUNDING_PAYMENT_PRECISION = 10
    BID_ASK_SPREAD_PRECISION = 1000
    SqrtK = 10000
    Peg = 15
    MinQuoteTrade = 10
    FeeDenominator = 20
    RebateDenominator = 10
    Markets = {m1, m2}
    Collateral = 90
    MARGIN_PRECISION = 100
    InitialRatio = 20
    PartialRatio = 14
    MaintenanceRatio = 8
    MaxDivergence = 90
    MAX_MARK_TWAP_DIVERGENCE = 200
    MAX_LIQUIDATION_SLIPPAGE = 12
    DustCollateral = 20
    PartialCloseNumerator = 25
    PartialCloseDenominator = 100
    PartialPenaltyNumerator = 25
    PartialPenaltyDenominator = 1000
    FullPenaltyNumerator = 1
    FullPenaltyDenominator = 2
    PartialShareDenominator = 2
    FullShareDenominator = 20
    MinBaseTrade = 20
    MinOrderValue = 10
    Orders <- MCOrders
    OrderMarket = m1
    QuoteSizes = {150}
    OtherSizes = {400}
    Transfers = {60}
    FundingRates = {0, 40}
    Feeds <- MCFeeds
    MaxSteps = 4
CHECK_DEADLOCK FALSE
INVARIANTS NewRiskAboveMaintenance LiquidationPossible SizedFillIsAffordable
PROPERTIES PartialLiquidationHelps LiquidationOnlyReduces LiquidationCostsThePenalty FilledWithinLimit
