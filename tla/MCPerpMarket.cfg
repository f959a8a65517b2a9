SPECIFICATION Spec
SYMMETRY Symmetry
CONSTANTS
    u1 = u1
    u2 = u2
    AMM_TO_QUOTE_PRECISION_RATIO = 10
    PEG_PRECISION = 10
    MARK_PRICE_PRECISION = 100
    FUNDING_PAYMENT_PRECISION = 10
    BID_ASK_SPREAD_PRECISION = 100
    Users <- Traders
    SqrtK = 1000
    Peg = 15
    MinQuoteTrade = 20
    MinBaseTrade = 20
    FeeDenominator = 10
    RebateDenominator = 10
    RewardDenominator = 2
    KRatioPrecision = 1000
    AllowedPriceChange = 1
    KErr = 10
    K_BPS_UPDATE_SCALE = 1000
    K_BPS_DECREASE_MAX = 22
    K_BPS_INCREASE_MAX = 1
    NormaliseDenominator = 100
    QuoteSizes = {17}
    BaseSizes = {75}
    LimitPrices = {130, 180}
    LiquidationShares = {1, 4}
    FundingRates <- Rates
    FundedSteps = {1}
    KTargets = {980, 1200}
    Pegs = {14, 16}
    OraclePrices <- Oracles
    BaseSpreads = {0, 8}
    Intensities = {0, 100}
    Withdrawals = {1}
    RoundingGain = 1
    RoundingLoss = 3
    MaxSteps = 4
CHECK_DEADLOCK FALSE
INVARIANTS PositionsAggregated ZeroSum NoFreeRoundTrip PrepegTowardsTarget
PROPERTY LowerBoundKept
