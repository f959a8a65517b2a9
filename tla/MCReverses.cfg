SPECIFICATION Spec
SYMMETRY Symmetry
CONSTANTS
    u1 = u1
    u2 = u2
    AMM_TO_QUOTE_PRECISION_RATIO = 10
    PEG_PRECISION = 10
    MARK_PRICE_PRECISION = 100
    FUNDING_PAYMENT_PRECISION = 10
    BID_ASK_SPREAD_PRECISION = 100
    Users <- Traders
    SqrtK = 10000
    Peg = 15
    MinQuoteTrade = 6
    MinBaseTrade = 20
    FeeDenominator = 10
    RebateDenominator = 10
    RewardDenominator = 2
    KRatioPrecision = 1000
    AllowedPriceChange = 1
    KErr = 10
    K_BPS_UPDATE_SCALE = 1000
    K_BPS_DECREASE_MAX = 22
    K_BPS_INCREASE_MAX = 1
    NormaliseDenominator = 100
    QuoteSizes = {97, 100}
    BaseSizes = {}
    LimitPrices = {}
    LiquidationShares = {1, 4}
    FundingRates = {0}
    FundedSteps = {}
    KTargets = {}
    Pegs = {}
    OraclePrices <- Oracles
    BaseSpreads = {4}
    Intensities = {0}
    Withdrawals = {}
    RoundingGain = 0
    RoundingLoss = 2
    MaxSteps = 4
CHECK_DEADLOCK FALSE
INVARIANT ReduceNeverReverses
