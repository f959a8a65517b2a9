CONSTANTS
  funding_period = 6
  InitMark = 60
  MarkPrices = {60, 90}
  Feeds <- AnyFeeds
  Waits = {1, 4, 7}
  long_spread = 10
  short_spread = 10
  BID_ASK_SPREAD_PRECISION = 100
  FUNDING_PAYMENT_PRECISION = 10
  PeriodAdjustment = 24
  NormaliseDenominator = 20
  NudgeDenominator = 10
  ClampDenominator = 10
  too_volatile_ratio = 3
  confidence_interval_max_size = 4
  MaxDivergence = 40
  MaxSteps = 5
SPECIFICATION Spec
CHECK_DEADLOCK FALSE
INVARIANTS TypeOK TwapsWithinSeen
PROPERTIES FundedOncePerPeriod FundingUsesFreshTwaps
