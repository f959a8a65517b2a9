CONSTANTS
  u1 = u1
  u2 = u2
  m1 = m1
  Users = {u1, u2}
  Markets = {m1}
  NumBanks = 2
  NumSlots = 2
  BANK_CUMULATIVE_INTEREST_PRECISION = 2
  BANK_UTILIZATION_PRECISION = 4
  BANK_INTEREST_PRECISION = 1
  ONE_YEAR = 4
  OPTIMAL_UTILIZATION = 2
  OPTIMAL_BORROW_RATE = 1
  MAX_BORROW_RATE = 3
  Precision <- MCPrecision
  AssetWeight <- MCAssetWeight
  LiabilityWeight <- MCLiabilityWeight
  BANK_WEIGHT_PRECISION = 2
  PRICE_PRECISION = 1
  Prices = {2}
  LIQUIDATOR_SHARE_DENOMINATOR = 2
  FEE_SHARE_DENOMINATOR = 2
  Amounts = {1, 2}
  Wallet <- MCWallet
  Pnls <- MCPnls
  Fees = {0, 2}
  MaxTime = 1
  MaxTrades = 2
  MaxBalance = 4
SPECIFICATION Spec
CONSTRAINT PnlOrOtherBanks
INVARIANT SlotsAddressable
INVARIANT BankTotalsAccounted
PROPERTY RoundingLossBounded
