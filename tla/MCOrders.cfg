CONSTANTS
  u1 = u1
  u2 = u2
  m1 = m1
  m2 = m2
  Users = {u1, u2}
  Markets = {m1, m2}
  NumPositions = 2
  NumOrders = 2
  Params <- SizeParams
  MinSizes = {1, 2}
  MaxBase = 2
  MaxOrderId = 2
SPECIFICATION Spec
CONSTRAINT SizesOrFillers
INVARIANT TypeOK
INVARIANT OrdersAddressable
INVARIANT RestingOrders
INVARIANT OnePositionPerMarket
INVARIANT OpenOrdersCounted
PROPERTY NoResidueBelowMinimum
PROPERTY ReduceOnlyFills
