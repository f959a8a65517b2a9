CONSTANTS
  Providers = {"websocket", "polling"}
  OrderBy = "blockchain"
  OrderDir = "asc"
  EventTypes = {"OrderRecord", "TradeRecord"}
  Markets = {"sol", "btc"}
  Timestamp <- TwoSlotsASecond
  MaxEvents = 2
  MaxTx = 3
  UntilTxs = {0, 1}
  PageLimit = 2
  MaxPerSlot = 2
  MaxLanded = 4
  MaxSubscribes = 1
SPECIFICATION Spec
CONSTRAINT Scope
CHECK_DEADLOCK FALSE
INVARIANTS EventsOnce ListSorted PolledListKeepsNewest
PROPERTY AwaitedReturns
