CONSTANTS
  s1 = s1
  s2 = s2
  a1 = a1
  Subscribers = {s1, s2}
  Accounts = {a1}
  AccountOf <- OneAccount
  Data = {"x", "y"}
  Histories <- CreatedOrChanged
  CHUNK_SIZE = 1
  MAX_RETRIES = 2
  MaxLoads = 2
  MaxSlot = 2
SPECIFICATION Spec
INVARIANT CallbacksOwned
PROPERTIES NeverGoesBack CallsEnd
CHECK_DEADLOCK FALSE
