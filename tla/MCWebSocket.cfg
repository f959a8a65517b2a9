SPECIFICATION Spec
CONSTANTS
    c1 = c1
    c2 = c2
    a1 = a1
    m1 = m1
    Authorities = {a1}
    UserIds = {0, 1}
    Markets = {m1}
    Configurations <- MCConfigurations
    Callers = {c1, c2}
    Data = {"x", "y"}
    Histories <- MCHistories
    MaxSlot = 3
    MaxCalls = 3
    MaxObjects = 6
CHECK_DEADLOCK FALSE
INVARIANTS FollowsItsAccounts NoListenerLeaks MissesOnlyTheGap
PROPERTY JoinedSubscribesReturn
