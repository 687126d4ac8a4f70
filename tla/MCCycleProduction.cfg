CONSTANTS
    p1 = p1
    p2 = p2
    Processes = {p1, p2}
    FallbackAllowed = FALSE
    Owners <- MCOwners
    LockTtl = 2
    Slots = {1}
    Orders = {o1}
    MaxFaults = 2
SPECIFICATION Spec
INVARIANTS UnexpiredLockKept OverlapOnlyAfterExpiry
PROPERTIES CyclesEnd CrossedOrdersSettle
CHECK_DEADLOCK FALSE
