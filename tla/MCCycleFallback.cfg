CONSTANTS
    p1 = p1
    p2 = p2
    Processes = {p1, p2}
    FallbackAllowed = TRUE
    Owners <- MCOwners
    LockTtl = 2
    Slots = {1, 2}
    Orders = {o1}
    MaxFaults = 1
SPECIFICATION Spec
INVARIANTS OneCyclePerProcess FilledOnce
CHECK_DEADLOCK FALSE
