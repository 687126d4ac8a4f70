CONSTANTS
    s1 = s1
    s2 = s2
    r1 = r1
    Symbols = {s1}
    AdminSymbols = {s1}
    Requests = {r1}
    LiveTtl = 2
    TickInterval = 1
    TickTime = 0
    MaxPrices = 2
    MaxFailures = 0
    MaxCrashes = 0
SPECIFICATION Spec
INVARIANTS AdminPricesStand
CHECK_DEADLOCK FALSE
