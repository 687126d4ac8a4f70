CONSTANTS
    s1 = s1
    s2 = s2
    r1 = r1
    Symbols = {s1, s2}
    AdminSymbols = {s2}
    Requests = {r1}
    LiveTtl = 6
    TickInterval = 2
    TickTime = 1
    MaxPrices = 2
    MaxFailures = 1
    MaxCrashes = 1
SPECIFICATION GatewaySpec
INVARIANTS TicksComeInTime
PROPERTIES WorkersEnd SubscribersCatchUp
CHECK_DEADLOCK FALSE
