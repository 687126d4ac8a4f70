CONSTANTS
    usd = usd
    r1 = r1
    r2 = r2
    Symbols = {usd}
    Rates = {1, 2}
    MaxFaults = 1
    Requests = {r1, r2}
    Holdings <- MCHoldings
SPECIFICATION Spec
INVARIANTS RatesOfThisTime OneRatePerSummary
PROPERTIES RatesReturn TicksEnd
CHECK_DEADLOCK FALSE
