CONSTANTS
    s1 = s1
    s2 = s2
    Symbols = {s1, s2}
    FetchOnStartup = TRUE
    Days = 3
    MaxFailures = 1
    MaxCrashes = 1
SPECIFICATION DailySpec
SYMMETRY MCSymmetry
INVARIANTS OneCallPerDay QuotesOfToday
CHECK_DEADLOCK FALSE
