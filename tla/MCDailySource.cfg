CONSTANTS
    s1 = s1
    s2 = s2
    Symbols = {s1, s2}
    FetchOnStartup = FALSE
    Days = 1
    MaxFailures = 0
    MaxCrashes = 0
SPECIFICATION DailySpec
SYMMETRY MCSymmetry
INVARIANTS StaysWithProvider
CHECK_DEADLOCK FALSE
