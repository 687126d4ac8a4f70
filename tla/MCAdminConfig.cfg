CONSTANTS
    k1 = k1
    k2 = k2
    p1 = p1
    p2 = p2
    r1 = r1
    r2 = r2
    Keys = {k1, k2}
    Processes = {p1, p2}
    Requests = {r1, r2}
    MaxValues = 2
    MaxSnapshots = 3
    MaxCrashes = 1
SPECIFICATION Spec
SYMMETRY MCSymmetry
INVARIANTS OneInUse NothingMissing
PROPERTIES RestoredWhole
CHECK_DEADLOCK FALSE
