\* A lease of three renewal intervals, of which one may fail.
CONSTANTS
    w1 = w1
    w2 = w2
    w3 = w3
    p1 = p1
    p2 = p2
    Workers = {w1, w2}
    Prints = {p1, p2}
    TTL = 7
    Lease = 6
    MaxAcquire = 1
    MaxExtend = 0
    MaxTime = 10
    MaxFaults = 1
SPECIFICATION Spec
SYMMETRY Symmetry
CHECK_DEADLOCK FALSE
INVARIANT FreeAfterLease
PROPERTY KeptWhileRenewed
