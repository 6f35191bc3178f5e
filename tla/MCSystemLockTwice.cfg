\* Two operations after each other, and no failure at all.
CONSTANTS
    w1 = w1
    w2 = w2
    w3 = w3
    p1 = p1
    p2 = p2
    Workers = {w1, w2}
    Prints = {p1, p2}
    TTL = 8
    Lease = 6
    MaxAcquire = 1
    MaxExtend = 1
    MaxTime = 14
    MaxFaults = 0
SPECIFICATION Spec
SYMMETRY Symmetry
CHECK_DEADLOCK FALSE
INVARIANT OperationsExclude
