\* Two requests, a recharge, two failures; queues that one task fills.
CONSTANTS
    r1 = r1
    r2 = r2
    k1 = k1
    k2 = k2
    f1 = f1
    f2 = f2
    None = None
    Requests = {r1, r2}
    Keys = {k1, k2}
    Prints = {f1, f2}
    Settings <- Cases
    PoolQueue = 1
    PoolWorkers = 1
    CacheQueue = 1
    FailureThreshold = 1
    HalfOpenRequests = 1
    MaxFaults = 2
SPECIFICATION FairSpec
CHECK_DEADLOCK FALSE
INVARIANT ServedIsCharged
INVARIANT DriftIsExplained
INVARIANT HalfOpenIsProbed
PROPERTY ImplementsUsageLedger
PROPERTY DriftHeals
