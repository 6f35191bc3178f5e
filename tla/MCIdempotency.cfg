\* Two requests with two payloads, as slow as they like.
CONSTANTS
    w1 = w1
    w2 = w2
    w3 = w3
    p1 = p1
    p2 = p2
    Workers = {w1, w2}
    Prints = {p1, p2}
    TTL = 3
    ProcessingTimeout = 2
    RetryBackoff = 1
    MaxTime = 5
    MaxFaults = 1
SPECIFICATION Spec
SYMMETRY Symmetry
CHECK_DEADLOCK FALSE
INVARIANT SingleRun
INVARIANT OnlyTheSlowAreDisplaced
INVARIANT SuccessIsKept
PROPERTY BackoffIsRespected
