\* A job and a request, in one process or two; two refreshes, one failure.
CONSTANTS
    j1 = j1
    q1 = q1
    p1 = p1
    p2 = p2
    None = None
    Orphan = Orphan
    Jobs = {j1}
    Requests = {q1}
    Deployments <- OneOrTwoProcesses
    MaxIssued = 2
    MaxFaults = 1
SPECIFICATION FairSpec
CHECK_DEADLOCK FALSE
INVARIANT RefreshesExclude
INVARIANT DisabledOnlyWhenLost
INVARIANT NewestIsStored
INVARIANT ExpiredIsNotKept
PROPERTY DueIsRefreshed
