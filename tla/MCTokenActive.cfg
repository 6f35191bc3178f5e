\* A job and a request, in one process or two; two refreshes, no failure.
CONSTANTS
    j1 = j1
    q1 = q1
    p1 = p1
    p2 = p2
    None = None
    Orphan = Orphan
    Jobs = {j1}
    Requests = {q1}
    Deployments <- OneOrTwoProcesses
    MaxIssued = 2
    MaxFaults = 0
SPECIFICATION Spec
CHECK_DEADLOCK FALSE
INVARIANT StaysActive
