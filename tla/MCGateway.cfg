CONSTANTS
    r1 = r1
    r2 = r2
    u1 = u1
    p1 = p1
    p2 = p2
    a1 = a1
    a2 = a2
    None = None
    Orphan = Orphan
    Requests = {r1, r2}
    Users = {u1}
    Accounts = {a1, a2}
    Processes = {p1, p2}
    UserOf <- OneUser
    ProcessOf <- EachItsProcess
    Settings <- TightAndWide
    MaxWait = 1
    MaxWaiting = 1
    MaxFaults = 1
SPECIFICATION FairSpec
CHECK_DEADLOCK FALSE
INVARIANT WithinLimits
INVARIANT SerialLockExclusive
INVARIANT HandedSlotsReturn
INVARIANT CountersDoNotLeak
PROPERTY DrainsInTheEnd
