\* A subscription order, one handler, one failure.
CONSTANTS
    b1 = b1
    b2 = b2
    s1 = s1
    w1 = w1
    w2 = w2
    w3 = w3
    NoOrder = NoOrder
    Orders = {s1}
    SubOrders = {s1}
    SilentOrders = {}
    PopupOrders = {}
    Workers = {w1}
    MaxPending = 1
    DailyLimit = 0
    MaxFaults = 1
SPECIFICATION FairSpec
CHECK_DEADLOCK FALSE
PROPERTY NoExtensionAfterMarkCompleted
