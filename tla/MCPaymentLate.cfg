\* A balance order paid while the expiry job is at it and notified late; no failure.
CONSTANTS
    b1 = b1
    b2 = b2
    s1 = s1
    w1 = w1
    w2 = w2
    w3 = w3
    NoOrder = NoOrder
    Orders = {b1}
    SubOrders = {}
    SilentOrders = {}
    PopupOrders = {}
    Workers = {w1}
    MaxPending = 1
    DailyLimit = 0
    MaxFaults = 0
SPECIFICATION FairSpec
CHECK_DEADLOCK FALSE
PROPERTY PaidIsReconciled
