\* A balance and a subscription order under the limits, two handlers, one failure.
CONSTANTS
    b1 = b1
    b2 = b2
    s1 = s1
    w1 = w1
    w2 = w2
    w3 = w3
    NoOrder = NoOrder
    Orders = {b1, s1}
    SubOrders = {s1}
    SilentOrders = {s1}
    PopupOrders = {s1}
    Workers = {w1, w2}
    MaxPending = 1
    DailyLimit = 1
    MaxFaults = 1
SPECIFICATION Spec
SYMMETRY Symmetry
VIEW Relevant
CHECK_DEADLOCK FALSE
INVARIANT SingleFulfiller
INVARIANT CompletedIsCredited
INVARIANT CreditRequiresPayment
INVARIANT PaidStaysPaid
PROPERTY ImplementsLedger
