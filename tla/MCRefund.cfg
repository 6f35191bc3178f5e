\* A balance or a subscription order, two concurrent handlers, one failure beside any refusals of the provider.
CONSTANTS
    w1 = w1
    w2 = w2
    w3 = w3
    Amount = 3
    PayAmount = 5
    Days = 1
    Tolerance = 1
    RefundAmounts = {1, 3}
    InitialWallet = 3
    Workers = {w1, w2}
    MaxFaults = 1
SPECIFICATION FairSpec
CHECK_DEADLOCK FALSE
INVARIANT SingleRefunder
INVARIANT AcceptedOnce
INVARIANT RollbackIsCovered
PROPERTY ImplementsRefundLedger
PROPERTY RefundEnds
