\* Two tiers, the lower of which invited the buyer; two requests and the job; one failure.
CONSTANTS
    r1 = r1
    r2 = r2
    job = job
    Tiers = {1, 2}
    Rules <- TwoRules
    DiffMode = TRUE
    Inviter = 1
    LogAmount = 1
    Transfers = {3}
    BatchSize = 1
    Requests = {r1, r2}
    Job = job
    MaxFaults = 1
SPECIFICATION FairSpec
CHECK_DEADLOCK FALSE
INVARIANT SplitPaidOncePerAttempt
INVARIANT LogTellsPaid
INVARIANT SplitsMakeUpTopRate
INVARIANT BalanceReconciles
PROPERTY JobPaysCompleted
PROPERTY PendingIsDecided
