SPECIFICATION FairSpec
CONSTANTS
    j1 = j1
    j2 = j2
    w1 = w1
    w2 = w2
    Jobs = {j1, j2}
    Workers = {w1, w2}
    Registered <- MCRegistered
    Interval <- MCInterval
    Lease = 2
    HandlerTimeout = 1
    Slack = 2
    BatchSize = 2
    MaxFaults = 2
    NULL = NULL
INVARIANTS
    TypeOK
    AloneUnlessLate
PROPERTIES
    ClaimEndsByOwnerOrExpiry
    ImplementsLeasedTask
    JobsKeepRunning
