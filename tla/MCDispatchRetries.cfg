SPECIFICATION Spec
CONSTANTS
    w1 = w1
    w2 = w2
    Receipt = {1, 2}
    FileOf <- MCFileOf
    MaxFile = 1
    Worker = {w1}
    Null = Null
    QueueLimit = 1
    ByteLimit = 1
    PageLimit = 1
    RetryDelay = 1
    ErrorDelay = 1
    Lease = 1
    MaxEpoch = 0
    MaxJump = 1
    MaxFaults = 3
INVARIANT EveryPendingDiscoverable
CHECK_DEADLOCK FALSE
