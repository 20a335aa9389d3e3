SPECIFICATION MCSpec
CONSTANTS
    w1 = w1
    w2 = w2
    Receipt = {1, 2}
    FileOf <- MCFileOf
    MaxFile = 2
    Worker = {w1, w2}
    Null = Null
    QueueLimit = 1
    ByteLimit = 1
    PageLimit = 1
    RetryDelay = 1
    ErrorDelay = 1
    Lease = 1
    MaxEpoch = 1
    MaxJump = 1
    MaxFaults = 1
INVARIANTS
    QueueInOrder NoReceiptForgotten
CHECK_DEADLOCK FALSE
