SPECIFICATION LiveSpec
CONSTANTS
    w1 = w1
    w2 = w2
    r1 = r1
    o1 = o1
    e1 = e1
    wire = wire
    None = None
    ClaimWorkers = {w1, w2}
    Receipt = {1, 3}
    FileOf <- MCFileOf
    MaxFile = 2
    Worker = {w1}
    Null = Null
    QueueLimit = 1
    ByteLimit = 1
    PageLimit = 1
    RetryDelay = 1
    ErrorDelay = 1
    Lease = 1
    MaxEpoch = 0
    MaxJump = 0
    MaxFaults = 1
PROPERTIES
    ClaimsEnd EventuallySettled
CHECK_DEADLOCK FALSE
