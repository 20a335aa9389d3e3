CONSTANTS
    w1 = w1
    w2 = w2
    MaxFile = 3
    FirstFile = 2
    Receipt = {1, 2}
    FileOf <- MCFileOf
    Worker = {w1, w2}
    Server = server
    MaxFaults = 1
    MaxReloads = 1
SPECIFICATION MCSpec
INVARIANTS
    OwnersInOrder
PROPERTIES
    EventuallyFinalized
CHECK_DEADLOCK FALSE
