SPECIFICATION CatalogSpec
CONSTANTS
    a = a
    b = b
    r = r
    Bases = {a, b}
    Intervals = {1}
    Retained = 1
    MaxTotal = 2
    BatchLimit = 2
    Readers = {r}
    MaxTime = 1
    MaxSeq = 3
    MaxFiles = 4
    MaxFaults = 2
INVARIANTS
    CatalogInOrder PruningClean
CHECK_DEADLOCK FALSE
SYMMETRY Families
