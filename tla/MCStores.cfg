SPECIFICATION StoresSpec
CONSTANTS
    w1 = w1
    w2 = w2
    r1 = r1
    r2 = r2
    o1 = o1
    o2 = o2
    e1 = e1
    e2 = e2
    wire = wire
    env = env
    None = None
    Receipt = {r1, r2}
    Event = {e1, e2}
    Class = {wire, env}
    Policies <- MCPolicies
    Owner = {o1, o2}
    Worker = {w1, w2}
    Lease = 1
    MaxAttempts = 2
    MaxJump = 1
    k1 = k1
    k2 = k2
    c1 = c1
    c2 = c2
    NoOwner = NoOwner
    Key = {k1, k2}
    KeyBytes <- MCKeyBytes
    Before <- MCBefore
    Size = {1, 2}
    Generation = {0, 1}
    ReceiptID = {1, 2}
    TTL = {0, 1}
    Limits <- MCLimits
    MaxTime = 2
    MaxLoops = 3
    Call = {c1, c2}
    TemporalKey = {k1}
    MaxEpoch = 2
    MaxReceipts = 2
SYMMETRY Perms
INVARIANTS
    ClaimsInOrder CompletedOnce ReplayInputIntact AuditMatchesEvaluations
    CacheInOrder NoStaleObservation NoStaleContext
PROPERTIES
    ImplementsLedger
CHECK_DEADLOCK FALSE
