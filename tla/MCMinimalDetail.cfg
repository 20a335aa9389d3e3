SPECIFICATION Spec
CONSTANTS
    w1 = w1
    w2 = w2
    r1 = r1
    r2 = r2
    o1 = o1
    o2 = o2
    e1 = e1
    e2 = e2
    wire = wire
    env = env
    None = None
    Receipt = {r1, r2}
    Event = {e1}
    Class = {wire}
    Policies <- MCPolicies
    Owner = {o1, o2}
    Worker = {w1, w2}
    Lease = 1
    MaxAttempts = 2
    MaxJump = 1
INVARIANT MinimalOmitsCompletedDetail
