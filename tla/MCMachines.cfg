SPECIFICATION Safety
CONSTANTS
  c1 = c1
  c2 = c2
  j1 = j1
  d1 = d1
  k1 = k1
  k2 = k2
  e1 = e1
  e2 = e2
  e3 = e3
  Calls = {c1, c2}
  Jobs = {j1}
  Configs <- AllConfigs
  HotConcurrency = 1
  MaxEdits = 1
  MaxRotations = 1
  MaxFaults = 1
  AuditEventSet <- AuditEvents
  Durables = {d1}
  Closers = {k1, k2}
  QueueLimit = 2
  QueueMaxBytes = 3
  BatchMaxItems = 2
  BatchMaxBytes = 2
  DedupSize = 1
  DedupTTL = 1
  MaxLogs = 3
  MaxClock = 2
  MaxWriteFaults = 1
  Events = {e1, e2, e3}
  Plans <- GatePlans
  MaxExpiries = 1
INVARIANTS
    SnapshotsInUse LifecycleInOrder EventsAccounted ClosedMeansWritten
    VerdictsAgree FlightsInOrder
CHECK_DEADLOCK FALSE
