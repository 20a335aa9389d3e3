SPECIFICATION Spec
CONSTANTS
  c1 = c1
  c2 = c2
  j1 = j1
  d1 = d1
  k1 = k1
  k2 = k2
  e1 = e1
  e2 = e2
  e3 = e3
  Calls = {c1}
  Jobs = {j1}
  Configs <- MovingConfigs
  HotConcurrency = 1
  MaxEdits = 1
  MaxRotations = 1
  MaxFaults = 1
  AuditEventSet <- SmallEvents
  Durables = {d1}
  Closers = {k1, k2}
  QueueLimit = 2
  QueueMaxBytes = 3
  BatchMaxItems = 2
  BatchMaxBytes = 2
  DedupSize = 1
  DedupTTL = 1
  MaxLogs = 2
  MaxClock = 0
  MaxWriteFaults = 1
  Events = {e1, e2}
  Plans <- LivePlans
  MaxExpiries = 0
PROPERTIES
    ShutdownEnds EditsServed EventsDecided
CHECK_DEADLOCK FALSE
