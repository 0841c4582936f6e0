SPECIFICATION Spec
CONSTANTS
  w1 = w1
  w2 = w2
  Workers <- MCWorkers
  Ttl = 2
  Backend = "sql"
  MaxTime = 4
  MaxFence = 3
  MaxCalls = 2
SYMMETRY MCSymmetry
PROPERTIES
  ImplementsFencedLease
  FencedWritesMonotone
CHECK_DEADLOCK FALSE
