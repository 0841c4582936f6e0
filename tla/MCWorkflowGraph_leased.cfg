SPECIFICATION Spec
CONSTANTS
  N = 2
  Edges <- LineEdges
  Entrypoints <- First1
  Conditional <- None
  FailFast <- Nodes
  MaxAttempts <- Once
  InterruptBefore <- None
  InterruptAfter <- None
  Runs <- OneRun
  Callers <- TwoCallers
  Keys <- OneKey
  NoKey = NoKey
  Results <- MaySuspend
  Adapter = TRUE
  Leased = TRUE
  MaxConcurrency = 2
  CondRaises = FALSE
  MaxCalls = 3
  MaxCrashes = 1
  MaxFaults = 1
  AllowCancel = TRUE
  AllowResume = TRUE
  AllowFork = FALSE
  c1 = c1
  c2 = c2
  k1 = k1
SYMMETRY MCSymmetry
INVARIANTS
  FencesMonotone
  OneExecutorPerLease
  OutcomesAreFinal
CHECK_DEADLOCK FALSE
