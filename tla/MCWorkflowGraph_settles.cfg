SPECIFICATION FairSpec
CONSTANTS
  N = 2
  Edges <- LineEdges
  Entrypoints <- First1
  Conditional <- None
  FailFast <- Nodes
  MaxAttempts <- Once
  InterruptBefore <- None
  InterruptAfter <- None
  Runs <- OneRun
  Callers <- TwoCallers
  Keys <- OneKey
  NoKey = NoKey
  Results <- AlwaysCompletes
  Adapter = FALSE
  Leased = TRUE
  MaxConcurrency = 2
  CondRaises = FALSE
  MaxCalls = 4
  MaxCrashes = 1
  MaxFaults = 1
  AllowCancel = FALSE
  AllowResume = FALSE
  AllowFork = FALSE
  c1 = c1
  c2 = c2
  k1 = k1
PROPERTIES
  RunsSettle
CHECK_DEADLOCK FALSE
