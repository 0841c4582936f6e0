SPECIFICATION Spec
CONSTANTS
  N = 4
  Edges <- DiamondEdges
  Entrypoints <- First1
  Conditional <- DiamondEdges
  FailFast <- AllBut1
  MaxAttempts <- FlakyOnce
  InterruptBefore <- First23
  InterruptAfter <- None
  Runs <- OneRun
  Callers <- OneCaller
  Keys <- OneKey
  NoKey = NoKey
  Results <- Assorted
  Adapter = FALSE
  Leased = FALSE
  MaxConcurrency = 2
  CondRaises = FALSE
  MaxCalls = 6
  MaxCrashes = 0
  MaxFaults = 0
  AllowCancel = FALSE
  AllowResume = TRUE
  AllowFork = FALSE
  c1 = c1
  c2 = c2
  k1 = k1
INVARIANTS
  RoutedByEdges
  NothingStranded
CHECK_DEADLOCK FALSE
