SPECIFICATION Spec
CONSTANTS
  N = 2
  Edges <- LineEdges
  Entrypoints <- First1
  Conditional <- LineEdges
  FailFast <- Nodes
  MaxAttempts <- FlakyOnce
  InterruptBefore <- First2
  InterruptAfter <- First1
  Runs <- TwoRuns
  Callers <- TwoCallers
  Keys <- OneKey
  NoKey = NoKey
  Results <- MayFlake
  Adapter = FALSE
  Leased = FALSE
  MaxConcurrency = 2
  CondRaises = TRUE
  MaxCalls = 4
  MaxCrashes = 1
  MaxFaults = 0
  AllowCancel = FALSE
  AllowResume = TRUE
  AllowFork = TRUE
  c1 = c1
  c2 = c2
  k1 = k1
SYMMETRY MCSymmetry
INVARIANTS
  OneCallerPerAttempt
  InterruptsHonoured
  AttemptsAccounted
PROPERTIES
  ImplementsRunLog
CHECK_DEADLOCK FALSE
