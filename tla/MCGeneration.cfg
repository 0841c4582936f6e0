SPECIFICATION Spec
CONSTANTS
  m1 = m1
  m2 = m2
  g1 = g1
  g2 = g2
  l1 = l1
  l2 = l2
  Callers <- AllCallers
  Requests <- Requests12
  Loops <- Loops12
  Models = {m1, m2}
  Route <- Route12
  Inputs = {i1}
  Flights = {f1, f2, f3}
  NoFlight = NoFlight
  Threshold = 2
  Counted = {"permanent", "timeout"}
  Retries = 1
  MaxTroubles = 2
  AttemptRetries = 1
  FallbackOnRefusal = TRUE
  FailOnMissing = TRUE
  LoopModel = m1
  StepLimit = 2
  Parallel = TRUE
  MaxConcurrency = 2
  StopOnError = TRUE
  MaxSteps = 3
  MaxToolCalls = 2
  MaxToolErrors = 1
  MaxTokens = 1
  MaxBatch = 2
  MaxUsage = 1
  MaxActive = 2
  b1 = b1
  Breakers = {b1}
  BreakerOf <- Shared
SYMMETRY MCSymmetry
INVARIANTS
  OneFlightPerKey
  BreakerConsistent
  RouteHonoured
  BudgetHeld
  SuspensionIsBoundary
  NobodyStuck
PROPERTIES
  ExhaustedIsFinal
  TrippedStops
CHECK_DEADLOCK FALSE
