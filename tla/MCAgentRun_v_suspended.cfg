SPECIFICATION Spec
CONSTANTS
  Runs = {r1, r2, r3}
  Resumers = {x1, x2}
  Keys = {}
  StartKeys = {NoKey}
  NoKey = NoKey
  NoRun = NoRun
  NoClaim = NoClaim
  MaxStarts = 1
  MaxSteps = 1
  MaxTroubles = 0
  MaxCancels = 0
INVARIANTS
  SuspendedAsks
CHECK_DEADLOCK FALSE
