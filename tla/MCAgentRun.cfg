SPECIFICATION FairSpec
CONSTANTS
  Runs = {r1, r2}
  Resumers = {x1, x2}
  Keys = {k1}
  StartKeys = {k1}
  NoKey = NoKey
  NoRun = NoRun
  NoClaim = NoClaim
  MaxStarts = 2
  MaxSteps = 1
  MaxTroubles = 1
  MaxCancels = 1
PROPERTIES
  RunsSettle
  ImplementsAgentRunLife
INVARIANTS
  ApprovedOnce
  ClaimGuarded
  ReportsHonest
  RunningIsOwned
  NoOrphans
  TreeCovered
CHECK_DEADLOCK FALSE
