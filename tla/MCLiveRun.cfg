SPECIFICATION Spec
CONSTANTS
  k1 = k1  k2 = k2  x = x  y = y
  Events <- SomeEvents
  Calls = {k1, k2}
  NoCall = NoCall
  Args = {x, y}
  LocalTools = {k1}
  Run = Run
  Consumers = {Run}
  Capacity = 3
  Updaters = {u1, u2}
  Nobody = Nobody
  MaxEvents = 4
  FewEvents = 2
  MaxTurns = 2
  MaxCancels = 1
INVARIANTS
  CallsAnswered
  EndedOnce
  UpdatesKept
  LeavesNothing
PROPERTIES
  LiveSettles
CHECK_DEADLOCK FALSE
