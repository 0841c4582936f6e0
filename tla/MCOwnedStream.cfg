SPECIFICATION Spec
CONSTANTS
  Events = {e1, e2}
  ErrorEvent = e2
  Consumers = {c1, c2}
  Capacity = 2
  Closers = {a1}
  Collectors = {b1, b2}
  MaxEvents = 3
INVARIANTS
  ClosedIsOver
PROPERTIES
  ImplementsEventFeed
  StreamSettles
CHECK_DEADLOCK FALSE
