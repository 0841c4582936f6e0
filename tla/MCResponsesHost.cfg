SPECIFICATION HostSpec
CONSTANTS
  Events = {d1, d2, other, error}
  Deltas = {d1, d2}
  ErrorEvent = error
  Host = Host
  Consumers = {Host}
  Capacity = 2
  Closers = {}
  Collectors = {Host}
  MaxEvents = 3
  MaxFaults = 1
INVARIANTS
  ClientsHavePrefix
  TextIsAgents
  EndsAgree
PROPERTIES
  ResponseSettles
CHECK_DEADLOCK FALSE
