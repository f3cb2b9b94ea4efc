SPECIFICATION Spec
CONSTANTS
  Events = {1, 2}
  r1 = r1
  r2 = r2
  c1 = c1
  c2 = c2
  Relays = {r1, r2}
  Consumers = {c1}
  NoRelay = NoRelay
  NoEvent = NoEvent
  MaxAttempts = 2
  BatchSize = 1
  MaxFaults = 0
CHECK_DEADLOCK FALSE
PROPERTIES
  OrderedPerAggregate
