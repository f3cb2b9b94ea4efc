SPECIFICATION Spec
CONSTANTS
  Events = {1, 2}
  r1 = r1
  r2 = r2
  c1 = c1
  c2 = c2
  Relays = {r1, r2}
  Consumers = {c1}
  NoRelay = NoRelay
  NoEvent = NoEvent
  MaxAttempts = 1
  BatchSize = 2
  MaxFaults = 1
SYMMETRY Symmetry
CHECK_DEADLOCK FALSE
INVARIANTS
  OnlyCommittedDelivered
