SPECIFICATION FairSpec
CONSTANTS
  Events = {1}
  r1 = r1
  r2 = r2
  c1 = c1
  c2 = c2
  Relays = {r1, r2}
  Consumers = {c1, c2}
  NoRelay = NoRelay
  NoEvent = NoEvent
  MaxAttempts = 2
  BatchSize = 1
  MaxFaults = 2
CHECK_DEADLOCK FALSE
INVARIANTS
  PublishedWasDelivered
  EffectOncePerReceipt
  DeadOnlyAfterMaxFailures
PROPERTIES
  SettledForever
  EveryEventSettles
  ImplementsContract
