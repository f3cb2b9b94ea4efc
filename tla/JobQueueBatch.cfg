SPECIFICATION Spec
CONSTANTS
  w1 = w1
  w2 = w2
  j1 = j1
  j2 = j2
  Jobs = {j1, j2}
  Workers = {w1, w2}
  NoWorker = NoWorker
  NoJob = NoJob
  MaxAttempts = 2
  BatchSize = 2
  MaxFaults = 1
SYMMETRY Symmetry
CHECK_DEADLOCK FALSE
INVARIANTS
  SucceededByLatestClaim
  ExecutionsBounded
PROPERTIES
  LiveLeaseEndsByItsClaim
  TerminalForever
