\* The platform under two operators, one process of each kind and one pool.
SPECIFICATION Spec
SYMMETRY TaskSymmetry
CONSTANTS
  o1 = o1
  o2 = o2
  api = api
  worker = worker
  c1 = c1
  c2 = c2
  c3 = c3
  s1 = s1
  s2 = s2
  k1 = k1
  k2 = k2
  x1 = x1
  x2 = x2
  Tasks = {k1, k2}
  Credentials = {x1, x2}
  MaxCalls = 3
  Operators = {o1, o2}
  Envs <- MCEnvs
  Directories <- MCDirectories
  MaxIncarnations = 2
  Apis = {api}
  Workers = {worker}
  BuildOf <- MCBuildOf
  ByteBits = 2
  V4Bytes = 2
  V6Bytes = 6
  StaleAfter = 0
  MaxTime = 1
  Sessions = {s1, s2}
  Calls = {c1, c2, c3}
  Contexts <- MCContexts
  Requirements <- MCRequirements
INVARIANTS
  LedgerIsHistory
  ShutdownDrains
  PrincipalStaysHome
  AbandonedStaysAbandoned
  LockedOpensNothing
PROPERTIES
  ReadinessIsEarned
