CONSTANTS
  u1 = u1
  u2 = u2
  t1 = t1
  t2 = t2
  Platform = Platform
  Unbound = Unbound
  Requests = {q1, q2}
  User = {u1, u2}
  Tenant = {t1, t2}
  FirstParty = t1
  LockoutThreshold = 1
  RecoveryThreshold = 1
  LedgerWindow = 1
  CodeAttempts = 1
  CodeLife = 1
  ResendCooldown = 1
  ChallengeLife = 1
  RateLimit <- Limits
  RateWindow = 1
  InvitationLife = 1
  MaxAttempts = 1
  MaxRows = 4
  MaxNow = 1
  Budgets <- Mixes
SPECIFICATION MCSpec
SYMMETRY RequestSymmetry
CHECK_DEADLOCK FALSE
INVARIANTS
  ProofsAreAccounted
  AuthorityWasHeld
  BoundOnMembership
  SettledBindings
  StatusIsHistory
