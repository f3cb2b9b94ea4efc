CONSTANTS
  e1 = e1
  e2 = e2
  t1 = t1
  Platform = Platform
  Requests = {q1, q2}
  Entity = {e1, e2}
  Tenant = {t1}
  Jurisdiction = {"j1"}
  Evaluation = {1, 2}
  Purpose = {"p1"}
  PinnedPacks = {"k1"}
  MaxRows = 3
  MaxNow = 1
  Budgets <- Mixes
SPECIFICATION MCSpec
SYMMETRY RequestSymmetry
CHECK_DEADLOCK FALSE
INVARIANTS
  GrantsPinPublished
  PermittedOnLiveConsent
  TrailAgrees
PROPERTIES
  EvidenceIsHistory
