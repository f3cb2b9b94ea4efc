SPECIFICATION Spec
CONSTANTS
  q1 = q1
  q2 = q2
  s1 = s1
  s2 = s2
  s3 = s3
  t1 = t1
  t2 = t2
  Requests = {q1, q2}
  Sessions = {s1, s2, s3}
  Tenants = {t1}
  Unbound = Unbound
  NoSession = NoSession
  MfaActive = TRUE
  MaxTokens = 1
  MaxBoundaries = 0
SYMMETRY Symmetry
CHECK_DEADLOCK FALSE
INVARIANT OneSessionPerLogin
