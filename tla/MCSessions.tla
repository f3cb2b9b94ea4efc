------------------------------ MODULE MCSessions ------------------------------
\* Model values for Sessions: up to two requests, three sessions, two tenants.
EXTENDS Sessions, TLC

CONSTANTS q1, q2, s1, s2, s3, t1, t2

Symmetry == Permutations(Requests) \cup Permutations(Sessions) \cup Permutations(Tenants)

===============================================================================
