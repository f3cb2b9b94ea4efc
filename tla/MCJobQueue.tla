----------------------------- MODULE MCJobQueue -----------------------------
(* Model values and symmetry for the instances of JobQueue.                *)
EXTENDS JobQueue, TLC

CONSTANTS w1, w2, j1, j2

Symmetry     == Permutations({w1, w2}) \cup Permutations({j1, j2})

=============================================================================
