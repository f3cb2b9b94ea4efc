------------------------------ MODULE MCOutbox ------------------------------
(* Model values and symmetry for the instances of Outbox.                  *)
EXTENDS Outbox, TLC

CONSTANTS r1, r2, c1, c2

Symmetry == Permutations({r1, r2})
=============================================================================
