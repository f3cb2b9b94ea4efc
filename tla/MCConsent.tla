------------------------------ MODULE MCConsent ------------------------------
(***************************************************************************)
(* Instances of Consent: two entities, one or two requests at a time and   *)
(* the mixes of calls in Mixes.                                            *)
(***************************************************************************)
EXTENDS Consent, TLC

CONSTANTS e1, e2, t1

Groups == {"bindings", "migrations", "registers", "catalogue", "documents",
           "consent", "checks"}

Mix(some) == [g \in Groups |-> IF g \in DOMAIN some THEN some[g] ELSE 0]

Mixes == {Mix([consent |-> 3, checks |-> 1]),
          Mix([documents |-> 2, consent |-> 1, checks |-> 1]),
          Mix([catalogue |-> 1, documents |-> 1, consent |-> 1]),
          Mix([catalogue |-> 2, checks |-> 1]),
          Mix([bindings |-> 1, consent |-> 1, checks |-> 1]),
          Mix([bindings |-> 2]),
          Mix([migrations |-> 4]),
          Mix([registers |-> 2])}

\* The seeded version is in force; a second one of the document was
\* drafted and classified.
Draft == [document |-> 1, classification |-> "NOTICE_REQUIRED", effective |-> Open,
          published |-> Open, content |-> "other"]

\* Both entities are registered, or one where the registers are written.
MCInit ==
  \E seeded \in {{e1}, Entity} :
    /\ ConsentInit(t1, seeded, "j1", <<Draft>>)
    /\ (seeded = Entity) = (left["registers"] = 0)

MCSpec == MCInit /\ [][Next]_vars


RequestSymmetry == Permutations(Requests)
=============================================================================
