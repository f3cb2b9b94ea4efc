--------------------------- MODULE OutboxContract ---------------------------
(***************************************************************************)
(* What the outbox promises to a producer and to its consumers, without    *)
(* relays, claims, retries or time: a committed event is eventually        *)
(* settled once, as published (every consumer was reached) or as dead, and *)
(* a consumer's effect runs at most once.  Outbox implements it.           *)
(***************************************************************************)
EXTENDS Naturals

CONSTANTS Events, Consumers

VARIABLES
  fate,     \* what became of an event
  reached,  \* <<consumer, event>> pairs whose handler was called
  effects   \* committed runs of a consumer's effect

contractVars == <<fate, reached, effects>>

Init ==
  /\ fate = [e \in Events |-> "none"]
  /\ reached = {}
  /\ effects = [p \in Consumers \X Events |-> 0]

\* The producer's transaction ends: the event exists for good, or never did.
Decide(e) ==
  /\ fate[e] = "none"
  /\ \E d \in {"committed", "rolledback"} : fate' = [fate EXCEPT ![e] = d]
  /\ UNCHANGED <<reached, effects>>

\* A handler is called, perhaps again and perhaps after the event settled;
\* its effect runs only if it never ran.
Reach(c, e) ==
  /\ fate[e] \in {"committed", "published", "dead"}
  /\ reached' = reached \cup {<<c, e>>}
  /\ \/ effects[<<c, e>>] = 0 /\ effects' = [effects EXCEPT ![<<c, e>>] = 1]
     \/ UNCHANGED effects
  /\ UNCHANGED fate

Publish(e) ==
  /\ fate[e] = "committed"
  /\ \A c \in Consumers : <<c, e>> \in reached
  /\ fate' = [fate EXCEPT ![e] = "published"]
  /\ UNCHANGED <<reached, effects>>

DeadLetter(e) ==
  /\ fate[e] = "committed"
  /\ fate' = [fate EXCEPT ![e] = "dead"]
  /\ UNCHANGED <<reached, effects>>

Next ==
  \E e \in Events :
    \/ Decide(e) \/ Publish(e) \/ DeadLetter(e)
    \/ \E c \in Consumers : Reach(c, e)

Spec == Init /\ [][Next]_contractVars
=============================================================================
