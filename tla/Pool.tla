-------------------------------- MODULE Pool --------------------------------
(***************************************************************************)
(* The persistence adapter's pool and the principal context                *)
(* (src/packages/platform/src/db/adapter.ts, principal-context.ts).        *)
(* Callers share a few sessions of PostgreSQL; the row-level policies      *)
(* decide by the settings of the session a statement runs in, so what has  *)
(* to be right is which settings that session holds at that moment.        *)
(*                                                                         *)
(* A call runs statements as a principal (withPrincipalContext), in a      *)
(* plain transaction (withTransaction) or on its own (query).  saw is      *)
(* history: the settings its last statement ran under.                     *)
(***************************************************************************)
EXTENDS Integers, FiniteSets

CONSTANTS
  Sessions,     \* the most sessions the pool opens
  Calls,        \* calls in flight
  Contexts,     \* principals a caller hands in: functions from ContextKeys
  Requirements  \* the keys a call site may require

VARIABLES
  session,   \* per session: who has it, its transaction and its settings
  call,      \* per call: its step, its session, its principal
  open       \* the adapter has not been shut down

poolVars == <<session, call, open>>

NoSession == "none"

ContextKeys == {"tenantId", "userId", "sessionId", "requestId"}

ASSUME PoolAssumption == NoSession \notin Sessions

\* Nothing bound: NULLIF(current_setting(name, true), '') is NULL.
Unbound == [k \in ContextKeys |-> "empty"]

Fresh == [state |-> "none", tx |-> "none", local |-> Unbound, lasting |-> Unbound]

IdleCall == [at |-> "idle", kind |-> "query", on |-> NoSession, bind |-> Unbound, saw |-> Unbound,
             ran |-> FALSE]

-----------------------------------------------------------------------------
(* The principal *)

\* validateContext: what a call site requires is there, and nothing that is
\* there is malformed; an empty tenant or user is not an identifier.
Missing(context, required) == {k \in required : context[k] \in {"absent", "empty"}}

Invalid(context) ==
  {k \in ContextKeys : \/ context[k] = "malformed"
                       \/ context[k] = "empty" /\ k \in {"tenantId", "userId"}}

Validates(context, required) == Missing(context, required) = {} /\ Invalid(context) = {}

\* All four keys are bound, an absent one with the empty string.
BoundValues(context) ==
  [k \in ContextKeys |-> IF context[k] = "absent" THEN "empty" ELSE context[k]]

\* Mutant: the settings outlive the transaction.
SetForSession(s, values) == [session EXCEPT ![s].local = values, ![s].lasting = values]

\* set_config(name, value, is_local => true)
SetLocal(s, values) == [session EXCEPT ![s].local = values]

\* What current_setting returns in this session.
Effective(s) == IF session[s].tx = "none" THEN session[s].lasting ELSE session[s].local

-----------------------------------------------------------------------------
(* A call *)

CallAt(c, at) == call[c].at = at
Steps(c, at)  == call' = [call EXCEPT ![c].at = at]

\* Fails closed before a connection is checked out.
AsPrincipal(c, context, required) ==
  /\ CallAt(c, "idle")
  /\ open
  /\ Validates(context, required)
  /\ call' = [call EXCEPT ![c] = [IdleCall EXCEPT !.at = "connect", !.kind = "principal",
                                                  !.bind = BoundValues(context)]]
  /\ UNCHANGED <<session, open>>

Plain(c, kind) ==
  /\ CallAt(c, "idle")
  /\ open
  /\ call' = [call EXCEPT ![c] = [IdleCall EXCEPT !.at = "connect", !.kind = kind]]
  /\ UNCHANGED <<session, open>>

\* An idle session, or a new one while there is room; otherwise the call waits.
Connect(c, s) ==
  /\ CallAt(c, "connect")
  /\ open
  /\ session[s].state \in {"none", "idle"}
  /\ session' = [session EXCEPT ![s].state = "out"]
  /\ call' = [call EXCEPT ![c].at = IF call[c].kind = "query" THEN "statement" ELSE "begin",
                          ![c].on = s]
  /\ UNCHANGED open

Alive(s) == session[s].state = "out"

\* SET LOCAL starts from what the session holds.
BeginTransaction(c) ==
  /\ CallAt(c, "begin") /\ Alive(call[c].on)
  /\ session' = [session EXCEPT ![call[c].on].tx = "open", ![call[c].on].local = session[call[c].on].lasting]
  /\ Steps(c, IF call[c].kind = "principal" THEN "bind" ELSE "statement")
  /\ UNCHANGED open

BindPrincipal(c) ==
  /\ CallAt(c, "bind") /\ Alive(call[c].on)
  /\ session' = SetLocal(call[c].on, call[c].bind)
  /\ Steps(c, "statement")
  /\ UNCHANGED open

Statement(c) ==
  /\ CallAt(c, "statement") /\ Alive(call[c].on)
  /\ call' = [call EXCEPT ![c].saw = Effective(call[c].on), ![c].ran = TRUE,
                          ![c].at = IF call[c].kind = "query" THEN "release" ELSE @]
  /\ UNCHANGED <<session, open>>

\* The body is done, or its own code threw.
Finishes(c, how) ==
  /\ CallAt(c, "statement") /\ call[c].kind # "query"
  /\ Steps(c, how)
  /\ UNCHANGED <<session, open>>

\* A statement is refused: a transaction is rolled back, a single statement's
\* session is destroyed by the driver's pool.
StatementFails(c) ==
  /\ call[c].at \in {"begin", "bind", "statement", "commit"}
  /\ Steps(c, IF call[c].kind = "query" THEN "destroy" ELSE "rollback")
  /\ UNCHANGED <<session, open>>

\* COMMIT and ROLLBACK end the transaction and what was set locally in it.
EndTransaction(c) ==
  /\ call[c].at \in {"commit", "rollback"} /\ Alive(call[c].on)
  /\ session' = [session EXCEPT ![call[c].on].tx = "none", ![call[c].on].local = Unbound]
  /\ Steps(c, "release")
  /\ UNCHANGED open

\* A session that cannot roll back is destroyed, never handed out again.
RollbackFails(c) ==
  /\ CallAt(c, "rollback")
  /\ Steps(c, "destroy")
  /\ UNCHANGED <<session, open>>

\* The session goes back to the pool; a pool that is ending closes it.
Release(c) ==
  /\ call[c].at \in {"release", "destroy"}
  /\ session' = [session EXCEPT ![call[c].on] =
                   IF CallAt(c, "destroy") \/ ~open \/ ~Alive(call[c].on) THEN Fresh
                   ELSE [@ EXCEPT !.state = "idle"]]
  /\ call' = [call EXCEPT ![c] = IdleCall]
  /\ UNCHANGED open

\* end(): idle sessions are closed, and what waits for one is refused.
EndAdapter ==
  /\ open /\ open' = FALSE
  /\ session' = [s \in Sessions |-> IF session[s].state = "idle" THEN Fresh ELSE session[s]]
  /\ call' = [c \in Calls |-> IF CallAt(c, "connect") THEN IdleCall ELSE call[c]]

\* The next process composes an adapter of its own.
NewAdapter ==
  /\ ~open /\ open' = TRUE
  /\ \A c \in Calls : CallAt(c, "idle")
  /\ session' = [s \in Sessions |-> Fresh]
  /\ UNCHANGED call

\* The server drops a session: an idle one leaves the pool unnoticed, one in
\* use answers nothing any more.
Drops(s) ==
  /\ session[s].state \in {"idle", "out"}
  /\ session' = [session EXCEPT ![s] = IF @.state = "idle" THEN Fresh ELSE [@ EXCEPT !.state = "dead"]]
  /\ UNCHANGED <<call, open>>

-----------------------------------------------------------------------------
PoolInit ==
  /\ session = [s \in Sessions |-> Fresh]
  /\ call = [c \in Calls |-> IdleCall]
  /\ open = TRUE

PoolNext ==
  \/ \E c \in Calls :
       \/ \E context \in Contexts, required \in Requirements : AsPrincipal(c, context, required)
       \/ \E kind \in {"query", "transaction"} : Plain(c, kind)
       \/ \E s \in Sessions : Connect(c, s)
       \/ BeginTransaction(c)
       \/ BindPrincipal(c)
       \/ Statement(c)
       \/ \E how \in {"commit", "rollback"} : Finishes(c, how)
       \/ StatementFails(c)
       \/ EndTransaction(c)
       \/ RollbackFails(c)
       \/ Release(c)
  \/ EndAdapter
  \/ NewAdapter
  \/ \E s \in Sessions : Drops(s)

PoolSpec == PoolInit /\ [][PoolNext]_poolVars

-----------------------------------------------------------------------------
(* Properties *)

\* No caller's principal reaches another caller's statement: whatever the
\* pool did with the session before, a statement runs under exactly the
\* principal its own call was given, and under none in a call without one;
\* and no two calls are on one session.
PrincipalStaysHome ==
  /\ \A c \in Calls : call[c].ran => call[c].saw = call[c].bind
  /\ \A c, d \in Calls : (c # d /\ call[c].on # NoSession) => call[c].on # call[d].on
=============================================================================
