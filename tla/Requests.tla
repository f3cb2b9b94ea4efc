------------------------------ MODULE Requests ------------------------------
(***************************************************************************)
(* Requests of the API process over one PostgreSQL database, statement by  *)
(* statement.  A use case awaits its statements one after the other; each  *)
(* is a transaction of its own (or says so in one step), and what a        *)
(* statement returned is kept in req[q] while other requests run.  The     *)
(* modules of the components extend this one and add their tables to db.   *)
(*                                                                         *)
(* left bounds the calls: it says how many of each group may still begin.  *)
(* A behaviour picks one of Budgets at the start, so that a run explores   *)
(* several mixes of calls without multiplying them all by each other.      *)
(*                                                                         *)
(* A call whose caller lacks the permission, or whose input is malformed,  *)
(* changes nothing and is a call that was not made; the component that     *)
(* decides on permissions is modelled on its own.                          *)
(***************************************************************************)
EXTENDS Integers, Sequences, FiniteSets

CONSTANTS
  Requests,   \* requests that may be in flight at a time
  MaxNow,     \* bound on the clock
  MaxRows,    \* bound on the rows of each table
  Budgets     \* mixes of calls: functions from groups of operations to Nat

ASSUME RequestsAssumption == MaxNow \in Nat /\ MaxRows \in Nat

Open == -1   \* a date that is null: effective_to, published_at, expires_at

VARIABLES
  db,     \* the tables: one field per table
  now,    \* the clock that new Date() and now() read
  req,    \* per request: its step, its input, its time and what it has read
  left    \* the calls of each group that may still begin

vars == <<db, now, req, left>>

Idle == [at |-> "idle", in |-> <<>>, now |-> 0, read |-> <<>>]

At(q, at) == req[q].at = at

\* The budget has a call of this group left.
May(group) == left[group] > 0

\* A call of the given group begins with what its first statement returned.
Begins(q, group, at, in, read) ==
  /\ At(q, "idle")
  /\ May(group)
  /\ left' = [left EXCEPT ![group] = @ - 1]
  /\ req' = [req EXCEPT ![q] = [at |-> at, in |-> in, now |-> now, read |-> read]]
  /\ UNCHANGED <<db, now>>

\* The next statement of a call returned a value and changed nothing.
Reads(q, at, value) ==
  /\ req' = [req EXCEPT ![q].at = at, ![q].read = value]
  /\ UNCHANGED <<db, now, left>>

\* A statement committed: the tables are as given and the call goes on.
Writes(q, tables, at, value) ==
  /\ db' = tables
  /\ req' = [req EXCEPT ![q].at = at, ![q].read = value]
  /\ UNCHANGED <<now, left>>

\* The last write of a call; what is left of it is its audit event.
WritesAudited(q, tables, entry) == Writes(q, tables, "audit", entry)

\* A call that ends without a further statement.
Ends(q) ==
  /\ req' = [req EXCEPT ![q] = Idle]
  /\ UNCHANGED <<db, now, left>>

-----------------------------------------------------------------------------
\* A table is a sequence: the id of a row is its place in it.

Ids(table) == DOMAIN table

Room(table) == Len(table) < MaxRows

-----------------------------------------------------------------------------
\* The audit trail

\* RecordAuditEvent and the append-only writer: one more row.
Recorded(entry) == [db EXCEPT !.trail = @ \cup {entry}]

\* The change is committed, then its audit event is appended.
AppendAudit(q) ==
  /\ At(q, "audit")
  /\ db' = Recorded(req[q].read)
  /\ req' = [req EXCEPT ![q] = Idle]
  /\ UNCHANGED <<now, left>>

-----------------------------------------------------------------------------
\* The environment

\* A call ends at any statement: refused by the store, disconnected, crashed,
\* or answered.
Abandon(q) == ~At(q, "idle") /\ Ends(q)

Tick ==
  /\ now < MaxNow
  /\ now' = now + 1
  /\ UNCHANGED <<db, req, left>>
=============================================================================
