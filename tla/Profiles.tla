------------------------------- MODULE Profiles -------------------------------
(***************************************************************************)
(* The users module: the profile of an account in its tenant, and the      *)
(* request to disable the account.  The status is read, then moved by an   *)
(* update conditional on what was read, with a row of history in the same  *)
(* transaction.  Fields a subject edits (name, locale) are one value here. *)
(***************************************************************************)
EXTENDS Bindings

StatusTransitions ==
  [ACTIVE |-> {"DISABLE_REQUESTED", "DELETION_REQUESTED"},
   DISABLE_REQUESTED |-> {"DISABLED", "ACTIVE"},
   DISABLED |-> {},
   DELETION_REQUESTED |-> {}]

BeginDisableRequest(q, user) ==
  LET status == db.profiles[user].status
  IN /\ "DISABLE_REQUESTED" \in StatusTransitions[status]
     /\ Begins(q, "profiles", "transition", [by |-> user], status)

\* MUTANT of MayTransition: the update is not conditional on the status read.
MayAlwaysTransition(user, from) == TRUE

MayTransition(user, from) == db.profiles[user].status = from

\* transitionOwnStatus: the update and its history, or nothing.
Moved(user, from, to) ==
  [db EXCEPT !.profiles[user].status = to,
             !.history = Append(@, [user |-> user, from |-> from, to |-> to])]

TransitionOwnStatus(q) ==
  LET user == req[q].in.by
      from == req[q].read
      to == "DISABLE_REQUESTED"
  IN /\ At(q, "transition")
     /\ IF MayTransition(user, from)
        THEN WritesAudited(q, Moved(user, from, to),
                           Success(user, "users.account.disable_requested",
                                                   [status |-> from]))
        ELSE Ends(q)

\* updateOwnFields: one statement that leaves the status alone.
UpdateOwnFields(q, user, fields) ==
  /\ At(q, "idle")
  /\ left["profiles"] > 0
  /\ left' = [left EXCEPT !["profiles"] = @ - 1]
  /\ db' = [db EXCEPT !.profiles[user].fields = fields]
  /\ UNCHANGED <<req, now>>

\* What a later phase does with a request goes through the same transitions.
StatusActedOn(user, to) ==
  /\ to \in StatusTransitions[db.profiles[user].status] \ {"DISABLE_REQUESTED"}
  /\ left["outcomes"] > 0
  /\ left' = [left EXCEPT !["outcomes"] = @ - 1]
  /\ db' = Moved(user, db.profiles[user].status, to)
  /\ UNCHANGED <<now, req>>

-----------------------------------------------------------------------------
\* Properties

\* The status the first n rows of the history leave an account in.
StatusAfter(user, n) ==
  LET mine == {i \in 1 .. n : db.history[i].user = user}
  IN IF mine = {} THEN "ACTIVE" ELSE db.history[Max(mine)].to

\* The history of an account is a chain of legal transitions from ACTIVE to
\* the status it has, however requests and what acts on them overlap: each
\* row was the transition that happened (request-account-disable.ts).
StatusIsHistory ==
  /\ \A i \in Ids(db.history) :
       LET row == db.history[i]
       IN row.from = StatusAfter(row.user, i - 1) /\ row.to \in StatusTransitions[row.from]
  /\ \A u \in DOMAIN db.profiles : db.profiles[u].status = StatusAfter(u, Len(db.history))
=============================================================================
