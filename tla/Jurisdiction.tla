---------------------------- MODULE Jurisdiction ----------------------------
(***************************************************************************)
(* Jurisdictions of one user and of the tenant (src/modules/jurisdiction)  *)
(* and the ledger that says which pack version is operative in one         *)
(* environment, up to the answer the API composes from both: the ceiling   *)
(* of a subject.                                                           *)
(*                                                                         *)
(* An assignment is forward-binding.  endOpen is one transaction of two    *)
(* statements at READ COMMITTED: the open rows are selected in one step    *)
(* and ended in the next, where the guard of migrations 0072 and 0073      *)
(* refuses a row that another request ended in between; the successor is   *)
(* a transaction of its own.  The ledger is appended to and never edited,  *)
(* and holds one event per instant.  Ids are places in the tables, which   *)
(* grow in the order of the commits.                                       *)
(***************************************************************************)
EXTENDS Requests, PolicyPack

CONSTANTS
  Register,      \* code -> the jurisdiction's row: status, from, to
  Packs,         \* the pack versions of this build, in its order
  Disclosing,    \* ids of the disclosure-bearing capabilities
  Environment,   \* the environment of the deployment
  AssignmentInputs   \* what operators assign: code, source, verified, from

AssignmentSource ==
  {"USER_DECLARED", "PROVIDER_VERIFIED", "OPERATOR_ASSIGNED", "CONTRACT_DERIVED"}
VerificationStatus == {"UNVERIFIED", "VERIFIED"}
ActivationAction == {"ACTIVATED", "RETIRED"}
Subject == {"user", "tenant"}

ASSUME JurisdictionAssumption ==
  /\ Packs \in Seq({Packs[i] : i \in DOMAIN Packs})
  /\ AssignmentInputs \subseteq [code : DOMAIN Register, source : AssignmentSource,
                                 verified : VerificationStatus, from : Nat]

-----------------------------------------------------------------------------
\* Rows

UserAssignmentRow ==
  [jurisdiction : DOMAIN Register, source : AssignmentSource,
   verified : VerificationStatus, from : Nat, to : Nat \cup {Open}]

\* The tenant's rows have the same columns, without the user.
TenantAssignmentRow == UserAssignmentRow

ActivationRow ==
  [jurisdiction : DOMAIN Register, pack : {Packs[i].version : i \in DOMAIN Packs},
   action : ActivationAction, at : Nat]

SeededAssignment(jurisdiction) ==
  [jurisdiction |-> jurisdiction, source |-> "OPERATOR_ASSIGNED", verified |-> "VERIFIED",
   from |-> 0, to |-> Open]

SeededActivation(jurisdiction, pack) ==
  [jurisdiction |-> jurisdiction, pack |-> pack, action |-> "ACTIVATED", at |-> 0]

-----------------------------------------------------------------------------
\* The domain: assignments

VerificationPermittedForSource(source, verified) ==
  /\ source = "USER_DECLARED" => verified = "UNVERIFIED"
  /\ source = "PROVIDER_VERIFIED" => verified = "VERIFIED"

AssignmentActiveAt(row, at) == row.from <= at /\ (row.to = Open \/ row.to > at)

\* pickEffectiveAssignment: of the rows that cover the instant the latest
\* start; the store lists equal starts in any order, so any of them.
PickEffectiveAssignment(rows, at) ==
  LET covering == {i \in Ids(rows) : AssignmentActiveAt(rows[i], at)}
  IN {i \in covering : \A j \in covering : rows[j].from <= rows[i].from}

\* effectiveJurisdictionState: the states the rows may resolve to.
EffectiveJurisdictionStates(rows, at) ==
  LET picked == PickEffectiveAssignment(rows, at)
  IN IF picked = {}
       THEN {[kind |-> "NONE", code |-> "null"]}
       ELSE {[kind |-> rows[i].verified, code |-> rows[i].jurisdiction] : i \in picked}

\* MUTANT of AssignmentMayEnd: the guard lets an ended row be ended again.
EndedMayEndAgain(row, at) == at > row.from

\* The guard on assignments: an open row may be ended, after it started.
AssignmentMayEnd(row, at) == row.to = Open /\ at > row.from

-----------------------------------------------------------------------------
\* The domain: the register

DeclarableAt(code, at) ==
  LET record == Register[code]
  IN /\ record.status # "RETIRED"
     /\ record.from = Open \/ record.from <= at
     /\ record.to = Open \/ at < record.to

-----------------------------------------------------------------------------
\* The domain: the ledger

Ledger(events, jurisdiction) == {i \in Ids(events) : events[i].jurisdiction = jurisdiction}

\* MUTANT of DeriveActivePack: a retirement is not looked at.
LatestActivated(events, jurisdiction) ==
  LET mine == {i \in Ledger(events, jurisdiction) : events[i].action = "ACTIVATED"}
  IN IF mine = {} THEN NoVersion
     ELSE events[CHOOSE i \in mine : \A j \in mine : events[j].at <= events[i].at].pack

\* deriveActivePack: the pack of the latest event, when that activated it.
DeriveActivePack(events, jurisdiction) ==
  LET mine == Ledger(events, jurisdiction)
      latest == CHOOSE i \in mine : \A j \in mine : events[j].at <= events[i].at
  IN IF mine = {} \/ events[latest].action # "ACTIVATED" THEN NoVersion
     ELSE events[latest].pack

\* The ledger holds one event per jurisdiction, environment and instant.
InstantFree(events, jurisdiction, at) ==
  \A i \in Ledger(events, jurisdiction) : events[i].at # at

-----------------------------------------------------------------------------
\* endOpen and insert

FindOpenAssignments(subject) ==
  {i \in Ids(db.assigned[subject]) : db.assigned[subject][i].to = Open}

EndAssignments(rows, ids, at) ==
  [i \in Ids(rows) |-> IF i \in ids THEN [rows[i] EXCEPT !.to = at] ELSE rows[i]]

\* endOpen selects the open rows; with none there is no UPDATE.
SelectOpen(q) ==
  LET in == req[q].in
      open == FindOpenAssignments(in.subject)
  IN /\ At(q, "assignment.select")
     /\ Reads(q, IF open # {} THEN "assignment.end" ELSE in.then, open)

\* endOpen ends them all, or the guard refuses and it ends none.
EndOpen(q) ==
  LET in == req[q].in
  IN /\ At(q, "assignment.end")
     /\ \A i \in req[q].read : AssignmentMayEnd(db.assigned[in.subject][i], in.at)
     /\ Writes(q, [db EXCEPT !.assigned[in.subject] = EndAssignments(@, req[q].read, in.at)],
               in.then, req[q].read)

InsertAssignment(q) ==
  LET in == req[q].in
  IN /\ At(q, "assignment.insert")
     /\ Room(db.assigned[in.subject])
     /\ WritesAudited(q, [db EXCEPT !.assigned[in.subject] = Append(@, in.row)],
                      [action |-> in.action, ended |-> req[q].read, row |-> in.row])

\* An end that found nothing answers NOT_FOUND, without an audit event.
EndedAssignments(q) ==
  /\ At(q, "assignment.ended")
  /\ IF req[q].read = {}
       THEN Ends(q)
       ELSE Reads(q, "audit", [action |-> req[q].in.action, ended |-> req[q].read,
                               at |-> req[q].in.at])

-----------------------------------------------------------------------------
\* AssignUserJurisdiction, AssignTenantJurisdiction and their ends

BeginAssign(q, subject, code, source, verified, from) ==
  /\ VerificationPermittedForSource(source, verified)
  /\ Begins(q, "assignments", "assignment.select",
            [subject |-> subject, at |-> from, then |-> "assignment.insert",
             action |-> "jurisdiction." \o subject \o "_assignment.recorded",
             row |-> [jurisdiction |-> code, source |-> source, verified |-> verified,
                      from |-> from, to |-> Open]], {})

BeginEnd(q, subject, at) ==
  Begins(q, "assignments", "assignment.select",
         [subject |-> subject, at |-> at, then |-> "assignment.ended",
          action |-> "jurisdiction." \o subject \o "_assignment.ended"], {})

BeginAssignUser(q, code, source, verified, from) ==
  BeginAssign(q, "user", code, source, verified, from)

BeginAssignTenant(q, code, source, verified, from) ==
  BeginAssign(q, "tenant", code, source, verified, from)

BeginEndUser(q, at) == BeginEnd(q, "user", at)

BeginEndTenant(q, at) == BeginEnd(q, "tenant", at)

-----------------------------------------------------------------------------
\* DeclareOwnJurisdiction

\* Any code may be declared; one that is not registered, or not declarable
\* now, is refused.  The declaration reads the subject's rows and goes on
\* unless a verified assignment is in effect or the same jurisdiction is.
BeginDeclare(q, code) ==
  \E state \in EffectiveJurisdictionStates(db.assigned["user"], now) :
    /\ DeclarableAt(code, now)
    /\ state.kind # "VERIFIED"
    /\ ~(state.kind = "UNVERIFIED" /\ state.code = code)
    /\ Begins(q, "declarations", "assignment.select",
              [subject |-> "user", at |-> now, then |-> "assignment.insert",
               action |-> "jurisdiction.user_assignment.self_declared",
               row |-> [jurisdiction |-> code, source |-> "USER_DECLARED",
                        verified |-> "UNVERIFIED", from |-> now, to |-> Open]], {})

-----------------------------------------------------------------------------
\* ActivatePackVersion, RetirePackVersion

\* Both decide on the ledger they read and append with the time they began.
BeginActivate(q, p) ==
  /\ ValidatePack(p, Disclosing) = {}
  /\ CanActivate(p, Environment)
  /\ p.jurisdiction \in DOMAIN Register
  /\ DeriveActivePack(db.ledger, p.jurisdiction) # p.version
  /\ Begins(q, "packs", "ledger.append",
            [jurisdiction |-> p.jurisdiction, pack |-> p.version, action |-> "ACTIVATED",
             at |-> now], <<>>)

BeginRetire(q, p) ==
  /\ p.jurisdiction \in DOMAIN Register
  /\ DeriveActivePack(db.ledger, p.jurisdiction) = p.version
  /\ Begins(q, "packs", "ledger.append",
            [jurisdiction |-> p.jurisdiction, pack |-> p.version, action |-> "RETIRED",
             at |-> now], <<>>)

AppendActivation(q) ==
  LET in == req[q].in
  IN /\ At(q, "ledger.append")
     /\ Room(db.ledger)
     /\ InstantFree(db.ledger, in.jurisdiction, in.at)
     /\ WritesAudited(q, [db EXCEPT !.ledger = Append(@, in)],
                      [action |-> "jurisdiction.pack." \o in.action, event |-> in])

-----------------------------------------------------------------------------
\* What the API composes: the ceiling of the subject, and the pin of a consent

\* effectivePolicyFor reads the assignment, then the ledger.  in.began says
\* how much of the ledger was committed when the question was asked.
BeginCeiling(q) ==
  \E state \in EffectiveJurisdictionStates(db.assigned["user"], now) :
    Begins(q, "ceilings", "ceiling.pack", [began |-> Len(db.ledger)], state)

CeilingOf(state, active) ==
  LET resolved == ResolveVersion(Packs, state.code, active, NoSettings, Environment, Disclosing)
  IN IF state.kind = "NONE" THEN [kind |-> "NO_ASSIGNMENT"]
     ELSE IF state.kind = "UNVERIFIED"
     THEN [kind |-> "UNVERIFIED_ASSIGNMENT", scope |-> state.code]
     ELSE IF active = NoVersion \/ ~resolved.ok
     THEN [kind |-> "PACK_NOT_APPROVED", scope |-> state.code, pack |-> active]
     ELSE IF resolved.ceiling # {} THEN [kind |-> "UNRESOLVABLE"]
     ELSE [kind |-> "RESOLVED", scope |-> state.code, pack |-> active]

AnswerCeiling(q) ==
  /\ At(q, "ceiling.pack")
  /\ Reads(q, "ceiling.answered",
           CeilingOf(req[q].read, DeriveActivePack(db.ledger, req[q].read.code)))

\* resolvePin: any assignment in effect, and the pack that is active for it.
BeginPin(q) ==
  \E state \in EffectiveJurisdictionStates(db.assigned["user"], now) :
    Begins(q, "ceilings", "pin.pack", [began |-> Len(db.ledger)], state)

AnswerPin(q) ==
  /\ At(q, "pin.pack")
  /\ Reads(q, "pin.answered",
           LET active == DeriveActivePack(db.ledger, req[q].read.code)
           IN [kind |-> IF active = NoVersion THEN "NO_PIN" ELSE "PINNED",
               scope |-> req[q].read.code, pack |-> active])

ReturnCeiling(q) == (At(q, "ceiling.answered") \/ At(q, "pin.answered")) /\ Ends(q)

-----------------------------------------------------------------------------
JurisdictionNext ==
  \E q \in Requests :
    \/ /\ May("assignments")
       /\ \/ \E c \in AssignmentInputs :
               \/ BeginAssignUser(q, c.code, c.source, c.verified, c.from)
               \/ BeginAssignTenant(q, c.code, c.source, c.verified, c.from)
          \/ \E at \in 0 .. MaxNow : BeginEndUser(q, at) \/ BeginEndTenant(q, at)
    \/ May("declarations") /\ \E code \in DOMAIN Register : BeginDeclare(q, code)
    \/ SelectOpen(q) \/ EndOpen(q) \/ InsertAssignment(q) \/ EndedAssignments(q)
    \/ /\ May("packs")
       /\ \E i \in DOMAIN Packs : BeginActivate(q, Packs[i]) \/ BeginRetire(q, Packs[i])
    \/ AppendActivation(q)
    \/ May("ceilings") /\ (BeginCeiling(q) \/ BeginPin(q))
    \/ AnswerCeiling(q) \/ AnswerPin(q) \/ ReturnCeiling(q)

-----------------------------------------------------------------------------
\* Properties

\* The ledger had nothing later than the activation of the pack, in the
\* first n events.
StoodAfter(jurisdiction, pack, n) ==
  \E i \in Ledger(db.ledger, jurisdiction) :
    /\ db.ledger[i].pack = pack
    /\ db.ledger[i].action = "ACTIVATED"
    /\ \A j \in Ledger(db.ledger, jurisdiction) :
         j <= n => db.ledger[j].at <= db.ledger[i].at

\* A pack that is handed out as the ceiling of a subject, or as the pin of a
\* consent, was activated, and no event that was committed when the question
\* was asked is later than that activation, whatever is appended meanwhile; a
\* ceiling also rests on a verified assignment to that jurisdiction and on a
\* valid pack that may govern in this environment (jurisdiction-ceiling-source.ts,
\* consent-pin-source.ts).
CeilingStands ==
  \A q \in Requests :
    /\ (At(q, "ceiling.answered") \/ At(q, "pin.answered"))
         /\ req[q].read.kind \in {"RESOLVED", "PINNED"}
       => StoodAfter(req[q].read.scope, req[q].read.pack, req[q].in.began)
    /\ At(q, "ceiling.answered") /\ req[q].read.kind = "RESOLVED"
       => /\ \E i \in Ids(db.assigned["user"]) :
                  /\ db.assigned["user"][i].jurisdiction = req[q].read.scope
                  /\ db.assigned["user"][i].verified = "VERIFIED"
          /\ \E i \in DOMAIN Packs :
               /\ Packs[i].version = req[q].read.pack
               /\ Packs[i].jurisdiction = req[q].read.scope
               /\ CanResolveExplicitVersion(Packs[i], Environment)
               /\ ValidatePack(Packs[i], Disclosing) = {}

\* Assignments bind forward: a row keeps its window, its jurisdiction and its
\* verification once it ended, and an event of the ledger is never edited,
\* whatever interleaving of endings, successors and declarations follows
\* (prisma-assignment-repositories.ts, pack-activation.ts).
WindowsAreHistory ==
  [][/\ \A s \in Subject : \A i \in Ids(db.assigned[s]) :
          /\ i \in Ids(db'.assigned[s])
          /\ db.assigned[s][i].to # Open => db'.assigned[s][i] = db.assigned[s][i]
          /\ [db'.assigned[s][i] EXCEPT !.to = Open] = [db.assigned[s][i] EXCEPT !.to = Open]
     /\ \A i \in Ids(db.ledger) : i \in Ids(db'.ledger) /\ db'.ledger[i] = db.ledger[i]]_vars
=============================================================================
