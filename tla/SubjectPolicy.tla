---------------------------- MODULE SubjectPolicy ----------------------------
(***************************************************************************)
(* The elections of one subject among the options that the active policy   *)
(* pack permits (src/modules/subject-policy).                              *)
(*                                                                         *)
(* The option source is a port: no adapter of it exists, and its answer    *)
(* follows the ledger, which is all the module relies on.  It is asked     *)
(* twice, before the checks and again before the insert.  recordSelection  *)
(* is one transaction at READ COMMITTED: the active rows are selected in   *)
(* one step, superseded and followed by the new row in the next, where the *)
(* guard of migration 0083 refuses a row that is no longer active.         *)
(*                                                                         *)
(* The store has two ids for rows that began in the same millisecond and   *)
(* no order of ours: where the code breaks a tie by id, either may win.    *)
(***************************************************************************)
EXTENDS Jurisdiction

CONSTANTS
  Elective,      \* the capabilities a subject may elect options for
  OptionSets,    \* pack version -> the profiles it permits; not for every pack
  HomeScope      \* the jurisdiction the subject elects in

SelectionStatus == {"ACTIVE", "SUPERSEDED", "EXPIRED", "WITHDRAWN"}

Profiles == UNION {OptionSets[p] : p \in DOMAIN OptionSets}

SelectionRow ==
  [capability : Elective, profile : Profiles, pack : DOMAIN OptionSets,
   from : Nat, to : Nat \cup {Open}, status : SelectionStatus,
   withdrawn : Nat \cup {Open}]

-----------------------------------------------------------------------------
\* The domain

WasWithdrawnBy(row, at) == row.withdrawn # Open /\ row.withdrawn <= at

WindowCovers(row, at) == row.from <= at /\ (row.to = Open \/ at < row.to)

\* MUTANT of Candidates: rows that were superseded are not looked at.
ActiveCandidates(rows, capability, at) ==
  {i \in Ids(rows) : /\ rows[i].capability = capability
                     /\ WindowCovers(rows[i], at)
                     /\ rows[i].status = "ACTIVE"}

\* The rows that bear on an instant, whatever became of them later.
Candidates(rows, capability, at) ==
  {i \in Ids(rows) : /\ rows[i].capability = capability
                     /\ WindowCovers(rows[i], at)
                     /\ ~WasWithdrawnBy(rows[i], at)}

\* The rows whose window had closed by the instant.
RanOut(rows, capability, at) ==
  {i \in Ids(rows) : /\ rows[i].capability = capability
                     /\ rows[i].to # Open
                     /\ rows[i].from <= at /\ rows[i].to <= at
                     /\ ~WasWithdrawnBy(rows[i], at)}

\* resolveSelectionAt: the answers it may give for one capability.
ResolveSelectionAt(rows, capability, at) ==
  LET candidates == Candidates(rows, capability, at)
      expired == RanOut(rows, capability, at)
  IN IF candidates # {}
       THEN {[kind |-> "EFFECTIVE", id |-> i] :
               i \in {c \in candidates : \A d \in candidates : rows[d].from <= rows[c].from}}
     ELSE IF expired # {}
       THEN {[kind |-> "EXPIRED", id |-> i] :
               i \in {e \in expired : \A f \in expired : rows[f].to <= rows[e].to}}
       ELSE {[kind |-> "NONE", id |-> 0]}

\* GetSelectionVersionForResolution: the versions a past instant is replayed with.
SelectionVersions(rows, capability, at) ==
  {IF r.kind = "EFFECTIVE"
     THEN [kind |-> "PINNED_VERSIONS", pack |-> rows[r.id].pack, profile |-> rows[r.id].profile]
     ELSE [kind |-> r.kind] : r \in ResolveSelectionAt(rows, capability, at)}

\* optionSetFor
OptionSetFor ==
  LET pack == DeriveActivePack(db.ledger, HomeScope)
  IN IF pack = NoVersion THEN [kind |-> "UNRESOLVED"]
     ELSE IF pack \notin DOMAIN OptionSets THEN [kind |-> "NO_SUBJECT_POLICY"]
     ELSE [kind |-> "DECLARED", pack |-> pack, permitted |-> OptionSets[pack]]

OptionPermitted(set, profile) == profile \in set.permitted

\* subject_policy_selections_guard
SelectionMayBecome(status, to) ==
  status = "ACTIVE" /\ to \in {"SUPERSEDED", "EXPIRED", "WITHDRAWN"}

-----------------------------------------------------------------------------
\* RecordSubjectPolicySelection

\* The election names the pack it was made under.
BeginElection(q, capability, profile, expected, to) ==
  LET set == OptionSetFor
  IN /\ to = Open \/ to > now
     /\ set.kind = "DECLARED"
     /\ set.pack = expected
     /\ OptionPermitted(set, profile)
     /\ Begins(q, "selections", "selection.recheck",
               [row |-> [capability |-> capability, profile |-> profile, pack |-> expected,
                         from |-> now, to |-> to, status |-> "ACTIVE",
                         withdrawn |-> Open]], {})

\* The pack is read again right before the insert.
RecheckOptions(q) ==
  LET set == OptionSetFor
  IN /\ At(q, "selection.recheck")
     /\ set.kind = "DECLARED"
     /\ set.pack = req[q].in.row.pack
     /\ Reads(q, "selection.prior", {})

PriorActiveSelections(capability) ==
  {i \in Ids(db.selections) : /\ db.selections[i].capability = capability
                              /\ db.selections[i].status = "ACTIVE"}

SelectPriorActive(q) ==
  /\ At(q, "selection.prior")
  /\ Reads(q, "selection.insert", PriorActiveSelections(req[q].in.row.capability))

Superseding(rows, ids) ==
  [i \in Ids(rows) |-> IF i \in ids THEN [rows[i] EXCEPT !.status = "SUPERSEDED"] ELSE rows[i]]

RecordSelection(q) ==
  LET row == req[q].in.row
      prior == req[q].read
  IN /\ At(q, "selection.insert")
     /\ Room(db.selections)
     /\ \A i \in prior : SelectionMayBecome(db.selections[i].status, "SUPERSEDED")
     /\ WritesAudited(q, [db EXCEPT !.selections = Append(Superseding(@, prior), row)],
                      [action |-> "subjectpolicy.selection.recorded",
                       id |-> Len(db.selections) + 1, superseded |-> prior])

-----------------------------------------------------------------------------
\* WithdrawOwnSelection

BeginWithdrawSelection(q, i) ==
  /\ db.selections[i].status = "ACTIVE"
  /\ Begins(q, "selections", "selection.withdraw", [id |-> i], {})

WithdrawSelection(q) ==
  LET i == req[q].in.id
  IN /\ At(q, "selection.withdraw")
     /\ SelectionMayBecome(db.selections[i].status, "WITHDRAWN")
     /\ req[q].now >= db.selections[i].from
     /\ WritesAudited(q, [db EXCEPT !.selections[i].status = "WITHDRAWN",
                                    !.selections[i].withdrawn = req[q].now],
                      [action |-> "subjectpolicy.selection.withdrawn", id |-> i])

-----------------------------------------------------------------------------
\* GetOwnSelection: the rows, then, when none is effective, the option set.

BeginGetOwn(q, capability, at) ==
  \E r \in ResolveSelectionAt(db.selections, capability, at) :
    Begins(q, "selections", "selection.view", [capability |-> capability, at |-> at], r)

GetOwnSelection(q) ==
  /\ At(q, "selection.view")
  /\ req[q].read.kind = "NONE" => OptionSetFor.kind # "UNRESOLVED"
  /\ Ends(q)

-----------------------------------------------------------------------------
SubjectPolicyNext ==
  \E q \in Requests :
    \/ /\ May("selections")
       /\ \/ \E c \in Elective, profile \in Profiles, p \in DOMAIN OptionSets,
               to \in {Open} \cup 0 .. MaxNow : BeginElection(q, c, profile, p, to)
          \/ \E i \in Ids(db.selections) : BeginWithdrawSelection(q, i)
          \/ \E c \in Elective, at \in 0 .. MaxNow : BeginGetOwn(q, c, at)
    \/ RecheckOptions(q) \/ SelectPriorActive(q) \/ RecordSelection(q)
    \/ WithdrawSelection(q) \/ GetOwnSelection(q)

-----------------------------------------------------------------------------
\* Properties

\* An instant is settled once it is past and every election or withdrawal
\* that is still on its way began after it.
Settled(at) ==
  /\ at < now
  /\ \A q \in Requests :
       req[q].at \in {"selection.recheck", "selection.prior", "selection.insert",
                      "selection.withdraw"} => req[q].now > at

\* Replaying a settled instant always gives the versions it gave before:
\* neither a later election nor its withdrawal reaches back, although both
\* change the rows that the replay reads (domain/selection.ts resolveSelectionAt).
ReplayIsStable ==
  [][\A c \in Elective, at \in 0 .. MaxNow :
       Settled(at) => SelectionVersions(db'.selections, c, at)
                        = SelectionVersions(db.selections, c, at)]_vars
=============================================================================
