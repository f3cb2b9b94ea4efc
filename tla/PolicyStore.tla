----------------------------- MODULE PolicyStore -----------------------------
(***************************************************************************)
(* The policy components over one database: jurisdictions and the ledger   *)
(* of packs, elections, kill switches, and the exposure of capabilities.   *)
(* Elections read the ledger; the other tables are each its component's.   *)
(***************************************************************************)
EXTENDS SubjectPolicy, Capability, KillSwitches

\* What operators wrote before: rows of the first version that no descriptor
\* forbids, and one entitlement per capability.
ExposedRow ==
  {row \in AvailabilityRow :
     row.version = 1 /\ MaySet(row.capability, row.environment, row.scope, row.state)}

Granted(rows) ==
  \A i, j \in DOMAIN rows :
    rows[i].version = 1 /\ (rows[i].capability = rows[j].capability => i = j)

\* The triggers recorded the rows that are there.
HistoryOf(exposed, granted) ==
  [i \in DOMAIN exposed |-> Versioned("availability", i, exposed[i])]
    \o [i \in DOMAIN granted |-> Versioned("entitlement", i, granted[i])]

PolicyInit(jurisdiction, pack, exposed, granted) ==
  /\ db = [assigned |-> [s \in Subject |-> <<SeededAssignment(jurisdiction)>>],
           ledger |-> <<SeededActivation(jurisdiction, pack)>>,
           selections |-> <<>>,
           switches |-> [id \in KillSwitchId |-> SeededSwitch],
           switchHistory |-> <<>>,
           availability |-> exposed, entitlements |-> granted,
           history |-> HistoryOf(exposed, granted),
           trail |-> {}]
  /\ now \in 0 .. MaxNow
  /\ req = [q \in Requests |-> Idle]
  /\ left \in Budgets

Init ==
  \E jurisdiction \in DOMAIN Register, i \in DOMAIN Packs,
     exposed \in Seq(ExposedRow), granted \in Seq(EntitlementRow) :
    Granted(granted) /\ PolicyInit(jurisdiction, Packs[i].version, exposed, granted)

Next ==
  \/ JurisdictionNext
  \/ SubjectPolicyNext
  \/ KillSwitchesNext
  \/ CapabilityNext
  \/ \E q \in Requests : AppendAudit(q) \/ Abandon(q)
  \/ Tick

Spec == Init /\ [][Next]_vars

-----------------------------------------------------------------------------
\* Every row is a row of its table, no environment has two events of the
\* ledger at one instant and no tenant two entitlements to one capability:
\* what the columns, checks and unique constraints of the four schemas promise.
PolicyTypeOK ==
  /\ \A s \in Subject : db.assigned[s] \in Seq(UserAssignmentRow)
  /\ \A s \in Subject : \A i \in Ids(db.assigned[s]) :
       LET row == db.assigned[s][i]
       IN VerificationPermittedForSource(row.source, row.verified)
          /\ (row.to # Open => row.to > row.from)
  /\ db.ledger \in Seq(ActivationRow)
  /\ \A i, j \in Ids(db.ledger) :
       db.ledger[i].jurisdiction = db.ledger[j].jurisdiction /\ db.ledger[i].at = db.ledger[j].at
         => i = j
  /\ db.selections \in Seq(SelectionRow)
  /\ \A i \in Ids(db.selections) :
       (db.selections[i].status = "WITHDRAWN") = (db.selections[i].withdrawn # Open)
  /\ db.switches \in [KillSwitchId -> SwitchRow]
  /\ db.availability \in Seq(AvailabilityRow)
  /\ db.entitlements \in Seq(EntitlementRow)
  /\ \A i, j \in Ids(db.entitlements) :
       db.entitlements[i].capability = db.entitlements[j].capability => i = j
=============================================================================
