---------------------------- MODULE PolicyProofs ----------------------------
(***************************************************************************)
(* Theorems of the policy components over their one database, for every    *)
(* number of requests, packs, switches, capabilities and rows: what a      *)
(* ceiling, a pin, a guarded call or a resolution answers rests on what    *)
(* was committed while it ran, histories lose nothing, and a settled       *)
(* instant replays as it did.                                              *)
(*                                                                         *)
(* Each invariant of a table, and each thing a request may be holding, is  *)
(* an operator of the tables it speaks of, so that a step has to be looked *)
(* at only for the tables it writes (Advances) and a request only for the  *)
(* step it takes (Sound).  Ledger and histories are only appended to,      *)
(* which is what keeps an answer true while other requests write.          *)
(***************************************************************************)
EXTENDS PolicyStore, FiniteSetTheorems, WellFoundedInduction, TLAPS

-----------------------------------------------------------------------------
(* The tables *)

\* The tables of the database.
Fields ==
  {"assigned", "ledger", "selections", "switches", "switchHistory", "availability",
   "entitlements", "history", "trail"}

\* Rows as the CHECKs and the guards leave them.
AssignmentKept ==
  {row \in UserAssignmentRow : /\ VerificationPermittedForSource(row.source, row.verified)
                               /\ row.to # Open => row.to > row.from}

ActivationKept == {event \in ActivationRow : event.at <= MaxNow}

SelectionKept ==
  {row \in SelectionRow : (row.status = "WITHDRAWN") = (row.withdrawn # Open)}

AvailabilityKept ==
  {row \in AvailabilityRow : MaySet(row.capability, row.environment, row.scope, row.state)}

\* An event of a history: the row it is of, as that version left it.
SwitchEvent == [id : KillSwitchId, row : SwitchRow]

HistoryEvent ==
  [table : {"availability"}, id : Nat, row : AvailabilityRow]
    \cup [table : {"entitlement"}, id : Nat, row : EntitlementRow]

\* The ledger holds one event per jurisdiction and instant.
LedgerInv(events) ==
  /\ events \in Seq(ActivationKept)
  /\ \A i, j \in Ids(events) :
       events[i].jurisdiction = events[j].jurisdiction /\ events[i].at = events[j].at => i = j

\* The last of some places.
Last(places) == CHOOSE i \in places : \A j \in places : j <= i

\* LastVersion, of any history: what the first n events left of a switch.
LastOf(history, id, n) ==
  LET mine == {i \in 1 .. n : history[i].id = id}
  IN IF mine = {} THEN SeededSwitch ELSE history[Last(mine)].row

\* A switch is the last version of it, and its versions count up.
SwitchesInv(switches, history) ==
  /\ switches \in [KillSwitchId -> SwitchRow]
  /\ history \in Seq(SwitchEvent)
  /\ \A i, j \in DOMAIN history :
       i < j /\ history[i].id = history[j].id => history[i].row.version < history[j].row.version
  /\ \A i \in DOMAIN history : history[i].row.version <= switches[history[i].id].version
  /\ \A id \in KillSwitchId : switches[id] = LastOf(history, id, Len(history))

\* LastWritten, of any history.
WrittenLast(history, table, id, n) ==
  LET mine == {i \in 1 .. n : history[i].table = table /\ history[i].id = id}
  IN IF mine = {} THEN {} ELSE {history[Last(mine)].row}

\* What a row of the availability table is about.
SameExposure(a, b) ==
  a.environment = b.environment /\ a.scope = b.scope /\ a.capability = b.capability

\* Two events of one row are in the order of its versions.
InOrder(history) ==
  \A i, j \in DOMAIN history :
    i < j /\ history[i].table = history[j].table /\ history[i].id = history[j].id
      => history[i].row.version < history[j].row.version

\* The history of a table is of its rows, and ends with the rows that are there.
Accounted(rows, history, table) ==
  /\ \A i \in DOMAIN history : history[i].table = table =>
       /\ history[i].id \in Ids(rows)
       /\ history[i].row.version <= rows[history[i].id].version
  /\ \A i \in Ids(rows) : WrittenLast(history, table, i, Len(history)) = {rows[i]}

\* Availability: rows the descriptors allow, and their history of the same exposure.
AvailabilityInv(rows, history) ==
  /\ rows \in Seq(AvailabilityKept)
  /\ Accounted(rows, history, "availability")
  /\ \A i \in DOMAIN history : history[i].table = "availability" =>
       SameExposure(history[i].row, rows[history[i].id])

\* Entitlements: one per capability, and their history.
EntitlementInv(rows, history) ==
  /\ rows \in Seq(EntitlementRow)
  /\ Accounted(rows, history, "entitlement")
  /\ \A i, j \in Ids(rows) : rows[i].capability = rows[j].capability => i = j

\* One history holds the versions of both.
HistoryInv(history) == history \in Seq(HistoryEvent) /\ InOrder(history)

\* What holds of the tables whenever a statement begins.
TablesInv ==
  /\ DOMAIN db = Fields
  /\ db.assigned \in [Subject -> Seq(AssignmentKept)]
  /\ LedgerInv(db.ledger)
  /\ db.selections \in Seq(SelectionKept)
  /\ SwitchesInv(db.switches, db.switchHistory)
  /\ AvailabilityInv(db.availability, db.history)
  /\ EntitlementInv(db.entitlements, db.history)
  /\ HistoryInv(db.history)

-----------------------------------------------------------------------------
(* What a request holds *)

\* An assignment that is on its way is one the table takes.
AssignmentSound(r) ==
  /\ r.at \in {"assignment.select", "assignment.end", "assignment.insert", "assignment.ended"} =>
       r.in.subject \in Subject /\ r.in.at \in Nat
  /\ r.at \in {"assignment.select", "assignment.end"} =>
       r.in.then \in {"assignment.insert", "assignment.ended"}
  /\ r.at \in {"assignment.select", "assignment.end"} /\ r.in.then = "assignment.insert" =>
       r.in.row \in AssignmentKept
  /\ r.at = "assignment.insert" => r.in.row \in AssignmentKept
  /\ r.at = "ledger.append" => r.in \in ActivationKept

\* A row of the subject says so.
VerifiedFor(rows, code) ==
  \E i \in Ids(rows) : rows[i].jurisdiction = code /\ rows[i].verified = "VERIFIED"

\* StoodAfter, of any ledger.
StoodIn(events, jurisdiction, pack, n) ==
  \E i \in Ledger(events, jurisdiction) :
    /\ events[i].pack = pack
    /\ events[i].action = "ACTIVATED"
    /\ \A j \in Ledger(events, jurisdiction) : j <= n => events[j].at <= events[i].at

\* The build has this pack, valid and allowed to govern here.
MayGovern(pack, jurisdiction) ==
  \E i \in DOMAIN Packs :
    /\ Packs[i].version = pack
    /\ Packs[i].jurisdiction = jurisdiction
    /\ CanResolveExplicitVersion(Packs[i], Environment)
    /\ ValidatePack(Packs[i], Disclosing) = {}

\* A question about the ceiling knows how much of the ledger there was, and
\* its answer stands.
CeilingSound(r, rows, events) ==
  /\ r.at \in {"ceiling.pack", "pin.pack", "ceiling.answered", "pin.answered"} =>
       r.in.began \in Nat /\ r.in.began <= Len(events)
  /\ r.at = "ceiling.pack" =>
       /\ r.read.kind \in {"NONE"} \cup VerificationStatus
       /\ r.read.kind = "VERIFIED" => VerifiedFor(rows, r.read.code)
  /\ r.at \in {"ceiling.answered", "pin.answered"} /\ r.read.kind \in {"RESOLVED", "PINNED"} =>
       StoodIn(events, r.read.scope, r.read.pack, r.in.began)
  /\ r.at = "ceiling.answered" /\ r.read.kind = "RESOLVED" =>
       VerifiedFor(rows, r.read.scope) /\ MayGovern(r.read.pack, r.read.scope)

\* An election is active, from the time its call began.
SelectionSound(r, rows) ==
  /\ r.at \in {"selection.recheck", "selection.prior", "selection.insert"} =>
       /\ r.in.row \in SelectionRow
       /\ r.in.row.status = "ACTIVE" /\ r.in.row.withdrawn = Open
       /\ r.in.row.from = r.now
  /\ r.at = "selection.withdraw" => r.in.id \in Ids(rows)

\* A guarded call has read a version that stood since it began.
SeenSince(history, id, seen, row) ==
  \E n \in seen .. Len(history) : LastOf(history, id, n) = row

SwitchSound(r, history) ==
  /\ r.at = "switch.operate" =>
       /\ r.in.id \in KillSwitchId /\ r.in.state \in SwitchState
       /\ r.in.expires \in Nat \cup {Open}
  /\ r.at \in {"switch.check", "admitted"} =>
       r.in.seen \in Nat /\ r.in.seen <= Len(history)
  /\ r.at = "switch.check" => SeenSince(history, r.in.id, r.in.seen, r.read)
  /\ r.at = "admitted" =>
       SeenSince(history, r.in.id, r.in.seen, r.read.row) /\ ~Restricted(r.read.row, r.read.at)

\* What operators write is a row of its table, for a row they have seen.
ExposureSound(r, exposed, granted) ==
  /\ r.at \in {"availability.insert", "availability.update"} =>
       /\ r.in.environment \in Environments /\ r.in.scope \in Scopes \cup {EveryScope}
       /\ r.in.capability \in Capabilities /\ r.in.state \in AvailabilityState
       /\ MaySet(r.in.capability, r.in.environment, r.in.scope, r.in.state)
  /\ r.at = "availability.update" =>
       r.read \in Ids(exposed) /\ SameExposure(r.in, exposed[r.read])
  /\ r.at \in {"entitlement.insert", "entitlement.update"} => r.in.row \in EntitlementRow
  /\ r.at = "entitlement.update" =>
       r.in.id \in Ids(granted) /\ granted[r.in.id].capability = r.in.row.capability

\* ReadSince, of any history.
WrittenSince(history, table, facts, began) ==
  \E n \in began .. Len(history) : facts.row \in WrittenLast(history, table, facts.id, n)

\* ScopedAtBegin, of any history.
ScopedThen(history, scope, capability, began) ==
  \E i \in 1 .. began :
    /\ history[i].table = "availability"
    /\ history[i].row.environment = HomeEnvironment
    /\ history[i].row.scope = scope
    /\ history[i].row.capability = capability

\* The facts of a capability's availability are of a row that decides.
ExposedSince(history, ceiling, capability, facts, began) ==
  \/ facts.kind = "NO_ROW"
  \/ /\ facts.kind = "ROW"
     /\ WrittenSince(history, "availability", facts, began)
     /\ facts.row.environment = HomeEnvironment
     /\ ceiling.kind = "RESOLVED" /\ ScopedThen(history, ceiling.scope, capability, began)
          => facts.row.scope = ceiling.scope

\* The facts of an entitlement are of a row that stood.
GrantedSince(history, facts, began) ==
  \/ facts.kind = "NONE"
  \/ facts.kind = "ROW" /\ WrittenSince(history, "entitlement", facts, began)

\* What AllowedByLedger says of one snapshot.
ClearedByLedger(history, s, began) ==
  /\ WrittenSince(history, "availability", s.availability, began)
  /\ WrittenSince(history, "entitlement", s.entitlement, began)
  /\ s.entitlement.row.status = "ACTIVE"
  /\ s.availability.row.state \in AllowingStates
  /\ ~CeilingBreach(s.capability, HomeEnvironment, s.ceiling.scope)
  /\ s.availability.row.environment = HomeEnvironment
  /\ ScopedThen(history, s.ceiling.scope, s.capability, began)
       => s.availability.row.scope = s.ceiling.scope

\* A resolution decides on facts that stood since it began.
ResolutionSound(r, history) ==
  /\ r.at \in {"resolve.availability", "resolve.entitlement", "resolve.gates", "resolved"} =>
       /\ r.in = [ids |-> r.in.ids, ceiling |-> r.in.ceiling, began |-> r.in.began]
       /\ r.in.ceiling \in PortCeilings
       /\ r.in.began \in Nat /\ r.in.began <= Len(history)
  /\ r.at = "resolve.entitlement" =>
       ExposedSince(history, r.in.ceiling, Head(r.in.ids), r.read, r.in.began)
  /\ r.at = "resolve.gates" =>
       /\ r.read.ceiling \in PortCeilings
       /\ ExposedSince(history, r.read.ceiling, r.read.capability, r.read.availability, r.in.began)
       /\ GrantedSince(history, r.read.entitlement, r.in.began)
  /\ r.at = "resolved" /\ r.read.resolution.outcome = "ALLOWED" =>
       ClearedByLedger(history, r.read.snapshot, r.in.began)

\* Whatever a request holds, by the statement it is at.
Sound(r) ==
  /\ r.now \in 0 .. MaxNow
  /\ AssignmentSound(r)
  /\ CeilingSound(r, db.assigned["user"], db.ledger)
  /\ SelectionSound(r, db.selections)
  /\ SwitchSound(r, db.switchHistory)
  /\ ExposureSound(r, db.availability, db.entitlements)
  /\ ResolutionSound(r, db.history)

\* A request, as one record.
Row(at, in, when, read) == [at |-> at, in |-> in, now |-> when, read |-> read]

\* Clock and requests are where the statements leave them.
RequestsShaped ==
  /\ now \in 0 .. MaxNow
  /\ DOMAIN req = Requests
  /\ \A q \in Requests : req[q] = Row(req[q].at, req[q].in, req[q].now, req[q].read)

\* The inductive invariant.
IInv ==
  /\ TablesInv
  /\ RequestsShaped
  /\ \A q \in Requests : Sound(req[q])

-----------------------------------------------------------------------------
(* What one step may do to the tables *)

\* Events were appended, and none was changed.
Extends(old, new) ==
  Len(old) <= Len(new) /\ \A i \in Ids(old) : i \in Ids(new) /\ new[i] = old[i]

\* An assignment is as it was, or was open and got an end.
OnlyEnded(row, new) ==
  new = row \/ (row.to = Open /\ new = [row EXCEPT !.to = new.to])

\* Assignments were added or ended.
AssignedKept(assigned, new) ==
  \A s \in Subject : \A i \in Ids(assigned[s]) :
    i \in Ids(new[s]) /\ OnlyEnded(assigned[s][i], new[s][i])

\* What an election was made of, and for how long.
SameElection(row, new) ==
  /\ new.capability = row.capability /\ new.profile = row.profile /\ new.pack = row.pack
  /\ new.from = row.from /\ new.to = row.to

\* Elections were made, or withdrawn, at the time given.
ElectedAt(rows, new, at) ==
  /\ \A i \in Ids(rows) :
       /\ i \in Ids(new) /\ SameElection(rows[i], new[i])
       /\ \/ new[i].withdrawn = rows[i].withdrawn
          \/ rows[i].withdrawn = Open /\ new[i].withdrawn = at
  /\ \A i \in Ids(new) \ Ids(rows) : new[i].from = at

\* Elections change only at the statements that write them.
SelectionsMove ==
  \/ db'.selections = db.selections
  \/ \E q \in Requests : /\ req[q].at \in {"selection.insert", "selection.withdraw"}
                         /\ ElectedAt(db.selections, db'.selections, req[q].now)

\* Availability rows stay about what they were about.
ExposureKept(rows, new) ==
  \A i \in Ids(rows) : i \in Ids(new) /\ SameExposure(rows[i], new[i])

\* Entitlements stay of their capability.
EntitledKept(rows, new) ==
  \A i \in Ids(rows) : i \in Ids(new) /\ new[i].capability = rows[i].capability

\* A step leaves the tables consistent and takes nothing back.
Advances ==
  /\ TablesInv'
  /\ AssignedKept(db.assigned, db'.assigned)
  /\ Extends(db.ledger, db'.ledger)
  /\ SelectionsMove
  /\ Extends(db.switchHistory, db'.switchHistory)
  /\ ExposureKept(db.availability, db'.availability)
  /\ EntitledKept(db.entitlements, db'.entitlements)
  /\ Extends(db.history, db'.history)

\* What every step does.
Step == IInv' /\ Advances

-----------------------------------------------------------------------------
(* Numbers and sequences *)

\* A set of numbers that is not empty has a least one, since there is no
\* infinite descent in Nat.
LEMMA LeastOfSet ==
  ASSUME NEW S \in SUBSET Nat, S # {}
  PROVE  \E m \in S : \A k \in S : m <= k
<1> DEFINE R == OpToRel(<, Nat)
<1>1. IsWellFoundedOn(R, Nat)
  BY NatLessThanWellFounded
<1>2. \A x, y \in Nat : <<x, y>> \in R <=> x < y
  BY DEF OpToRel
<1> HIDE DEF R
<1>3. \E m \in S : \A k \in S : ~(<<k, m>> \in R)
  BY <1>1, WFMin
<1>4. PICK m \in S : \A k \in S : ~(<<k, m>> \in R)
  BY <1>3
<1>5. \A k \in S : k \in Nat /\ m \in Nat /\ ~(k < m)
  BY <1>2, <1>4
<1>6. \A k \in S : m <= k
  BY <1>5
<1> QED
  BY <1>6

\* A row that is inserted takes the next id and leaves the others alone.
LEMMA Inserted ==
  ASSUME NEW S, NEW s \in Seq(S), NEW e \in S
  PROVE  /\ Append(s, e) \in Seq(S)
         /\ DOMAIN s \subseteq DOMAIN Append(s, e)
         /\ \A i \in DOMAIN s : Append(s, e)[i] = s[i]
         /\ DOMAIN Append(s, e) = DOMAIN s \cup {Len(s) + 1}
         /\ Append(s, e)[Len(s) + 1] = e
OBVIOUS

\* A row that is updated by its id leaves the others alone.
LEMMA Updated ==
  ASSUME NEW S, NEW s \in Seq(S), NEW i \in DOMAIN s, NEW e \in S
  PROVE  /\ [s EXCEPT ![i] = e] \in Seq(S)
         /\ DOMAIN [s EXCEPT ![i] = e] = DOMAIN s
         /\ \A j \in DOMAIN s : [s EXCEPT ![i] = e][j] = IF j = i THEN e ELSE s[j]
OBVIOUS

\* A table whose rows are all mapped to rows keeps its length.
LEMMA Mapped ==
  ASSUME NEW S, NEW R, NEW s \in Seq(R), NEW t, t = [i \in DOMAIN s |-> t[i]],
         \A i \in DOMAIN s : t[i] \in S
  PROVE  t \in Seq(S) /\ DOMAIN t = DOMAIN s /\ Len(t) = Len(s)
<1>1. DOMAIN s = 1 .. Len(s) /\ Len(s) \in Nat
  OBVIOUS
<1>2. t \in [1 .. Len(s) -> S]
  BY <1>1
<1>3. t \in Seq(S)
  BY <1>1, <1>2
<1> QED
  BY <1>1, <1>2, <1>3

\* A set of places in a sequence that is not empty has a last one.
LEMMA LastIsThere ==
  ASSUME NEW n \in Nat, NEW S \in SUBSET (1 .. n), S # {}
  PROVE  Last(S) \in S /\ \A k \in S : k <= Last(S)
<1> DEFINE D == {n - k : k \in S}
<1>1. \A k \in S : k \in 1 .. n /\ n - k \in Nat
  OBVIOUS
<1>2. D \in SUBSET Nat /\ D # {}
  BY <1>1
<1>3. PICK d \in D : \A e \in D : d <= e
  BY <1>2, LeastOfSet
<1>4. PICK m \in S : d = n - m
  OBVIOUS
<1>5. \A k \in S : n - m <= n - k
  BY <1>3, <1>4
<1>6. \A k \in S : k <= m
  BY <1>1, <1>5
<1> QED
  BY <1>6 DEF Last

\* And it is the only one that no other follows.
LEMMA LastIsOne ==
  ASSUME NEW n \in Nat, NEW S \in SUBSET (1 .. n), NEW m \in S, \A k \in S : k <= m
  PROVE  Last(S) = m
<1>1. Last(S) \in S /\ \A k \in S : k <= Last(S)
  BY LastIsThere
<1>2. Last(S) <= m /\ m <= Last(S) /\ Last(S) \in 1 .. n /\ m \in 1 .. n
  BY <1>1
<1> QED
  BY <1>2

-----------------------------------------------------------------------------
(* The statements of a request *)

\* Request q becomes r and no other one moves.
Turns(q, r) ==
  /\ r = Row(r.at, r.in, r.now, r.read)
  /\ DOMAIN req' = Requests
  /\ req'[q] = r
  /\ \A p \in Requests \ {q} : req'[p] = req[p]

\* A call that begins takes its row: what it was given, and the clock.
LEMMA BeginsTurns ==
  ASSUME RequestsShaped, NEW q \in Requests, NEW group, NEW at, NEW in, NEW read,
         Begins(q, group, at, in, read)
  PROVE  Turns(q, Row(at, in, now, read)) /\ db' = db /\ now' = now
BY DEF RequestsShaped, Begins, Turns, Row

\* A statement that reads leaves the tables and goes on with what it read.
LEMMA ReadsTurns ==
  ASSUME RequestsShaped, NEW q \in Requests, NEW at, NEW value, Reads(q, at, value)
  PROVE  Turns(q, Row(at, req[q].in, req[q].now, value)) /\ db' = db /\ now' = now
<1>1. req[q] = Row(req[q].at, req[q].in, req[q].now, req[q].read) /\ q \in DOMAIN req
  BY DEF RequestsShaped
<1>2. req'[q] = [req[q] EXCEPT !.at = at, !.read = value]
  BY <1>1 DEF Reads
<1>3. req'[q] = Row(at, req[q].in, req[q].now, value)
  BY <1>1, <1>2 DEF Row
<1> QED
  BY <1>3 DEF RequestsShaped, Reads, Turns, Row

\* A statement that writes leaves the other requests where they are.
LEMMA WritesTurns ==
  ASSUME RequestsShaped, NEW q \in Requests, NEW tables, NEW at, NEW value,
         Writes(q, tables, at, value)
  PROVE  Turns(q, Row(at, req[q].in, req[q].now, value)) /\ db' = tables /\ now' = now
<1>1. req[q] = Row(req[q].at, req[q].in, req[q].now, req[q].read) /\ q \in DOMAIN req
  BY DEF RequestsShaped
<1>2. req'[q] = [req[q] EXCEPT !.at = at, !.read = value]
  BY <1>1 DEF Writes
<1>3. req'[q] = Row(at, req[q].in, req[q].now, value)
  BY <1>1, <1>2 DEF Row
<1> QED
  BY <1>3 DEF RequestsShaped, Writes, Turns, Row

\* A call that ends leaves an idle row and the tables.
LEMMA EndsTurns ==
  ASSUME RequestsShaped, NEW q \in Requests, Ends(q)
  PROVE  Turns(q, Idle) /\ db' = db /\ now' = now
BY DEF RequestsShaped, Ends, Turns, Row, Idle

-----------------------------------------------------------------------------
(* Histories *)

\* A table that was not written, or was appended to, extends itself.
LEMMA ExtendsItself ==
  ASSUME NEW S, NEW h \in Seq(S)
  PROVE  Extends(h, h)
BY DEF Extends, Ids

\* A history that is appended to extends.
LEMMA AppendExtends ==
  ASSUME NEW S, NEW h \in Seq(S), NEW e \in S
  PROVE  /\ Append(h, e) \in Seq(S) /\ Extends(h, Append(h, e))
         /\ Len(Append(h, e)) = Len(h) + 1 /\ Append(h, e)[Len(h) + 1] = e
         /\ Ids(Append(h, e)) = Ids(h) \cup {Len(h) + 1} /\ Len(h) + 1 \notin Ids(h)
         /\ Ids(h) = 1 .. Len(h) /\ Len(h) \in Nat
BY Inserted DEF Extends, Ids

\* What the first events left of a switch is left for good.
LEMMA LastOfStays ==
  ASSUME NEW S, NEW h \in Seq(S), NEW g, Extends(h, g), NEW n \in 0 .. Len(h), NEW id
  PROVE  LastOf(g, id, n) = LastOf(h, id, n)
<1> DEFINE mine == {i \in 1 .. n : h[i].id = id}
<1>1. Len(h) \in Nat /\ n \in Nat /\ Ids(h) = 1 .. Len(h)
  BY DEF Ids
<1>2. \A i \in 1 .. n : g[i] = h[i]
  BY <1>1 DEF Extends
<1>3. {i \in 1 .. n : g[i].id = id} = mine
  BY <1>2
<1>4. mine # {} => g[Last(mine)] = h[Last(mine)]
  BY <1>1, <1>2, LastIsThere
<1> QED
  BY <1>3, <1>4 DEF LastOf

\* And likewise of a row of the two other tables.
LEMMA WrittenLastStays ==
  ASSUME NEW S, NEW h \in Seq(S), NEW g, Extends(h, g), NEW n \in 0 .. Len(h), NEW id,
         NEW table
  PROVE  WrittenLast(g, table, id, n) = WrittenLast(h, table, id, n)
<1> DEFINE mine == {i \in 1 .. n : h[i].table = table /\ h[i].id = id}
<1>1. Len(h) \in Nat /\ n \in Nat /\ Ids(h) = 1 .. Len(h)
  BY DEF Ids
<1>2. \A i \in 1 .. n : g[i] = h[i]
  BY <1>1 DEF Extends
<1>3. {i \in 1 .. n : g[i].table = table /\ g[i].id = id} = mine
  BY <1>2
<1>4. mine # {} => g[Last(mine)] = h[Last(mine)]
  BY <1>1, <1>2, LastIsThere
<1> QED
  BY <1>3, <1>4 DEF WrittenLast

\* The event that was appended is the last one of its switch, and of no other.
LEMMA LastOfAppended ==
  ASSUME NEW S, NEW h \in Seq(S), NEW e \in S, NEW id
  PROVE  LastOf(Append(h, e), id, Len(Append(h, e)))
           = IF e.id = id THEN e.row ELSE LastOf(h, id, Len(h))
<1> PICK g, n, m : g = Append(h, e) /\ n = Len(h) /\ m = Len(g)
  OBVIOUS
<1>1. /\ Extends(h, g) /\ m = n + 1 /\ g[m] = e /\ Ids(h) = 1 .. n /\ n \in Nat /\ m \in Nat
  BY AppendExtends
<1> DEFINE mine == {i \in 1 .. m : g[i].id = id}
<1>3. CASE e.id = id
  <2>1. m \in mine /\ \A k \in mine : k <= m
    BY <1>1, <1>3
  <2>2. Last(mine) = m
    BY <1>1, <2>1, LastIsOne
  <2> QED
    BY <1>1, <1>3, <2>1, <2>2 DEF LastOf
<1>4. CASE e.id # id
  <2>1. mine = {i \in 1 .. n : g[i].id = id}
    BY <1>1, <1>4
  <2>2. LastOf(g, id, n) = LastOf(h, id, n)
    BY <1>1, LastOfStays
  <2>3. LastOf(g, id, m) = LastOf(g, id, n)
    BY Zenon, <2>1 DEF LastOf
  <2> QED
    BY <1>4, <2>2, <2>3
<1> QED
  BY <1>3, <1>4

\* And so of a row of the two other tables: it is the one that was appended,
LEMMA WrittenLastAppended ==
  ASSUME NEW S, NEW h \in Seq(S), NEW e \in S
  PROVE  WrittenLast(Append(h, e), e.table, e.id, Len(Append(h, e))) = {e.row}
<1> PICK g, n, m, table, id :
      g = Append(h, e) /\ n = Len(h) /\ m = Len(g) /\ table = e.table /\ id = e.id
  OBVIOUS
<1>1. /\ m = n + 1 /\ g[m] = e /\ n \in Nat /\ m \in Nat
  BY AppendExtends
<1> DEFINE mine == {i \in 1 .. m : g[i].table = table /\ g[i].id = id}
<1>2. m \in mine /\ \A k \in mine : k <= m
  BY <1>1
<1>3. Last(mine) = m
  BY <1>1, <1>2, LastIsOne
<1> QED
  BY <1>1, <1>2, <1>3 DEF WrittenLast

\* or the one that was the last before.
LEMMA WrittenLastBefore ==
  ASSUME NEW S, NEW h \in Seq(S), NEW e \in S, NEW id, NEW table,
         ~(e.table = table /\ e.id = id)
  PROVE  WrittenLast(Append(h, e), table, id, Len(Append(h, e)))
           = WrittenLast(h, table, id, Len(h))
<1> PICK g, n, m : g = Append(h, e) /\ n = Len(h) /\ m = Len(g)
  OBVIOUS
<1>1. /\ Extends(h, g) /\ m = n + 1 /\ g[m] = e /\ n \in Nat /\ m \in Nat
  BY AppendExtends
<1> DEFINE mine == {i \in 1 .. m : g[i].table = table /\ g[i].id = id}
<1>2. mine = {i \in 1 .. n : g[i].table = table /\ g[i].id = id}
  BY <1>1
<1>3. WrittenLast(g, table, id, n) = WrittenLast(h, table, id, n)
  BY <1>1, WrittenLastStays
<1>4. WrittenLast(g, table, id, m) = WrittenLast(g, table, id, n)
  BY Zenon, <1>2 DEF WrittenLast
<1> QED
  BY <1>3, <1>4

-----------------------------------------------------------------------------
(* What a request holds stays sound *)

\* A verified assignment that ends was one.
LEMMA VerifiedStays ==
  ASSUME NEW rows \in Seq(AssignmentKept), NEW new \in Seq(AssignmentKept),
         \A i \in Ids(rows) : i \in Ids(new) /\ OnlyEnded(rows[i], new[i]),
         NEW code, VerifiedFor(rows, code)
  PROVE  VerifiedFor(new, code)
<1>1. PICK i \in Ids(rows) : rows[i].jurisdiction = code /\ rows[i].verified = "VERIFIED"
  BY DEF VerifiedFor
<1>2. PICK row : row = rows[i]
  OBVIOUS
<1>3. row \in UserAssignmentRow
  BY <1>1, <1>2 DEF Ids, AssignmentKept
<1>4. i \in Ids(new) /\ OnlyEnded(row, new[i])
  BY <1>1, <1>2
<1>5. new[i].jurisdiction = row.jurisdiction /\ new[i].verified = row.verified
  BY <1>3, <1>4 DEF OnlyEnded, UserAssignmentRow
<1> QED
  BY <1>1, <1>2, <1>4, <1>5 DEF VerifiedFor

\* What a pack stood after, it stood after: later events do not count.
LEMMA StoodStays ==
  ASSUME NEW events, NEW grown, LedgerInv(events), Extends(events, grown),
         NEW jurisdiction, NEW pack, NEW n \in Nat, n <= Len(events),
         LedgerInv(grown), StoodIn(events, jurisdiction, pack, n)
  PROVE  StoodIn(grown, jurisdiction, pack, n)
<1>1. /\ Ids(events) = 1 .. Len(events) /\ Len(events) \in Nat
      /\ Ids(grown) = 1 .. Len(grown) /\ Len(grown) \in Nat
  BY DEF LedgerInv, Ids
<1>2. PICK i \in Ledger(events, jurisdiction) :
        /\ events[i].pack = pack /\ events[i].action = "ACTIVATED"
        /\ \A j \in Ledger(events, jurisdiction) : j <= n => events[j].at <= events[i].at
  BY DEF StoodIn
<1>3. i \in Ledger(grown, jurisdiction) /\ grown[i] = events[i]
  BY <1>2 DEF Ledger, Extends
<1>4. ASSUME NEW j \in Ledger(grown, jurisdiction), j <= n
      PROVE  grown[j].at <= grown[i].at
  <2>1. j \in Ids(events)
    BY <1>1, <1>4 DEF Ledger
  <2>2. grown[j] = events[j]
    BY <2>1 DEF Extends
  <2>3. j \in Ledger(events, jurisdiction)
    BY <2>1, <2>2 DEF Ledger
  <2> QED
    BY <1>2, <1>3, <1>4, <2>2, <2>3
<1> QED
  BY <1>2, <1>3, <1>4 DEF StoodIn

\* A question about the ceiling and its answer, while others write.
LEMMA CeilingStays ==
  ASSUME NEW r, NEW rows \in Seq(AssignmentKept), NEW new \in Seq(AssignmentKept),
         \A i \in Ids(rows) : i \in Ids(new) /\ OnlyEnded(rows[i], new[i]),
         NEW events, NEW grown, LedgerInv(events), LedgerInv(grown), Extends(events, grown),
         CeilingSound(r, rows, events)
  PROVE  CeilingSound(r, new, grown)
<1>1. Len(events) \in Nat /\ Len(grown) \in Nat /\ Len(events) <= Len(grown)
  BY DEF LedgerInv, Extends
<1>2. ASSUME r.at \in {"ceiling.pack", "pin.pack", "ceiling.answered", "pin.answered"}
      PROVE  r.in.began \in Nat /\ r.in.began <= Len(events) /\ r.in.began <= Len(grown)
  BY <1>1, <1>2 DEF CeilingSound
<1>3. ASSUME r.at = "ceiling.pack"
      PROVE  /\ r.read.kind \in {"NONE"} \cup VerificationStatus
             /\ r.read.kind = "VERIFIED" => VerifiedFor(new, r.read.code)
  BY <1>3, VerifiedStays DEF CeilingSound
<1>4. ASSUME r.at \in {"ceiling.answered", "pin.answered"}, r.read.kind \in {"RESOLVED", "PINNED"}
      PROVE  StoodIn(grown, r.read.scope, r.read.pack, r.in.began)
  <2>1. StoodIn(events, r.read.scope, r.read.pack, r.in.began)
    BY <1>4 DEF CeilingSound
  <2> QED
    BY <1>2, <1>4, <2>1, StoodStays
<1>5. ASSUME r.at = "ceiling.answered", r.read.kind = "RESOLVED"
      PROVE  VerifiedFor(new, r.read.scope) /\ MayGovern(r.read.pack, r.read.scope)
  <2>1. VerifiedFor(rows, r.read.scope) /\ MayGovern(r.read.pack, r.read.scope)
    BY <1>5 DEF CeilingSound
  <2> QED
    BY <2>1, VerifiedStays
<1> QED
  BY <1>2, <1>3, <1>4, <1>5 DEF CeilingSound

\* A version of a switch that stood, once the history grew.
LEMMA SeenStays ==
  ASSUME NEW h \in Seq(SwitchEvent), NEW g \in Seq(SwitchEvent), Extends(h, g),
         NEW id, NEW seen \in Nat, NEW row, SeenSince(h, id, seen, row)
  PROVE  SeenSince(g, id, seen, row)
<1>1. PICK n \in seen .. Len(h) : LastOf(h, id, n) = row
  BY DEF SeenSince
<1>2. Len(h) \in Nat /\ Len(g) \in Nat /\ Len(h) <= Len(g)
  BY DEF Extends
<1>3. n \in 0 .. Len(h) /\ n \in seen .. Len(g)
  BY <1>1, <1>2
<1>4. LastOf(g, id, n) = row
  BY <1>1, <1>3, LastOfStays
<1> QED
  BY <1>3, <1>4 DEF SeenSince

\* A guarded call, while switches are operated.
LEMMA SwitchStays ==
  ASSUME NEW r, NEW h \in Seq(SwitchEvent), NEW g \in Seq(SwitchEvent), Extends(h, g),
         SwitchSound(r, h)
  PROVE  SwitchSound(r, g)
<1>1. Len(h) \in Nat /\ Len(g) \in Nat /\ Len(h) <= Len(g)
  BY DEF Extends
<1>2. r.at \in {"switch.check", "admitted"} => r.in.seen \in Nat /\ r.in.seen <= Len(g)
  BY <1>1 DEF SwitchSound
<1>3. r.at = "switch.check" => SeenSince(g, r.in.id, r.in.seen, r.read)
  BY <1>2, SeenStays DEF SwitchSound
<1>4. r.at = "admitted" => SeenSince(g, r.in.id, r.in.seen, r.read.row)
  BY <1>2, SeenStays DEF SwitchSound
<1> QED
  BY <1>2, <1>3, <1>4 DEF SwitchSound

\* What an operator is about to write, while others write.
LEMMA ExposureStays ==
  ASSUME NEW r, NEW exposed, NEW shown, NEW granted, NEW given,
         ExposureKept(exposed, shown), EntitledKept(granted, given),
         ExposureSound(r, exposed, granted)
  PROVE  ExposureSound(r, shown, given)
BY DEF ExposureSound, ExposureKept, EntitledKept, SameExposure

\* A version of a row that stood, once the history grew.
LEMMA WrittenSinceStays ==
  ASSUME NEW h \in Seq(HistoryEvent), NEW g \in Seq(HistoryEvent), Extends(h, g),
         NEW table, NEW facts, NEW began \in Nat, WrittenSince(h, table, facts, began)
  PROVE  WrittenSince(g, table, facts, began)
<1>1. PICK n \in began .. Len(h) : facts.row \in WrittenLast(h, table, facts.id, n)
  BY DEF WrittenSince
<1>2. Len(h) \in Nat /\ Len(g) \in Nat /\ Len(h) <= Len(g)
  BY DEF Extends
<1>3. n \in 0 .. Len(h) /\ n \in began .. Len(g)
  BY <1>1, <1>2
<1>4. WrittenLast(g, table, facts.id, n) = WrittenLast(h, table, facts.id, n)
  BY <1>3, WrittenLastStays
<1> QED
  BY <1>1, <1>3, <1>4 DEF WrittenSince

\* What had been written when a resolution began does not change.
LEMMA ScopedStays ==
  ASSUME NEW h \in Seq(HistoryEvent), NEW g, Extends(h, g), NEW began \in Nat, began <= Len(h),
         NEW scope, NEW capability
  PROVE  ScopedThen(g, scope, capability, began) = ScopedThen(h, scope, capability, began)
<1>1. Ids(h) = 1 .. Len(h) /\ Len(h) \in Nat
  BY DEF Ids
<1>2. \A i \in 1 .. began : g[i] = h[i]
  BY <1>1 DEF Extends
<1> QED
  BY <1>2 DEF ScopedThen

\* A resolution, while exposures and entitlements are written.
LEMMA ResolutionStays ==
  ASSUME NEW r, NEW h \in Seq(HistoryEvent), NEW g \in Seq(HistoryEvent), Extends(h, g),
         ResolutionSound(r, h)
  PROVE  ResolutionSound(r, g)
<1> DEFINE began == r.in.began
<1>1. Len(h) \in Nat /\ Len(g) \in Nat /\ Len(h) <= Len(g)
  BY DEF Extends
<1>2. ASSUME r.at \in {"resolve.availability", "resolve.entitlement", "resolve.gates", "resolved"}
      PROVE  /\ r.in = [ids |-> r.in.ids, ceiling |-> r.in.ceiling, began |-> r.in.began]
             /\ r.in.ceiling \in PortCeilings
             /\ began \in Nat /\ began <= Len(h) /\ began <= Len(g)
  BY <1>1, <1>2 DEF ResolutionSound
<1>3. ASSUME r.at = "resolve.entitlement"
      PROVE  ExposedSince(g, r.in.ceiling, Head(r.in.ids), r.read, began)
  <2>1. ExposedSince(h, r.in.ceiling, Head(r.in.ids), r.read, began)
    BY <1>3 DEF ResolutionSound
  <2> QED
    BY <1>2, <1>3, <2>1, WrittenSinceStays, ScopedStays DEF ExposedSince
<1>4. ASSUME r.at = "resolve.gates"
      PROVE  /\ r.read.ceiling \in PortCeilings
             /\ ExposedSince(g, r.read.ceiling, r.read.capability, r.read.availability, began)
             /\ GrantedSince(g, r.read.entitlement, began)
  <2>1. /\ r.read.ceiling \in PortCeilings
        /\ ExposedSince(h, r.read.ceiling, r.read.capability, r.read.availability, began)
        /\ GrantedSince(h, r.read.entitlement, began)
    BY <1>4 DEF ResolutionSound
  <2>2. ExposedSince(g, r.read.ceiling, r.read.capability, r.read.availability, began)
    BY <1>2, <1>4, <2>1, WrittenSinceStays, ScopedStays DEF ExposedSince
  <2>3. GrantedSince(g, r.read.entitlement, began)
    BY <1>2, <1>4, <2>1, WrittenSinceStays DEF GrantedSince
  <2> QED
    BY <2>1, <2>2, <2>3
<1>5. ASSUME r.at = "resolved", r.read.resolution.outcome = "ALLOWED"
      PROVE  ClearedByLedger(g, r.read.snapshot, began)
  <2>1. ClearedByLedger(h, r.read.snapshot, began)
    BY <1>5 DEF ResolutionSound
  <2> QED
    BY <1>2, <1>5, <2>1, WrittenSinceStays, ScopedStays DEF ClearedByLedger
<1> QED
  BY <1>2, <1>3, <1>4, <1>5 DEF ResolutionSound

\* Whatever other requests wrote, what a request holds is sound still.
LEMMA SoundStays ==
  ASSUME TablesInv, Advances, NEW r, Sound(r)
  PROVE  Sound(r)'
<1>1. "user" \in Subject
  BY DEF Subject
<1>2. CeilingSound(r, db'.assigned["user"], db'.ledger)
  BY <1>1, CeilingStays DEF TablesInv, Advances, Sound, AssignedKept
<1>3. ASSUME NEW i \in Ids(db.selections)
      PROVE  i \in Ids(db'.selections)
  BY <1>3 DEF Advances, SelectionsMove, ElectedAt
<1>4. SelectionSound(r, db'.selections)
  BY <1>3 DEF Sound, SelectionSound
<1>5. SwitchSound(r, db'.switchHistory)
  BY SwitchStays DEF TablesInv, Advances, Sound, SwitchesInv
<1>6. ExposureSound(r, db'.availability, db'.entitlements)
  BY ExposureStays DEF Advances, Sound
<1>7. ResolutionSound(r, db'.history)
  BY ResolutionStays DEF TablesInv, Advances, Sound, HistoryInv
<1> QED
  BY <1>2, <1>4, <1>5, <1>6, <1>7 DEF Sound

-----------------------------------------------------------------------------
(* Steps *)

\* A table that was not written keeps what it holds.
LEMMA Itself ==
  ASSUME TablesInv
  PROVE  /\ Extends(db.ledger, db.ledger) /\ Extends(db.switchHistory, db.switchHistory)
         /\ Extends(db.history, db.history) /\ AssignedKept(db.assigned, db.assigned)
         /\ ExposureKept(db.availability, db.availability)
         /\ EntitledKept(db.entitlements, db.entitlements)
<1>1. /\ Extends(db.ledger, db.ledger) /\ Extends(db.switchHistory, db.switchHistory)
      /\ Extends(db.history, db.history)
  BY ExtendsItself DEF TablesInv, LedgerInv, SwitchesInv, HistoryInv
<1> QED
  BY <1>1 DEF AssignedKept, OnlyEnded, ExposureKept, SameExposure, EntitledKept

\* Nothing was written.
LEMMA NothingWritten ==
  ASSUME TablesInv, db' = db
  PROVE  Advances
<1>1. TablesInv'
  BY Zenon DEF TablesInv
<1> QED
  BY Zenon, <1>1, Itself DEF Advances, SelectionsMove

\* The audit trail alone was written.
LEMMA WritesTrail ==
  ASSUME TablesInv, NEW T, db' = [db EXCEPT !.trail = T]
  PROVE  Advances
<1>1. /\ DOMAIN db' = Fields
      /\ \A f \in Fields \ {"trail"} : db'[f] = db[f]
  BY DEF TablesInv, Fields
<1>2. /\ db'.assigned = db.assigned /\ db'.ledger = db.ledger /\ db'.selections = db.selections
      /\ db'.switches = db.switches /\ db'.switchHistory = db.switchHistory
      /\ db'.availability = db.availability /\ db'.entitlements = db.entitlements
      /\ db'.history = db.history
  BY <1>1 DEF Fields
<1>3. TablesInv'
  BY Zenon, <1>1, <1>2 DEF TablesInv
<1> QED
  BY Zenon, <1>2, <1>3, Itself DEF Advances, SelectionsMove

\* A step of one request preserves the invariant if the tables move forward and
\* what the request then holds is sound.
LEMMA StepKeeps ==
  ASSUME IInv, NEW q \in Requests, NEW r, Turns(q, r), Advances, now' \in 0 .. MaxNow, Sound(r)'
  PROVE  Step
<1>1. TablesInv'
  BY DEF Advances
<1>2. RequestsShaped'
  BY DEF IInv, RequestsShaped, Turns, Row
<1>3. ASSUME NEW p \in Requests
      PROVE  Sound(req[p])'
  <2>1. CASE p = q
    BY <2>1 DEF Turns
  <2>2. CASE p # q
    <3>1. PICK s : s = req[p]
      OBVIOUS
    <3>2. Sound(s)
      BY <3>1 DEF IInv
    <3>3. Sound(s)' /\ req'[p] = s
      BY <2>2, <3>1, <3>2, SoundStays DEF IInv, Turns
    <3> QED
      BY <3>3
  <2> QED
    BY <2>1, <2>2
<1> QED
  BY <1>1, <1>2, <1>3 DEF Step, IInv

\* A statement that wrote nothing: what was read is judged where it was read.
LEMMA ReadKeeps ==
  ASSUME IInv, NEW q \in Requests, NEW r, Turns(q, r), db' = db, now' = now, Sound(r)
  PROVE  Step
<1>1. Advances
  BY NothingWritten DEF IInv
<1>2. Sound(r)'
  BY <1>1, SoundStays DEF IInv
<1> QED
  BY <1>1, <1>2, StepKeeps DEF IInv, RequestsShaped

\* A call begins, and what it was given and has read is sound.
LEMMA BeginKeeps ==
  ASSUME IInv, NEW q \in Requests, NEW group, NEW at, NEW in, NEW read,
         Begins(q, group, at, in, read), Sound(Row(at, in, now, read))
  PROVE  Step
<1> PICK r : r = Row(at, in, now, read)
  OBVIOUS
<1>1. Turns(q, r) /\ db' = db /\ now' = now
  BY BeginsTurns DEF IInv
<1>2. Sound(r)
  OBVIOUS
<1> QED
  BY <1>1, <1>2, ReadKeeps

\* A statement of a call read something, and what it holds now is sound.
LEMMA GoesOnKeeps ==
  ASSUME IInv, NEW q \in Requests, NEW at, NEW value, Reads(q, at, value),
         Sound(Row(at, req[q].in, req[q].now, value))
  PROVE  Step
<1> PICK r : r = Row(at, req[q].in, req[q].now, value)
  OBVIOUS
<1>1. Turns(q, r) /\ db' = db /\ now' = now
  BY ReadsTurns DEF IInv
<1>2. Sound(r)
  OBVIOUS
<1> QED
  BY <1>1, <1>2, ReadKeeps

\* The statements at which a request holds nothing that could turn unsound.
Quiet == {"idle", "audit", "selection.view"}

\* So whatever it holds is sound.
LEMMA QuietSound ==
  ASSUME NEW at \in Quiet, NEW in, NEW when \in 0 .. MaxNow, NEW read
  PROVE  Sound(Row(at, in, when, read)) /\ Sound(Row(at, in, when, read))'
BY DEF Quiet, Row, Sound, AssignmentSound, CeilingSound, SelectionSound, SwitchSound,
       ExposureSound, ResolutionSound

\* A statement that wrote: the tables advance, and what the request holds is sound.
LEMMA WriteKeeps ==
  ASSUME IInv, NEW q \in Requests, NEW tables, NEW at, NEW value, Writes(q, tables, at, value),
         NEW r, r = Row(at, req[q].in, req[q].now, value),
         db' = tables => Advances, Sound(r)
  PROVE  Step
<1>1. Turns(q, r) /\ db' = tables /\ now' = now
  BY WritesTurns DEF IInv
<1>2. Sound(r)'
  BY <1>1, SoundStays DEF IInv
<1> QED
  BY <1>1, <1>2, StepKeeps DEF IInv, RequestsShaped

\* A change that was committed, of which only the audit event is left.
LEMMA AuditedKeeps ==
  ASSUME IInv, NEW q \in Requests, NEW tables, NEW entry, WritesAudited(q, tables, entry),
         db' = tables => Advances
  PROVE  Step
<1> PICK in, when : in = req[q].in /\ when = req[q].now
  OBVIOUS
<1> PICK r : r = Row("audit", in, when, entry)
  OBVIOUS
<1>1. when \in 0 .. MaxNow
  BY DEF IInv, Sound
<1>2. Sound(r)
  BY <1>1, QuietSound DEF Quiet
<1> QED
  BY <1>2, WriteKeeps DEF WritesAudited

-----------------------------------------------------------------------------
(* The environment and the audit trail *)

\* A request that is idle holds nothing.
LEMMA IdleSound == ASSUME IInv PROVE Sound(Idle) /\ Sound(Idle)'
<1>1. Idle = Row("idle", <<>>, 0, <<>>)
  BY DEF Idle, Row
<1>2. 0 \in 0 .. MaxNow
  BY RequestsAssumption
<1> QED
  BY <1>1, <1>2, QuietSound DEF Quiet

\* A call that ends leaves nothing behind but what it committed.
LEMMA EndSteps ==
  ASSUME IInv, NEW q \in Requests, Ends(q)
  PROVE  Step
<1>1. Turns(q, Idle) /\ db' = db /\ now' = now
  BY EndsTurns DEF IInv
<1> QED
  BY <1>1, IdleSound, ReadKeeps

\* appendAudit: the event of what was committed.
LEMMA AppendAuditSteps ==
  ASSUME IInv, NEW q \in Requests, AppendAudit(q)
  PROVE  Step
<1>1. Turns(q, Idle) /\ now' = now
  BY DEF AppendAudit, IInv, RequestsShaped, Turns, Row, Idle
<1>2. Advances
  BY WritesTrail DEF AppendAudit, Recorded, IInv
<1> QED
  BY <1>1, <1>2, IdleSound, StepKeeps DEF IInv, RequestsShaped

\* Only the clock moved, or nothing.
LEMMA ClockSteps ==
  ASSUME IInv, db' = db, req' = req, now' \in 0 .. MaxNow
  PROVE  Step
<1>1. Advances
  BY NothingWritten DEF IInv
<1>2. TablesInv'
  BY <1>1 DEF Advances
<1>3. RequestsShaped'
  BY DEF IInv, RequestsShaped, Row
<1>4. ASSUME NEW p \in Requests
      PROVE  Sound(req[p])'
  <2> PICK s : s = req[p]
    OBVIOUS
  <2>1. Sound(s)' /\ req'[p] = s
    BY <1>1, SoundStays DEF IInv
  <2> QED
    BY <2>1
<1> QED
  BY <1>1, <1>2, <1>3, <1>4 DEF Step, IInv

\* The clock moves, and what a request holds does not depend on it.
LEMMA TickSteps ==
  ASSUME IInv, Tick
  PROVE  Step
<1>1. now' \in 0 .. MaxNow
  BY RequestsAssumption DEF IInv, RequestsShaped, Tick
<1> QED
  BY <1>1, ClockSteps DEF Tick

-----------------------------------------------------------------------------
(* Writing tables *)

\* user_jurisdiction_assignments and the tenant's: rows are added, or ended.
LEMMA WritesAssigned ==
  ASSUME TablesInv, NEW T \in [Subject -> Seq(AssignmentKept)], AssignedKept(db.assigned, T),
         db' = [db EXCEPT !.assigned = T]
  PROVE  Advances
<1>1. /\ DOMAIN db' = Fields /\ db'.assigned = T
      /\ \A f \in Fields \ {"assigned"} : db'[f] = db[f]
  BY DEF TablesInv, Fields
<1>2. /\ db'.ledger = db.ledger /\ db'.selections = db.selections /\ db'.switches = db.switches
      /\ db'.switchHistory = db.switchHistory /\ db'.availability = db.availability
      /\ db'.entitlements = db.entitlements
      /\ db'.history = db.history
  BY <1>1 DEF Fields
<1>3. TablesInv'
  BY Zenon, <1>1, <1>2 DEF TablesInv
<1> QED
  BY Zenon, <1>1, <1>2, <1>3, Itself DEF Advances, SelectionsMove

\* The ledger of activations: events are added.
LEMMA WritesLedger ==
  ASSUME TablesInv, NEW T, LedgerInv(T), Extends(db.ledger, T),
         db' = [db EXCEPT !.ledger = T]
  PROVE  Advances
<1>1. /\ DOMAIN db' = Fields /\ db'.ledger = T
      /\ \A f \in Fields \ {"ledger"} : db'[f] = db[f]
  BY DEF TablesInv, Fields
<1>2. /\ db'.assigned = db.assigned /\ db'.selections = db.selections /\ db'.switches = db.switches
      /\ db'.switchHistory = db.switchHistory /\ db'.availability = db.availability
      /\ db'.entitlements = db.entitlements
      /\ db'.history = db.history
  BY <1>1 DEF Fields
<1>3. TablesInv'
  BY Zenon, <1>1, <1>2 DEF TablesInv
<1> QED
  BY Zenon, <1>1, <1>2, <1>3, Itself DEF Advances, SelectionsMove

\* subject_policy_selections: rows are added, superseded or withdrawn, at a time
\* that the request was given.
LEMMA WritesSelections ==
  ASSUME TablesInv, NEW T \in Seq(SelectionKept), NEW q \in Requests,
         req[q].at \in {"selection.insert", "selection.withdraw"},
         ElectedAt(db.selections, T, req[q].now),
         db' = [db EXCEPT !.selections = T]
  PROVE  Advances
<1>1. /\ DOMAIN db' = Fields /\ db'.selections = T
      /\ \A f \in Fields \ {"selections"} : db'[f] = db[f]
  BY DEF TablesInv, Fields
<1>2. /\ db'.assigned = db.assigned /\ db'.ledger = db.ledger /\ db'.switches = db.switches
      /\ db'.switchHistory = db.switchHistory /\ db'.availability = db.availability
      /\ db'.entitlements = db.entitlements
      /\ db'.history = db.history
  BY <1>1 DEF Fields
<1>3. TablesInv'
  BY Zenon, <1>1, <1>2 DEF TablesInv
<1> QED
  BY Zenon, <1>1, <1>2, <1>3, Itself DEF Advances, SelectionsMove

\* kill_switches and its history: one version more.
LEMMA WritesSwitches ==
  ASSUME TablesInv, NEW T, NEW H, SwitchesInv(T, H), Extends(db.switchHistory, H),
         db' = [db EXCEPT !.switches = T, !.switchHistory = H]
  PROVE  Advances
<1>1. /\ DOMAIN db' = Fields /\ db'.switches = T /\ db'.switchHistory = H
      /\ \A f \in Fields \ {"switches", "switchHistory"} : db'[f] = db[f]
  BY DEF TablesInv, Fields
<1>2. /\ db'.assigned = db.assigned /\ db'.ledger = db.ledger /\ db'.selections = db.selections
      /\ db'.availability = db.availability /\ db'.entitlements = db.entitlements
      /\ db'.history = db.history
  BY <1>1 DEF Fields
<1>3. TablesInv'
  BY Zenon, <1>1, <1>2 DEF TablesInv
<1> QED
  BY Zenon, <1>1, <1>2, <1>3, Itself DEF Advances, SelectionsMove

\* capability_availability and its history: one version more.
LEMMA WritesAvailability ==
  ASSUME TablesInv, NEW T, NEW H, AvailabilityInv(T, H), EntitlementInv(db.entitlements, H),
         HistoryInv(H), Extends(db.history, H), ExposureKept(db.availability, T),
         db' = [[db EXCEPT !.availability = T] EXCEPT !.history = H]
  PROVE  Advances
<1>1. /\ DOMAIN db' = Fields /\ db'.availability = T /\ db'.history = H
      /\ \A f \in Fields \ {"availability", "history"} : db'[f] = db[f]
  BY DEF TablesInv, Fields
<1>2. /\ db'.assigned = db.assigned /\ db'.ledger = db.ledger /\ db'.selections = db.selections
      /\ db'.switches = db.switches /\ db'.switchHistory = db.switchHistory
      /\ db'.entitlements = db.entitlements
  BY <1>1 DEF Fields
<1>3. TablesInv'
  BY Zenon, <1>1, <1>2 DEF TablesInv
<1> QED
  BY Zenon, <1>1, <1>2, <1>3, Itself DEF Advances, SelectionsMove

\* tenant_capability_entitlements and its history: one version more.
LEMMA WritesEntitlements ==
  ASSUME TablesInv, NEW T, NEW H, EntitlementInv(T, H), AvailabilityInv(db.availability, H),
         HistoryInv(H), Extends(db.history, H), EntitledKept(db.entitlements, T),
         db' = [[db EXCEPT !.entitlements = T] EXCEPT !.history = H]
  PROVE  Advances
<1>1. /\ DOMAIN db' = Fields /\ db'.entitlements = T /\ db'.history = H
      /\ \A f \in Fields \ {"entitlements", "history"} : db'[f] = db[f]
  BY DEF TablesInv, Fields
<1>2. /\ db'.assigned = db.assigned /\ db'.ledger = db.ledger /\ db'.selections = db.selections
      /\ db'.switches = db.switches /\ db'.switchHistory = db.switchHistory
      /\ db'.availability = db.availability
  BY <1>1 DEF Fields
<1>3. TablesInv'
  BY Zenon, <1>1, <1>2 DEF TablesInv
<1> QED
  BY Zenon, <1>1, <1>2, <1>3, Itself DEF Advances, SelectionsMove

-----------------------------------------------------------------------------
(* Jurisdictions and the ledger *)

\* The statements of assignments, declarations and activations.
AssignmentAt ==
  {"assignment.select", "assignment.end", "assignment.insert", "assignment.ended", "ledger.append"}

\* At these statements nothing else is asked of a request.
LEMMA InAssignment ==
  ASSUME NEW at \in AssignmentAt, NEW in, NEW when \in 0 .. MaxNow, NEW read,
         AssignmentSound(Row(at, in, when, read))
  PROVE  Sound(Row(at, in, when, read))
BY DEF AssignmentAt, Row, Sound, CeilingSound, SelectionSound, SwitchSound, ExposureSound,
       ResolutionSound

\* AssignJurisdiction begins with a row that the table takes.
LEMMA BeginAssignSteps ==
  ASSUME IInv, NEW q \in Requests, NEW subject \in Subject, NEW code \in DOMAIN Register,
         NEW source \in AssignmentSource, NEW verified \in VerificationStatus, NEW from \in Nat,
         NEW group, NEW action, VerificationPermittedForSource(source, verified),
         Begins(q, group, "assignment.select",
                [subject |-> subject, at |-> from, then |-> "assignment.insert",
                 action |-> action,
                 row |-> [jurisdiction |-> code, source |-> source, verified |-> verified,
                          from |-> from, to |-> Open]], {})
  PROVE  Step
<1> PICK row : row = [jurisdiction |-> code, source |-> source, verified |-> verified,
                      from |-> from, to |-> Open]
  OBVIOUS
<1> PICK in : in = [subject |-> subject, at |-> from, then |-> "assignment.insert",
                    action |-> action, row |-> row]
  OBVIOUS
<1>1. row \in UserAssignmentRow
  BY DEF UserAssignmentRow
<1>2. row \in AssignmentKept
  BY <1>1 DEF AssignmentKept
<1>3. AssignmentSound(Row("assignment.select", in, now, {}))
  BY <1>2 DEF AssignmentSound, Row
<1>4. Sound(Row("assignment.select", in, now, {}))
  BY <1>3, InAssignment DEF AssignmentAt, IInv, RequestsShaped
<1> QED
  BY <1>4, BeginKeeps

\* Ending an assignment begins with the instant of the end.
LEMMA BeginEndSteps ==
  ASSUME IInv, NEW q \in Requests, NEW subject \in Subject, NEW at \in 0 .. MaxNow,
         BeginEnd(q, subject, at)
  PROVE  Step
<1> PICK in : in = [subject |-> subject, at |-> at, then |-> "assignment.ended",
                    action |-> "jurisdiction." \o subject \o "_assignment.ended"]
  OBVIOUS
<1>1. AssignmentSound(Row("assignment.select", in, now, {}))
  BY RequestsAssumption DEF AssignmentSound, Row
<1>2. Sound(Row("assignment.select", in, now, {}))
  BY <1>1, InAssignment DEF AssignmentAt, IInv, RequestsShaped
<1> QED
  BY <1>2, BeginKeeps DEF BeginEnd

\* A declaration ends what is open, and goes on with an unverified row.
LEMMA BeginDeclareSteps ==
  ASSUME IInv, NEW q \in Requests, NEW c \in DOMAIN Register, BeginDeclare(q, c)
  PROVE  Step
<1>2. now \in Nat /\ "user" \in Subject
  BY RequestsAssumption DEF IInv, RequestsShaped, Subject
<1>3. /\ "USER_DECLARED" \in AssignmentSource /\ "UNVERIFIED" \in VerificationStatus
      /\ VerificationPermittedForSource("USER_DECLARED", "UNVERIFIED")
  BY DEF AssignmentSource, VerificationStatus, VerificationPermittedForSource
<1> PICK code, from : code = c /\ from = now
  OBVIOUS
<1>4. Begins(q, "declarations", "assignment.select",
             [subject |-> "user", at |-> from, then |-> "assignment.insert",
              action |-> "jurisdiction.user_assignment.self_declared",
              row |-> [jurisdiction |-> code, source |-> "USER_DECLARED",
                       verified |-> "UNVERIFIED", from |-> from, to |-> Open]], {})
  BY Zenon DEF BeginDeclare
<1> QED
  BY <1>2, <1>3, <1>4, BeginAssignSteps

\* endOpen selects, or goes on where nothing is open.
LEMMA SelectOpenSteps ==
  ASSUME IInv, NEW q \in Requests, SelectOpen(q)
  PROVE  Step
<1> PICK in, when : in = req[q].in /\ when = req[q].now
  OBVIOUS
<1> PICK open : open = FindOpenAssignments(in.subject)
  OBVIOUS
<1> PICK at : at = IF open # {} THEN "assignment.end" ELSE in.then
  OBVIOUS
<1>1. /\ in.subject \in Subject /\ in.at \in Nat /\ when \in 0 .. MaxNow
      /\ in.then \in {"assignment.insert", "assignment.ended"}
      /\ in.then = "assignment.insert" => in.row \in AssignmentKept
  BY DEF SelectOpen, At, IInv, Sound, AssignmentSound
<1>2. at \in AssignmentAt /\ AssignmentSound(Row(at, in, when, open))
  BY <1>1 DEF AssignmentSound, Row, AssignmentAt
<1>3. Sound(Row(at, in, when, open))
  BY <1>1, <1>2, InAssignment
<1> QED
  BY <1>3, GoesOnKeeps DEF SelectOpen

\* endOpen ends what the guard lets it end, and a window that ends after it
\* began is one the table keeps.
LEMMA EndOpenSteps ==
  ASSUME IInv, NEW q \in Requests, EndOpen(q)
  PROVE  Step
<1> PICK in, when, ids, s, at : /\ in = req[q].in /\ when = req[q].now /\ ids = req[q].read
                                /\ s = in.subject /\ at = in.at
  OBVIOUS
<1>1. /\ s \in Subject /\ at \in Nat /\ when \in 0 .. MaxNow
      /\ in.then \in {"assignment.insert", "assignment.ended"}
      /\ in.then = "assignment.insert" => in.row \in AssignmentKept
  BY DEF EndOpen, At, IInv, Sound, AssignmentSound
<1>2. Sound(Row(in.then, in, when, ids))
  <2>1. in.then \in AssignmentAt /\ AssignmentSound(Row(in.then, in, when, ids))
    BY <1>1 DEF AssignmentSound, Row, AssignmentAt
  <2> QED
    BY <1>1, <2>1, InAssignment
<1> PICK rows : rows = db.assigned[s]
  OBVIOUS
<1>3. db.assigned \in [Subject -> Seq(AssignmentKept)] /\ rows \in Seq(AssignmentKept)
  BY <1>1 DEF IInv, TablesInv
<1>4. \A i \in ids : AssignmentMayEnd(rows[i], at)
  BY DEF EndOpen
<1> PICK new : new = EndAssignments(rows, ids, at)
  OBVIOUS
<1>5. /\ DOMAIN new = DOMAIN rows
      /\ \A i \in DOMAIN rows : new[i] = IF i \in ids THEN [rows[i] EXCEPT !.to = at] ELSE rows[i]
  BY DEF EndAssignments, Ids
<1>6. ASSUME NEW i \in DOMAIN rows
      PROVE  new[i] \in AssignmentKept /\ OnlyEnded(rows[i], new[i])
  <2>1. CASE i \in ids
    <3> PICK row, ended : row = rows[i] /\ ended = [row EXCEPT !.to = at]
      OBVIOUS
    <3>1. row \in UserAssignmentRow /\ VerificationPermittedForSource(row.source, row.verified)
      BY <1>3 DEF AssignmentKept
    <3>2. ended \in UserAssignmentRow /\ ended.to = at /\ ended.from = row.from
          /\ ended.source = row.source /\ ended.verified = row.verified
      BY <1>1, <3>1 DEF UserAssignmentRow
    <3>3. row.to = Open /\ at > row.from
      BY <1>4, <2>1 DEF AssignmentMayEnd
    <3>4. ended \in AssignmentKept
      BY <3>1, <3>2, <3>3 DEF AssignmentKept
    <3>5. OnlyEnded(row, ended)
      BY <3>2, <3>3 DEF OnlyEnded
    <3> QED
      BY <1>5, <2>1, <3>4, <3>5
  <2>2. CASE i \notin ids
    <3>1. new[i] = rows[i]
      BY <1>5, <2>2
    <3>3. rows[i] \in AssignmentKept
      BY <1>3
    <3>2. OnlyEnded(rows[i], rows[i])
      BY Zenon DEF OnlyEnded
    <3> QED
      BY <3>1, <3>2, <3>3
  <2> QED
    BY <2>1, <2>2
<1>7. new \in Seq(AssignmentKept)
  <2>1. new = [i \in DOMAIN rows |-> new[i]]
    BY DEF EndAssignments, Ids
  <2>2. \A i \in DOMAIN rows : new[i] \in AssignmentKept
    BY <1>6
  <2>3. DOMAIN rows = 1 .. Len(rows) /\ Len(rows) \in Nat
    BY <1>3
  <2>4. new \in [1 .. Len(rows) -> AssignmentKept]
    BY <2>1, <2>2, <2>3
  <2> QED
    BY <2>3, <2>4
<1> PICK T : T = [db.assigned EXCEPT ![s] = new]
  OBVIOUS
<1>8. T \in [Subject -> Seq(AssignmentKept)] /\ AssignedKept(db.assigned, T)
  <2>1. T \in [Subject -> Seq(AssignmentKept)]
    BY <1>1, <1>3, <1>7
  <2>2. ASSUME NEW t \in Subject, NEW i \in Ids(db.assigned[t])
        PROVE  i \in Ids(T[t]) /\ OnlyEnded(db.assigned[t][i], T[t][i])
    <3>1. CASE t = s
      BY <1>1, <1>3, <1>5, <1>6, <3>1 DEF Ids
    <3>2. CASE t # s
      <4>1. T[t] = db.assigned[t]
        BY <1>3, <3>2
      <4> QED
        BY Zenon, <4>1 DEF OnlyEnded
    <3> QED
      BY <3>1, <3>2
  <2> QED
    BY <2>1, <2>2 DEF AssignedKept
<1>9. db' = [db EXCEPT !.assigned = T] => Advances
  BY <1>8, WritesAssigned DEF IInv
<1>10. Writes(q, [db EXCEPT !.assigned = T], in.then, ids)
  BY DEF EndOpen
<1> QED
  BY <1>2, <1>9, <1>10, WriteKeeps

\* The successor is inserted.
LEMMA InsertAssignmentSteps ==
  ASSUME IInv, NEW q \in Requests, InsertAssignment(q)
  PROVE  Step
<1>1. req[q].in.subject \in Subject /\ req[q].in.row \in AssignmentKept
  <2>1. AssignmentSound(req[q]) /\ req[q].at = "assignment.insert"
    BY DEF InsertAssignment, At, IInv, Sound
  <2> QED
    BY <2>1 DEF AssignmentSound
<1> PICK s \in Subject, row \in AssignmentKept : s = req[q].in.subject /\ row = req[q].in.row
  BY <1>1
<1> PICK entry : entry = [action |-> req[q].in.action, ended |-> req[q].read, row |-> row]
  OBVIOUS
<1>2. db.assigned \in [Subject -> Seq(AssignmentKept)]
  BY DEF IInv, TablesInv
<1> PICK new : new = Append(db.assigned[s], row)
  OBVIOUS
<1>3. /\ new \in Seq(AssignmentKept)
      /\ \A i \in Ids(db.assigned[s]) : i \in Ids(new) /\ new[i] = db.assigned[s][i]
  <2>1. PICK rows \in Seq(AssignmentKept) : rows = db.assigned[s]
    BY <1>2
  <2>2. new = Append(rows, row)
    BY <2>1
  <2>3. new \in Seq(AssignmentKept) /\ \A i \in DOMAIN rows : i \in DOMAIN new /\ new[i] = rows[i]
    BY <2>2, Inserted
  <2> QED
    BY <2>1, <2>3 DEF Ids
<1> PICK T : T = [db.assigned EXCEPT ![s] = new]
  OBVIOUS
<1>4. T \in [Subject -> Seq(AssignmentKept)] /\ AssignedKept(db.assigned, T)
  BY <1>1, <1>2, <1>3 DEF AssignedKept, OnlyEnded
<1>5. db' = [db EXCEPT !.assigned = T] => Advances
  BY <1>4, WritesAssigned DEF IInv
<1>6. WritesAudited(q, [db EXCEPT !.assigned = T], entry)
  BY DEF InsertAssignment
<1> QED
  BY <1>5, <1>6, AuditedKeeps

\* An ending without a successor goes on to its audit event.
LEMMA EndedAssignmentsSteps ==
  ASSUME IInv, NEW q \in Requests, EndedAssignments(q)
  PROVE  Step
<1> PICK in, when, entry : /\ in = req[q].in /\ when = req[q].now
                           /\ entry = [action |-> in.action, ended |-> req[q].read, at |-> in.at]
  OBVIOUS
<1>1. Ends(q) \/ Reads(q, "audit", entry)
  BY DEF EndedAssignments
<1>2. when \in 0 .. MaxNow
  BY DEF IInv, Sound
<1>3. Sound(Row("audit", in, when, entry))
  BY <1>2, QuietSound DEF Quiet
<1> QED
  BY <1>1, <1>3, EndSteps, GoesOnKeeps

-----------------------------------------------------------------------------
(* The ledger, ceilings and pins *)

\* Of some events of the ledger there is a latest one, since none is later
\* than the clock may go.
LEMMA LatestIsThere ==
  ASSUME NEW events \in Seq(ActivationKept), NEW mine \in SUBSET Ids(events), mine # {}
  PROVE  \E i \in mine : \A k \in mine : events[k].at <= events[i].at
<1> DEFINE gaps == {MaxNow - events[k].at : k \in mine}
<1>1. \A k \in mine : events[k].at \in Nat /\ events[k].at <= MaxNow
  <2>1. ASSUME NEW k \in mine PROVE events[k] \in ActivationKept
    BY DEF Ids
  <2> QED
    BY <2>1 DEF ActivationKept, ActivationRow
<1>2. MaxNow \in Nat
  BY RequestsAssumption
<1>3. gaps \in SUBSET Nat /\ gaps # {}
  BY <1>1, <1>2
<1>4. PICK d \in gaps : \A e \in gaps : d <= e
  BY <1>3, LeastOfSet
<1>5. PICK i \in mine : d = MaxNow - events[i].at
  OBVIOUS
<1>6. \A k \in mine : MaxNow - events[i].at <= MaxNow - events[k].at
  BY <1>4, <1>5
<1>7. \A k \in mine : events[k].at <= events[i].at
  BY <1>1, <1>2, <1>6
<1> QED
  BY <1>7

\* The pack that the ledger makes operative was activated, and nothing in the
\* ledger is later.
LEMMA DeriveStands ==
  ASSUME NEW events, LedgerInv(events), NEW code, NEW n,
         DeriveActivePack(events, code) # NoVersion
  PROVE  StoodIn(events, code, DeriveActivePack(events, code), n)
<1> DEFINE mine == Ledger(events, code)
           latest == CHOOSE i \in mine : \A j \in mine : events[j].at <= events[i].at
<1>1. mine # {} /\ events[latest].action = "ACTIVATED"
      /\ DeriveActivePack(events, code) = events[latest].pack
  BY DEF DeriveActivePack
<1>2. mine \in SUBSET Ids(events)
  BY DEF Ledger
<1>3. \E i \in mine : \A k \in mine : events[k].at <= events[i].at
  BY <1>1, <1>2, LatestIsThere DEF LedgerInv
<1>4. latest \in mine /\ \A k \in mine : events[k].at <= events[latest].at
  BY <1>3
<1> QED
  BY <1>1, <1>4 DEF StoodIn

\* A version that resolves is one the build has, valid and allowed to govern.
LEMMA ResolvedPack ==
  ASSUME NEW code, NEW version, NEW settings,
         ResolveVersion(Packs, code, version, settings, Environment, Disclosing).ok
  PROVE  MayGovern(version, code)
<1> DEFINE mine == ForJurisdiction(Packs, code)
           found == {i \in mine : Packs[i].version = version}
           first == CHOOSE i \in found : \A j \in found : i <= j
           pack == FirstPack(Packs, found)
<1>1. \A kind : Refused(kind).ok = FALSE
  BY DEF Refused
<1>2. mine # {} /\ found # {} /\ CanResolveExplicitVersion(pack, Environment)
      /\ Policy(pack, settings, Disclosing).ok
  BY <1>1 DEF ResolveVersion
<1>3. ValidatePack(pack, Disclosing) = {}
  BY <1>1, <1>2 DEF Policy
<1>4. DOMAIN Packs \subseteq Nat
  BY JurisdictionAssumption
<1>5. found \in SUBSET Nat
  BY <1>4 DEF ForJurisdiction
<1>6. \E i \in found : \A j \in found : i <= j
  BY <1>2, <1>5, LeastOfSet
<1>7. first \in found
  BY <1>6
<1>8. pack = Packs[first]
  BY DEF FirstPack
<1>9. first \in DOMAIN Packs /\ Packs[first].jurisdiction = code /\ Packs[first].version = version
  BY <1>7 DEF ForJurisdiction
<1> HIDE DEF first, pack
<1> QED
  BY <1>2, <1>3, <1>8, <1>9 DEF MayGovern

\* What is known of the subject's assignment is what a row says.
LEMMA StateIsARow ==
  ASSUME NEW rows \in Seq(AssignmentKept), NEW at,
         NEW state \in EffectiveJurisdictionStates(rows, at)
  PROVE  /\ state.kind \in {"NONE"} \cup VerificationStatus
         /\ state.kind = "VERIFIED" => VerifiedFor(rows, state.code)
<1> DEFINE picked == PickEffectiveAssignment(rows, at)
<1>1. CASE picked = {}
  BY <1>1 DEF EffectiveJurisdictionStates
<1>2. CASE picked # {}
  <2>1. PICK i \in picked : state = [kind |-> rows[i].verified, code |-> rows[i].jurisdiction]
    BY <1>2 DEF EffectiveJurisdictionStates
  <2>2. i \in Ids(rows)
    BY DEF PickEffectiveAssignment
  <2>3. rows[i] \in AssignmentKept
    BY <2>2 DEF Ids
  <2>4. rows[i].verified \in VerificationStatus
    BY <2>3 DEF AssignmentKept, UserAssignmentRow
  <2> QED
    BY <2>1, <2>2, <2>4 DEF VerifiedFor
<1> QED
  BY <1>1, <1>2

\* The statements of the ceiling and pin sources.
CeilingAt == {"ceiling.pack", "pin.pack", "ceiling.answered", "pin.answered"}

\* At these statements nothing else is asked of a request.
LEMMA InCeiling ==
  ASSUME NEW at \in CeilingAt, NEW in, NEW when \in 0 .. MaxNow, NEW read,
         CeilingSound(Row(at, in, when, read), db.assigned["user"], db.ledger)
  PROVE  Sound(Row(at, in, when, read))
BY DEF CeilingAt, Row, Sound, AssignmentSound, SelectionSound, SwitchSound, ExposureSound,
       ResolutionSound

\* ActivatePackVersion and RetirePackVersion begin with an event of the ledger.
LEMMA BeginLedgerSteps ==
  ASSUME IInv, NEW q \in Requests, NEW i \in DOMAIN Packs,
         BeginActivate(q, Packs[i]) \/ BeginRetire(q, Packs[i])
  PROVE  Step
<1> PICK p : p = Packs[i]
  OBVIOUS
<1>1. p.version \in {Packs[k].version : k \in DOMAIN Packs}
  OBVIOUS
<1>2. PICK action \in ActivationAction :
        /\ p.jurisdiction \in DOMAIN Register
        /\ Begins(q, "packs", "ledger.append",
                  [jurisdiction |-> p.jurisdiction, pack |-> p.version, action |-> action,
                   at |-> now], <<>>)
  BY Zenon DEF BeginActivate, BeginRetire, ActivationAction
<1> PICK in : in = [jurisdiction |-> p.jurisdiction, pack |-> p.version, action |-> action,
                    at |-> now]
  OBVIOUS
<1>3. in \in ActivationKept
  BY <1>1, <1>2, RequestsAssumption DEF IInv, RequestsShaped, ActivationKept, ActivationRow
<1>4. AssignmentSound(Row("ledger.append", in, now, <<>>))
  BY <1>3 DEF AssignmentSound, Row
<1>5. Sound(Row("ledger.append", in, now, <<>>))
  BY <1>4, InAssignment DEF AssignmentAt, IInv, RequestsShaped
<1> QED
  BY <1>2, <1>5, BeginKeeps

\* An event is appended where its instant is free.
LEMMA AppendActivationSteps ==
  ASSUME IInv, NEW q \in Requests, AppendActivation(q)
  PROVE  Step
<1>1. req[q].in \in ActivationKept
  <2>1. AssignmentSound(req[q]) /\ req[q].at = "ledger.append"
    BY DEF AppendActivation, At, IInv, Sound
  <2> QED
    BY <2>1 DEF AssignmentSound
<1>0. PICK event, events, new :
        event = req[q].in /\ events = db.ledger /\ new = Append(events, event)
  OBVIOUS
<1>2. events \in Seq(ActivationKept) /\ LedgerInv(events) /\ event \in ActivationKept
  BY <1>0, <1>1 DEF IInv, TablesInv, LedgerInv
<1>3. InstantFree(events, event.jurisdiction, event.at)
  BY <1>0 DEF AppendActivation
<1>4. /\ new \in Seq(ActivationKept) /\ Extends(events, new)
      /\ new[Len(events) + 1] = event
      /\ Ids(new) = Ids(events) \cup {Len(events) + 1} /\ Len(events) + 1 \notin Ids(events)
  BY <1>0, <1>2, AppendExtends
<1>5. \A i \in Ids(events) : new[i] = events[i]
  BY <1>4 DEF Extends
<1>6. \A i \in Ids(events) : ~(events[i].jurisdiction = event.jurisdiction
                               /\ events[i].at = event.at)
  BY <1>3 DEF InstantFree, Ledger
<1>7. ASSUME NEW i \in Ids(new), NEW j \in Ids(new),
             new[i].jurisdiction = new[j].jurisdiction, new[i].at = new[j].at
      PROVE  i = j
  <2>1. CASE i \in Ids(events) /\ j \in Ids(events)
    BY <1>2, <1>5, <1>7, <2>1 DEF LedgerInv
  <2>2. CASE i \in Ids(events) /\ j \notin Ids(events)
    <3>1. new[j] = event /\ new[i] = events[i]
      BY <1>4, <1>5, <2>2
    <3> QED
      BY Zenon, <1>6, <1>7, <2>2, <3>1
  <2>3. CASE i \notin Ids(events) /\ j \in Ids(events)
    <3>1. new[i] = event /\ new[j] = events[j]
      BY <1>4, <1>5, <2>3
    <3> QED
      BY Zenon, <1>6, <1>7, <2>3, <3>1
  <2>4. CASE i \notin Ids(events) /\ j \notin Ids(events)
    BY <1>4, <2>4
  <2> QED
    BY <2>1, <2>2, <2>3, <2>4
<1>8. LedgerInv(new)
  BY <1>4, <1>7 DEF LedgerInv
<1>9. db' = [db EXCEPT !.ledger = new] => Advances
  BY <1>0, <1>4, <1>8, WritesLedger DEF IInv
<1>10. PICK entry : WritesAudited(q, [db EXCEPT !.ledger = new], entry)
  BY <1>0 DEF AppendActivation
<1> QED
  BY <1>9, <1>10, AuditedKeeps

\* A question about the ceiling, or a pin, begins with a row of the subject.
LEMMA BeginCeilingSteps ==
  ASSUME IInv, NEW q \in Requests, BeginCeiling(q) \/ BeginPin(q)
  PROVE  Step
<1>1. PICK state \in EffectiveJurisdictionStates(db.assigned["user"], now),
           at \in {"ceiling.pack", "pin.pack"} :
        Begins(q, "ceilings", at, [began |-> Len(db.ledger)], state)
  BY Zenon DEF BeginCeiling, BeginPin
<1> PICK in : in = [began |-> Len(db.ledger)]
  OBVIOUS
<1>2. db.assigned["user"] \in Seq(AssignmentKept) /\ Len(db.ledger) \in Nat
  BY DEF IInv, TablesInv, LedgerInv, Subject
<1>3. /\ state.kind \in {"NONE"} \cup VerificationStatus
      /\ state.kind = "VERIFIED" => VerifiedFor(db.assigned["user"], state.code)
  BY <1>2, StateIsARow
<1>4. CeilingSound(Row(at, in, now, state), db.assigned["user"], db.ledger)
  BY <1>2, <1>3 DEF CeilingSound, Row
<1>5. Sound(Row(at, in, now, state))
  BY <1>1, <1>4, InCeiling DEF CeilingAt, IInv, RequestsShaped
<1> QED
  BY <1>1, <1>5, BeginKeeps

\* effectivePolicyFor answers with what the ledger makes operative now.
LEMMA AnswerCeilingSteps ==
  ASSUME IInv, NEW q \in Requests, AnswerCeiling(q)
  PROVE  Step
<1> PICK in, when, state, active, value :
      /\ in = req[q].in /\ when = req[q].now /\ state = req[q].read
      /\ active = DeriveActivePack(db.ledger, state.code)
      /\ value = CeilingOf(state, active)
  OBVIOUS
<1> DEFINE rows == db.assigned["user"]
           resolved == ResolveVersion(Packs, state.code, active, NoSettings, Environment,
                                      Disclosing)
<1>1. /\ in.began \in Nat /\ in.began <= Len(db.ledger) /\ when \in 0 .. MaxNow
      /\ state.kind \in {"NONE"} \cup VerificationStatus
      /\ state.kind = "VERIFIED" => VerifiedFor(rows, state.code)
  BY DEF AnswerCeiling, At, IInv, Sound, CeilingSound
<1>2. value.kind # "PINNED"
  BY DEF CeilingOf
<1>3. ASSUME value.kind = "RESOLVED"
      PROVE  /\ value.scope = state.code /\ value.pack = active
             /\ state.kind = "VERIFIED" /\ active # NoVersion /\ resolved.ok
  BY <1>1, <1>3 DEF CeilingOf, VerificationStatus
<1>4. ASSUME value.kind = "RESOLVED"
      PROVE  /\ StoodIn(db.ledger, state.code, active, in.began)
             /\ MayGovern(active, state.code)
  <2>1. StoodIn(db.ledger, state.code, active, in.began)
    BY <1>3, <1>4, DeriveStands DEF IInv, TablesInv
  <2>2. MayGovern(active, state.code)
    BY <1>3, <1>4, ResolvedPack
  <2> QED
    BY <2>1, <2>2
<1>5. CeilingSound(Row("ceiling.answered", in, when, value), rows, db.ledger)
  BY <1>1, <1>2, <1>3, <1>4 DEF CeilingSound, Row
<1>6. Sound(Row("ceiling.answered", in, when, value))
  BY <1>1, <1>5, InCeiling DEF CeilingAt
<1> QED
  BY <1>6, GoesOnKeeps DEF AnswerCeiling

\* resolvePin likewise, for any assignment.
LEMMA AnswerPinSteps ==
  ASSUME IInv, NEW q \in Requests, AnswerPin(q)
  PROVE  Step
<1> PICK in, when, state, active, value :
      /\ in = req[q].in /\ when = req[q].now /\ state = req[q].read
      /\ active = DeriveActivePack(db.ledger, state.code)
      /\ value = [kind |-> IF active = NoVersion THEN "NO_PIN" ELSE "PINNED",
                  scope |-> state.code, pack |-> active]
  OBVIOUS
<1>1. in.began \in Nat /\ in.began <= Len(db.ledger) /\ when \in 0 .. MaxNow
  BY DEF AnswerPin, At, IInv, Sound, CeilingSound
<1>2. value.kind # "RESOLVED" /\ value.scope = state.code /\ value.pack = active
  OBVIOUS
<1>3. ASSUME value.kind = "PINNED"
      PROVE  StoodIn(db.ledger, state.code, active, in.began)
  <2>1. active # NoVersion
    BY <1>3
  <2> QED
    BY <2>1, DeriveStands DEF IInv, TablesInv
<1>4. CeilingSound(Row("pin.answered", in, when, value), db.assigned["user"], db.ledger)
  BY <1>1, <1>2, <1>3 DEF CeilingSound, Row
<1>5. Sound(Row("pin.answered", in, when, value))
  BY <1>1, <1>4, InCeiling DEF CeilingAt
<1> QED
  BY <1>5, GoesOnKeeps DEF AnswerPin

\* Every step of the jurisdiction component preserves the invariant.
LEMMA JurisdictionSteps ==
  ASSUME IInv, JurisdictionNext
  PROVE  Step
<1> PICK q \in Requests :
    \/ \E c \in AssignmentInputs :
         \/ BeginAssignUser(q, c.code, c.source, c.verified, c.from)
         \/ BeginAssignTenant(q, c.code, c.source, c.verified, c.from)
    \/ \E at \in 0 .. MaxNow : BeginEndUser(q, at) \/ BeginEndTenant(q, at)
    \/ \E code \in DOMAIN Register : BeginDeclare(q, code)
    \/ SelectOpen(q) \/ EndOpen(q) \/ InsertAssignment(q) \/ EndedAssignments(q)
    \/ \E i \in DOMAIN Packs : BeginActivate(q, Packs[i]) \/ BeginRetire(q, Packs[i])
    \/ AppendActivation(q)
    \/ BeginCeiling(q) \/ BeginPin(q)
    \/ AnswerCeiling(q) \/ AnswerPin(q) \/ ReturnCeiling(q)
  BY Zenon DEF JurisdictionNext
<1>1. ASSUME NEW c \in AssignmentInputs, NEW subject \in Subject,
             BeginAssign(q, subject, c.code, c.source, c.verified, c.from)
      PROVE  Step
  <2> PICK code, source, verified, from :
        code = c.code /\ source = c.source /\ verified = c.verified /\ from = c.from
    OBVIOUS
  <2>1. /\ code \in DOMAIN Register /\ source \in AssignmentSource
        /\ verified \in VerificationStatus /\ from \in Nat
    BY JurisdictionAssumption
  <2> PICK action : action = "jurisdiction." \o subject \o "_assignment.recorded"
    OBVIOUS
  <2>2. /\ VerificationPermittedForSource(source, verified)
        /\ Begins(q, "assignments", "assignment.select",
                  [subject |-> subject, at |-> from, then |-> "assignment.insert",
                   action |-> action,
                   row |-> [jurisdiction |-> code, source |-> source, verified |-> verified,
                            from |-> from, to |-> Open]], {})
    BY <1>1 DEF BeginAssign
  <2> QED
    BY <2>1, <2>2, BeginAssignSteps
<1>2. "user" \in Subject /\ "tenant" \in Subject
  BY DEF Subject
<1>3. ASSUME NEW c \in AssignmentInputs,
             \/ BeginAssignUser(q, c.code, c.source, c.verified, c.from)
             \/ BeginAssignTenant(q, c.code, c.source, c.verified, c.from)
      PROVE  Step
  BY Zenon, <1>1, <1>2, <1>3 DEF BeginAssignUser, BeginAssignTenant
<1>4. ASSUME NEW at \in 0 .. MaxNow, BeginEndUser(q, at) \/ BeginEndTenant(q, at)
      PROVE  Step
  BY Zenon, <1>2, <1>4, BeginEndSteps DEF BeginEndUser, BeginEndTenant
<1>5. ASSUME ReturnCeiling(q) PROVE Step
  BY <1>5, EndSteps DEF ReturnCeiling
<1> QED
  BY Zenon, <1>3, <1>4, <1>5, BeginDeclareSteps, SelectOpenSteps, EndOpenSteps,
     InsertAssignmentSteps, EndedAssignmentsSteps, BeginLedgerSteps, AppendActivationSteps,
     BeginCeilingSteps, AnswerCeilingSteps, AnswerPinSteps
-----------------------------------------------------------------------------
(* Elections *)

\* The statements of elections and withdrawals.
SelectionAt == {"selection.recheck", "selection.prior", "selection.insert", "selection.withdraw"}

\* At these statements nothing else is asked of a request.
LEMMA InSelection ==
  ASSUME NEW at \in SelectionAt, NEW in, NEW when \in 0 .. MaxNow, NEW read,
         SelectionSound(Row(at, in, when, read), db.selections)
  PROVE  Sound(Row(at, in, when, read))
BY DEF SelectionAt, Row, Sound, AssignmentSound, CeilingSound, SwitchSound, ExposureSound,
       ResolutionSound

\* An election begins with an active row that starts when it was asked for.
LEMMA BeginElectionSteps ==
  ASSUME IInv, NEW q \in Requests, NEW capability \in Elective, NEW profile \in Profiles,
         NEW pack \in DOMAIN OptionSets, NEW to \in {Open} \cup 0 .. MaxNow,
         BeginElection(q, capability, profile, pack, to)
  PROVE  Step
<1> PICK row : row = [capability |-> capability, profile |-> profile, pack |-> pack,
                      from |-> now, to |-> to, status |-> "ACTIVE", withdrawn |-> Open]
  OBVIOUS
<1> PICK in : in = [row |-> row]
  OBVIOUS
<1>1. now \in 0 .. MaxNow /\ now \in Nat /\ to \in Nat \cup {Open}
  BY RequestsAssumption DEF IInv, RequestsShaped
<1>2. row \in SelectionRow /\ row.status = "ACTIVE" /\ row.withdrawn = Open /\ row.from = now
  BY <1>1 DEF SelectionRow, SelectionStatus
<1>3. SelectionSound(Row("selection.recheck", in, now, {}), db.selections)
  BY <1>2 DEF SelectionSound, Row
<1>4. Sound(Row("selection.recheck", in, now, {}))
  BY <1>1, <1>3, InSelection DEF SelectionAt
<1> QED
  BY <1>4, BeginKeeps DEF BeginElection

\* The options are read again, and then the rows that are active: the election
\* stays what it was.
LEMMA ElectionGoesOnSteps ==
  ASSUME IInv, NEW q \in Requests, RecheckOptions(q) \/ SelectPriorActive(q)
  PROVE  Step
<1> PICK in, when : in = req[q].in /\ when = req[q].now
  OBVIOUS
<1>1. PICK at, value :
        /\ at \in {"selection.prior", "selection.insert"}
        /\ req[q].at \in {"selection.recheck", "selection.prior"} /\ Reads(q, at, value)
  BY DEF RecheckOptions, SelectPriorActive, At
<1>2. /\ when \in 0 .. MaxNow /\ in.row \in SelectionRow
      /\ in.row.status = "ACTIVE" /\ in.row.withdrawn = Open /\ in.row.from = when
  BY <1>1 DEF IInv, Sound, SelectionSound
<1>3. SelectionSound(Row(at, in, when, value), db.selections)
  BY <1>1, <1>2 DEF SelectionSound, Row
<1>4. Sound(Row(at, in, when, value))
  BY <1>1, <1>2, <1>3, InSelection DEF SelectionAt
<1> QED
  BY <1>1, <1>4, GoesOnKeeps

\* A row that is superseded was active, and was not withdrawn.
LEMMA SupersededKept ==
  ASSUME NEW row \in SelectionKept, SelectionMayBecome(row.status, "SUPERSEDED"),
         NEW new, new = [row EXCEPT !.status = "SUPERSEDED"]
  PROVE  new \in SelectionKept /\ SameElection(row, new) /\ new.withdrawn = row.withdrawn
<1>1. row \in SelectionRow /\ (row.status = "WITHDRAWN") = (row.withdrawn # Open)
  BY DEF SelectionKept
<1>2. row.status = "ACTIVE"
  BY DEF SelectionMayBecome
<1>3. /\ new \in SelectionRow /\ new.status = "SUPERSEDED" /\ new.withdrawn = row.withdrawn
      /\ SameElection(row, new)
  BY <1>1 DEF SelectionRow, SelectionStatus, SameElection
<1>4. row.withdrawn = Open
  BY <1>1, <1>2
<1> QED
  BY <1>3, <1>4 DEF SelectionKept

\* An election supersedes the rows that it read and that still are active.
LEMMA RecordSelectionSteps ==
  ASSUME IInv, NEW q \in Requests, RecordSelection(q)
  PROVE  Step
<1> PICK rows, row, prior, kept, new, when :
      /\ rows = db.selections /\ row = req[q].in.row /\ prior = req[q].read
      /\ kept = Superseding(rows, prior) /\ new = Append(kept, row) /\ when = req[q].now
  OBVIOUS
<1>1. rows \in Seq(SelectionKept)
  BY DEF IInv, TablesInv
<1>2. SelectionSound(req[q], rows) /\ req[q].at = "selection.insert"
  BY DEF RecordSelection, At, IInv, Sound
<1>3. row \in SelectionRow /\ row.status = "ACTIVE" /\ row.withdrawn = Open /\ row.from = when
  BY <1>2 DEF SelectionSound
<1>4. row \in SelectionKept
  BY <1>3 DEF SelectionKept
<1>5. \A i \in prior : SelectionMayBecome(rows[i].status, "SUPERSEDED")
  BY DEF RecordSelection
<1>6. /\ DOMAIN kept = DOMAIN rows
      /\ \A i \in DOMAIN rows :
           kept[i] = IF i \in prior THEN [rows[i] EXCEPT !.status = "SUPERSEDED"] ELSE rows[i]
  BY DEF Superseding, Ids
<1>7. ASSUME NEW i \in DOMAIN rows
      PROVE  /\ kept[i] \in SelectionKept /\ SameElection(rows[i], kept[i])
             /\ kept[i].withdrawn = rows[i].withdrawn
  <2>1. rows[i] \in SelectionKept
    BY <1>1
  <2>2. CASE i \in prior
    BY <1>5, <1>6, <2>1, <2>2, SupersededKept
  <2>3. CASE i \notin prior
    <3>1. kept[i] = rows[i]
      BY <1>6, <2>3
    <3> QED
      BY <2>1, <3>1 DEF SameElection
  <2> QED
    BY <2>2, <2>3
<1>8. kept \in Seq(SelectionKept)
  <2>1. DOMAIN rows = 1 .. Len(rows) /\ Len(rows) \in Nat
    BY <1>1
  <2>2. kept = [i \in DOMAIN rows |-> kept[i]]
    BY DEF Superseding, Ids
  <2>3. kept \in [1 .. Len(rows) -> SelectionKept]
    BY <1>7, <2>1, <2>2
  <2> QED
    BY <2>1, <2>3
<1>9. /\ new \in Seq(SelectionKept)
      /\ Ids(new) = Ids(kept) \cup {Len(kept) + 1}
      /\ new[Len(kept) + 1] = row
      /\ \A i \in Ids(kept) : new[i] = kept[i]
  BY <1>4, <1>8, Inserted DEF Ids
<1>10. ElectedAt(rows, new, when)
  <2>1. ASSUME NEW i \in Ids(rows)
        PROVE  /\ i \in Ids(new) /\ SameElection(rows[i], new[i])
               /\ new[i].withdrawn = rows[i].withdrawn
    BY <1>6, <1>7, <1>9 DEF Ids
  <2>2. ASSUME NEW i \in Ids(new) \ Ids(rows)
        PROVE  new[i].from = when
    BY <1>3, <1>6, <1>9 DEF Ids
  <2> QED
    BY <2>1, <2>2 DEF ElectedAt
<1>11. db' = [db EXCEPT !.selections = new] => Advances
  BY <1>2, <1>9, <1>10, WritesSelections DEF IInv
<1> PICK entry : entry = [action |-> "subjectpolicy.selection.recorded",
                          id |-> Len(rows) + 1, superseded |-> prior]
  OBVIOUS
<1>12. WritesAudited(q, [db EXCEPT !.selections = new], entry)
  BY DEF RecordSelection
<1> QED
  BY <1>11, <1>12, AuditedKeeps

\* A withdrawal begins with a row of the table.
LEMMA BeginWithdrawSelectionSteps ==
  ASSUME IInv, NEW q \in Requests, NEW i \in Ids(db.selections), BeginWithdrawSelection(q, i)
  PROVE  Step
<1> PICK in : in = [id |-> i]
  OBVIOUS
<1>1. SelectionSound(Row("selection.withdraw", in, now, {}), db.selections)
  BY DEF SelectionSound, Row
<1>2. Sound(Row("selection.withdraw", in, now, {}))
  BY <1>1, InSelection DEF SelectionAt, IInv, RequestsShaped
<1> QED
  BY <1>2, BeginKeeps DEF BeginWithdrawSelection

\* The row leaves ACTIVE, at the time the withdrawal was asked for.
LEMMA WithdrawSelectionSteps ==
  ASSUME IInv, NEW q \in Requests, WithdrawSelection(q)
  PROVE  Step
<1> PICK rows, i, at : rows = db.selections /\ i = req[q].in.id /\ at = req[q].now
  OBVIOUS
<1>0. PICK row, gone, new :
      /\ row = rows[i]
      /\ gone = [[row EXCEPT !.status = "WITHDRAWN"] EXCEPT !.withdrawn = at]
      /\ new = [rows EXCEPT ![i] = gone]
  OBVIOUS
<1>1. rows \in Seq(SelectionKept)
  BY DEF IInv, TablesInv
<1>2. SelectionSound(req[q], rows) /\ req[q].at = "selection.withdraw" /\ at \in Nat
  BY RequestsAssumption DEF WithdrawSelection, At, IInv, Sound
<1>3. i \in Ids(rows)
  BY <1>2 DEF SelectionSound
<1>4. row \in SelectionKept /\ SelectionMayBecome(row.status, "WITHDRAWN")
  BY <1>1, <1>3, <1>0 DEF WithdrawSelection, Ids
<1>5. /\ gone \in SelectionKept /\ SameElection(row, gone)
      /\ row.withdrawn = Open /\ gone.withdrawn = at
  <2>1. row \in SelectionRow /\ (row.status = "WITHDRAWN") = (row.withdrawn # Open)
    BY <1>4 DEF SelectionKept
  <2>2. row.status = "ACTIVE"
    BY <1>4 DEF SelectionMayBecome
  <2>3. /\ gone \in SelectionRow /\ gone.status = "WITHDRAWN" /\ gone.withdrawn = at
        /\ SameElection(row, gone)
    BY <1>2, <1>0, <2>1 DEF SelectionRow, SelectionStatus, SameElection
  <2>4. row.withdrawn = Open /\ at # Open
    BY <1>2, <2>1, <2>2 DEF Open
  <2> QED
    BY <2>3, <2>4 DEF SelectionKept
<1>6. /\ new \in Seq(SelectionKept) /\ Ids(new) = Ids(rows)
      /\ \A j \in Ids(rows) : new[j] = IF j = i THEN gone ELSE rows[j]
  BY <1>1, <1>3, <1>5, <1>0, Updated DEF Ids
<1>7. ElectedAt(rows, new, at)
  <2>1. ASSUME NEW j \in Ids(rows)
        PROVE  /\ j \in Ids(new) /\ SameElection(rows[j], new[j])
               /\ \/ new[j].withdrawn = rows[j].withdrawn
                  \/ rows[j].withdrawn = Open /\ new[j].withdrawn = at
    BY <1>5, <1>6, <1>0 DEF SameElection
  <2> QED
    BY <1>6, <2>1 DEF ElectedAt
<1>8. db' = [db EXCEPT !.selections = new] => Advances
  BY <1>2, <1>6, <1>7, WritesSelections DEF IInv
<1>9. [db EXCEPT !.selections[i].status = "WITHDRAWN", !.selections[i].withdrawn = at]
        = [db EXCEPT !.selections = new]
  <2>1. DOMAIN db = Fields /\ i \in DOMAIN rows
    BY <1>3 DEF IInv, TablesInv, Ids
  <2> QED
    BY <1>0, <2>1 DEF Fields
<1> PICK entry : entry = [action |-> "subjectpolicy.selection.withdrawn", id |-> i]
  OBVIOUS
<1>10. WritesAudited(q, [db EXCEPT !.selections = new], entry)
  BY <1>9 DEF WithdrawSelection
<1> QED
  BY <1>8, <1>10, AuditedKeeps

\* A view of the own selection holds nothing that could turn unsound.
LEMMA BeginGetOwnSteps ==
  ASSUME IInv, NEW q \in Requests, NEW capability, NEW at, BeginGetOwn(q, capability, at)
  PROVE  Step
<1>1. PICK r : Begins(q, "selections", "selection.view", [capability |-> capability, at |-> at], r)
  BY DEF BeginGetOwn
<1> PICK in : in = [capability |-> capability, at |-> at]
  OBVIOUS
<1>2. Sound(Row("selection.view", in, now, r))
  BY QuietSound DEF Quiet, IInv, RequestsShaped
<1> QED
  BY <1>1, <1>2, BeginKeeps

\* Every step of the subject policy component preserves the invariant.
LEMMA SubjectPolicySteps ==
  ASSUME IInv, SubjectPolicyNext
  PROVE  Step
<1> PICK q \in Requests :
    \/ \E c \in Elective, profile \in Profiles, p \in DOMAIN OptionSets,
         to \in {Open} \cup 0 .. MaxNow : BeginElection(q, c, profile, p, to)
    \/ \E i \in Ids(db.selections) : BeginWithdrawSelection(q, i)
    \/ \E c \in Elective, at \in 0 .. MaxNow : BeginGetOwn(q, c, at)
    \/ RecheckOptions(q) \/ SelectPriorActive(q) \/ RecordSelection(q)
    \/ WithdrawSelection(q) \/ GetOwnSelection(q)
  BY Zenon DEF SubjectPolicyNext
<1>1. ASSUME GetOwnSelection(q) PROVE Step
  BY <1>1, EndSteps DEF GetOwnSelection
<1> QED
  BY Zenon, <1>1, BeginElectionSteps, BeginWithdrawSelectionSteps, BeginGetOwnSteps,
     ElectionGoesOnSteps, RecordSelectionSteps, WithdrawSelectionSteps
-----------------------------------------------------------------------------
(* Kill switches *)

\* The statements of operators and guarded calls.
SwitchAt == {"switch.operate", "switch.check", "admitted"}

\* At these statements nothing else is asked of a request.
LEMMA InSwitch ==
  ASSUME NEW at \in SwitchAt, NEW in, NEW when \in 0 .. MaxNow, NEW read,
         SwitchSound(Row(at, in, when, read), db.switchHistory)
  PROVE  Sound(Row(at, in, when, read))
BY DEF SwitchAt, Row, Sound, AssignmentSound, CeilingSound, SelectionSound, ExposureSound,
       ResolutionSound

\* An operator names the version that was read.
LEMMA BeginOperateSteps ==
  ASSUME IInv, NEW q \in Requests, NEW id \in KillSwitchId, NEW state \in SwitchState,
         NEW expires \in {Open} \cup 0 .. MaxNow, BeginOperate(q, id, state, expires)
  PROVE  Step
<1> PICK in, read : in = [id |-> id, state |-> state, expires |-> expires]
                    /\ read = db.switches[id].version
  OBVIOUS
<1>1. expires \in Nat \cup {Open}
  BY RequestsAssumption
<1>2. SwitchSound(Row("switch.operate", in, now, read), db.switchHistory)
  BY <1>1 DEF SwitchSound, Row
<1>3. Sound(Row("switch.operate", in, now, read))
  BY <1>2, InSwitch DEF SwitchAt, IInv, RequestsShaped
<1> QED
  BY <1>3, BeginKeeps DEF BeginOperate

\* One version more of one switch: the history keeps the last of every switch.
LEMMA SwitchVersioned ==
  ASSUME NEW switches, NEW history, SwitchesInv(switches, history), NEW id \in KillSwitchId,
         NEW row \in SwitchRow, row.version = switches[id].version + 1
  PROVE  SwitchesInv([switches EXCEPT ![id] = row], Append(history, [id |-> id, row |-> row]))
<1>0. PICK T, event, H, n :
        /\ T = [switches EXCEPT ![id] = row] /\ event = [id |-> id, row |-> row]
        /\ H = Append(history, event) /\ n = Len(history)
  OBVIOUS
<1>1. /\ switches \in [KillSwitchId -> SwitchRow] /\ history \in Seq(SwitchEvent)
      /\ \A i, j \in DOMAIN history :
           i < j /\ history[i].id = history[j].id => history[i].row.version < history[j].row.version
      /\ \A i \in DOMAIN history : history[i].row.version <= switches[history[i].id].version
      /\ \A s \in KillSwitchId : switches[s] = LastOf(history, s, n)
  BY <1>0 DEF SwitchesInv
<1>2. event \in SwitchEvent /\ event.id = id /\ event.row = row
  BY <1>0 DEF SwitchEvent
<1>3. /\ H \in Seq(SwitchEvent) /\ n \in Nat /\ DOMAIN history = 1 .. n
      /\ DOMAIN H = DOMAIN history \cup {n + 1} /\ H[n + 1] = event
      /\ \A i \in DOMAIN history : H[i] = history[i]
  BY <1>0, <1>1, <1>2, Inserted
<1>4. /\ T \in [KillSwitchId -> SwitchRow] /\ T[id] = row
      /\ \A s \in KillSwitchId : s # id => T[s] = switches[s]
  BY <1>0, <1>1
<1>5. \A s \in KillSwitchId : switches[s].version \in Nat
  BY <1>1 DEF SwitchRow
<1>6. \A i \in DOMAIN history : history[i].id \in KillSwitchId /\ history[i].row.version \in Nat
  <2>1. ASSUME NEW i \in DOMAIN history PROVE history[i] \in SwitchEvent
    BY <1>1
  <2> QED
    BY <2>1 DEF SwitchEvent, SwitchRow
<1>7. ASSUME NEW i \in DOMAIN H, NEW j \in DOMAIN H, i < j, H[i].id = H[j].id
      PROVE  H[i].row.version < H[j].row.version
  <2>1. i \in DOMAIN history /\ H[i] = history[i]
    BY <1>3, <1>7
  <2>2. CASE j \in DOMAIN history
    BY <1>1, <1>3, <1>7, <2>1, <2>2
  <2>3. CASE j = n + 1
    <3>1. history[i].id = id /\ H[j].row = row
      BY <1>2, <1>3, <1>7, <2>1, <2>3
    <3>2. history[i].row.version <= switches[id].version
      BY <1>1, <2>1, <3>1
    <3> QED
      BY <1>5, <1>6, <2>1, <3>1, <3>2
  <2> QED
    BY <1>3, <2>2, <2>3
<1>8. ASSUME NEW i \in DOMAIN H
      PROVE  H[i].row.version <= T[H[i].id].version
  <2>1. CASE i \in DOMAIN history
    <3>1. H[i] = history[i] /\ history[i].row.version <= switches[history[i].id].version
      BY <1>1, <1>3, <2>1
    <3>2. CASE history[i].id = id
      BY <1>4, <1>5, <1>6, <2>1, <3>1, <3>2
    <3>3. CASE history[i].id # id
      BY <1>4, <1>6, <2>1, <3>1, <3>3
    <3> QED
      BY <3>2, <3>3
  <2>2. CASE i = n + 1
    BY <1>2, <1>3, <1>4, <1>5, <2>2
  <2> QED
    BY <1>3, <2>1, <2>2
<1>9. ASSUME NEW s \in KillSwitchId
      PROVE  T[s] = LastOf(H, s, Len(H))
  <2>1. LastOf(H, s, Len(H)) = IF event.id = s THEN event.row ELSE LastOf(history, s, n)
    BY <1>0, <1>1, <1>2, LastOfAppended
  <2> QED
    BY <1>1, <1>2, <1>4, <2>1
<1>10. SwitchesInv(T, H)
  BY <1>3, <1>4, <1>7, <1>8, <1>9 DEF SwitchesInv
<1> QED
  BY <1>0, <1>10

\* A version is written over the one that was read, if it holds still.
LEMMA OperateSteps ==
  ASSUME IInv, NEW q \in Requests, OperateKillSwitch(q)
  PROVE  Step
<1>1. SwitchSound(req[q], db.switchHistory) /\ req[q].at = "switch.operate" /\ req[q].now \in Nat
  BY RequestsAssumption DEF OperateKillSwitch, At, IInv, Sound
<1> PICK id, in, read, when :
      id = in.id /\ in = req[q].in /\ read = req[q].read /\ when = req[q].now
  OBVIOUS
<1>2. id \in KillSwitchId /\ in.state \in SwitchState /\ in.expires \in Nat \cup {Open}
  BY <1>1 DEF SwitchSound
<1> PICK row : row = [state |-> in.state, version |-> read + 1, from |-> when,
                      expires |-> in.expires]
  OBVIOUS
<1> PICK T, H : T = [db.switches EXCEPT ![id] = row]
                /\ H = Append(db.switchHistory, [id |-> id, row |-> row])
  OBVIOUS
<1>3. SwitchesInv(db.switches, db.switchHistory) /\ DOMAIN db = Fields
  BY DEF IInv, TablesInv
<1>4. db.switches[id] \in SwitchRow
  BY <1>2, <1>3 DEF SwitchesInv
<1>5. db.switches[id].version = read
  BY DEF OperateKillSwitch, VersionHolds
<1>6. row \in SwitchRow /\ row.version = db.switches[id].version + 1
  BY <1>1, <1>2, <1>4, <1>5 DEF SwitchRow
<1>7. SwitchesInv(T, H)
  BY <1>2, <1>3, <1>6, SwitchVersioned
<1>8. Extends(db.switchHistory, H)
  <2>1. db.switchHistory \in Seq(SwitchEvent) /\ [id |-> id, row |-> row] \in SwitchEvent
    BY <1>2, <1>3, <1>6 DEF SwitchesInv, SwitchEvent
  <2> QED
    BY <2>1, AppendExtends
<1>9. db' = [db EXCEPT !.switches = T, !.switchHistory = H] => Advances
  BY <1>7, <1>8, WritesSwitches DEF IInv
<1> PICK entry : entry = [action |-> "controlplane.killswitch." \o in.state, id |-> id,
                          version |-> row.version]
  OBVIOUS
<1>10. [db EXCEPT !.switches[id] = row,
                  !.switchHistory = Append(@, [id |-> id, row |-> row])]
         = [db EXCEPT !.switches = T, !.switchHistory = H]
  BY <1>3 DEF Fields
<1>11. WritesAudited(q, [db EXCEPT !.switches = T, !.switchHistory = H], entry)
  BY <1>10 DEF OperateKillSwitch
<1> QED
  BY <1>9, <1>11, AuditedKeeps

\* A guarded call begins with the last version of its switch.
LEMMA BeginGuardedSteps ==
  ASSUME IInv, NEW q \in Requests, NEW id \in KillSwitchId, BeginGuardedCall(q, id)
  PROVE  Step
<1> PICK history, n, in, read : /\ history = db.switchHistory /\ n = Len(history)
                                /\ in = [id |-> id, seen |-> n] /\ read = db.switches[id]
  OBVIOUS
<1>1. history \in Seq(SwitchEvent) /\ read = LastOf(history, id, n)
  BY DEF IInv, TablesInv, SwitchesInv
<1>2. n \in Nat
  BY <1>1
<1>3. SeenSince(history, id, n, read)
  BY <1>1, <1>2 DEF SeenSince
<1>4. SwitchSound(Row("switch.check", in, now, read), history)
  BY <1>2, <1>3 DEF SwitchSound, Row
<1>5. Sound(Row("switch.check", in, now, read))
  BY <1>4, InSwitch DEF SwitchAt, IInv, RequestsShaped
<1> QED
  BY <1>5, BeginKeeps DEF BeginGuardedCall

\* The call is admitted where the version it read does not restrict it now.
LEMMA CheckSteps ==
  ASSUME IInv, NEW q \in Requests, CheckKillSwitch(q)
  PROVE  Step
<1> PICK in, when, read, value : /\ in = req[q].in /\ when = req[q].now /\ read = req[q].read
                                 /\ value = [row |-> read, at |-> now]
  OBVIOUS
<1>1. SwitchSound(req[q], db.switchHistory) /\ req[q].at = "switch.check" /\ when \in 0 .. MaxNow
  BY DEF CheckKillSwitch, At, IInv, Sound
<1>2. /\ in.seen \in Nat /\ in.seen <= Len(db.switchHistory)
      /\ SeenSince(db.switchHistory, in.id, in.seen, read)
  BY <1>1 DEF SwitchSound
<1>3. CASE Restricted(read, now)
  BY <1>3, EndSteps DEF CheckKillSwitch
<1>4. CASE ~Restricted(read, now)
  <2>1. SwitchSound(Row("admitted", in, when, value), db.switchHistory)
    BY <1>2, <1>4 DEF SwitchSound, Row
  <2>2. Sound(Row("admitted", in, when, value))
    BY <1>1, <2>1, InSwitch DEF SwitchAt
  <2> QED
    BY <1>4, <2>2, GoesOnKeeps DEF CheckKillSwitch
<1> QED
  BY <1>3, <1>4

\* Every step of the control plane preserves the invariant.
LEMMA KillSwitchSteps ==
  ASSUME IInv, KillSwitchesNext
  PROVE  Step
<1> PICK q \in Requests :
    \/ \E id \in KillSwitchId, state \in SwitchState, expires \in {Open} \cup 0 .. MaxNow :
         BeginOperate(q, id, state, expires)
    \/ \E id \in KillSwitchId : BeginGuardedCall(q, id)
    \/ OperateKillSwitch(q) \/ CheckKillSwitch(q) \/ FinishGuarded(q)
  BY Zenon DEF KillSwitchesNext
<1>1. ASSUME FinishGuarded(q) PROVE Step
  BY <1>1, EndSteps DEF FinishGuarded
<1> QED
  BY Zenon, <1>1, BeginOperateSteps, BeginGuardedSteps, OperateSteps, CheckSteps
-----------------------------------------------------------------------------
(* Exposure: availability and entitlements *)

\* The event is of a row that is new, or of a later version of one that is not.
NewVersion(rows, new, event) ==
  /\ Ids(new) = Ids(rows) \cup {event.id}
  /\ \A i \in Ids(rows) : i # event.id => new[i] = rows[i]
  /\ new[event.id] = event.row
  /\ \A i \in Ids(rows) : rows[i].version \in Nat
  /\ event.row.version \in Nat
  /\ event.id \in Ids(rows) => rows[event.id].version < event.row.version

\* A version more of one row: the history keeps the last of every row.
LEMMA VersionWritten ==
  ASSUME NEW rows, NEW new, NEW history, NEW event \in HistoryEvent, HistoryInv(history),
         Accounted(rows, history, event.table), NewVersion(rows, new, event)
  PROVE  /\ HistoryInv(Append(history, event)) /\ Extends(history, Append(history, event))
         /\ Accounted(new, Append(history, event), event.table)
<1>1. history \in Seq(HistoryEvent) /\ InOrder(history)
  BY DEF HistoryInv
<1>11. WrittenLast(Append(history, event), event.table, event.id,
                   Len(Append(history, event))) = {event.row}
  BY Zenon, <1>1, WrittenLastAppended
<1> PICK H, n, table, id : /\ H = Append(history, event) /\ n = Len(history)
                           /\ table = event.table /\ id = event.id
  OBVIOUS
<1>12. /\ Ids(new) = Ids(rows) \cup {id} /\ new[id] = event.row
       /\ \A i \in Ids(rows) : i # id => new[i] = rows[i]
       /\ \A i \in Ids(rows) : rows[i].version \in Nat
       /\ new[id].version \in Nat
       /\ id \in Ids(rows) => rows[id].version < new[id].version
  BY DEF NewVersion
<1>2. /\ H \in Seq(HistoryEvent) /\ n \in Nat /\ DOMAIN history = 1 .. n
      /\ DOMAIN H = DOMAIN history \cup {n + 1} /\ H[n + 1] = event
      /\ \A i \in DOMAIN history : H[i] = history[i]
  BY <1>1, Inserted
<1>3. \A i \in DOMAIN history : history[i].row.version \in Nat
  <2>1. ASSUME NEW i \in DOMAIN history PROVE history[i] \in HistoryEvent
    BY <1>1
  <2> QED
    BY <2>1 DEF HistoryEvent, AvailabilityRow, EntitlementRow
<1>4. \A i \in DOMAIN history : history[i].table = table =>
        /\ history[i].id \in Ids(rows)
        /\ history[i].row.version <= rows[history[i].id].version
  BY DEF Accounted
<1>5. ASSUME NEW i \in DOMAIN H, NEW j \in DOMAIN H, i < j,
             H[i].table = H[j].table, H[i].id = H[j].id
      PROVE  H[i].row.version < H[j].row.version
  <2>1. i \in DOMAIN history /\ H[i] = history[i]
    BY <1>2, <1>5
  <2>2. CASE j \in DOMAIN history
    BY <1>1, <1>2, <1>5, <2>1, <2>2 DEF InOrder
  <2>3. CASE j = n + 1
    <3>1. history[i].table = table /\ history[i].id = id /\ H[j].row = new[id]
      BY <1>2, <1>5, <1>12, <2>1, <2>3
    <3>2. id \in Ids(rows) /\ history[i].row.version <= rows[id].version
      BY <1>4, <2>1, <3>1
    <3> QED
      BY <1>3, <1>12, <2>1, <3>1, <3>2
  <2> QED
    BY <1>2, <2>2, <2>3
<1>6. HistoryInv(H)
  BY <1>2, <1>5 DEF HistoryInv, InOrder
<1>7. ASSUME NEW i \in DOMAIN H, H[i].table = table
      PROVE  H[i].id \in Ids(new) /\ H[i].row.version <= new[H[i].id].version
  <2>1. CASE i \in DOMAIN history
    <3>1. /\ H[i] = history[i] /\ history[i].id \in Ids(rows)
          /\ history[i].row.version <= rows[history[i].id].version
      BY <1>2, <1>4, <1>7, <2>1
    <3>2. CASE history[i].id = id
      BY <1>3, <1>12, <2>1, <3>1, <3>2
    <3>3. CASE history[i].id # id
      BY <1>12, <3>1, <3>3
    <3> QED
      BY <3>2, <3>3
  <2>2. CASE i = n + 1
    BY <1>2, <1>12, <2>2
  <2> QED
    BY <1>2, <2>1, <2>2
<1>8. ASSUME NEW i \in Ids(new)
      PROVE  WrittenLast(H, table, i, Len(H)) = {new[i]}
  <2>1. CASE i = id
    BY <1>11, <1>12, <2>1
  <2>2. CASE i # id
    <3>1. i \in Ids(rows) /\ new[i] = rows[i]
      BY <1>12, <2>2
    <3>2. WrittenLast(history, table, i, n) = {rows[i]}
      BY <3>1 DEF Accounted
    <3>3. WrittenLast(H, table, i, Len(H)) = WrittenLast(history, table, i, n)
      BY <1>1, <2>2, WrittenLastBefore
    <3> QED
      BY <3>1, <3>2, <3>3
  <2> QED
    BY <2>1, <2>2
<1>9. Accounted(new, H, table)
  BY <1>7, <1>8 DEF Accounted
<1>10. Extends(history, H)
  BY <1>1, AppendExtends
<1> QED
  BY <1>6, <1>9, <1>10

\* The event of one table says nothing of the other.
LEMMA OtherAccounted ==
  ASSUME NEW rows, NEW history, NEW table, NEW event \in HistoryEvent, HistoryInv(history),
         Accounted(rows, history, table), event.table # table
  PROVE  Accounted(rows, Append(history, event), table)
<1> PICK H, n : H = Append(history, event) /\ n = Len(history)
  OBVIOUS
<1>1. history \in Seq(HistoryEvent)
  BY DEF HistoryInv
<1>2. /\ DOMAIN H = DOMAIN history \cup {n + 1} /\ H[n + 1] = event
      /\ \A i \in DOMAIN history : H[i] = history[i]
  BY <1>1, Inserted
<1>3. ASSUME NEW i \in DOMAIN H, H[i].table = table
      PROVE  H[i].id \in Ids(rows) /\ H[i].row.version <= rows[H[i].id].version
  <2>1. i \in DOMAIN history /\ H[i] = history[i]
    BY <1>2, <1>3
  <2> QED
    BY <1>3, <2>1 DEF Accounted
<1>4. ASSUME NEW i \in Ids(rows)
      PROVE  WrittenLast(H, table, i, Len(H)) = {rows[i]}
  <2>1. WrittenLast(H, table, i, Len(H)) = WrittenLast(history, table, i, n)
    BY <1>1, WrittenLastBefore
  <2> QED
    BY <2>1 DEF Accounted
<1> QED
  BY <1>3, <1>4 DEF Accounted

\* The statements of availability and entitlement writes.
ExposureAt ==
  {"availability.insert", "availability.update", "entitlement.insert", "entitlement.update"}

\* At these statements nothing else is asked of a request.
LEMMA InExposure ==
  ASSUME NEW at \in ExposureAt, NEW in, NEW when \in 0 .. MaxNow, NEW read,
         ExposureSound(Row(at, in, when, read), db.availability, db.entitlements)
  PROVE  Sound(Row(at, in, when, read))
BY DEF ExposureAt, Row, Sound, AssignmentSound, CeilingSound, SelectionSound, SwitchSound,
       ResolutionSound

\* findExact finds a row of exactly what is asked for.
LEMMA ExactIsOne ==
  ASSUME NEW environment, NEW scope, NEW capability,
         NEW i \in FindExact(environment, scope, capability), i # 0
  PROVE  /\ i \in Ids(db.availability)
         /\ db.availability[i].environment = environment /\ db.availability[i].scope = scope
         /\ db.availability[i].capability = capability
BY DEF FindExact, Newest

\* What an operator sets is a row of the table, or is refused and audited.
LEMMA BeginSetAvailabilitySteps ==
  ASSUME IInv, NEW q \in Requests, NEW environment \in Environments,
         NEW scope \in Scopes \cup {EveryScope}, NEW capability \in Capabilities,
         NEW state \in AvailabilityState, NEW expected,
         BeginSetAvailability(q, environment, scope, capability, state, expected)
  PROVE  Step
<1> PICK in : in = [environment |-> environment, scope |-> scope, capability |-> capability,
                    state |-> state, expected |-> expected]
  OBVIOUS
<1>1. CASE MaySet(capability, environment, scope, state)
  <2>1. PICK found \in FindExact(environment, scope, capability) :
          Begins(q, "availability",
                 IF found = 0 THEN "availability.insert" ELSE "availability.update", in, found)
    BY <1>1 DEF BeginSetAvailability
  <2> PICK at : at = IF found = 0 THEN "availability.insert" ELSE "availability.update"
    OBVIOUS
  <2>2. at = "availability.update" =>
          found \in Ids(db.availability) /\ SameExposure(in, db.availability[found])
    BY ExactIsOne DEF SameExposure
  <2>3. ExposureSound(Row(at, in, now, found), db.availability, db.entitlements)
    BY <1>1, <2>2 DEF ExposureSound, Row
  <2>4. Sound(Row(at, in, now, found))
    BY <2>3, InExposure DEF ExposureAt, IInv, RequestsShaped
  <2> QED
    BY <2>1, <2>4, BeginKeeps
<1>2. CASE ~MaySet(capability, environment, scope, state)
  <2> PICK entry : entry = [action |-> "capability.availability.set", outcome |-> "DENIED",
                            capability |-> capability, state |-> state]
    OBVIOUS
  <2>1. Begins(q, "availability", "audit", in, entry)
    BY <1>2 DEF BeginSetAvailability
  <2>2. Sound(Row("audit", in, now, entry))
    BY QuietSound DEF Quiet, IInv, RequestsShaped
  <2> QED
    BY <2>1, <2>2, BeginKeeps
<1> QED
  BY <1>1, <1>2

\* A version of an availability row was written, and its event by the trigger.
LEMMA AvailabilityWritten ==
  ASSUME IInv, NEW q \in Requests, NEW id, NEW row \in AvailabilityKept, NEW new,
         new \in Seq(AvailabilityKept), new[id] = row, Ids(new) = Ids(db.availability) \cup {id},
         id \in Nat,
         \A i \in Ids(db.availability) : i # id => new[i] = db.availability[i],
         id \in Ids(db.availability) =>
           /\ db.availability[id].version < row.version
           /\ SameExposure(db.availability[id], row),
         NEW action,
         WritesVersion(q, [db EXCEPT !.availability = new], "availability", id, row, action)
  PROVE  Step
<1> PICK rows, history, event :
      /\ rows = db.availability /\ history = db.history
      /\ event = Versioned("availability", id, row)
  OBVIOUS
<1>0. PICK H : H = Append(history, event)
  OBVIOUS
<1>1. /\ AvailabilityInv(rows, history) /\ EntitlementInv(db.entitlements, history)
      /\ HistoryInv(history) /\ DOMAIN db = Fields
  BY DEF IInv, TablesInv
<1>2. rows \in Seq(AvailabilityKept) /\ Accounted(rows, history, "availability")
  BY <1>1 DEF AvailabilityInv
<1>3. event \in HistoryEvent /\ event.table = "availability" /\ event.id = id /\ event.row = row
  BY DEF HistoryEvent, Versioned, AvailabilityKept
<1>4. /\ \A i \in Ids(rows) : rows[i].version \in Nat
      /\ row.version \in Nat
  <2>1. ASSUME NEW i \in Ids(rows) PROVE rows[i] \in AvailabilityKept
    BY <1>2 DEF Ids
  <2> QED
    BY <2>1 DEF AvailabilityKept, AvailabilityRow
<1>5. /\ HistoryInv(H) /\ Extends(history, H)
      /\ Accounted(new, H, "availability")
  <2>1. NewVersion(rows, new, event)
    BY <1>3, <1>4 DEF NewVersion
  <2>2. /\ HistoryInv(Append(history, event)) /\ Extends(history, Append(history, event))
        /\ Accounted(new, Append(history, event), event.table)
    BY Zenon, <1>1, <1>2, <1>3, <2>1, VersionWritten
  <2> QED
    BY <1>0, <1>3, <2>2
<1>6. EntitlementInv(db.entitlements, H)
  BY <1>0, <1>1, <1>3, OtherAccounted DEF EntitlementInv
<1>7. /\ DOMAIN H = DOMAIN history \cup {Len(history) + 1} /\ H[Len(history) + 1] = event
      /\ \A i \in DOMAIN history : H[i] = history[i]
  BY <1>0, <1>1, <1>3, Inserted DEF HistoryInv
<1>8. ASSUME NEW i \in DOMAIN H, H[i].table = "availability"
      PROVE  SameExposure(H[i].row, new[H[i].id])
  <2>1. CASE i \in DOMAIN history
    <3>1. /\ H[i] = history[i] /\ history[i].id \in Ids(rows)
          /\ SameExposure(history[i].row, rows[history[i].id])
      BY <1>1, <1>2, <1>7, <1>8, <2>1 DEF AvailabilityInv, Accounted
    <3> QED
      BY <3>1 DEF SameExposure
  <2>2. CASE i = Len(history) + 1
    BY <1>3, <1>7, <2>2 DEF SameExposure
  <2> QED
    BY <1>7, <2>1, <2>2
<1>9. AvailabilityInv(new, H)
  BY <1>5, <1>8 DEF AvailabilityInv
<1>10. ExposureKept(rows, new)
  BY DEF ExposureKept, SameExposure
<1>11. db' = [[db EXCEPT !.availability = new] EXCEPT !.history = H] => Advances
  BY <1>5, <1>6, <1>9, <1>10, WritesAvailability DEF IInv
<1> PICK entry : entry = [action |-> action, outcome |-> "SUCCESS", id |-> id,
                          version |-> row.version]
  OBVIOUS
<1>12. [db EXCEPT !.availability = new].history = history
  BY <1>1 DEF Fields
<1>13. WritesAudited(q, [[db EXCEPT !.availability = new] EXCEPT !.history = H], entry)
  BY <1>0, <1>12 DEF WritesVersion
<1> QED
  BY <1>11, <1>13, AuditedKeeps
\* A row is inserted in its first version.
LEMMA InsertAvailabilitySteps ==
  ASSUME IInv, NEW q \in Requests, InsertAvailability(q)
  PROVE  Step
<1>1. ExposureSound(req[q], db.availability, db.entitlements) /\ req[q].now \in Nat
      /\ req[q].at = "availability.insert"
  BY RequestsAssumption DEF InsertAvailability, At, IInv, Sound
<1> PICK in, when, rows : in = req[q].in /\ when = req[q].now /\ rows = db.availability
  OBVIOUS
<1> PICK row : row = [environment |-> in.environment, scope |-> in.scope,
                      capability |-> in.capability, state |-> in.state, version |-> 1,
                      updated |-> when]
  OBVIOUS
<1>2. row \in AvailabilityKept
  <2>1. /\ in.environment \in Environments /\ in.scope \in Scopes \cup {EveryScope}
        /\ in.capability \in Capabilities /\ in.state \in AvailabilityState
        /\ MaySet(in.capability, in.environment, in.scope, in.state)
    BY <1>1 DEF ExposureSound
  <2> QED
    BY <1>1, <2>1 DEF AvailabilityKept, AvailabilityRow
<1>3. rows \in Seq(AvailabilityKept)
  BY DEF IInv, TablesInv, AvailabilityInv
<1> PICK new, id : new = Append(rows, row) /\ id = Len(rows) + 1
  OBVIOUS
<1>4. /\ new \in Seq(AvailabilityKept) /\ Ids(new) = Ids(rows) \cup {id} /\ new[id] = row
      /\ \A i \in Ids(rows) : new[i] = rows[i]
      /\ id \notin Ids(rows) /\ id \in Nat
  BY <1>2, <1>3, Inserted DEF Ids
<1> PICK action : action = "capability.availability.set"
  OBVIOUS
<1>5. WritesVersion(q, [db EXCEPT !.availability = new], "availability", id, row, action)
  BY DEF InsertAvailability
<1>6. /\ new \in Seq(AvailabilityKept) /\ new[id] = row /\ id \in Nat
      /\ Ids(new) = Ids(db.availability) \cup {id} /\ id \notin Ids(db.availability)
      /\ \A i \in Ids(db.availability) : i # id => new[i] = db.availability[i]
  BY <1>4
<1> QED
  BY <1>2, <1>5, <1>6, AvailabilityWritten

\* The version that the operator saw becomes the next one.
LEMMA UpdateAvailabilitySteps ==
  ASSUME IInv, NEW q \in Requests, UpdateAvailability(q)
  PROVE  Step
<1>1. ExposureSound(req[q], db.availability, db.entitlements) /\ req[q].at = "availability.update"
  BY DEF UpdateAvailability, At, IInv, Sound
<1> PICK in, i, rows : in = req[q].in /\ i = req[q].read /\ rows = db.availability
  OBVIOUS
<1>2. /\ i \in Ids(rows) /\ SameExposure(in, rows[i]) /\ in.state \in AvailabilityState
      /\ MaySet(in.capability, in.environment, in.scope, in.state)
  BY <1>1 DEF ExposureSound
<1>3. rows \in Seq(AvailabilityKept)
  BY DEF IInv, TablesInv, AvailabilityInv
<1>4. now \in Nat
  BY RequestsAssumption DEF IInv, RequestsShaped
<1> PICK old, state, at : old = rows[i] /\ state = in.state /\ at = now
  OBVIOUS
<1>0. PICK row : row = [old EXCEPT !.state = state, !.version = @ + 1, !.updated = at]
  OBVIOUS
<1>5. old \in AvailabilityRow
  BY <1>2, <1>3 DEF AvailabilityKept, Ids
<1>6. /\ row \in AvailabilityRow /\ row.state = in.state /\ row.version = old.version + 1
      /\ row.environment = old.environment /\ row.scope = old.scope
      /\ row.capability = old.capability
  <2>1. row = [environment |-> old.environment, scope |-> old.scope,
               capability |-> old.capability, state |-> state, version |-> old.version + 1,
               updated |-> at]
    BY <1>0, <1>5 DEF AvailabilityRow
  <2>2. /\ old.environment \in Environments /\ old.scope \in Scopes \cup {EveryScope}
        /\ old.capability \in Capabilities /\ old.version + 1 \in Nat \ {0}
    BY <1>5 DEF AvailabilityRow
  <2> QED
    BY <1>2, <1>4, <2>1, <2>2 DEF AvailabilityRow
<1>7. row \in AvailabilityKept
  <2>1. /\ row.environment = in.environment /\ row.scope = in.scope
        /\ row.capability = in.capability
    BY <1>2, <1>6 DEF SameExposure
  <2> QED
    BY <1>2, <1>6, <2>1 DEF AvailabilityKept
<1>8. old.version < row.version /\ SameExposure(old, row)
  BY <1>5, <1>6 DEF SameExposure, AvailabilityRow
<1> PICK new : new = [rows EXCEPT ![i] = row]
  OBVIOUS
<1>9. /\ new \in Seq(AvailabilityKept) /\ Ids(new) = Ids(rows) \cup {i} /\ new[i] = row
      /\ \A j \in Ids(rows) : j # i => new[j] = rows[j]
      /\ i \in Nat
  BY <1>2, <1>3, <1>7, Updated DEF Ids
<1> PICK action : action = "capability.availability.set"
  OBVIOUS
<1>10. WritesVersion(q, [db EXCEPT !.availability = new], "availability", i, row, action)
  <2>1. row = [db.availability[i] EXCEPT !.state = req[q].in.state, !.version = @ + 1,
                                         !.updated = now]
    BY <1>0
  <2>2. WritesVersion(q, [db EXCEPT !.availability[i] = row], "availability", i, row, action)
    BY Zenon, <2>1 DEF UpdateAvailability
  <2> QED
    BY <2>2
<1> QED
  BY <1>7, <1>8, <1>9, <1>10, AvailabilityWritten

\* The entitlement that is found is one of this capability.
LEMMA EntitlementFound ==
  ASSUME NEW capability, NEW i, i = FindEntitlement(capability),
         EntitlementInv(db.entitlements, db.history)
  PROVE  /\ i # 0 => i \in Ids(db.entitlements) /\ db.entitlements[i].capability = capability
         /\ i = 0 => \A j \in Ids(db.entitlements) : db.entitlements[j].capability # capability
<1> DEFINE found == {j \in Ids(db.entitlements) : db.entitlements[j].capability = capability}
<1>1. 0 \notin found
  BY DEF EntitlementInv, Ids
<1>2. CASE found = {}
  BY <1>2 DEF FindEntitlement
<1>3. CASE found # {}
  <2>1. i \in found
    BY <1>3 DEF FindEntitlement
  <2> QED
    BY <1>1, <2>1
<1> QED
  BY <1>2, <1>3

\* A grant is a row of the table, in the first version or the next one.
LEMMA BeginGrantSteps ==
  ASSUME IInv, NEW q \in Requests, NEW capability \in Capabilities, NEW from \in Nat,
         NEW to \in Nat \cup {Open}, BeginGrant(q, capability, from, to)
  PROVE  Step
<1> PICK i : i = FindEntitlement(capability)
  OBVIOUS
<1>1. EntitlementInv(db.entitlements, db.history) /\ db.entitlements \in Seq(EntitlementRow)
  BY DEF IInv, TablesInv, EntitlementInv
<1>2. i # 0 => i \in Ids(db.entitlements) /\ db.entitlements[i].capability = capability
  BY Zenon, <1>1, EntitlementFound
<1>3. i # 0 => db.entitlements[i].version \in Nat \ {0}
  <2>1. i # 0 => db.entitlements[i] \in EntitlementRow
    BY <1>1, <1>2 DEF Ids
  <2> QED
    BY <2>1 DEF EntitlementRow
<1> PICK version : version = IF i = 0 THEN 1 ELSE db.entitlements[i].version + 1
  OBVIOUS
<1>4. version \in Nat \ {0}
  BY <1>3
<1> PICK row : row = [capability |-> capability, status |-> "ACTIVE", from |-> from, to |-> to,
                      version |-> version]
  OBVIOUS
<1>5. row \in EntitlementRow /\ row.capability = capability
  BY <1>4 DEF EntitlementRow, EntitlementStatus
<1> PICK in, at : /\ in = [id |-> i, action |-> "capability.entitlement.grant", row |-> row]
                  /\ at = IF i = 0 THEN "entitlement.insert" ELSE "entitlement.update"
  OBVIOUS
<1>6. ExposureSound(Row(at, in, now, <<>>), db.availability, db.entitlements)
  BY <1>2, <1>5 DEF ExposureSound, Row
<1>7. Sound(Row(at, in, now, <<>>))
  BY <1>6, InExposure DEF ExposureAt, IInv, RequestsShaped
<1> QED
  BY <1>7, BeginKeeps DEF BeginGrant

\* A revocation is of a row of the table, and ends its window.
LEMMA BeginRevokeSteps ==
  ASSUME IInv, NEW q \in Requests, NEW capability \in Capabilities, BeginRevoke(q, capability)
  PROVE  Step
<1> PICK i : i = FindEntitlement(capability)
  OBVIOUS
<1>1. EntitlementInv(db.entitlements, db.history) /\ db.entitlements \in Seq(EntitlementRow)
  BY DEF IInv, TablesInv, EntitlementInv
<1>2. i # 0
  BY DEF BeginRevoke
<1>3. i \in Ids(db.entitlements)
  BY Zenon, <1>1, <1>2, EntitlementFound
<1> PICK old, to : old = db.entitlements[i] /\ to = EndOfRevoked(old, now)
  OBVIOUS
<1>4. old \in EntitlementRow
  BY <1>1, <1>3 DEF Ids
<1>5. to \in Nat \cup {Open}
  BY <1>4, RequestsAssumption DEF EndOfRevoked, EntitlementRow, IInv, RequestsShaped
<1>0. PICK row : row = [old EXCEPT !.status = "REVOKED", !.to = to, !.version = @ + 1]
  OBVIOUS
<1>6. row \in EntitlementRow /\ row.capability = old.capability
  <2>1. row = [capability |-> old.capability, status |-> "REVOKED", from |-> old.from,
               to |-> to, version |-> old.version + 1]
    BY <1>0, <1>4 DEF EntitlementRow
  <2>2. /\ old.capability \in Capabilities /\ old.from \in Nat
        /\ old.version + 1 \in Nat \ {0}
    BY <1>4 DEF EntitlementRow
  <2> QED
    BY <1>5, <2>1, <2>2 DEF EntitlementRow, EntitlementStatus
<1> PICK in : in = [id |-> i, action |-> "capability.entitlement.revoke", row |-> row]
  OBVIOUS
<1>7. ExposureSound(Row("entitlement.update", in, now, <<>>), db.availability, db.entitlements)
  BY <1>3, <1>6 DEF ExposureSound, Row
<1>8. Sound(Row("entitlement.update", in, now, <<>>))
  BY <1>7, InExposure DEF ExposureAt, IInv, RequestsShaped
<1> QED
  BY <1>0, <1>8, BeginKeeps DEF BeginRevoke

\* A version of an entitlement was written, and its event by the trigger.
LEMMA EntitlementWritten ==
  ASSUME IInv, NEW q \in Requests, NEW id \in Nat, NEW row \in EntitlementRow, NEW new,
         new \in Seq(EntitlementRow), new[id] = row, Ids(new) = Ids(db.entitlements) \cup {id},
         \A i \in Ids(db.entitlements) : i # id => new[i] = db.entitlements[i],
         id \in Ids(db.entitlements) =>
           /\ db.entitlements[id].version < row.version
           /\ db.entitlements[id].capability = row.capability,
         id \notin Ids(db.entitlements) =>
           \A i \in Ids(db.entitlements) : db.entitlements[i].capability # row.capability,
         NEW action,
         WritesVersion(q, [db EXCEPT !.entitlements = new], "entitlement", id, row, action)
  PROVE  Step
<1> PICK rows, history, event :
      /\ rows = db.entitlements /\ history = db.history
      /\ event = Versioned("entitlement", id, row)
  OBVIOUS
<1>0. PICK H : H = Append(history, event)
  OBVIOUS
<1>1. /\ AvailabilityInv(db.availability, history) /\ EntitlementInv(rows, history)
      /\ HistoryInv(history) /\ DOMAIN db = Fields
  BY DEF IInv, TablesInv
<1>2. /\ rows \in Seq(EntitlementRow) /\ Accounted(rows, history, "entitlement")
      /\ \A i, j \in Ids(rows) : rows[i].capability = rows[j].capability => i = j
  BY <1>1 DEF EntitlementInv
<1>3. event \in HistoryEvent /\ event.table = "entitlement" /\ event.id = id /\ event.row = row
  BY DEF HistoryEvent, Versioned
<1>4. /\ \A i \in Ids(rows) : rows[i].version \in Nat
      /\ row.version \in Nat
  <2>1. ASSUME NEW i \in Ids(rows) PROVE rows[i] \in EntitlementRow
    BY <1>2 DEF Ids
  <2> QED
    BY <2>1 DEF EntitlementRow
<1>5. /\ HistoryInv(H) /\ Extends(history, H)
      /\ Accounted(new, H, "entitlement")
  <2>1. NewVersion(rows, new, event)
    BY <1>3, <1>4 DEF NewVersion
  <2>2. /\ HistoryInv(Append(history, event)) /\ Extends(history, Append(history, event))
        /\ Accounted(new, Append(history, event), event.table)
    BY Zenon, <1>1, <1>2, <1>3, <2>1, VersionWritten
  <2> QED
    BY <1>0, <1>3, <2>2
<1>6. ASSUME NEW i \in Ids(new), NEW j \in Ids(new), new[i].capability = new[j].capability
      PROVE  i = j
  <2>1. CASE i # id /\ j # id
    BY <1>2, <1>6, <2>1
  <2>2. CASE i = id \/ j = id
    <3>1. \A k \in Ids(rows) : k # id => rows[k].capability # row.capability
      BY <1>2
    <3> QED
      BY <1>6, <2>2, <3>1
  <2> QED
    BY <2>1, <2>2
<1>7. EntitlementInv(new, H)
  BY <1>5, <1>6 DEF EntitlementInv
<1>8. AvailabilityInv(db.availability, H)
  <2>1. /\ DOMAIN H = DOMAIN history \cup {Len(history) + 1} /\ H[Len(history) + 1] = event
        /\ \A i \in DOMAIN history : H[i] = history[i]
    BY <1>0, <1>1, <1>3, Inserted DEF HistoryInv
  <2>2. Accounted(db.availability, H, "availability")
    BY <1>0, <1>1, <1>3, OtherAccounted DEF AvailabilityInv
  <2>3. ASSUME NEW i \in DOMAIN H, H[i].table = "availability"
        PROVE  SameExposure(H[i].row, db.availability[H[i].id])
    <3>1. i \in DOMAIN history /\ H[i] = history[i]
      BY <1>3, <2>1, <2>3
    <3> QED
      BY <1>1, <2>3, <3>1 DEF AvailabilityInv
  <2> QED
    BY <1>1, <2>2, <2>3 DEF AvailabilityInv
<1>9. EntitledKept(rows, new)
  BY DEF EntitledKept
<1>10. db' = [[db EXCEPT !.entitlements = new] EXCEPT !.history = H] => Advances
  BY <1>5, <1>7, <1>8, <1>9, WritesEntitlements DEF IInv
<1> PICK entry : entry = [action |-> action, outcome |-> "SUCCESS", id |-> id,
                          version |-> row.version]
  OBVIOUS
<1>11. [db EXCEPT !.entitlements = new].history = history
  BY <1>1 DEF Fields
<1>12. WritesAudited(q, [[db EXCEPT !.entitlements = new] EXCEPT !.history = H], entry)
  BY <1>0, <1>11 DEF WritesVersion
<1> QED
  BY <1>10, <1>12, AuditedKeeps

\* One row per capability: it is inserted where there is none.
LEMMA InsertEntitlementSteps ==
  ASSUME IInv, NEW q \in Requests, InsertEntitlement(q)
  PROVE  Step
<1>1. ExposureSound(req[q], db.availability, db.entitlements) /\ req[q].at = "entitlement.insert"
  BY DEF InsertEntitlement, At, IInv, Sound
<1> PICK row, action, rows :
      row = req[q].in.row /\ action = req[q].in.action /\ rows = db.entitlements
  OBVIOUS
<1>2. row \in EntitlementRow
  BY <1>1 DEF ExposureSound
<1>3. rows \in Seq(EntitlementRow) /\ EntitlementInv(rows, db.history)
  BY DEF IInv, TablesInv, EntitlementInv
<1>4. \A i \in Ids(rows) : rows[i].capability # row.capability
  <2>1. FindEntitlement(row.capability) = 0
    BY DEF InsertEntitlement
  <2> QED
    BY <1>3, <2>1, EntitlementFound
<1> PICK new, id : new = Append(rows, row) /\ id = Len(rows) + 1
  OBVIOUS
<1>5. /\ new \in Seq(EntitlementRow) /\ Ids(new) = Ids(rows) \cup {id} /\ new[id] = row
      /\ \A i \in Ids(rows) : new[i] = rows[i]
      /\ id \notin Ids(rows) /\ id \in Nat
  BY <1>2, <1>3, Inserted DEF Ids
<1>6. WritesVersion(q, [db EXCEPT !.entitlements = new], "entitlement", id, row, action)
  BY DEF InsertEntitlement
<1> QED
  BY <1>2, <1>4, <1>5, <1>6, EntitlementWritten

\* The version that was read becomes the next one.
LEMMA TransitionEntitlementSteps ==
  ASSUME IInv, NEW q \in Requests, TransitionEntitlement(q)
  PROVE  Step
<1>1. ExposureSound(req[q], db.availability, db.entitlements) /\ req[q].at = "entitlement.update"
  BY DEF TransitionEntitlement, At, IInv, Sound
<1>0. PICK row, action, id, rows :
      /\ row = req[q].in.row /\ action = req[q].in.action /\ id = req[q].in.id
      /\ rows = db.entitlements
  OBVIOUS
<1>2. row \in EntitlementRow /\ id \in Ids(rows) /\ rows[id].capability = row.capability
  BY <1>0, <1>1 DEF ExposureSound
<1>3. rows \in Seq(EntitlementRow)
  BY <1>0 DEF IInv, TablesInv, EntitlementInv
<1>4. rows[id].version = row.version - 1 /\ row.version \in Nat
  BY <1>0, <1>2 DEF TransitionEntitlement, EntitlementRow
<1>9. PICK new : new = [rows EXCEPT ![id] = row]
  OBVIOUS
<1>5. /\ new \in Seq(EntitlementRow) /\ Ids(new) = Ids(rows) \cup {id} /\ new[id] = row
      /\ \A i \in Ids(rows) : i # id => new[i] = rows[i]
      /\ id \in Nat
  <2>1. id \in DOMAIN rows /\ Ids(rows) = DOMAIN rows /\ Ids(new) = DOMAIN new
    BY <1>2 DEF Ids
  <2>2. new \in Seq(EntitlementRow) /\ DOMAIN new = DOMAIN rows
    BY <1>2, <1>3, <1>9, <2>1, Updated
  <2>3. new[id] = row /\ \A i \in DOMAIN rows : i # id => new[i] = rows[i]
    BY <1>9, <2>1
  <2>4. id \in Nat
    BY <1>3, <2>1
  <2> QED
    BY <2>1, <2>2, <2>3, <2>4
<1>6. rows[id].version < row.version
  BY <1>4
<1>7. WritesVersion(q, [db EXCEPT !.entitlements = new], "entitlement", id, row, action)
  BY <1>0, <1>9 DEF TransitionEntitlement
<1>8. /\ id \in Ids(db.entitlements) /\ db.entitlements[id].version < row.version
      /\ db.entitlements[id].capability = row.capability
      /\ Ids(new) = Ids(db.entitlements) \cup {id}
      /\ \A i \in Ids(db.entitlements) : i # id => new[i] = db.entitlements[i]
  BY Zenon, <1>0, <1>2, <1>5, <1>6
<1> QED
  BY <1>2, <1>5, <1>7, <1>8, EntitlementWritten
-----------------------------------------------------------------------------
(* Resolutions *)

\* Where no first denial is found, no gate denies.
LEMMA NoneDenied ==
  ASSUME NEW S, NEW gates \in Seq(S), FirstDenied(gates).outcome # "DENIED"
  PROVE  \A i \in DOMAIN gates : gates[i].outcome # "DENIED"
<1> DEFINE denied == {i \in DOMAIN gates : gates[i].outcome = "DENIED"}
           first == CHOOSE i \in denied : \A j \in denied : i <= j
<1>1. denied \in SUBSET Nat
  OBVIOUS
<1>2. CASE denied # {}
  <2>1. \E i \in denied : \A j \in denied : i <= j
    BY <1>1, <1>2, LeastOfSet
  <2>2. first \in denied
    BY <2>1
  <2>3. FirstDenied(gates) = gates[first]
    BY <1>2 DEF FirstDenied
  <2> QED
    BY <2>2, <2>3
<1> QED
  BY <1>2

\* What the early gates pass when nothing is denied.
LEMMA EarlyGates ==
  ASSUME NEW s, NEW at, ResolveGates(s, at).outcome = "ALLOWED"
  PROVE  /\ DescriptorGate(s).outcome # "DENIED" /\ JurisdictionGate(s).outcome # "DENIED"
         /\ AvailabilityGate(s).outcome # "DENIED" /\ EntitlementGate(s, at).outcome # "DENIED"
<1> PICK d, j, a, e : /\ d = DescriptorGate(s) /\ j = JurisdictionGate(s)
                      /\ a = AvailabilityGate(s) /\ e = EntitlementGate(s, at)
  OBVIOUS
<1> PICK gates : gates = <<d, j, a, e>>
  OBVIOUS
<1>1. FirstDenied(gates).outcome # "DENIED"
  BY DEF ResolveGates
<1>2. gates \in Seq({d, j, a, e}) /\ DOMAIN gates = 1 .. 4
      /\ gates[1] = d /\ gates[2] = j /\ gates[3] = a /\ gates[4] = e
  OBVIOUS
<1>3. \A i \in DOMAIN gates : gates[i].outcome # "DENIED"
  BY <1>1, <1>2, NoneDenied
<1> QED
  BY <1>2, <1>3

\* An allowed capability is one that the code has, here and in the jurisdiction
\* that the ceiling resolved, that a row exposes and that is held.
LEMMA AllowedMeans ==
  ASSUME NEW s, NEW at, s.ceiling.kind \in CeilingKinds, ResolveGates(s, at).outcome = "ALLOWED"
  PROVE  /\ s.ceiling.kind = "RESOLVED"
         /\ ~CeilingBreach(s.capability, HomeEnvironment, s.ceiling.scope)
         /\ s.availability.kind # "NO_ROW" /\ s.availability.row.state \in AllowingStates
         /\ s.entitlement.kind # "NONE" /\ s.entitlement.row.status = "ACTIVE"
<1> DEFINE d == Descriptor[s.capability]
<1>1. \A gate, reason : Denied(gate, reason).outcome = "DENIED"
  BY DEF Denied
<1>2. /\ DescriptorGate(s).outcome # "DENIED" /\ JurisdictionGate(s).outcome # "DENIED"
      /\ AvailabilityGate(s).outcome # "DENIED" /\ EntitlementGate(s, at).outcome # "DENIED"
  BY EarlyGates
<1>3. d.implemented /\ HomeEnvironment \in d.deployed
  BY <1>1, <1>2 DEF DescriptorGate
<1>4. s.ceiling.kind = "RESOLVED"
  <2>1. s.ceiling.kind = "NO_ASSIGNMENT" =>
          JurisdictionGate(s) = Denied("JURISDICTION", "JURISDICTION_ABSENT")
    BY DEF JurisdictionGate
  <2>2. s.ceiling.kind = "UNVERIFIED_ASSIGNMENT" =>
          JurisdictionGate(s) = Denied("JURISDICTION", "JURISDICTION_UNVERIFIED")
    BY DEF JurisdictionGate
  <2>3. s.ceiling.kind = "PACK_NOT_APPROVED" =>
          JurisdictionGate(s) = Denied("JURISDICTION", "POLICY_PACK_NOT_APPROVED")
    BY DEF JurisdictionGate
  <2> QED
    BY <1>1, <1>2, <2>1, <2>2, <2>3 DEF CeilingKinds
<1>5. s.ceiling.scope \in d.declared
  BY <1>1, <1>2, <1>4 DEF JurisdictionGate
<1>6. s.availability.kind # "NO_ROW" /\ s.availability.row.state \in AllowingStates
  BY <1>1, <1>2 DEF AvailabilityGate
<1>7. s.entitlement.kind # "NONE" /\ s.entitlement.row.status = "ACTIVE"
  BY <1>1, <1>2 DEF EntitlementGate, EntitlementSatisfiesAt
<1>8. ~CeilingBreach(s.capability, HomeEnvironment, s.ceiling.scope)
  BY <1>3, <1>5 DEF CeilingBreach
<1> QED
  BY <1>4, <1>6, <1>7, <1>8

\* The statements of a resolution.
ResolutionAt == {"resolve.availability", "resolve.entitlement", "resolve.gates", "resolved"}

\* At these statements nothing else is asked of a request.
LEMMA InResolution ==
  ASSUME NEW at \in ResolutionAt, NEW in, NEW when \in 0 .. MaxNow, NEW read,
         ResolutionSound(Row(at, in, when, read), db.history)
  PROVE  Sound(Row(at, in, when, read))
BY DEF ResolutionAt, Row, Sound, AssignmentSound, CeilingSound, SelectionSound, SwitchSound,
       ExposureSound

\* A resolution begins with the ceiling of a port, and knows how much of the
\* history there is.
LEMMA BeginResolveSteps ==
  ASSUME IInv, NEW q \in Requests, NEW ids, BeginResolve(q, ids)
  PROVE  Step
<1>1. PICK ceiling \in PortCeilings :
        Begins(q, "resolutions", "resolve.availability",
               [ids |-> ids, ceiling |-> ceiling, began |-> Len(db.history)], <<>>)
  BY DEF BeginResolve
<1>2. Len(db.history) \in Nat
  BY DEF IInv, TablesInv, HistoryInv
<1> PICK in : in = [ids |-> ids, ceiling |-> ceiling, began |-> Len(db.history)]
  OBVIOUS
<1>3. ResolutionSound(Row("resolve.availability", in, now, <<>>), db.history)
  BY <1>2 DEF ResolutionSound, Row
<1>4. Sound(Row("resolve.availability", in, now, <<>>))
  BY <1>3, InResolution DEF ResolutionAt, IInv, RequestsShaped
<1> QED
  BY <1>1, <1>4, BeginKeeps

\* A row that is there was the last version written of it.
LEMMA RowIsWritten ==
  ASSUME NEW rows, NEW history \in Seq(HistoryEvent), NEW table, Accounted(rows, history, table),
         NEW facts, facts.id \in Ids(rows), facts.row = rows[facts.id],
         NEW began \in Nat, began <= Len(history)
  PROVE  WrittenSince(history, table, facts, began)
<1>1. WrittenLast(history, table, facts.id, Len(history)) = {rows[facts.id]}
  BY DEF Accounted
<1>2. Len(history) \in began .. Len(history)
  OBVIOUS
<1>3. facts.row \in WrittenLast(history, table, facts.id, Len(history))
  BY <1>1
<1> QED
  BY <1>2, <1>3 DEF WrittenSince

\* The facts of a capability's availability are of a row that decides: where
\* the jurisdiction had a row when the resolution began, of that one.
LEMMA FactsDecide ==
  ASSUME AvailabilityInv(db.availability, db.history), HistoryInv(db.history),
         NEW ceiling, NEW capability, NEW began \in Nat, began <= Len(db.history),
         NEW facts \in AvailabilityFacts(ScopeOf(ceiling), capability)
  PROVE  ExposedSince(db.history, ceiling, capability, facts, began)
<1> PICK rows, history, scope : /\ rows = db.availability /\ history = db.history
                                /\ scope = ScopeOf(ceiling)
  OBVIOUS
<1> DEFINE scoped == IF scope = EveryScope THEN {} ELSE ScopedRows(scope, capability)
           found == IF scoped # {} THEN scoped ELSE ScopedRows(EveryScope, capability)
<1>1. history \in Seq(HistoryEvent) /\ Accounted(rows, history, "availability")
  BY DEF AvailabilityInv, HistoryInv
<1>2. CASE found = {}
  BY <1>2 DEF AvailabilityFacts, ExposedSince
<1>3. CASE found # {}
  <2>1. PICK i \in Newest(rows, found) : facts = [kind |-> "ROW", id |-> i, row |-> rows[i]]
    BY <1>3 DEF AvailabilityFacts
  <2>2. i \in found
    BY DEF Newest
  <2>3. i \in Ids(rows) /\ rows[i].environment = HomeEnvironment
    BY <2>2 DEF ScopedRows
  <2>4. facts.kind = "ROW" /\ facts.id = i /\ facts.row = rows[i]
    BY <2>1
  <2>5. WrittenSince(history, "availability", facts, began)
    BY Zenon, <1>1, <2>3, <2>4, RowIsWritten
  <2>6. ASSUME ceiling.kind = "RESOLVED", ScopedThen(history, ceiling.scope, capability, began)
        PROVE  rows[i].scope = ceiling.scope
    <3>1. scope = ceiling.scope
      BY <2>6 DEF ScopeOf
    <3>2. PICK k \in 1 .. began :
            /\ history[k].table = "availability" /\ history[k].row.environment = HomeEnvironment
            /\ history[k].row.scope = scope /\ history[k].row.capability = capability
      BY <2>6, <3>1 DEF ScopedThen
    <3>3. k \in DOMAIN history
      BY <1>1, <3>2
    <3>4. history[k].id \in Ids(rows) /\ SameExposure(history[k].row, rows[history[k].id])
      BY <3>2, <3>3 DEF AvailabilityInv, Accounted
    <3>5. history[k].id \in ScopedRows(scope, capability)
      BY <3>2, <3>4 DEF SameExposure, ScopedRows
    <3>6. i \in ScopedRows(scope, capability)
      BY <2>2, <3>5
    <3> QED
      BY <3>1, <3>6 DEF ScopedRows
  <2> QED
    BY <2>3, <2>4, <2>5, <2>6 DEF ExposedSince
<1> QED
  BY <1>2, <1>3

\* factsFor is read.
LEMMA ReadAvailabilitySteps ==
  ASSUME IInv, NEW q \in Requests, ReadAvailability(q)
  PROVE  Step
<1> PICK in, when : in = req[q].in /\ when = req[q].now
  OBVIOUS
<1>1. ResolutionSound(req[q], db.history) /\ req[q].at = "resolve.availability"
      /\ when \in 0 .. MaxNow
  BY DEF ReadAvailability, At, IInv, Sound
<1>2. /\ in = [ids |-> in.ids, ceiling |-> in.ceiling, began |-> in.began]
      /\ in.ceiling \in PortCeilings /\ in.began \in Nat /\ in.began <= Len(db.history)
  BY <1>1 DEF ResolutionSound
<1>3. PICK facts \in AvailabilityFacts(ScopeOf(in.ceiling), Head(in.ids)) :
        Reads(q, "resolve.entitlement", facts)
  BY DEF ReadAvailability
<1>4. ExposedSince(db.history, in.ceiling, Head(in.ids), facts, in.began)
  BY <1>2, <1>3, FactsDecide DEF IInv, TablesInv
<1>5. ResolutionSound(Row("resolve.entitlement", in, when, facts), db.history)
  BY <1>2, <1>4 DEF ResolutionSound, Row
<1>6. Sound(Row("resolve.entitlement", in, when, facts))
  BY <1>1, <1>5, InResolution DEF ResolutionAt
<1> QED
  BY <1>3, <1>6, GoesOnKeeps

\* The entitlement is read, and the ports are asked.
LEMMA ReadEntitlementSteps ==
  ASSUME IInv, NEW q \in Requests, ReadEntitlement(q)
  PROVE  Step
<1> PICK in, when, facts, capability :
      /\ in = req[q].in /\ when = req[q].now /\ facts = req[q].read /\ capability = Head(in.ids)
  OBVIOUS
<1>1. ResolutionSound(req[q], db.history) /\ req[q].at = "resolve.entitlement"
      /\ when \in 0 .. MaxNow
  BY DEF ReadEntitlement, At, IInv, Sound
<1>2. /\ in = [ids |-> in.ids, ceiling |-> in.ceiling, began |-> in.began]
      /\ in.ceiling \in PortCeilings /\ in.began \in Nat /\ in.began <= Len(db.history)
      /\ ExposedSince(db.history, in.ceiling, capability, facts, in.began)
  BY <1>1 DEF ResolutionSound
<1> PICK held : held = EntitlementFacts(capability)
  OBVIOUS
<1> DEFINE Gathered(consent, licensing, provider) ==
             [capability |-> Head(req[q].in.ids), ceiling |-> req[q].in.ceiling,
              availability |-> req[q].read,
              entitlement |-> EntitlementFacts(Head(req[q].in.ids)),
              consent |-> consent.kind, licensing |-> licensing, provider |-> provider.kind]
<1>3. PICK consent, licensing, provider :
        Reads(q, "resolve.gates",
              [capability |-> capability, ceiling |-> in.ceiling, availability |-> facts,
               entitlement |-> held, consent |-> consent.kind, licensing |-> licensing,
               provider |-> provider.kind])
  <2>1. PICK consent, licensing, provider :
          Reads(q, "resolve.gates", Gathered(consent, licensing, provider))
    <3>1. \E c \in Asked(\E c \in ClearedFor(req[q].in.ceiling, Head(req[q].in.ids)) :
                          c.basis = "CONSENT", ConsentAnswers),
             l \in Asked(\E c \in ClearedFor(req[q].in.ceiling, Head(req[q].in.ids)) :
                          c.licence, LicensingAnswers),
             p \in Asked(\E c \in ClearedFor(req[q].in.ceiling, Head(req[q].in.ids)) :
                          c.provider, ProviderAnswers) :
             Reads(q, "resolve.gates", Gathered(c, l, p))
      BY Zenon DEF ReadEntitlement
    <3> HIDE DEF Gathered
    <3> QED
      BY <3>1, Zenon
  <2> QED
    BY <2>1, Zenon
<1> PICK value : value = [capability |-> capability, ceiling |-> in.ceiling,
                          availability |-> facts, entitlement |-> held,
                          consent |-> consent.kind, licensing |-> licensing,
                          provider |-> provider.kind]
  OBVIOUS
<1>4. GrantedSince(db.history, held, in.began)
  <2>1. /\ EntitlementInv(db.entitlements, db.history)
        /\ Accounted(db.entitlements, db.history, "entitlement")
        /\ db.history \in Seq(HistoryEvent)
    BY DEF IInv, TablesInv, EntitlementInv, HistoryInv
  <2>2. PICK i : i = FindEntitlement(capability)
    OBVIOUS
  <2>3. CASE i = 0
    BY <2>2, <2>3 DEF EntitlementFacts, GrantedSince
  <2>4. CASE i # 0
    <3>1. i \in Ids(db.entitlements)
      BY Zenon, <2>1, <2>2, <2>4, EntitlementFound
    <3>2. held.kind = "ROW" /\ held.id = i /\ held.row = db.entitlements[i]
      BY <2>2, <2>4 DEF EntitlementFacts
    <3>3. WrittenSince(db.history, "entitlement", held, in.began)
      BY Zenon, <1>2, <2>1, <3>1, <3>2, RowIsWritten
    <3> QED
      BY <3>2, <3>3 DEF GrantedSince
  <2> QED
    BY <2>3, <2>4
<1>5. ResolutionSound(Row("resolve.gates", in, when, value), db.history)
  BY <1>2, <1>4 DEF ResolutionSound, Row
<1>6. Sound(Row("resolve.gates", in, when, value))
  BY <1>1, <1>5, InResolution DEF ResolutionAt
<1> QED
  BY <1>3, <1>6, GoesOnKeeps

\* The gates decide on the snapshot, and a denial above the ceiling is audited.
LEMMA DecideGatesSteps ==
  ASSUME IInv, NEW q \in Requests, DecideGates(q)
  PROVE  Step
<1> PICK in, when, s, resolution :
      /\ in = req[q].in /\ when = req[q].now /\ s = req[q].read
      /\ resolution = ResolveGates(s, when)
  OBVIOUS
<1> PICK entry, value :
      /\ entry = [action |-> "capability.resolution.denied_above_ceiling", outcome |-> "DENIED",
                  capability |-> s.capability, reason |-> resolution.reason]
      /\ value = [snapshot |-> s, resolution |-> resolution]
  OBVIOUS
<1> PICK tables : tables = IF AboveCeiling(s, resolution, when) THEN Recorded(entry) ELSE db
  OBVIOUS
<1>1. ResolutionSound(req[q], db.history) /\ req[q].at = "resolve.gates" /\ when \in 0 .. MaxNow
  BY DEF DecideGates, At, IInv, Sound
<1>2. /\ in = [ids |-> in.ids, ceiling |-> in.ceiling, began |-> in.began]
      /\ in.ceiling \in PortCeilings /\ in.began \in Nat /\ in.began <= Len(db.history)
      /\ s.ceiling \in PortCeilings
      /\ ExposedSince(db.history, s.ceiling, s.capability, s.availability, in.began)
      /\ GrantedSince(db.history, s.entitlement, in.began)
  BY <1>1 DEF ResolutionSound
<1>3. ASSUME resolution.outcome = "ALLOWED"
      PROVE  ClearedByLedger(db.history, s, in.began)
  <2>1. s.ceiling.kind \in CeilingKinds
    BY <1>2, CapabilityInputs
  <2>2. /\ s.ceiling.kind = "RESOLVED"
        /\ ~CeilingBreach(s.capability, HomeEnvironment, s.ceiling.scope)
        /\ s.availability.kind # "NO_ROW" /\ s.availability.row.state \in AllowingStates
        /\ s.entitlement.kind # "NONE" /\ s.entitlement.row.status = "ACTIVE"
    BY <1>3, <2>1, AllowedMeans
  <2> QED
    BY <1>2, <2>2 DEF ClearedByLedger, ExposedSince, GrantedSince
<1>4. ResolutionSound(Row("resolved", in, when, value), db.history)
  BY <1>2, <1>3 DEF ResolutionSound, Row
<1> PICK r : r = Row("resolved", in, when, value)
  OBVIOUS
<1>5. Sound(r)
  BY <1>1, <1>4, InResolution DEF ResolutionAt
<1>6. Writes(q, tables, "resolved", value)
  BY DEF DecideGates, Writes
<1>7. ASSUME db' = tables
      PROVE  Advances
  <2>1. CASE AboveCeiling(s, resolution, when)
    BY <1>7, <2>1, WritesTrail DEF Recorded, IInv
  <2>2. CASE ~AboveCeiling(s, resolution, when)
    BY <1>7, <2>2, NothingWritten DEF IInv
  <2> QED
    BY <2>1, <2>2
<1> QED
  BY <1>5, <1>6, <1>7, WriteKeeps

\* The next capability is looked at under the same ceiling.
LEMMA NextCapabilitySteps ==
  ASSUME IInv, NEW q \in Requests, NextCapability(q)
  PROVE  Step
<1> PICK in, when : in = req[q].in /\ when = req[q].now
  OBVIOUS
<1>1. ResolutionSound(req[q], db.history) /\ req[q].at = "resolved" /\ when \in 0 .. MaxNow
  BY DEF NextCapability, At, IInv, Sound
<1>2. /\ in = [ids |-> in.ids, ceiling |-> in.ceiling, began |-> in.began]
      /\ in.ceiling \in PortCeilings /\ in.began \in Nat /\ in.began <= Len(db.history)
  BY <1>1 DEF ResolutionSound
<1>3. CASE Tail(in.ids) = <<>>
  BY <1>3, EndSteps DEF NextCapability
<1>4. CASE Tail(in.ids) # <<>>
  <2> PICK rest, r : /\ rest = [ids |-> Tail(in.ids), ceiling |-> in.ceiling, began |-> in.began]
                     /\ r = Row("resolve.availability", rest, when, <<>>)
    OBVIOUS
  <2>1. /\ req' = [req EXCEPT ![q].at = "resolve.availability", ![q].read = <<>>,
                              ![q].in.ids = Tail(@)]
        /\ db' = db /\ now' = now
    BY <1>4 DEF NextCapability
  <2>2. /\ req[q] = Row(req[q].at, in, when, req[q].read) /\ DOMAIN req = Requests
    BY DEF IInv, RequestsShaped
  <2>3. req'[q] = r
    <3>1. req'[q] = [[[req[q] EXCEPT !.at = "resolve.availability"] EXCEPT !.read = <<>>]
                       EXCEPT !.in = [in EXCEPT !.ids = Tail(in.ids)]]
      BY <2>1, <2>2 DEF Row
    <3>2. [in EXCEPT !.ids = Tail(in.ids)] = rest
      <4>1. PICK ids, ceiling, began, tail : /\ ids = in.ids /\ ceiling = in.ceiling
                                             /\ began = in.began /\ tail = Tail(ids)
        OBVIOUS
      <4>2. in = [ids |-> ids, ceiling |-> ceiling, began |-> began]
        BY <1>2, <4>1
      <4>3. rest = [ids |-> tail, ceiling |-> ceiling, began |-> began]
        BY <4>1
      <4>4. [[ids |-> ids, ceiling |-> ceiling, began |-> began] EXCEPT !.ids = tail]
              = [ids |-> tail, ceiling |-> ceiling, began |-> began]
        OBVIOUS
      <4> QED
        BY <4>1, <4>2, <4>3, <4>4, Zenon
    <3> QED
      BY <2>2, <3>1, <3>2 DEF Row
  <2>4. Turns(q, r)
    BY <2>1, <2>2, <2>3 DEF Turns, Row
  <2>5. ResolutionSound(Row("resolve.availability", rest, when, <<>>), db.history)
    BY <1>2 DEF ResolutionSound, Row
  <2>6. Sound(r)
    BY <1>1, <2>5, InResolution DEF ResolutionAt
  <2> QED
    BY <2>1, <2>4, <2>6, ReadKeeps
<1> QED
  BY <1>3, <1>4

\* Every step of the capability component preserves the invariant.
LEMMA CapabilitySteps ==
  ASSUME IInv, CapabilityNext
  PROVE  Step
<1> PICK q \in Requests :
    \/ \E c \in AvailabilityInputs :
         BeginSetAvailability(q, c.environment, c.scope, c.capability, c.state, c.expected)
    \/ \E c \in GrantInputs : BeginGrant(q, c.capability, c.from, c.to)
    \/ \E c \in Capabilities : BeginRevoke(q, c)
    \/ \E ids \in Questions : BeginResolve(q, ids)
    \/ InsertAvailability(q) \/ UpdateAvailability(q)
    \/ InsertEntitlement(q) \/ TransitionEntitlement(q)
    \/ ReadAvailability(q) \/ ReadEntitlement(q) \/ DecideGates(q) \/ NextCapability(q)
  BY Zenon DEF CapabilityNext
<1>1. ASSUME NEW c \in AvailabilityInputs,
             BeginSetAvailability(q, c.environment, c.scope, c.capability, c.state, c.expected)
      PROVE  Step
  <2>1. /\ c.environment \in Environments /\ c.scope \in Scopes \cup {EveryScope}
        /\ c.capability \in Capabilities /\ c.state \in AvailabilityState
    BY CapabilityInputs
  <2> QED
    BY Zenon, <1>1, <2>1, BeginSetAvailabilitySteps
<1>2. ASSUME NEW c \in GrantInputs, BeginGrant(q, c.capability, c.from, c.to)
      PROVE  Step
  <2>1. c.capability \in Capabilities /\ c.from \in Nat /\ c.to \in Nat \cup {Open}
    BY CapabilityInputs
  <2> QED
    BY Zenon, <1>2, <2>1, BeginGrantSteps
<1> QED
  BY Zenon, <1>1, <1>2, BeginRevokeSteps, BeginResolveSteps, InsertAvailabilitySteps,
     UpdateAvailabilitySteps, InsertEntitlementSteps, TransitionEntitlementSteps,
     ReadAvailabilitySteps, ReadEntitlementSteps, DecideGatesSteps, NextCapabilitySteps

-----------------------------------------------------------------------------
(* The initial states *)

\* A history after another keeps the places of both.
LEMMA Concatenated ==
  ASSUME NEW S, NEW s \in Seq(S), NEW t \in Seq(S)
  PROVE  /\ s \o t \in Seq(S) /\ Len(s \o t) = Len(s) + Len(t)
         /\ \A i \in DOMAIN s : (s \o t)[i] = s[i]
         /\ \A i \in DOMAIN t : (s \o t)[Len(s) + i] = t[i]
<1>1. DOMAIN s = 1 .. Len(s) /\ DOMAIN t = 1 .. Len(t) /\ Len(s) \in Nat /\ Len(t) \in Nat
  OBVIOUS
<1>2. s \o t \in Seq(S)
  OBVIOUS
<1>3. Len(s \o t) = Len(s) + Len(t)
  OBVIOUS
<1>4. ASSUME NEW i \in DOMAIN s
      PROVE  (s \o t)[i] = s[i]
  BY <1>1
<1>5. ASSUME NEW i \in DOMAIN t
      PROVE  (s \o t)[Len(s) + i] = t[i]
  BY <1>1
<1> QED
  BY <1>2, <1>3, <1>4, <1>5

\* What the triggers recorded of the seeded rows: one event per row, in its place.
LEMMA SeededHistory ==
  ASSUME NEW exposed \in Seq(ExposedRow), NEW granted \in Seq(EntitlementRow)
  PROVE  /\ HistoryOf(exposed, granted) \in Seq(HistoryEvent)
         /\ Len(HistoryOf(exposed, granted)) = Len(exposed) + Len(granted)
         /\ \A i \in DOMAIN exposed :
              HistoryOf(exposed, granted)[i] = Versioned("availability", i, exposed[i])
         /\ \A i \in DOMAIN granted :
              HistoryOf(exposed, granted)[Len(exposed) + i]
                = Versioned("entitlement", i, granted[i])
<1>0. PICK first, second :
        /\ first = [i \in DOMAIN exposed |-> Versioned("availability", i, exposed[i])]
        /\ second = [i \in DOMAIN granted |-> Versioned("entitlement", i, granted[i])]
  OBVIOUS
<1>1. ASSUME NEW i \in DOMAIN exposed
      PROVE  Versioned("availability", i, exposed[i]) \in HistoryEvent
  <2>1. exposed[i] \in AvailabilityRow /\ i \in Nat
    BY DEF ExposedRow
  <2> QED
    BY <2>1 DEF Versioned, HistoryEvent
<1>2. ASSUME NEW i \in DOMAIN granted
      PROVE  Versioned("entitlement", i, granted[i]) \in HistoryEvent
  <2>1. granted[i] \in EntitlementRow /\ i \in Nat
    OBVIOUS
  <2> QED
    BY <2>1 DEF Versioned, HistoryEvent
<1>3. first \in Seq(HistoryEvent) /\ Len(first) = Len(exposed)
      /\ \A i \in DOMAIN exposed : first[i] = Versioned("availability", i, exposed[i])
  <2>1. DOMAIN exposed = 1 .. Len(exposed) /\ Len(exposed) \in Nat
    OBVIOUS
  <2>2. \A i \in DOMAIN exposed : first[i] \in HistoryEvent
    BY <1>0, <1>1
  <2>3. first = [i \in DOMAIN exposed |-> first[i]]
    BY <1>0
  <2> QED
    BY <1>0, <2>1, <2>2, <2>3, Mapped
<1>4. second \in Seq(HistoryEvent) /\ Len(second) = Len(granted)
      /\ \A i \in DOMAIN granted : second[i] = Versioned("entitlement", i, granted[i])
  <2>1. DOMAIN granted = 1 .. Len(granted) /\ Len(granted) \in Nat
    OBVIOUS
  <2>2. \A i \in DOMAIN granted : second[i] \in HistoryEvent
    BY <1>0, <1>2
  <2>3. second = [i \in DOMAIN granted |-> second[i]]
    BY <1>0
  <2> QED
    BY <1>0, <2>1, <2>2, <2>3, Mapped
<1>5. HistoryOf(exposed, granted) = first \o second
  BY <1>0 DEF HistoryOf
<1>6. /\ first \o second \in Seq(HistoryEvent)
      /\ Len(first \o second) = Len(exposed) + Len(granted)
      /\ \A i \in DOMAIN first : (first \o second)[i] = first[i]
      /\ \A i \in DOMAIN second : (first \o second)[Len(exposed) + i] = second[i]
  <2>1. first \in Seq(HistoryEvent) /\ second \in Seq(HistoryEvent)
    BY <1>3, <1>4
  <2>2. /\ first \o second \in Seq(HistoryEvent)
        /\ Len(first \o second) = Len(first) + Len(second)
        /\ \A i \in DOMAIN first : (first \o second)[i] = first[i]
        /\ \A i \in DOMAIN second : (first \o second)[Len(first) + i] = second[i]
    BY <2>1, Concatenated
  <2>3. Len(first) = Len(exposed) /\ Len(second) = Len(granted)
    BY <1>3, <1>4
  <2> QED
    BY Zenon, <2>2, <2>3
<1>7. DOMAIN first = DOMAIN exposed /\ DOMAIN second = DOMAIN granted
  BY <1>0
<1> QED
  BY <1>3, <1>4, <1>5, <1>6, <1>7

\* The only event of a row is its last.
LEMMA OnlyIsLast ==
  ASSUME NEW h \in Seq(HistoryEvent), NEW k \in DOMAIN h,
         \A j \in DOMAIN h : h[j].table = h[k].table /\ h[j].id = h[k].id => j = k
  PROVE  WrittenLast(h, h[k].table, h[k].id, Len(h)) = {h[k].row}
<1> DEFINE mine == {i \in 1 .. Len(h) : h[i].table = h[k].table /\ h[i].id = h[k].id}
<1>1. Len(h) \in Nat /\ DOMAIN h = 1 .. Len(h)
  OBVIOUS
<1>2. mine = {k}
  BY <1>1
<1>3. Last(mine) = k
  <2>1. mine \in SUBSET (1 .. Len(h)) /\ k \in mine /\ \A j \in mine : j <= k
    BY <1>1, <1>2
  <2> HIDE DEF mine
  <2> QED
    BY <1>1, <2>1, LastIsOne
<1> QED
  BY <1>2, <1>3 DEF WrittenLast

\* A history that holds one event of the first version of every row, and no
\* other, accounts for them.
LEMMA OneEventEach ==
  ASSUME NEW exposed \in Seq(ExposedRow), NEW granted \in Seq(EntitlementRow), Granted(granted),
         NEW h, h \in Seq(HistoryEvent), Len(h) = Len(exposed) + Len(granted),
         \A i \in DOMAIN exposed : h[i] = Versioned("availability", i, exposed[i]),
         \A i \in DOMAIN granted : h[Len(exposed) + i] = Versioned("entitlement", i, granted[i])
  PROVE  HistoryInv(h) /\ AvailabilityInv(exposed, h) /\ EntitlementInv(granted, h)
<1> PICK n, m : n = Len(exposed) /\ m = Len(granted)
  OBVIOUS
<1>1. /\ \A i \in DOMAIN exposed :
           h[i].table = "availability" /\ h[i].id = i /\ h[i].row = exposed[i]
      /\ \A i \in DOMAIN granted :
           h[n + i].table = "entitlement" /\ h[n + i].id = i /\ h[n + i].row = granted[i]
  <2>2. ASSUME NEW i \in DOMAIN exposed
        PROVE  h[i].table = "availability" /\ h[i].id = i /\ h[i].row = exposed[i]
    <3>1. h[i] = Versioned("availability", i, exposed[i])
      OBVIOUS
    <3>2. PICK e, row : e = h[i] /\ row = exposed[i]
      OBVIOUS
    <3>3. e = [table |-> "availability", id |-> i, row |-> row]
      BY <3>1, <3>2 DEF Versioned
    <3> QED
      BY <3>2, <3>3
  <2>3. ASSUME NEW i \in DOMAIN granted
        PROVE  h[n + i].table = "entitlement" /\ h[n + i].id = i /\ h[n + i].row = granted[i]
    <3>1. h[n + i] = Versioned("entitlement", i, granted[i])
      OBVIOUS
    <3>2. PICK e, row : e = h[n + i] /\ row = granted[i]
      OBVIOUS
    <3>3. e = [table |-> "entitlement", id |-> i, row |-> row]
      BY <3>1, <3>2 DEF Versioned
    <3> QED
      BY <3>2, <3>3
  <2> QED
    BY <2>2, <2>3
<1>2. /\ n \in Nat /\ m \in Nat /\ DOMAIN exposed = 1 .. n /\ DOMAIN granted = 1 .. m
      /\ DOMAIN h = 1 .. n + m
  OBVIOUS
<1>3. ASSUME NEW k \in DOMAIN h
      PROVE  \/ /\ k \in DOMAIN exposed /\ h[k].table = "availability"
                /\ h[k].id = k /\ h[k].row = exposed[k]
             \/ /\ k - n \in DOMAIN granted /\ h[k].table = "entitlement"
                /\ h[k].id = k - n /\ h[k].row = granted[k - n]
  <2>1. CASE k <= n
    <3>1. k \in DOMAIN exposed
      BY <1>2, <2>1
    <3> QED
      BY <1>1, <3>1
  <2>2. CASE ~(k <= n)
    <3>1. k - n \in DOMAIN granted /\ n + (k - n) = k
      BY <1>2, <2>2
    <3> QED
      BY <1>1, <3>1
  <2> QED
    BY <2>1, <2>2
<1>4. \A i, j \in DOMAIN h : h[i].table = h[j].table /\ h[i].id = h[j].id => i = j
  BY <1>2, <1>3
<1>5. HistoryInv(h)
  <2>1. ASSUME NEW i \in DOMAIN h, NEW j \in DOMAIN h, i < j
        PROVE  ~(h[i].table = h[j].table /\ h[i].id = h[j].id)
    <3>1. i # j
      BY <1>2, <2>1
    <3> QED
      BY Zenon, <1>4, <3>1
  <2> QED
    BY <2>1 DEF HistoryInv, InOrder
<1>6. AvailabilityInv(exposed, h)
  <2>1. exposed \in Seq(AvailabilityKept)
    BY DEF ExposedRow, AvailabilityKept
  <2>2. \A k \in DOMAIN h : h[k].table = "availability" =>
          k \in DOMAIN exposed /\ h[k].id = k /\ h[k].row = exposed[k]
    BY <1>3
  <2>3. ASSUME NEW i \in Ids(exposed)
        PROVE  WrittenLast(h, "availability", i, Len(h)) = {exposed[i]}
    <3>1. i \in DOMAIN h /\ h[i].table = "availability" /\ h[i].id = i /\ h[i].row = exposed[i]
      BY <1>1, <1>2 DEF Ids
    <3>2. WrittenLast(h, h[i].table, h[i].id, Len(h)) = {h[i].row}
      BY <1>4, <3>1, OnlyIsLast
    <3> QED
      BY Zenon, <3>1, <3>2
  <2>4. ASSUME NEW i \in DOMAIN exposed
        PROVE  exposed[i].version <= exposed[i].version
    <3>1. exposed[i].version = 1
      BY DEF ExposedRow
    <3> QED
      BY <3>1
  <2>5. Accounted(exposed, h, "availability")
    BY <2>2, <2>3, <2>4 DEF Accounted, Ids
  <2> QED
    BY <2>1, <2>2, <2>5 DEF AvailabilityInv, SameExposure
<1>7. EntitlementInv(granted, h)
  <2>1. \A k \in DOMAIN h : h[k].table = "entitlement" =>
          k - n \in DOMAIN granted /\ h[k].id = k - n /\ h[k].row = granted[k - n]
    BY <1>3
  <2>2. ASSUME NEW i \in Ids(granted)
        PROVE  WrittenLast(h, "entitlement", i, Len(h)) = {granted[i]}
    <3> PICK k : k = n + i
      OBVIOUS
    <3>1. k \in DOMAIN h /\ h[k].table = "entitlement" /\ h[k].id = i /\ h[k].row = granted[i]
      BY <1>1, <1>2 DEF Ids
    <3>2. WrittenLast(h, h[k].table, h[k].id, Len(h)) = {h[k].row}
      BY <1>4, <3>1, OnlyIsLast
    <3> QED
      BY Zenon, <3>1, <3>2
  <2>3. ASSUME NEW i \in DOMAIN granted
        PROVE  granted[i].version <= granted[i].version
    <3>1. granted[i].version = 1
      BY DEF Granted
    <3> QED
      BY <3>1
  <2>4. Accounted(granted, h, "entitlement")
    BY <2>1, <2>2, <2>3 DEF Accounted, Ids
  <2> QED
    BY <2>4 DEF EntitlementInv, Granted, Ids
<1> QED
  BY <1>5, <1>6, <1>7

\* The history of a new database is that of its rows.
LEMMA SeededAccounted ==
  ASSUME NEW exposed \in Seq(ExposedRow), NEW granted \in Seq(EntitlementRow), Granted(granted)
  PROVE  /\ HistoryInv(HistoryOf(exposed, granted))
         /\ AvailabilityInv(exposed, HistoryOf(exposed, granted))
         /\ EntitlementInv(granted, HistoryOf(exposed, granted))
BY Zenon, SeededHistory, OneEventEach

\* No switch was operated yet.
LEMMA SeededSwitches ==
  SwitchesInv([id \in KillSwitchId |-> SeededSwitch], <<>>)
<1> PICK switches : switches = [id \in KillSwitchId |-> SeededSwitch]
  OBVIOUS
<1>1. SeededSwitch \in SwitchRow
  BY DEF SeededSwitch, SwitchRow, SwitchState, Open
<1>2. switches \in [KillSwitchId -> SwitchRow]
  BY <1>1
<1>3. \A id \in KillSwitchId : LastOf(<<>>, id, Len(<<>>)) = SeededSwitch
  <2>1. 1 .. Len(<<>>) = {}
    OBVIOUS
  <2> QED
    BY <2>1 DEF LastOf
<1> QED
  BY <1>2, <1>3 DEF SwitchesInv

\* The ledger of a new database holds one activation.
LEMMA SeededLedger ==
  ASSUME NEW jurisdiction \in DOMAIN Register, NEW i \in DOMAIN Packs
  PROVE  LedgerInv(<<SeededActivation(jurisdiction, Packs[i].version)>>)
<1>1. PICK event : event = SeededActivation(jurisdiction, Packs[i].version)
  OBVIOUS
<1>2. event \in ActivationKept
  <2>1. PICK pack : pack = Packs[i].version
    OBVIOUS
  <2>2. pack \in {Packs[j].version : j \in DOMAIN Packs}
    BY <2>1
  <2>3. event = [jurisdiction |-> jurisdiction, pack |-> pack, action |-> "ACTIVATED", at |-> 0]
    BY <1>1, <2>1, Zenon DEF SeededActivation
  <2> QED
    BY <2>2, <2>3, RequestsAssumption DEF ActivationKept, ActivationRow, ActivationAction
<1>3. <<event>> \in Seq(ActivationKept) /\ Ids(<<event>>) = {1}
  BY <1>2 DEF Ids
<1>4. LedgerInv(<<event>>)
  BY <1>3 DEF LedgerInv
<1> QED
  BY <1>1, <1>4

\* A new database satisfies the invariant.
LEMMA InitIInv ==
  ASSUME Init
  PROVE  IInv
<1>1. PICK jurisdiction \in DOMAIN Register, i \in DOMAIN Packs,
           exposed \in Seq(ExposedRow), granted \in Seq(EntitlementRow) :
        Granted(granted) /\ PolicyInit(jurisdiction, Packs[i].version, exposed, granted)
  BY DEF Init
<1>2. /\ DOMAIN db = Fields
      /\ db.assigned = [s \in Subject |-> <<SeededAssignment(jurisdiction)>>]
      /\ db.ledger = <<SeededActivation(jurisdiction, Packs[i].version)>>
      /\ db.selections = <<>>
      /\ db.switches = [id \in KillSwitchId |-> SeededSwitch]
      /\ db.switchHistory = <<>>
      /\ db.availability = exposed /\ db.entitlements = granted
      /\ db.history = HistoryOf(exposed, granted)
  BY <1>1 DEF PolicyInit, Fields
<1>3. db.assigned \in [Subject -> Seq(AssignmentKept)]
  <2>1. SeededAssignment(jurisdiction) \in AssignmentKept
    BY DEF SeededAssignment, AssignmentKept, UserAssignmentRow, AssignmentSource,
           VerificationStatus, VerificationPermittedForSource, Open
  <2> QED
    BY <1>2, <2>1
<1>4. TablesInv
  BY <1>1, <1>2, <1>3, SeededAccounted, SeededSwitches, SeededLedger DEF TablesInv
<1>5. now \in 0 .. MaxNow /\ req = [q \in Requests |-> Idle]
  BY <1>1 DEF PolicyInit
<1>6. Idle = Row("idle", <<>>, 0, <<>>) /\ 0 \in 0 .. MaxNow
  BY RequestsAssumption DEF Idle, Row
<1>7. RequestsShaped
  BY <1>5, <1>6 DEF RequestsShaped, Row
<1>8. Sound(Idle)
  BY <1>6, QuietSound DEF Quiet
<1> QED
  BY <1>4, <1>5, <1>7, <1>8 DEF IInv

-----------------------------------------------------------------------------
(* The invariant *)

\* Every step of the composition, and a step that leaves the variables alone.
LEMMA NextSteps ==
  ASSUME IInv, [Next]_vars
  PROVE  Step
<1>1. CASE JurisdictionNext
  BY <1>1, JurisdictionSteps
<1>2. CASE SubjectPolicyNext
  BY <1>2, SubjectPolicySteps
<1>3. CASE KillSwitchesNext
  BY <1>3, KillSwitchSteps
<1>4. CASE CapabilityNext
  BY <1>4, CapabilitySteps
<1>5. ASSUME NEW q \in Requests, AppendAudit(q) \/ Abandon(q)
      PROVE  Step
  BY <1>5, AppendAuditSteps, EndSteps DEF Abandon
<1>6. CASE Tick
  BY <1>6, TickSteps
<1>7. CASE UNCHANGED vars
  <2>1. db' = db /\ req' = req /\ now' = now
    BY <1>7 DEF vars
  <2> QED
    BY <2>1, ClockSteps DEF IInv, RequestsShaped
<1> QED
  BY <1>1, <1>2, <1>3, <1>4, <1>5, <1>6, <1>7 DEF Next

\* The invariant holds in every behaviour.
LEMMA Invariance == Spec => []IInv
<1>1. Init => IInv
  BY InitIInv
<1>2. IInv /\ [Next]_vars => IInv'
  BY NextSteps DEF Step
<1> QED
  BY <1>1, <1>2, PTL DEF Spec

\* An election that is made or withdrawn after an instant leaves the answers
\* about that instant alone.
LEMMA ReplayStays ==
  ASSUME NEW rows \in Seq(SelectionKept), NEW new \in Seq(SelectionKept), NEW when \in Nat,
         ElectedAt(rows, new, when), NEW c, NEW at \in Nat, at < when
  PROVE  SelectionVersions(new, c, at) = SelectionVersions(rows, c, at)
<1>1. ASSUME NEW i \in Ids(rows)
      PROVE  /\ i \in Ids(new) /\ SameElection(rows[i], new[i])
             /\ WasWithdrawnBy(new[i], at) = WasWithdrawnBy(rows[i], at)
  <2>1. /\ i \in Ids(new) /\ SameElection(rows[i], new[i])
        /\ \/ new[i].withdrawn = rows[i].withdrawn
           \/ rows[i].withdrawn = Open /\ new[i].withdrawn = when
    BY DEF ElectedAt
  <2>2. WasWithdrawnBy(new[i], at) = WasWithdrawnBy(rows[i], at)
    BY <2>1 DEF WasWithdrawnBy, Open
  <2> QED
    BY <2>1, <2>2
<1>2. ASSUME NEW i \in Ids(new), i \notin Ids(rows)
      PROVE  ~(new[i].from <= at)
  BY <1>2 DEF ElectedAt
<1>3. Candidates(new, c, at) = Candidates(rows, c, at)
  BY <1>1, <1>2 DEF Candidates, WindowCovers, SameElection
<1>4. RanOut(new, c, at) = RanOut(rows, c, at)
  BY <1>1, <1>2 DEF RanOut, SameElection
<1>5. Candidates(rows, c, at) \subseteq Ids(rows) /\ RanOut(rows, c, at) \subseteq Ids(rows)
  BY DEF Candidates, RanOut
<1>6. PICK candidates, expired :
        candidates = Candidates(rows, c, at) /\ expired = RanOut(rows, c, at)
  OBVIOUS
<1>7. \A i \in Ids(rows) : /\ new[i].from = rows[i].from /\ new[i].to = rows[i].to
                           /\ new[i].pack = rows[i].pack /\ new[i].profile = rows[i].profile
  BY <1>1 DEF SameElection
<1>8. {i \in candidates : \A d \in candidates : new[d].from <= new[i].from}
        = {i \in candidates : \A d \in candidates : rows[d].from <= rows[i].from}
  BY <1>5, <1>6, <1>7
<1>9. {e \in expired : \A f \in expired : new[f].to <= new[e].to}
        = {e \in expired : \A f \in expired : rows[f].to <= rows[e].to}
  BY <1>5, <1>6, <1>7
<1>10. ResolveSelectionAt(new, c, at) = ResolveSelectionAt(rows, c, at)
  BY <1>3, <1>4, <1>6, <1>8, <1>9, Zenon DEF ResolveSelectionAt
<1>11. \A r \in ResolveSelectionAt(rows, c, at) :
         r.kind = "EFFECTIVE" => r.id \in Ids(rows)
  <2>1. \A i \in {i \in candidates : \A d \in candidates : rows[d].from <= rows[i].from} :
          i \in Ids(rows)
    BY <1>5, <1>6
  <2>2. CASE candidates # {}
    BY <1>6, <2>1, <2>2 DEF ResolveSelectionAt
  <2>3. CASE candidates = {}
    BY <1>6, <2>3 DEF ResolveSelectionAt
  <2> QED
    BY <2>2, <2>3
<1> DEFINE Version(table, r) ==
      IF r.kind = "EFFECTIVE"
        THEN [kind |-> "PINNED_VERSIONS", pack |-> table[r.id].pack,
              profile |-> table[r.id].profile]
        ELSE [kind |-> r.kind]
<1>12. \A r \in ResolveSelectionAt(rows, c, at) : Version(new, r) = Version(rows, r)
  BY <1>7, <1>11
<1>13. /\ SelectionVersions(new, c, at) = {Version(new, r) : r \in ResolveSelectionAt(new, c, at)}
       /\ SelectionVersions(rows, c, at)
            = {Version(rows, r) : r \in ResolveSelectionAt(rows, c, at)}
  BY DEF SelectionVersions
<1> HIDE DEF Version
<1> QED
  BY <1>10, <1>12, <1>13

-----------------------------------------------------------------------------
(* The theorems *)

\* The columns, checks and unique constraints of the four schemas hold of the
\* tables, after whatever statements, in whatever order, wrote them.
THEOREM TypeCorrect == Spec => []PolicyTypeOK
<1>1. ASSUME IInv
      PROVE  PolicyTypeOK
  <2>1. ASSUME NEW s \in Subject
        PROVE  /\ db.assigned[s] \in Seq(UserAssignmentRow)
               /\ \A i \in Ids(db.assigned[s]) :
                    LET row == db.assigned[s][i]
                    IN VerificationPermittedForSource(row.source, row.verified)
                       /\ (row.to # Open => row.to > row.from)
    <3>1. db.assigned[s] \in Seq(AssignmentKept)
      BY <1>1 DEF IInv, TablesInv
    <3> QED
      BY <3>1 DEF AssignmentKept, Ids
  <2>2. db.ledger \in Seq(ActivationRow)
    BY <1>1 DEF IInv, TablesInv, LedgerInv, ActivationKept
  <2>3. /\ db.selections \in Seq(SelectionRow)
        /\ \A i \in Ids(db.selections) :
             (db.selections[i].status = "WITHDRAWN") = (db.selections[i].withdrawn # Open)
    <3>1. db.selections \in Seq(SelectionKept)
      BY <1>1 DEF IInv, TablesInv
    <3> QED
      BY <3>1 DEF SelectionKept, Ids
  <2>4. db.availability \in Seq(AvailabilityRow)
    BY <1>1 DEF IInv, TablesInv, AvailabilityInv, AvailabilityKept
  <2> QED
    BY <1>1, <2>1, <2>2, <2>3, <2>4
       DEF PolicyTypeOK, IInv, TablesInv, LedgerInv, SwitchesInv, EntitlementInv
<1> QED
  BY <1>1, Invariance, PTL

\* CheckKillSwitch: a guarded call that was admitted was admitted by a version
\* that stood while it ran, and the versions of a switch count up.
THEOREM RestrictionsAreObeyed == Spec => []RestrictionIsObeyed
<1>1. ASSUME IInv
      PROVE  RestrictionIsObeyed
  <2>1. ASSUME NEW id, NEW n
        PROVE  LastVersion(id, n) = LastOf(db.switchHistory, id, n)
    BY DEF LastVersion, LastOf, Last
  <2>2. ASSUME NEW q \in Requests, At(q, "admitted")
        PROVE  \E n \in req[q].in.seen .. Len(db.switchHistory) :
                 /\ LastVersion(req[q].in.id, n) = req[q].read.row
                 /\ ~Restricted(req[q].read.row, req[q].read.at)
    BY <1>1, <2>1, <2>2 DEF IInv, Sound, SwitchSound, SeenSince, At
  <2> QED
    BY <1>1, <2>1, <2>2 DEF RestrictionIsObeyed, IInv, TablesInv, SwitchesInv
<1> QED
  BY <1>1, Invariance, PTL

\* The ceiling source and the pin source: a pack that is handed out was
\* activated and stood when it was asked for, and a ceiling also rests on a
\* verified assignment and on a valid pack.
THEOREM CeilingsRestOnTheLedger == Spec => []CeilingStands
<1>1. ASSUME IInv
      PROVE  CeilingStands
  <2> SUFFICES ASSUME NEW q \in Requests
               PROVE  CeilingSound(req[q], db.assigned["user"], db.ledger)
    BY DEF CeilingStands, CeilingSound, At, StoodIn, StoodAfter, VerifiedFor, MayGovern
  <2> QED
    BY <1>1 DEF IInv, Sound
<1> QED
  BY <1>1, Invariance, PTL

\* ResolveCapabilityAvailability: an allowed capability was exposed and held
\* in versions that stood during the resolution, within what the code declares.
THEOREM AllowedRestsOnTheLedger == Spec => []AllowedByLedger
<1>1. ASSUME IInv
      PROVE  AllowedByLedger
  <2>1. ASSUME NEW q \in Requests, At(q, "resolved"),
               req[q].read.resolution.outcome = "ALLOWED"
        PROVE  ClearedByLedger(db.history, req[q].read.snapshot, req[q].in.began)
    BY <1>1, <2>1 DEF IInv, Sound, ResolutionSound, At
  <2> QED
    BY <2>1 DEF AllowedByLedger, ClearedByLedger, ReadSince, WrittenSince, LastWritten,
                WrittenLast, Last, ScopedAtBegin, ScopedThen
<1> QED
  BY <1>1, Invariance, PTL

\* Setting an availability and granting or revoking an entitlement: every
\* version is in the history once, in order, and no allowing state goes beyond
\* the descriptors.
THEOREM ExposureAccounts == Spec => []ExposureIsAccounted
<1>1. ASSUME IInv
      PROVE  ExposureIsAccounted
  <2>1. InOrder(db.history) /\ db.availability \in Seq(AvailabilityKept)
    BY <1>1 DEF IInv, TablesInv, HistoryInv, AvailabilityInv
  <2>2. ASSUME NEW i \in Ids(db.availability)
        PROVE  db.availability[i] \in AvailabilityKept
    BY <2>1 DEF Ids
  <2> QED
    BY <2>1, <2>2 DEF ExposureIsAccounted, InOrder, AvailabilityKept, MaySet
<1> QED
  BY <1>1, Invariance, PTL

\* The guards of migrations 0072 and 0073 and the append-only ledger: an
\* assignment only ends, once, and an event is never edited.
THEOREM AssignmentWindowsAreHistory == Spec => WindowsAreHistory
<1>1. ASSUME IInv, [Next]_vars
      PROVE  /\ \A s \in Subject : \A i \in Ids(db.assigned[s]) :
                  /\ i \in Ids(db'.assigned[s])
                  /\ db.assigned[s][i].to # Open => db'.assigned[s][i] = db.assigned[s][i]
                  /\ [db'.assigned[s][i] EXCEPT !.to = Open] = [db.assigned[s][i] EXCEPT !.to = Open]
             /\ \A i \in Ids(db.ledger) : i \in Ids(db'.ledger) /\ db'.ledger[i] = db.ledger[i]
  <2>1. AssignedKept(db.assigned, db'.assigned) /\ Extends(db.ledger, db'.ledger)
    BY <1>1, NextSteps DEF Step, Advances
  <2>2. ASSUME NEW s \in Subject, NEW i \in Ids(db.assigned[s])
        PROVE  /\ i \in Ids(db'.assigned[s])
               /\ db.assigned[s][i].to # Open => db'.assigned[s][i] = db.assigned[s][i]
               /\ [db'.assigned[s][i] EXCEPT !.to = Open] = [db.assigned[s][i] EXCEPT !.to = Open]
    <3>1. PICK row, new : row = db.assigned[s][i] /\ new = db'.assigned[s][i]
      OBVIOUS
    <3>2. i \in Ids(db'.assigned[s]) /\ OnlyEnded(row, new)
      BY <2>1, <3>1 DEF AssignedKept
    <3>3. row.to # Open => new = row
      BY <3>2 DEF OnlyEnded
    <3>4. [new EXCEPT !.to = Open] = [row EXCEPT !.to = Open]
      <4>1. row \in UserAssignmentRow
        <5>1. PICK rows : rows = db.assigned[s]
          OBVIOUS
        <5>2. rows \in Seq(AssignmentKept) /\ i \in DOMAIN rows /\ row = rows[i]
          BY <1>1, <3>1, <5>1 DEF IInv, TablesInv, Ids
        <5>3. row \in AssignmentKept
          BY <5>2
        <5> QED
          BY <5>3 DEF AssignmentKept
      <4>2. CASE new = [row EXCEPT !.to = new.to]
        BY <4>1, <4>2 DEF UserAssignmentRow
      <4> QED
        BY <3>2, <4>2 DEF OnlyEnded
    <3> QED
      BY <3>1, <3>2, <3>3, <3>4
  <2> QED
    BY <2>1, <2>2 DEF Extends
<1> QED
  BY <1>1, Invariance, PTL DEF Spec, WindowsAreHistory

\* resolveSelectionAt: no election and no withdrawal reaches back to an instant
\* that is settled, although both change rows that its replay reads.
THEOREM SettledInstantsReplay == Spec => ReplayIsStable
<1>1. ASSUME IInv, [Next]_vars, NEW c \in Elective, NEW at \in 0 .. MaxNow, Settled(at)
      PROVE  SelectionVersions(db'.selections, c, at) = SelectionVersions(db.selections, c, at)
  <2>1. SelectionsMove /\ TablesInv'
    BY <1>1, NextSteps DEF Step, Advances
  <2>2. CASE db'.selections = db.selections
    BY <2>2, Zenon
  <2>3. ASSUME NEW q \in Requests, req[q].at \in {"selection.insert", "selection.withdraw"},
               ElectedAt(db.selections, db'.selections, req[q].now)
        PROVE  SelectionVersions(db'.selections, c, at) = SelectionVersions(db.selections, c, at)
    <3>1. PICK rows, new, when :
            rows = db.selections /\ new = db'.selections /\ when = req[q].now
      OBVIOUS
    <3>2. rows \in Seq(SelectionKept) /\ new \in Seq(SelectionKept)
      BY <1>1, <2>1, <3>1 DEF IInv, TablesInv
    <3>3. when \in Nat /\ at \in Nat /\ at < when
      BY <1>1, <2>3, <3>1, RequestsAssumption DEF Settled, IInv, Sound
    <3>4. ElectedAt(rows, new, when)
      BY <2>3, <3>1
    <3>5. SelectionVersions(new, c, at) = SelectionVersions(rows, c, at)
      BY <3>2, <3>3, <3>4, ReplayStays
    <3> QED
      BY <3>1, <3>5, Zenon
  <2> QED
    BY <2>1, <2>2, <2>3 DEF SelectionsMove
<1>2. IInv /\ [Next]_vars
        => \A c \in Elective, at \in 0 .. MaxNow :
             Settled(at) => SelectionVersions(db'.selections, c, at)
                              = SelectionVersions(db.selections, c, at)
  BY <1>1
<1> QED
  BY <1>2, Invariance, PTL DEF Spec, ReplayIsStable
=============================================================================
