----------------------------- MODULE Capability -----------------------------
(***************************************************************************)
(* Capability exposure (src/modules/capability): availability rows per     *)
(* environment and jurisdiction, the tenant's entitlements, and the        *)
(* resolver that takes a capability through eight gates.                   *)
(*                                                                         *)
(* Both tables are changed by compare-and-set on a version, and triggers   *)
(* append every version to a history (migrations 0076, 0077).  A           *)
(* resolution reads the ceiling once, then for each capability its         *)
(* availability, its entitlement and what the ports say, each a statement  *)
(* of its own, and decides on that snapshot.                               *)
(*                                                                         *)
(* The ceiling, consent, licence and provider facts come from ports; a     *)
(* port gives any of the answers in PortCeilings, ConsentAnswers,          *)
(* LicensingAnswers and ProviderAnswers.  Licence types and provider kinds *)
(* are one each.  in.began says how much of the history was committed when *)
(* the resolution began.                                                   *)
(***************************************************************************)
EXTENDS Requests

CONSTANTS
  Capabilities,      \* the registry's ids
  Descriptor,        \* id -> [implemented, deployed, declared, hidden, explainable]
  Environments,      \* the deployment environments
  HomeEnvironment,   \* the environment the resolver was constructed for
  Scopes,            \* jurisdictions a row may be scoped to
  EveryScope,        \* the null jurisdiction of an environment-wide row
  PortCeilings, ConsentAnswers, LicensingAnswers, ProviderAnswers,
  AvailabilityInputs,   \* what operators configure, and the version they saw
  GrantInputs,          \* the entitlements operators grant: capability, from, to
  Questions             \* sequences of capabilities that are asked for

ASSUME CapabilityAssumption ==
  HomeEnvironment \in Environments /\ EveryScope \notin Scopes

AvailabilityState ==
  {"AVAILABLE", "BETA", "INTERNAL_ONLY", "PARTNER_ONLY", "DISABLED", "PENDING_PROVIDER",
   "PENDING_LEGAL_REVIEW", "PENDING_REGULATORY_REVIEW"}
AllowingStates == {"AVAILABLE", "BETA"}
EntitlementStatus == {"ACTIVE", "REVOKED", "EXPIRED"}
CeilingKinds == {"NO_ASSIGNMENT", "UNVERIFIED_ASSIGNMENT", "PACK_NOT_APPROVED", "RESOLVED"}

ASSUME CapabilityInputs ==
  /\ AvailabilityInputs \subseteq
       [environment : Environments, scope : Scopes \cup {EveryScope},
        capability : Capabilities, state : AvailabilityState, expected : Nat]
  /\ GrantInputs \subseteq [capability : Capabilities, from : Nat, to : Nat \cup {Open}]
  /\ Questions \subseteq Seq(Capabilities) \ {<<>>}
  /\ \A ceiling \in PortCeilings : ceiling.kind \in CeilingKinds

-----------------------------------------------------------------------------
\* Rows

AvailabilityRow ==
  [environment : Environments, scope : Scopes \cup {EveryScope}, capability : Capabilities,
   state : AvailabilityState, version : Nat \ {0}, updated : Nat]

EntitlementRow ==
  [capability : Capabilities, status : EntitlementStatus, from : Nat,
   to : Nat \cup {Open}, version : Nat \ {0}]

\* One event of a history: the row as its version was written.
Versioned(table, id, row) == [table |-> table, id |-> id, row |-> row]

-----------------------------------------------------------------------------
\* What the repositories compute

Newest(rows, found) == {i \in found : \A j \in found : rows[j].updated <= rows[i].updated}

ScopedRows(scope, capability) ==
  {i \in Ids(db.availability) :
     /\ db.availability[i].environment = HomeEnvironment
     /\ db.availability[i].scope = scope
     /\ db.availability[i].capability = capability}

\* MUTANT of AvailabilityFacts: the environment-wide row decides first.
EnvironmentWideFirst(scope, capability) ==
  LET wide == ScopedRows(EveryScope, capability)
  IN {[kind |-> "ROW", id |-> i, row |-> db.availability[i]] :
        i \in Newest(db.availability,
                     IF wide # {} THEN wide ELSE ScopedRows(scope, capability))}
     \cup (IF wide \cup ScopedRows(scope, capability) = {}
             THEN {[kind |-> "NO_ROW", elsewhere |-> FALSE]} ELSE {})

\* factsFor: the row of the jurisdiction, else the environment-wide one; of
\* several the latest by its update.
AvailabilityFacts(scope, capability) ==
  LET scoped == IF scope = EveryScope THEN {} ELSE ScopedRows(scope, capability)
      found == IF scoped # {} THEN scoped ELSE ScopedRows(EveryScope, capability)
      elsewhere == {i \in Ids(db.availability) :
                      /\ db.availability[i].environment # HomeEnvironment
                      /\ db.availability[i].capability = capability}
  IN IF found = {} THEN {[kind |-> "NO_ROW", elsewhere |-> elsewhere # {}]}
     ELSE {[kind |-> "ROW", id |-> i, row |-> db.availability[i]] :
             i \in Newest(db.availability, found)}

\* findExact: the latest row of exactly this scope, or none.
FindExact(environment, scope, capability) ==
  LET found == {i \in Ids(db.availability) :
                  /\ db.availability[i].environment = environment
                  /\ db.availability[i].scope = scope
                  /\ db.availability[i].capability = capability}
  IN IF found = {} THEN {0} ELSE Newest(db.availability, found)

FindEntitlement(capability) ==
  LET found == {i \in Ids(db.entitlements) : db.entitlements[i].capability = capability}
  IN IF found = {} THEN 0 ELSE CHOOSE i \in found : TRUE

EntitlementFacts(capability) ==
  LET i == FindEntitlement(capability)
  IN IF i = 0 THEN [kind |-> "NONE"] ELSE [kind |-> "ROW", id |-> i, row |-> db.entitlements[i]]

\* MUTANT of EntitlementSatisfiesAt: the status is not looked at.
WindowSatisfies(row, at) == row.from <= at /\ (row.to = Open \/ row.to > at)

EntitlementSatisfiesAt(row, at) ==
  /\ row.status = "ACTIVE"
  /\ row.from <= at
  /\ row.to = Open \/ row.to > at

-----------------------------------------------------------------------------
\* The engine: eight gates over a snapshot

Denied(gate, reason) == [outcome |-> "DENIED", gate |-> gate, reason |-> reason]
Passed == [outcome |-> "PASSED"]

DescriptorGate(s) ==
  LET d == Descriptor[s.capability]
  IN IF ~d.implemented THEN Denied("DESCRIPTOR", "NOT_IMPLEMENTED")
     ELSE IF HomeEnvironment \notin d.deployed THEN Denied("DESCRIPTOR", "NOT_DEPLOYED")
     ELSE IF s.availability.kind = "NO_ROW" /\ s.availability.elsewhere
       THEN Denied("ENVIRONMENT", "WRONG_ENVIRONMENT")
       ELSE Passed

\* What the ceiling clears for the capability: a set of at most one entry.
ClearedFor(ceiling, capability) ==
  IF ceiling.kind # "RESOLVED" THEN {}
  ELSE {c \in ceiling.cleared : c.capability = capability}

JurisdictionGate(s) ==
  CASE s.ceiling.kind = "NO_ASSIGNMENT" -> Denied("JURISDICTION", "JURISDICTION_ABSENT")
    [] s.ceiling.kind = "UNVERIFIED_ASSIGNMENT" ->
         Denied("JURISDICTION", "JURISDICTION_UNVERIFIED")
    [] s.ceiling.kind = "PACK_NOT_APPROVED" ->
         Denied("JURISDICTION", "POLICY_PACK_NOT_APPROVED")
    [] s.ceiling.kind = "RESOLVED" ->
         IF \/ ClearedFor(s.ceiling, s.capability) = {}
            \/ s.ceiling.scope \notin Descriptor[s.capability].declared
           THEN Denied("JURISDICTION", "JURISDICTION_NOT_CLEARED")
         ELSE IF /\ \E c \in ClearedFor(s.ceiling, s.capability) : c.verified
                 /\ ~s.ceiling.verified
           THEN Denied("JURISDICTION", "JURISDICTION_UNVERIFIED")
           ELSE Passed

AvailabilityGate(s) ==
  IF s.availability.kind = "NO_ROW" THEN Denied("AVAILABILITY", "DISABLED")
  ELSE IF s.availability.row.state \notin AllowingStates
    THEN Denied("AVAILABILITY", s.availability.row.state)
    ELSE Passed

EntitlementGate(s, at) ==
  IF s.entitlement.kind = "NONE" THEN Denied("ENTITLEMENT", "ENTITLEMENT_MISSING")
  ELSE IF EntitlementSatisfiesAt(s.entitlement.row, at) THEN Passed
  ELSE Denied("ENTITLEMENT", IF s.entitlement.row.status = "REVOKED"
                               THEN "ENTITLEMENT_MISSING" ELSE "ENTITLEMENT_EXPIRED")

\* consent is "NOT_EVALUATED", "NO_DOCUMENT" or the state of the grant.
ConsentGate(basis, consent) ==
  IF basis = "DECLARED_BASIS" THEN Passed
  ELSE IF basis = "UNRESOLVED" THEN Denied("CONSENT", "PROCESSING_BASIS_UNRESOLVED")
  ELSE IF consent = "ACTIVE" THEN Passed
  ELSE Denied("CONSENT", IF consent = "RECONSENT_REQUIRED"
                           THEN "RECONSENT_REQUIRED" ELSE "CONSENT_REQUIRED")

\* A claim is not evidence; an undated licence is not in effect.
LicenceStands(l, at) ==
  l.status = "EVIDENCED" /\ l.from # Open /\ l.from <= at /\ (l.to = Open \/ l.to > at)

LicenceLapsed(l, at) == l.status = "EXPIRED" \/ (l.to # Open /\ l.to <= at)

\* The licences are those of the required type that the effective entity holds.
LicenceGate(required, licensing, at) ==
  IF ~required THEN Passed
  ELSE IF licensing.kind # "ENTITY" \/ ~licensing.permitted
  THEN Denied("LICENCE", "LICENCE_MISSING")
  ELSE IF \E l \in licensing.licences : LicenceStands(l, at) THEN Passed
  ELSE Denied("LICENCE", IF \E l \in licensing.licences : LicenceLapsed(l, at)
                           THEN "LICENCE_EXPIRED" ELSE "LICENCE_MISSING")

ProviderGate(required, status) ==
  IF ~required \/ status = "CONNECTED" THEN Passed
  ELSE Denied("PROVIDER", IF status = "UNAVAILABLE"
                            THEN "PROVIDER_UNAVAILABLE" ELSE "PENDING_PROVIDER")

\* The gates that need the clearance, in order.
ClearanceGates(s, at) ==
  LET c == CHOOSE x \in ClearedFor(s.ceiling, s.capability) : TRUE
  IN <<ConsentGate(c.basis, s.consent), LicenceGate(c.licence, s.licensing, at),
       ProviderGate(c.provider, s.provider)>>

FirstDenied(gates) ==
  LET denied == {i \in DOMAIN gates : gates[i].outcome = "DENIED"}
  IN IF denied = {} THEN Passed ELSE gates[CHOOSE i \in denied : \A j \in denied : i <= j]

\* resolveCapabilityGates: the first gate that fails names the denial.
ResolveGates(s, at) ==
  LET early == FirstDenied(<<DescriptorGate(s), JurisdictionGate(s), AvailabilityGate(s),
                             EntitlementGate(s, at)>>)
      denial == IF early.outcome = "DENIED" THEN early
                ELSE FirstDenied(ClearanceGates(s, at))
  IN IF denial.outcome = "DENIED" THEN denial
     ELSE [outcome |-> "ALLOWED", state |-> s.availability.row.state]

\* A denial at a ceiling gate while a row would grant is audited.
AboveCeiling(s, resolution, at) ==
  LET allowing == s.availability.kind = "ROW" /\ s.availability.row.state \in AllowingStates
      satisfied == s.entitlement.kind = "ROW" /\ EntitlementSatisfiesAt(s.entitlement.row, at)
  IN /\ resolution.outcome = "DENIED"
     /\ resolution.gate \in {"DESCRIPTOR", "ENVIRONMENT", "JURISDICTION", "AVAILABILITY"}
     /\ \/ allowing /\ resolution.gate \in {"DESCRIPTOR", "JURISDICTION"}
        \/ satisfied

\* clientReasonFor: what a client may be told; every other denial is hidden.
ClientReason(reason, explainable) ==
  IF \/ reason \in {"CONSENT_REQUIRED", "RECONSENT_REQUIRED", "ENTITLEMENT_MISSING",
                    "ENTITLEMENT_EXPIRED"}
     \/ reason = "PENDING_PROVIDER" /\ explainable
    THEN {reason} ELSE {}

\* toClientView of one resolution: the entries it shows, at most one.
ClientEntry(capability, resolution) ==
  LET d == Descriptor[capability]
  IN IF d.hidden THEN {}
     ELSE IF resolution.outcome = "ALLOWED"
       THEN {[capability |-> capability, available |-> TRUE, shows |-> resolution.state]}
       ELSE {[capability |-> capability, available |-> FALSE, shows |-> r] :
               r \in ClientReason(resolution.reason, d.explainable)}

-----------------------------------------------------------------------------
\* SetCapabilityAvailability

\* Why an allowing state would exceed what the code declares.
CeilingBreach(capability, environment, scope) ==
  LET d == Descriptor[capability]
  IN \/ ~d.implemented
     \/ environment \notin d.deployed
     \/ scope # EveryScope /\ scope \notin d.declared

\* MUTANT of MaySet: any state can be configured for missing code.
AnyStateMaySet(capability, environment, scope, state) == TRUE

MaySet(capability, environment, scope, state) ==
  state \in AllowingStates => ~CeilingBreach(capability, environment, scope)

\* expected is the version the operator saw, or 0 when none was given.
BeginSetAvailability(q, environment, scope, capability, state, expected) ==
  \E found \in FindExact(environment, scope, capability) :
    LET in == [environment |-> environment, scope |-> scope, capability |-> capability,
               state |-> state, expected |-> expected]
    IN IF MaySet(capability, environment, scope, state)
         THEN /\ found # 0 => expected # 0
              /\ Begins(q, "availability",
                        IF found = 0 THEN "availability.insert" ELSE "availability.update",
                        in, found)
         ELSE Begins(q, "availability", "audit", in,
                     [action |-> "capability.availability.set", outcome |-> "DENIED",
                      capability |-> capability, state |-> state])

\* A jurisdiction's row is unique; the environment-wide one is not, for null
\* equals nothing in a unique constraint.
AvailabilityIsNew(in) ==
  in.scope = EveryScope \/ FindExact(in.environment, in.scope, in.capability) = {0}

WritesVersion(q, tables, table, id, row, action) ==
  WritesAudited(q, [tables EXCEPT !.history = Append(@, Versioned(table, id, row))],
                [action |-> action, outcome |-> "SUCCESS", id |-> id, version |-> row.version])

InsertAvailability(q) ==
  LET in == req[q].in
      row == [environment |-> in.environment, scope |-> in.scope,
              capability |-> in.capability, state |-> in.state, version |-> 1,
              updated |-> req[q].now]
  IN /\ At(q, "availability.insert")
     /\ Room(db.availability)
     /\ AvailabilityIsNew(in)
     /\ WritesVersion(q, [db EXCEPT !.availability = Append(@, row)], "availability",
                      Len(db.availability) + 1, row, "capability.availability.set")

\* updateState: WHERE the version is the one the operator saw; else a conflict.
UpdateAvailability(q) ==
  LET in == req[q].in
      i == req[q].read
      row == [db.availability[i] EXCEPT !.state = in.state, !.version = @ + 1, !.updated = now]
  IN /\ At(q, "availability.update")
     /\ db.availability[i].version = in.expected
     /\ WritesVersion(q, [db EXCEPT !.availability[i] = row], "availability", i, row,
                      "capability.availability.set")

-----------------------------------------------------------------------------
\* GrantTenantCapabilityEntitlement, RevokeTenantCapabilityEntitlement

BeginGrant(q, capability, from, to) ==
  LET i == FindEntitlement(capability)
  IN /\ to = Open \/ to > from
     /\ Begins(q, "entitlements", IF i = 0 THEN "entitlement.insert" ELSE "entitlement.update",
               [id |-> i, action |-> "capability.entitlement.grant",
                row |-> [capability |-> capability, status |-> "ACTIVE", from |-> from,
                         to |-> to,
                         version |-> IF i = 0 THEN 1 ELSE db.entitlements[i].version + 1]],
               <<>>)

\* A revocation ends the window: now, or where it starts, unless it has ended.
EndOfRevoked(row, at) ==
  IF row.to # Open /\ row.to <= at THEN row.to ELSE IF row.from > at THEN row.from ELSE at

BeginRevoke(q, capability) ==
  LET i == FindEntitlement(capability)
      row == db.entitlements[i]
  IN /\ i # 0
     /\ Begins(q, "entitlements", "entitlement.update",
               [id |-> i, action |-> "capability.entitlement.revoke",
                row |-> [row EXCEPT !.status = "REVOKED", !.to = EndOfRevoked(row, now),
                                    !.version = @ + 1]], <<>>)

\* One row per tenant and capability.
InsertEntitlement(q) ==
  LET in == req[q].in
  IN /\ At(q, "entitlement.insert")
     /\ Room(db.entitlements)
     /\ FindEntitlement(in.row.capability) = 0
     /\ WritesVersion(q, [db EXCEPT !.entitlements = Append(@, in.row)], "entitlement",
                      Len(db.entitlements) + 1, in.row, in.action)

\* transition: WHERE the version is the one that was read; else a conflict.
TransitionEntitlement(q) ==
  LET in == req[q].in
  IN /\ At(q, "entitlement.update")
     /\ db.entitlements[in.id].version = in.row.version - 1
     /\ WritesVersion(q, [db EXCEPT !.entitlements[in.id] = in.row], "entitlement", in.id,
                      in.row, in.action)

-----------------------------------------------------------------------------
\* ResolveCapabilityAvailability

\* The ceiling is read once, for all the capabilities that are asked for.
BeginResolve(q, ids) ==
  \E ceiling \in PortCeilings :
    Begins(q, "resolutions", "resolve.availability",
           [ids |-> ids, ceiling |-> ceiling, began |-> Len(db.history)], <<>>)

ScopeOf(ceiling) == IF ceiling.kind = "RESOLVED" THEN ceiling.scope ELSE EveryScope

ReadAvailability(q) ==
  LET in == req[q].in
  IN /\ At(q, "resolve.availability")
     /\ \E facts \in AvailabilityFacts(ScopeOf(in.ceiling), Head(in.ids)) :
          Reads(q, "resolve.entitlement", facts)

\* The ports are asked only for what the clearance requires.
Asked(required, answers) == IF required THEN answers ELSE {[kind |-> "NOT_EVALUATED"]}

ReadEntitlement(q) ==
  LET in == req[q].in
      capability == Head(in.ids)
      cleared == ClearedFor(in.ceiling, capability)
  IN /\ At(q, "resolve.entitlement")
     /\ \E consent \in Asked(\E c \in cleared : c.basis = "CONSENT", ConsentAnswers),
           licensing \in Asked(\E c \in cleared : c.licence, LicensingAnswers),
           provider \in Asked(\E c \in cleared : c.provider, ProviderAnswers) :
          Reads(q, "resolve.gates",
                [capability |-> capability, ceiling |-> in.ceiling,
                 availability |-> req[q].read, entitlement |-> EntitlementFacts(capability),
                 consent |-> consent.kind, licensing |-> licensing, provider |-> provider.kind])

\* The gates decide; a denial above the ceiling is audited before the next
\* capability is looked at.
DecideGates(q) ==
  LET snapshot == req[q].read
      resolution == ResolveGates(snapshot, req[q].now)
      entry == [action |-> "capability.resolution.denied_above_ceiling",
                outcome |-> "DENIED", capability |-> snapshot.capability,
                reason |-> resolution.reason]
  IN /\ At(q, "resolve.gates")
     /\ db' = IF AboveCeiling(snapshot, resolution, req[q].now)
                THEN Recorded(entry) ELSE db
     /\ req' = [req EXCEPT ![q].at = "resolved",
                           ![q].read = [snapshot |-> snapshot, resolution |-> resolution]]
     /\ UNCHANGED <<now, left>>

NextCapability(q) ==
  /\ At(q, "resolved")
  /\ IF Tail(req[q].in.ids) = <<>>
       THEN Ends(q)
       ELSE /\ req' = [req EXCEPT ![q].at = "resolve.availability", ![q].read = <<>>,
                                  ![q].in.ids = Tail(@)]
            /\ UNCHANGED <<db, now, left>>

-----------------------------------------------------------------------------
CapabilityNext ==
  \E q \in Requests :
    \/ /\ May("availability")
       /\ \E c \in AvailabilityInputs :
            BeginSetAvailability(q, c.environment, c.scope, c.capability, c.state, c.expected)
    \/ /\ May("entitlements")
       /\ \/ \E c \in GrantInputs : BeginGrant(q, c.capability, c.from, c.to)
          \/ \E c \in Capabilities : BeginRevoke(q, c)
    \/ May("resolutions") /\ \E ids \in Questions : BeginResolve(q, ids)
    \/ InsertAvailability(q) \/ UpdateAvailability(q)
    \/ InsertEntitlement(q) \/ TransitionEntitlement(q)
    \/ ReadAvailability(q) \/ ReadEntitlement(q) \/ DecideGates(q) \/ NextCapability(q)

-----------------------------------------------------------------------------
\* Properties

\* The last version of a row among the first n events of the history.
LastWritten(table, id, n) ==
  LET mine == {i \in 1 .. n : db.history[i].table = table /\ db.history[i].id = id}
  IN IF mine = {} THEN {} ELSE {db.history[CHOOSE i \in mine : \A j \in mine : j <= i].row}

\* facts are a version of the row that was the last one at some point between
\* the beginning of the resolution and now.
ReadSince(table, facts, began) ==
  \E n \in began .. Len(db.history) : facts.row \in LastWritten(table, facts.id, n)

\* A row of this jurisdiction had been written when the resolution began.
ScopedAtBegin(scope, capability, began) ==
  \E i \in 1 .. began :
    /\ db.history[i].table = "availability"
    /\ db.history[i].row.environment = HomeEnvironment
    /\ db.history[i].row.scope = scope
    /\ db.history[i].row.capability = capability

\* An allowed capability is one that code, pack and descriptor clear, exposed
\* by a row of this environment and held by an active entitlement, each in a
\* version that stood at some point during the resolution: what was revoked
\* or disabled before the resolution began is never allowed, and a row of the
\* jurisdiction decides over the environment-wide one
\* (resolve-capability-availability.ts, domain/resolution.ts).
AllowedByLedger ==
  \A q \in Requests :
    At(q, "resolved") /\ req[q].read.resolution.outcome = "ALLOWED" =>
      LET s == req[q].read.snapshot
          began == req[q].in.began
      IN /\ ReadSince("availability", s.availability, began)
         /\ ReadSince("entitlement", s.entitlement, began)
         /\ s.entitlement.row.status = "ACTIVE"
         /\ s.availability.row.state \in AllowingStates
         /\ ~CeilingBreach(s.capability, HomeEnvironment, s.ceiling.scope)
         /\ s.availability.row.environment = HomeEnvironment
         /\ ScopedAtBegin(s.ceiling.scope, s.capability, began)
              => s.availability.row.scope = s.ceiling.scope

\* Every version of a row is in the history once, in order, and no allowing
\* state was ever configured beyond what the code declares.
ExposureIsAccounted ==
  /\ \A i, j \in DOMAIN db.history :
       i < j /\ db.history[i].table = db.history[j].table /\ db.history[i].id = db.history[j].id
         => db.history[i].row.version < db.history[j].row.version
  /\ \A i \in Ids(db.availability) :
       db.availability[i].state \in AllowingStates =>
         ~CeilingBreach(db.availability[i].capability, db.availability[i].environment,
                        db.availability[i].scope)
=============================================================================
