---------------------------- MODULE ConsentProofs ----------------------------
(***************************************************************************)
(* Theorems of Consent and of the register of Entities under it, for every *)
(* number of requests, entities, tenants, documents and grants: evidence   *)
(* and register are history, a grant pins what could be accepted, the      *)
(* trail is true, and processing is permitted on a live consent alone.     *)
(*                                                                         *)
(* The tables only move forward (Advances), so what a request has read     *)
(* stays worth what Sound says of it while other requests write; each      *)
(* action makes such a step (the Steps lemmas), and such steps preserve    *)
(* the invariant.                                                          *)
(***************************************************************************)
EXTENDS Consent, FiniteSetTheorems, WellFoundedInduction, TLAPS

-----------------------------------------------------------------------------
(* The tables *)

Fields ==
  {"entities", "bindings", "migrations", "licences", "roles", "permissions",
   "documents", "versions", "grants", "evaluations", "bases", "trail"}

\* Rows as the CHECKs and the guards leave them.
LicenceKept == {l \in LicenceRow : EvidenceHeld(l.status, l.evidence)}

MigrationKept == {m \in MigrationRow : m.status # "PROPOSED" => m.evaluation # None}

VersionKept ==
  {v \in VersionRow : v.published # Open => v.classification # Unclassified /\ v.effective # Open}

GrantKept == {g \in GrantRow : g.granted <= MaxNow}

TablesTyped ==
  /\ DOMAIN db = Fields
  /\ db.entities \in [Entity -> EntityStatus \cup {"UNKNOWN"}]
  /\ db.bindings \in Seq(AssignmentRow)
  /\ db.migrations \in Seq(MigrationKept)
  /\ db.licences \in Seq(LicenceKept)
  /\ db.roles \in Seq(RoleRow)
  /\ db.permissions \in Seq(PermissionRow)
  /\ db.documents \in Seq(DocumentRow)
  /\ db.versions \in Seq(VersionKept)
  /\ db.grants \in Seq(GrantKept)

\* What GrantsPinPublished says of one grant.
PinsPublished(grant) ==
  LET version == db.versions[grant.version]
      document == db.documents[version.document]
  IN /\ grant.version \in Ids(db.versions)
     /\ version.published # Open
     /\ document.entity = grant.entity
     /\ document.jurisdiction = grant.jurisdiction
     /\ grant.purpose \in document.purposes

\* The foreign keys of versions and grants.
References ==
  /\ \A v \in Ids(db.versions) : db.versions[v].document \in Ids(db.documents)
  /\ \A g \in Ids(db.grants) : PinsPublished(db.grants[g])

\* What an audit event says is so, and the row it names is there.
EntryStands(entry) ==
  /\ entry.action = "consent.grant.withdrawn" =>
       entry.id \in Ids(db.grants) /\ db.grants[entry.id].status = "WITHDRAWN"
  /\ entry.action = "consent.document_version.published" =>
       entry.id \in Ids(db.versions) /\ Published(entry.id)
  /\ entry.action = "entity.migration.advanced" /\ Terminal(entry.status) =>
       entry.id \in Ids(db.migrations) /\ db.migrations[entry.id].status = entry.status
  /\ entry.action = "entity.role_assignment.ended" =>
       entry.id \in Ids(db.roles) /\ db.roles[entry.id].to # Open

TrailStands == \A entry \in db.trail : EntryStands(entry)

TablesInv == TablesTyped /\ References /\ TrailStands

-----------------------------------------------------------------------------
(* What a request holds *)

\* What the register's calls were given, or checked, before they write.
RegisterSound(r) ==
  /\ r.at \in {"binding.open", "binding.end"} =>
       /\ r.in.scope \in Scope /\ r.in.tenant \in Tenant \cup {Platform}
       /\ r.in.entity \in Entity /\ r.in.from \in Nat
  /\ r.at = "migration.insert" => r.in.from \in Entity /\ r.in.to \in Entity
  /\ r.at = "migration.advance" =>
       /\ r.in.migration \in Ids(db.migrations)
       /\ r.in.to \in MigrationStatus \ {"PROPOSED"}
       /\ r.in.evaluation \in Evaluation
  /\ r.at = "entity.write" => r.in.entity \in Entity /\ r.in.status \in EntityStatus
  /\ r.at = "role.insert" => r.in \in RoleRow
  /\ r.at = "role.end" => r.in.id \in Ids(db.roles)
  /\ r.at = "permission.insert" => r.in \in PermissionRow
  /\ r.at = "licence.insert" => r.in \in LicenceKept
  /\ r.at = "licence.update" =>
       /\ r.in.id \in Ids(db.licences)
       /\ r.in.status \in LicenceStatus /\ r.in.evidence \in BOOLEAN
       /\ EvidenceHeld(r.in.status, r.in.evidence)

\* The same of the catalogue's calls: what is published was classified.
CatalogueSound(r) ==
  /\ r.at = "document.insert" => r.in \in DocumentRow
  /\ r.at = "version.insert" => r.in \in VersionKept /\ r.in.document \in Ids(db.documents)
  /\ r.at = "version.classify" =>
       r.in.version \in Ids(db.versions) /\ r.in.classification \in Classification
  /\ r.at = "version.publish" =>
       /\ r.in.version \in Ids(db.versions) /\ r.in.effective \in Nat
       /\ db.versions[r.in.version].classification # Unclassified

\* The call is at this statement, or looks the entity up before it.
Towards(r, at) == r.at = at \/ (r.at = "entity.default" /\ r.in.call = at)

\* A version that could be accepted when it was read can be accepted still.
ConsentSound(r) ==
  /\ r.at = "entity.default" => r.in.call \in {"accept.select", "check.document", "content.version"}
  /\ Towards(r, "accept.select") \/ r.at = "accept.commit" =>
       /\ r.in.tenant \in Tenant
       /\ r.in.ask.purpose \in Purpose /\ r.in.ask.pack \in PinnedPacks
       /\ r.in.ask.version \in Ids(db.versions)
       /\ MayBeAccepted(r.in.ask.version, r.in.ask.purpose)
  /\ r.at = "withdraw" => r.in.grant \in Ids(db.grants)

PublishedIds(versions) == {v \in Ids(versions) : versions[v].published # Open}

\* A version keeps its document, and all it says from its publication on.
VersionStays(v, w) == v.published = Open /\ w.document = v.document

\* The tables when a check began are what the tables came from.
SnapshotHolds(ask) ==
  /\ ask.grants \in Seq(GrantKept)
  /\ ask.versions \in Seq(VersionKept)
  /\ Kept(ask.grants, db.grants, OnlyDecided)
  /\ Kept(ask.versions, db.versions, VersionStays)

\* No other document of the time when the check began covers what is asked.
DocumentStands(ask, read) ==
  LET covering == Covering(read.entity, ask.purpose, ask.scope)
  IN /\ read.document \in covering
     /\ \A v \in Ids(ask.versions) :
          ask.versions[v].document \in covering => ask.versions[v].document = read.document

\* The version that was read was in force at the start, if none came since.
VersionStands(ask, read, at) ==
  LET inForce == CurrentEffective(ask.versions, read.document, at)
  IN PublishedIds(ask.versions) = PublishedIds(db.versions) =>
       IF read.effective = 0 THEN inForce = {} ELSE read.effective \in inForce

CheckSound(r) ==
  /\ Towards(r, "check.document") \/ r.at \in {"check.version", "check.grant", "checked"} =>
       SnapshotHolds(r.in.ask)
  /\ r.at \in {"check.version", "check.grant"} => DocumentStands(r.in.ask, r.read)
  /\ r.at = "check.grant" => VersionStands(r.in.ask, r.read, r.now)
  /\ r.at = "checked" /\ r.read.state = "ACTIVE" =>
       /\ r.read.grant \in Ids(db.grants)
       /\ GrantStood(r.in, r.read)
       /\ NoMaterialVersion(r.in, r.read, r.now)

Sound(r) ==
  /\ r.now \in 0 .. MaxNow
  /\ RegisterSound(r) /\ CatalogueSound(r) /\ ConsentSound(r) /\ CheckSound(r)
  /\ r.at = "audit" => EntryStands(r.read)

Row(at, in, when, read) == [at |-> at, in |-> in, now |-> when, read |-> read]

RequestsShaped ==
  /\ now \in 0 .. MaxNow
  /\ DOMAIN req = Requests
  /\ \A q \in Requests : req[q] = Row(req[q].at, req[q].in, req[q].now, req[q].read)

IInv ==
  /\ TablesInv
  /\ RequestsShaped
  /\ \A q \in Requests : Sound(req[q])

-----------------------------------------------------------------------------
(* What one step may do to the tables *)

\* A migration leaves no terminal status, keeps what it links and moves on.
MigrationMoves(m, n) ==
  /\ ~Terminal(m.status)
  /\ n.from = m.from /\ n.to = m.to
  /\ m.evaluation \in {None, n.evaluation}
  /\ n.status # "PROPOSED" /\ n.evaluation # None

\* A version is written before its publication, and not to unclassify it.
VersionMoves(v, w) ==
  /\ VersionStays(v, w)
  /\ v.classification # Unclassified => w.classification # Unclassified

Advances ==
  /\ TablesTyped' /\ References'
  /\ Kept(db.bindings, db'.bindings, OnlyEnded)
  /\ Kept(db.roles, db'.roles, OnlyEnded)
  /\ Kept(db.migrations, db'.migrations, MigrationMoves)
  /\ Ids(db.licences) \subseteq Ids(db'.licences)
  /\ Kept(db.documents, db'.documents, LAMBDA d, e : FALSE)
  /\ Kept(db.versions, db'.versions, VersionMoves)
  /\ Kept(db.grants, db'.grants, OnlyDecided)
  /\ db.evaluations \subseteq db'.evaluations
  /\ db.trail \subseteq db'.trail
  /\ \A entry \in db'.trail \ db.trail : EntryStands(entry)'

-----------------------------------------------------------------------------
(* Numbers and sequences *)

\* A set of numbers that is not empty has a least one, since there is no
\* infinite descent in Nat.
LEMMA LeastOfSet ==
  ASSUME NEW S \in SUBSET Nat, S # {}
  PROVE  \E m \in S : \A k \in S : m <= k
<1> DEFINE R == OpToRel(<, Nat)
<1>1. IsWellFoundedOn(R, Nat)
  BY NatLessThanWellFounded
<1>2. \A x, y \in Nat : <<x, y>> \in R <=> x < y
  BY DEF OpToRel
<1> HIDE DEF R
<1>3. \E m \in S : \A k \in S : ~(<<k, m>> \in R)
  BY <1>1, WFMin
<1>4. PICK m \in S : \A k \in S : ~(<<k, m>> \in R)
  BY <1>3
<1>5. \A k \in S : k \in Nat /\ m \in Nat /\ ~(k < m)
  BY <1>2, <1>4
<1>6. \A k \in S : m <= k
  BY <1>5
<1> QED
  BY <1>6

\* A row that is inserted takes the next id and leaves the others alone.
LEMMA Inserted ==
  ASSUME NEW S, NEW s \in Seq(S), NEW e \in S
  PROVE  /\ Append(s, e) \in Seq(S)
         /\ DOMAIN s \subseteq DOMAIN Append(s, e)
         /\ \A i \in DOMAIN s : Append(s, e)[i] = s[i]
         /\ DOMAIN Append(s, e) = DOMAIN s \cup {Len(s) + 1}
         /\ Append(s, e)[Len(s) + 1] = e
OBVIOUS

\* A row that is updated by its id leaves the others alone.
LEMMA Updated ==
  ASSUME NEW S, NEW s \in Seq(S), NEW i \in DOMAIN s, NEW e \in S
  PROVE  /\ [s EXCEPT ![i] = e] \in Seq(S)
         /\ DOMAIN [s EXCEPT ![i] = e] = DOMAIN s
         /\ \A j \in DOMAIN s : [s EXCEPT ![i] = e][j] = IF j = i THEN e ELSE s[j]
OBVIOUS

-----------------------------------------------------------------------------
(* The statements of a request *)

\* Request q becomes r and no other one moves.
Turns(q, r) ==
  /\ r = Row(r.at, r.in, r.now, r.read)
  /\ DOMAIN req' = Requests
  /\ req'[q] = r
  /\ \A p \in Requests \ {q} : req'[p] = req[p]

\* A call that begins takes its row: what it was given, and the clock.
LEMMA BeginsTurns ==
  ASSUME RequestsShaped, NEW q \in Requests, NEW group, NEW at, NEW in, NEW read,
         Begins(q, group, at, in, read)
  PROVE  Turns(q, Row(at, in, now, read)) /\ db' = db /\ now' = now
BY DEF RequestsShaped, Begins, Turns, Row

\* A statement that reads leaves the tables and goes on with what it read.
LEMMA ReadsTurns ==
  ASSUME RequestsShaped, NEW q \in Requests, NEW at, NEW value, Reads(q, at, value)
  PROVE  Turns(q, Row(at, req[q].in, req[q].now, value)) /\ db' = db /\ now' = now
<1>1. req[q] = Row(req[q].at, req[q].in, req[q].now, req[q].read) /\ q \in DOMAIN req
  BY DEF RequestsShaped
<1>2. req'[q] = [req[q] EXCEPT !.at = at, !.read = value]
  BY <1>1 DEF Reads
<1>3. req'[q] = Row(at, req[q].in, req[q].now, value)
  BY <1>1, <1>2 DEF Row
<1> QED
  BY <1>3 DEF RequestsShaped, Reads, Turns, Row

\* A statement that writes leaves the other requests where they are.
LEMMA WritesTurns ==
  ASSUME RequestsShaped, NEW q \in Requests, NEW tables, NEW at, NEW value,
         Writes(q, tables, at, value)
  PROVE  Turns(q, Row(at, req[q].in, req[q].now, value)) /\ db' = tables /\ now' = now
<1>1. req[q] = Row(req[q].at, req[q].in, req[q].now, req[q].read) /\ q \in DOMAIN req
  BY DEF RequestsShaped
<1>2. req'[q] = [req[q] EXCEPT !.at = at, !.read = value]
  BY <1>1 DEF Writes
<1>3. req'[q] = Row(at, req[q].in, req[q].now, value)
  BY <1>1, <1>2 DEF Row
<1> QED
  BY <1>3 DEF RequestsShaped, Writes, Turns, Row

\* A call that ends leaves an idle row and the tables.
LEMMA EndsTurns ==
  ASSUME RequestsShaped, NEW q \in Requests, Ends(q)
  PROVE  Turns(q, Idle) /\ db' = db /\ now' = now
BY DEF RequestsShaped, Ends, Turns, Row, Idle

-----------------------------------------------------------------------------
(* Writing one table *)

\* Each of the following is one table written: the tables then move forward.
LEMMA NothingWritten ==
  ASSUME TablesInv, db' = db
  PROVE  Advances
BY Zenon DEF TablesInv, Advances, Kept, TablesTyped, References, PinsPublished

\* operating_entity_assignments: rows are added, or an open one ended.
LEMMA WritesBindings ==
  ASSUME TablesInv, NEW T \in Seq(AssignmentRow), Kept(db.bindings, T, OnlyEnded),
         db' = [db EXCEPT !.bindings = T]
  PROVE  Advances
BY DEF TablesInv, Advances, Kept, TablesTyped, References, PinsPublished, Fields

\* data_protection_role_assignments: rows are added, or an open one ended.
LEMMA WritesRoles ==
  ASSUME TablesInv, NEW T \in Seq(RoleRow), Kept(db.roles, T, OnlyEnded),
         db' = [db EXCEPT !.roles = T]
  PROVE  Advances
BY DEF TablesInv, Advances, Kept, TablesTyped, References, PinsPublished, Fields

\* entity_migrations: rows are added, or one that is not terminal moves.
LEMMA WritesMigrations ==
  ASSUME TablesInv, NEW T \in Seq(MigrationKept), Kept(db.migrations, T, MigrationMoves),
         db' = [db EXCEPT !.migrations = T]
  PROVE  Advances
BY DEF TablesInv, Advances, Kept, TablesTyped, References, PinsPublished, Fields

\* entity_licences: no row goes.
LEMMA WritesLicences ==
  ASSUME TablesInv, NEW T \in Seq(LicenceKept), Ids(db.licences) \subseteq Ids(T),
         db' = [db EXCEPT !.licences = T]
  PROVE  Advances
BY DEF TablesInv, Advances, Kept, TablesTyped, References, PinsPublished, Fields

\* entity_jurisdiction_permissions: nothing refers to them.
LEMMA WritesPermissions ==
  ASSUME TablesInv, NEW T \in Seq(PermissionRow),
         db' = [db EXCEPT !.permissions = T]
  PROVE  Advances
BY DEF TablesInv, Advances, Kept, TablesTyped, References, PinsPublished, Fields

\* operating_entities: any status for any of them.
LEMMA WritesEntities ==
  ASSUME TablesInv, NEW T \in [Entity -> EntityStatus \cup {"UNKNOWN"}],
         db' = [db EXCEPT !.entities = T]
  PROVE  Advances
BY DEF TablesInv, Advances, Kept, TablesTyped, References, PinsPublished, Fields

\* processing_basis_references: nothing refers to them.
LEMMA WritesBases ==
  ASSUME TablesInv, NEW T, db' = [db EXCEPT !.bases = T]
  PROVE  Advances
BY DEF TablesInv, Advances, Kept, TablesTyped, References, PinsPublished, Fields

\* reconsent_evaluations: rows are added.
LEMMA WritesEvaluations ==
  ASSUME TablesInv, NEW T, db.evaluations \subseteq T, db' = [db EXCEPT !.evaluations = T]
  PROVE  Advances
BY DEF TablesInv, Advances, Kept, TablesTyped, References, PinsPublished, Fields

\* The audit trail: an event that is true is added.
LEMMA WritesTrail ==
  ASSUME TablesInv, NEW entry, EntryStands(entry),
         db' = [db EXCEPT !.trail = @ \cup {entry}]
  PROVE  Advances
BY DEF TablesInv, Advances, Kept, TablesTyped, References, PinsPublished, Fields,
   EntryStands, Published

\* legal_documents: rows are added, and grants still pin what they pinned.
LEMMA WritesDocuments ==
  ASSUME TablesInv, NEW T \in Seq(DocumentRow), Kept(db.documents, T, LAMBDA d, e : FALSE),
         db' = [db EXCEPT !.documents = T]
  PROVE  Advances
<1>1. /\ TablesTyped' /\ db'.documents = T /\ \A f \in Fields \ {"documents"} : db'[f] = db[f]
      /\ db'.versions = db.versions /\ db'.grants = db.grants
  BY DEF TablesInv, TablesTyped, Fields
<1>2. \A d \in Ids(db.documents) : d \in Ids(T) /\ T[d] = db.documents[d]
  BY DEF Kept, Ids
<1>3. \A v \in Ids(db.versions) : db.versions[v].document \in Ids(T)
  BY <1>2 DEF TablesInv, References
<1>4. ASSUME NEW g \in Ids(db.grants)
      PROVE  PinsPublished(db.grants[g])'
  <2>1. PinsPublished(db.grants[g])
    BY Zenon DEF TablesInv, References
  <2> DEFINE grant == db.grants[g]
  <2>2. grant.version \in Ids(db.versions)
    BY <2>1 DEF PinsPublished
  <2>3. db.versions[grant.version].document \in Ids(db.documents)
    BY Zenon, <2>2 DEF TablesInv, References
  <2>4. PinsPublished(grant)'
    BY Zenon, <1>1, <1>2, <2>1, <2>2, <2>3 DEF PinsPublished, Ids
  <2> QED
    BY <1>1, <2>4
<1>5. References'
  BY <1>1, <1>3, <1>4 DEF References, Ids
<1> QED
  BY <1>1, <1>5 DEF TablesInv, Advances, Kept, Fields

\* legal_document_versions: a row that was published stays as it is, and with it
\* what the grants pin.
LEMMA WritesVersions ==
  ASSUME TablesInv, NEW T \in Seq(VersionKept), Kept(db.versions, T, VersionMoves),
         \A v \in DOMAIN T : T[v].document \in Ids(db.documents),
         db' = [db EXCEPT !.versions = T]
  PROVE  Advances
<1>1. /\ TablesTyped' /\ db'.versions = T /\ \A f \in Fields \ {"versions"} : db'[f] = db[f]
      /\ db'.documents = db.documents /\ db'.grants = db.grants
  BY DEF TablesInv, TablesTyped, Fields
<1>2. \A v \in Ids(db.versions) :
        v \in Ids(T) /\ (db.versions[v].published # Open => T[v] = db.versions[v])
  BY DEF Kept, VersionMoves, VersionStays
<1>3. \A v \in Ids(T) : T[v].document \in Ids(db.documents)
  BY DEF Ids
<1>4. ASSUME NEW g \in Ids(db.grants)
      PROVE  PinsPublished(db.grants[g])'
  <2>1. PinsPublished(db.grants[g])
    BY DEF TablesInv, References
  <2> DEFINE grant == db.grants[g]
  <2>2. grant.version \in Ids(T) /\ T[grant.version] = db.versions[grant.version]
    BY <1>2, <2>1 DEF PinsPublished
  <2>3. PinsPublished(grant)'
    BY <1>1, <2>1, <2>2 DEF PinsPublished, Ids
  <2> QED
    BY <1>1, <2>3
<1>5. References'
  BY <1>1, <1>3, <1>4 DEF References, Ids
<1> QED
  BY <1>1, <1>5 DEF TablesInv, Advances, Kept, Fields

\* consent_grants: rows are added that pin what could be accepted, or leave ACTIVE.
LEMMA WritesGrants ==
  ASSUME TablesInv, NEW T \in Seq(GrantKept), Kept(db.grants, T, OnlyDecided),
         \A g \in DOMAIN T : PinsPublished(T[g]),
         db' = [db EXCEPT !.grants = T]
  PROVE  Advances
<1>1. TablesTyped' /\ db'.grants = T /\ \A f \in Fields \ {"grants"} : db'[f] = db[f]
  BY DEF TablesInv, TablesTyped, Fields
<1>2. db'.versions = db.versions /\ db'.documents = db.documents /\ db'.grants = T
  BY <1>1 DEF Fields
<1>3. \A g \in DOMAIN T : PinsPublished(T[g])'
  BY Zenon, <1>2 DEF PinsPublished, Ids
<1>4. References'
  BY Zenon, <1>2, <1>3 DEF TablesInv, References, Ids
<1> QED
  BY <1>1, <1>4 DEF TablesInv, Advances, Kept, Fields


-----------------------------------------------------------------------------
(* What a request holds, while others write *)

\* What an audit event says of a final change is so for good.
LEMMA EntryStays ==
  ASSUME TablesInv, Advances, NEW entry, EntryStands(entry)
  PROVE  EntryStands(entry)'
<1>1. entry.action = "consent.grant.withdrawn" =>
        entry.id \in Ids(db'.grants) /\ db'.grants[entry.id].status = "WITHDRAWN"
  BY DEF EntryStands, Advances, Kept, OnlyDecided, Ids
<1>2. entry.action = "consent.document_version.published" =>
        entry.id \in Ids(db'.versions) /\ db'.versions[entry.id].published # Open
  BY DEF EntryStands, Published, Advances, Kept, VersionMoves, VersionStays, Ids
<1>3. entry.action = "entity.migration.advanced" /\ Terminal(entry.status) =>
        entry.id \in Ids(db'.migrations) /\ db'.migrations[entry.id].status = entry.status
  BY DEF EntryStands, Advances, Kept, MigrationMoves, Ids
<1>4. entry.action = "entity.role_assignment.ended" =>
        entry.id \in Ids(db'.roles) /\ db'.roles[entry.id].to # Open
  BY DEF EntryStands, Advances, Kept, OnlyEnded, Ids
<1> QED
  BY <1>1, <1>2, <1>3, <1>4 DEF EntryStands, Published, Terminal, Ids

\* What a call of the register was given or checked is so while others write.
LEMMA RegisterStays ==
  ASSUME TablesInv, Advances, NEW r, RegisterSound(r)
  PROVE  RegisterSound(r)'
<1>1. /\ Ids(db.migrations) \subseteq Ids(db'.migrations)
      /\ Ids(db.roles) \subseteq Ids(db'.roles)
      /\ Ids(db.licences) \subseteq Ids(db'.licences)
  BY DEF Advances, Kept, Ids
<1> QED
  BY <1>1 DEF RegisterSound, Ids

\* The same of the calls of the catalogue.
LEMMA CatalogueStays ==
  ASSUME TablesInv, Advances, NEW r, CatalogueSound(r)
  PROVE  CatalogueSound(r)'
<1>1. /\ Ids(db.documents) \subseteq Ids(db'.documents)
      /\ \A v \in Ids(db.versions) :
           /\ v \in Ids(db'.versions)
           /\ db.versions[v].classification # Unclassified =>
                db'.versions[v].classification # Unclassified
  BY DEF Advances, Kept, VersionMoves, Ids
<1> QED
  BY <1>1 DEF CatalogueSound, Ids

\* A published version of a document that covers a purpose stays one.
LEMMA AcceptanceStays ==
  ASSUME TablesInv, Advances, NEW v \in Ids(db.versions), NEW purpose,
         MayBeAccepted(v, purpose)
  PROVE  v \in Ids(db'.versions) /\ MayBeAccepted(v, purpose)'
<1>1. v \in Ids(db'.versions) /\ db'.versions[v] = db.versions[v]
  BY DEF MayBeAccepted, Published, Advances, Kept, VersionMoves, VersionStays, Ids
<1>2. db.versions[v].document \in Ids(db.documents)
  BY DEF TablesInv, References
<1>3. db'.documents[db.versions[v].document] = db.documents[db.versions[v].document]
  BY <1>2 DEF Advances, Kept, Ids
<1> QED
  BY <1>1, <1>3 DEF MayBeAccepted, Published, DocumentCoversPurpose

\* The same of acceptances and withdrawals.
LEMMA ConsentStays ==
  ASSUME TablesInv, Advances, NEW r, ConsentSound(r)
  PROVE  ConsentSound(r)'
<1>1. \A v \in Ids(db.versions) : \A p :
        MayBeAccepted(v, p) => v \in Ids(db'.versions) /\ MayBeAccepted(v, p)'
  BY AcceptanceStays
<1>2. Ids(db.grants) \subseteq Ids(db'.grants)
  BY DEF Advances, Kept, Ids
<1> QED
  BY <1>1, <1>2 DEF ConsentSound, Towards, Ids

-----------------------------------------------------------------------------
(* What a check has read, while others write *)

\* Two decisions one after the other are one.
LEMMA DecidedTwice ==
  ASSUME NEW f \in GrantKept, NEW g \in GrantKept, NEW h \in GrantKept,
         g = f \/ OnlyDecided(f, g), h = g \/ OnlyDecided(g, h)
  PROVE  h = f \/ OnlyDecided(f, h)
BY DEF OnlyDecided, GrantKept, GrantRow

\* The tables still come from what they were when a check began.
LEMMA SnapshotStays ==
  ASSUME TablesInv, Advances, NEW ask, SnapshotHolds(ask)
  PROVE  SnapshotHolds(ask)'
<1>1. ASSUME NEW g \in Ids(ask.grants)
      PROVE  /\ g \in Ids(db'.grants)
             /\ db'.grants[g] = ask.grants[g] \/ OnlyDecided(ask.grants[g], db'.grants[g])
  <2>1. /\ g \in Ids(db.grants)
        /\ db.grants[g] = ask.grants[g] \/ OnlyDecided(ask.grants[g], db.grants[g])
    BY DEF SnapshotHolds, Kept
  <2>2. /\ g \in Ids(db'.grants)
        /\ db'.grants[g] = db.grants[g] \/ OnlyDecided(db.grants[g], db'.grants[g])
    BY <2>1 DEF Advances, Kept
  <2>3. ask.grants[g] \in GrantKept /\ db.grants[g] \in GrantKept /\ db'.grants[g] \in GrantKept
    <3>1. ask.grants \in Seq(GrantKept)
      BY DEF SnapshotHolds
    <3>2. db.grants \in Seq(GrantKept) /\ db'.grants \in Seq(GrantKept)
      BY DEF TablesInv, Advances, TablesTyped
    <3> QED
      BY <2>1, <2>2, <3>1, <3>2 DEF Ids
  <2> QED
    BY <2>1, <2>2, <2>3, DecidedTwice
<1>2. ASSUME NEW v \in Ids(ask.versions)
      PROVE  /\ v \in Ids(db'.versions)
             /\ db'.versions[v] = ask.versions[v] \/ VersionStays(ask.versions[v], db'.versions[v])
  <2>1. /\ v \in Ids(db.versions)
        /\ db.versions[v] = ask.versions[v] \/ VersionStays(ask.versions[v], db.versions[v])
    BY DEF SnapshotHolds, Kept
  <2>2. /\ v \in Ids(db'.versions)
        /\ db'.versions[v] = db.versions[v] \/ VersionMoves(db.versions[v], db'.versions[v])
    BY <2>1 DEF Advances, Kept
  <2> QED
    BY <2>1, <2>2 DEF VersionMoves, VersionStays
<1> QED
  BY <1>1, <1>2 DEF SnapshotHolds, Kept, Ids

\* A version that was there when the check began has a document that was.
LEMMA SnapshotDocuments ==
  ASSUME TablesInv, NEW ask, SnapshotHolds(ask), NEW v \in Ids(ask.versions)
  PROVE  ask.versions[v].document \in Ids(db.documents)
BY DEF SnapshotHolds, Kept, VersionStays, TablesInv, References

\* No other document of that time covers what was asked, whatever was added since.
LEMMA DocumentStays ==
  ASSUME TablesInv, Advances, NEW ask, NEW read, SnapshotHolds(ask), DocumentStands(ask, read)
  PROVE  DocumentStands(ask, read)'
<1>1. \A d \in Ids(db.documents) : d \in Ids(db'.documents) /\ db'.documents[d] = db.documents[d]
  BY DEF Advances, Kept
<1>2. \A d \in Ids(db.documents) :
        d \in Covering(read.entity, ask.purpose, ask.scope)' <=>
          d \in Covering(read.entity, ask.purpose, ask.scope)
  BY <1>1 DEF Covering, DocumentCoversPurpose, Ids
<1>3. read.document \in Ids(db.documents)
  BY DEF DocumentStands, Covering
<1> QED
  BY <1>2, <1>3, SnapshotDocuments DEF DocumentStands

\* What was published stays so.
LEMMA PublishedGrow ==
  ASSUME TablesInv, Advances
  PROVE  PublishedIds(db.versions) \subseteq PublishedIds(db'.versions)
BY DEF Advances, Kept, VersionMoves, VersionStays, PublishedIds, Ids

\* What was published when a check began is published.
LEMMA SnapshotPublished ==
  ASSUME NEW ask, SnapshotHolds(ask)
  PROVE  PublishedIds(ask.versions) \subseteq PublishedIds(db.versions)
BY DEF SnapshotHolds, Kept, VersionStays, PublishedIds, Ids

\* The version that was read stays the one in force, or a version was published.
LEMMA VersionStandsStill ==
  ASSUME TablesInv, Advances, NEW ask, NEW read, NEW at, SnapshotHolds(ask),
         VersionStands(ask, read, at)
  PROVE  VersionStands(ask, read, at)'
BY PublishedGrow, SnapshotPublished DEF VersionStands, CurrentEffective, PublishedIds, Ids

\* A sequence whose places are places of another is no longer than it.
LEMMA NoLonger ==
  ASSUME NEW S, NEW s \in Seq(S), NEW t \in Seq(S), DOMAIN s \subseteq DOMAIN t
  PROVE  Len(s) <= Len(t)
<1>1. CASE Len(s) = 0
  BY <1>1
<1>2. CASE Len(s) > 0
  <2>1. Len(s) \in DOMAIN s
    BY <1>2
  <2> QED
    BY <2>1
<1> QED
  BY <1>1, <1>2

\* The grant that was read stood at the start, whatever was decided since.
LEMMA GrantStoodStays ==
  ASSUME TablesInv, Advances, NEW in, NEW read, SnapshotHolds(in.ask),
         read.grant \in Ids(db.grants), GrantStood(in, read)
  PROVE  read.grant \in Ids(db'.grants) /\ GrantStood(in, read)'
<1> DEFINE g == db.grants[read.grant]
           h == db'.grants[read.grant]
<1>1. db.grants \in Seq(GrantKept) /\ db'.grants \in Seq(GrantKept)
  BY DEF TablesInv, Advances, TablesTyped
<1>2. Ids(db.grants) \subseteq Ids(db'.grants) /\ (h = g \/ OnlyDecided(g, h))
  BY DEF Advances, Kept
<1>3. g \in GrantKept /\ h \in GrantKept
  BY <1>1, <1>2 DEF Ids
<1>4. /\ h.tenant = g.tenant /\ h.entity = g.entity /\ h.purpose = g.purpose
      /\ h.jurisdiction = g.jurisdiction
  BY <1>2, <1>3 DEF OnlyDecided, GrantKept, GrantRow
<1>5. in.ask.grants \in Seq(GrantKept) /\ Ids(in.ask.grants) \subseteq Ids(db.grants)
  BY DEF SnapshotHolds, Kept
<1>6. Len(db'.grants) = Len(in.ask.grants) => Len(db.grants) = Len(in.ask.grants)
  <2>1. Len(in.ask.grants) <= Len(db.grants) /\ Len(db.grants) <= Len(db'.grants)
    BY <1>1, <1>2, <1>5, NoLonger DEF Ids
  <2> QED
    BY <1>1, <1>5, <2>1
<1> QED
  BY Zenon, <1>2, <1>4, <1>6 DEF GrantStood, InTriple

\* No material version was newer at the start, or a version was published.
LEMMA NoMaterialStays ==
  ASSUME TablesInv, Advances, NEW in, NEW read, NEW at, SnapshotHolds(in.ask),
         read.grant \in Ids(db.grants), NoMaterialVersion(in, read, at)
  PROVE  NoMaterialVersion(in, read, at)'
<1> DEFINE g == db.grants[read.grant]
           h == db'.grants[read.grant]
<1>1. db.grants \in Seq(GrantKept) /\ db'.grants \in Seq(GrantKept)
  BY DEF TablesInv, Advances, TablesTyped
<1>2. read.grant \in Ids(db'.grants) /\ (h = g \/ OnlyDecided(g, h))
  BY DEF Advances, Kept
<1>3. g \in GrantKept /\ h \in GrantKept
  BY <1>1, <1>2 DEF Ids
<1>4. h.version = g.version
  BY <1>2, <1>3 DEF OnlyDecided, GrantKept, GrantRow
<1>5. PinsPublished(g)
  BY DEF TablesInv, References
<1>6. db'.versions[g.version] = db.versions[g.version]
  BY Zenon, <1>5 DEF PinsPublished, Advances, Kept, VersionMoves, VersionStays
<1>7. PublishedIds(in.ask.versions) = PublishedIds(db'.versions) =>
        PublishedIds(in.ask.versions) = PublishedIds(db.versions)
  BY PublishedGrow, SnapshotPublished
<1> QED
  BY Zenon, <1>4, <1>6, <1>7 DEF NoMaterialVersion, PublishedIds

\* What a check has found stays worth what was found.
LEMMA CheckStays ==
  ASSUME TablesInv, Advances, NEW r, CheckSound(r)
  PROVE  CheckSound(r)'
<1>1. SnapshotHolds(r.in.ask) => SnapshotHolds(r.in.ask)'
  BY SnapshotStays
<1>2. SnapshotHolds(r.in.ask) /\ DocumentStands(r.in.ask, r.read) =>
        DocumentStands(r.in.ask, r.read)'
  BY DocumentStays
<1>3. SnapshotHolds(r.in.ask) /\ VersionStands(r.in.ask, r.read, r.now) =>
        VersionStands(r.in.ask, r.read, r.now)'
  BY VersionStandsStill
<1>4. SnapshotHolds(r.in.ask) /\ r.read.grant \in Ids(db.grants) /\ GrantStood(r.in, r.read) =>
        r.read.grant \in Ids(db'.grants) /\ GrantStood(r.in, r.read)'
  BY GrantStoodStays
<1>5. /\ SnapshotHolds(r.in.ask) /\ r.read.grant \in Ids(db.grants)
      /\ NoMaterialVersion(r.in, r.read, r.now)
      => NoMaterialVersion(r.in, r.read, r.now)'
  BY NoMaterialStays
<1> QED
  BY <1>1, <1>2, <1>3, <1>4, <1>5 DEF CheckSound, Towards, Ids

\* What a request holds is worth what it was, whatever others write.
LEMMA SoundStays ==
  ASSUME TablesInv, Advances, NEW r, Sound(r)
  PROVE  Sound(r)'
BY EntryStays, RegisterStays, CatalogueStays, ConsentStays, CheckStays DEF Sound

-----------------------------------------------------------------------------
(* Such steps preserve the invariant *)

\* A step that keeps the invariant and only moves the tables forward.
Step == IInv' /\ Advances

\* A step of one request preserves the invariant if the tables move forward and
\* what the request then holds is sound.
LEMMA StepKeeps ==
  ASSUME IInv, NEW q \in Requests, NEW r, Turns(q, r), Advances, now' \in 0 .. MaxNow, Sound(r)'
  PROVE  Step
<1>1. TrailStands'
  BY EntryStays DEF IInv, TablesInv, TrailStands, Advances
<1>2. TablesInv'
  BY <1>1 DEF TablesInv, Advances
<1>3. RequestsShaped'
  BY DEF IInv, RequestsShaped, Turns, Row
<1>4. ASSUME NEW p \in Requests
      PROVE  Sound(req[p])'
  <2>1. CASE p = q
    BY <2>1 DEF Turns
  <2>2. CASE p # q
    <3>1. PICK s : s = req[p]
      OBVIOUS
    <3>2. Sound(s)
      BY <3>1 DEF IInv
    <3>3. Sound(s)' /\ req'[p] = s
      BY <2>2, <3>1, <3>2, SoundStays DEF IInv, Turns
    <3> QED
      BY <3>3
  <2> QED
    BY <2>1, <2>2
<1> QED
  BY <1>2, <1>3, <1>4 DEF Step, IInv

\* A statement that wrote nothing: what was read is judged where it was read.
LEMMA ReadKeeps ==
  ASSUME IInv, NEW q \in Requests, NEW r, Turns(q, r), db' = db, now' = now, Sound(r)
  PROVE  Step
<1>1. Advances
  BY NothingWritten DEF IInv
<1>2. Sound(r)'
  BY <1>1, SoundStays DEF IInv
<1> QED
  BY <1>1, <1>2, StepKeeps DEF IInv, RequestsShaped

\* A change that was committed and whose audit event says what is so.
LEMMA WriteKeeps ==
  ASSUME IInv, NEW q \in Requests, NEW r, Turns(q, r), Advances, now' = now,
         r.at = "audit", r.now \in 0 .. MaxNow, EntryStands(r.read)'
  PROVE  Step
<1>1. Sound(r)'
  BY DEF Sound, RegisterSound, CatalogueSound, ConsentSound, CheckSound, Towards
<1> QED
  BY <1>1, StepKeeps DEF IInv, RequestsShaped

\* WritesAudited of a change that advances the tables.
LEMMA AuditedKeeps ==
  ASSUME IInv, NEW q \in Requests, NEW tables, NEW entry, WritesAudited(q, tables, entry),
         db' = tables => Advances /\ EntryStands(entry)'
  PROVE  Step
<1> PICK r : r = Row("audit", req[q].in, req[q].now, entry)
  OBVIOUS
<1>1. Turns(q, r) /\ db' = tables /\ now' = now
  BY WritesTurns DEF IInv, WritesAudited
<1>2. req[q].now \in 0 .. MaxNow
  BY DEF IInv, Sound
<1>3. r.at = "audit" /\ r.now \in 0 .. MaxNow /\ r.read = entry
  BY <1>2 DEF Row
<1>4. Advances /\ EntryStands(r.read)'
  BY <1>1, <1>3
<1> QED
  BY <1>1, <1>3, <1>4, WriteKeeps

\* The events of final changes, of which EntryStands says something.
Final ==
  {"consent.grant.withdrawn", "consent.document_version.published",
   "entity.migration.advanced", "entity.role_assignment.ended"}

\* A write whose audit event says nothing of a final change.
LEMMA OthersKeep ==
  ASSUME IInv, NEW q \in Requests, NEW tables, NEW action, NEW id, NEW status,
         WritesAudited(q, tables, [action |-> action, id |-> id, status |-> status]),
         action \notin Final, db' = tables => Advances
  PROVE  Step
<1> PICK entry : entry = [action |-> action, id |-> id, status |-> status]
  OBVIOUS
<1>1. EntryStands(entry)'
  BY DEF EntryStands, Final
<1> QED
  BY <1>1, AuditedKeeps

-----------------------------------------------------------------------------
(* The environment and the audit trail *)

\* appendAudit: what the event says is so still, when it is appended.
LEMMA AppendAuditSteps ==
  ASSUME IInv, NEW q \in Requests, AppendAudit(q)
  PROVE  Step
<1>1. Turns(q, Idle) /\ now' = now
  BY DEF AppendAudit, IInv, RequestsShaped, Turns, Row, Idle
<1>2. EntryStands(req[q].read)
  BY DEF AppendAudit, At, IInv, Sound
<1>3. Advances
  BY <1>2, WritesTrail DEF AppendAudit, Recorded, IInv
<1>4. Sound(Idle)'
  BY RequestsAssumption DEF Idle, Sound, RegisterSound, CatalogueSound, ConsentSound, CheckSound, Towards,
     IInv, RequestsShaped
<1> QED
  BY <1>1, <1>3, <1>4, StepKeeps DEF IInv, RequestsShaped

\* A request that stops leaves nothing behind but what it committed.
LEMMA AbandonSteps ==
  ASSUME IInv, NEW q \in Requests, Abandon(q)
  PROVE  Step
<1>1. Turns(q, Idle) /\ db' = db /\ now' = now
  BY EndsTurns DEF Abandon, IInv
<1>2. Sound(Idle)
  BY RequestsAssumption DEF Idle, Sound, RegisterSound, CatalogueSound, ConsentSound, CheckSound, Towards,
     IInv, RequestsShaped
<1> QED
  BY <1>1, <1>2, ReadKeeps

\* Only the clock moved, or nothing.
LEMMA ClockSteps ==
  ASSUME IInv, db' = db, req' = req, now' \in 0 .. MaxNow
  PROVE  Step
<1>1. Advances
  BY NothingWritten DEF IInv
<1>2. TablesInv'
  BY EntryStays, <1>1 DEF IInv, TablesInv, TrailStands, Advances
<1>3. RequestsShaped'
  BY DEF IInv, RequestsShaped, Row
<1>4. ASSUME NEW p \in Requests
      PROVE  Sound(req[p])'
  <2> PICK s : s = req[p]
    OBVIOUS
  <2>1. Sound(s)' /\ req'[p] = s
    BY <1>1, SoundStays DEF IInv
  <2> QED
    BY <2>1
<1> QED
  BY <1>1, <1>2, <1>3, <1>4 DEF Step, IInv

\* The clock moves, and what a request holds does not depend on it.
LEMMA TickSteps ==
  ASSUME IInv, Tick
  PROVE  Step
<1>1. now' \in 0 .. MaxNow
  BY RequestsAssumption DEF IInv, RequestsShaped, Tick
<1> QED
  BY <1>1, ClockSteps DEF Tick

-----------------------------------------------------------------------------
(* The register of entities *)

\* A call begins, and what it was given and has read is sound.
LEMMA BeginKeeps ==
  ASSUME IInv, NEW q \in Requests, NEW group, NEW at, NEW in, NEW read,
         Begins(q, group, at, in, read), Sound(Row(at, in, now, read))
  PROVE  Step
<1> PICK r : r = Row(at, in, now, read)
  OBVIOUS
<1>1. Turns(q, r) /\ db' = db /\ now' = now
  BY BeginsTurns DEF IInv
<1>2. Sound(r)
  OBVIOUS
<1> QED
  BY <1>1, <1>2, ReadKeeps

\* A statement of a call read something, and what it holds now is sound.
LEMMA GoesOnKeeps ==
  ASSUME IInv, NEW q \in Requests, NEW at, NEW value, Reads(q, at, value),
         Sound(Row(at, req[q].in, req[q].now, value))
  PROVE  Step
<1> PICK r : r = Row(at, req[q].in, req[q].now, value)
  OBVIOUS
<1>1. Turns(q, r) /\ db' = db /\ now' = now
  BY ReadsTurns DEF IInv
<1>2. Sound(r)
  OBVIOUS
<1> QED
  BY <1>1, <1>2, ReadKeeps

RegisterAt ==
  {"binding.open", "binding.end", "migration.insert", "migration.advance", "entity.write",
   "role.insert", "role.end", "permission.insert", "licence.insert", "licence.update"}

\* At a statement of the register only RegisterSound has something to say.
LEMMA InRegister ==
  ASSUME NEW at \in RegisterAt, NEW in, NEW when \in 0 .. MaxNow, NEW read,
         RegisterSound(Row(at, in, when, read))
  PROVE  Sound(Row(at, in, when, read))
BY DEF RegisterAt, Row, Sound, CatalogueSound, ConsentSound, CheckSound, Towards

\* A call of the register begins with what it was given.
LEMMA RegisterBegins ==
  ASSUME IInv, NEW q \in Requests, NEW group, NEW at \in RegisterAt, NEW in, NEW read,
         Begins(q, group, at, in, read), RegisterSound(Row(at, in, now, read))
  PROVE  Step
<1>1. Sound(Row(at, in, now, read))
  BY InRegister DEF IInv, RequestsShaped
<1> QED
  BY <1>1, BeginKeeps

\* The first statement of a binding or of a migration.
LEMMA BeginBindingSteps ==
  ASSUME IInv, NEW q \in Requests, NEW s \in Scope, NEW t \in Tenant \cup {Platform},
         NEW e \in Entity, NEW from \in now .. now + 1, BeginSetBinding(q, s, t, e, from)
  PROVE  Step
<1> DEFINE in == [scope |-> s, tenant |-> t, entity |-> e, from |-> from]
<1>1. from \in Nat
  BY RequestsAssumption DEF IInv, RequestsShaped
<1>2. RegisterSound(Row("binding.open", in, now, <<>>))
  BY <1>1 DEF RegisterSound, Row
<1> QED
  BY <1>2, RegisterBegins DEF BeginSetBinding, RegisterAt

\* The calls that propose, evaluate and advance a migration begin.
LEMMA BeginMigrationSteps ==
  ASSUME IInv, NEW q \in Requests,
         \/ \E e, f \in Entity : ProposeEntityMigration(q, e, f)
         \/ \E m \in Ids(db.migrations), v \in Evaluation : BeginRecordEvaluation(q, m, v)
         \/ \E m \in Ids(db.migrations), to \in MigrationStatus : BeginAdvance(q, m, to)
  PROVE  Step
<1>1. CASE \E e, f \in Entity : ProposeEntityMigration(q, e, f)
  <2> PICK e \in Entity, f \in Entity : ProposeEntityMigration(q, e, f)
    BY <1>1
  <2>1. RegisterSound(Row("migration.insert", [from |-> e, to |-> f], now, <<>>))
    BY DEF RegisterSound, Row
  <2> QED
    BY <2>1, RegisterBegins DEF ProposeEntityMigration, RegisterAt
<1>2. CASE \E m \in Ids(db.migrations), v \in Evaluation : BeginRecordEvaluation(q, m, v)
  <2> PICK m \in Ids(db.migrations), v \in Evaluation : BeginRecordEvaluation(q, m, v)
    BY <1>2
  <2> DEFINE in == [migration |-> m, to |-> "RECONSENT_EVALUATED", evaluation |-> v]
  <2>1. RegisterSound(Row("migration.advance", in, now, <<>>))
    BY DEF RegisterSound, Row, MigrationStatus
  <2> QED
    BY <2>1, RegisterBegins DEF BeginRecordEvaluation, RegisterAt
<1>3. CASE \E m \in Ids(db.migrations), to \in MigrationStatus : BeginAdvance(q, m, to)
  <2> PICK m \in Ids(db.migrations), to \in MigrationStatus : BeginAdvance(q, m, to)
    BY <1>3
  <2> DEFINE in == [migration |-> m, to |-> to, evaluation |-> db.migrations[m].evaluation]
  <2>1. db.migrations[m] \in MigrationKept /\ db.migrations[m].status # "PROPOSED"
    BY DEF BeginAdvance, MigrationTransitionAllowed, IInv, TablesInv, TablesTyped, Ids
  <2>2. db.migrations[m].evaluation \in Evaluation /\ to # "PROPOSED"
    BY <2>1 DEF MigrationKept, MigrationRow, BeginAdvance
  <2>3. RegisterSound(Row("migration.advance", in, now, <<>>))
    BY <2>2 DEF RegisterSound, Row
  <2> QED
    BY <2>3, RegisterBegins DEF BeginAdvance, RegisterAt
<1> QED
  BY <1>1, <1>2, <1>3

\* The first statement of the other calls of the register.
LEMMA BeginRegisterSteps ==
  ASSUME IInv, NEW q \in Requests,
         \/ \E e \in Entity : CreateOperatingEntity(q, e)
         \/ \E e \in Entity, s \in EntityStatus : UpdateOperatingEntityStatus(q, e, s)
         \/ \E e \in Entity, t \in Tenant \cup {Platform} : BeginCreateRoleAssignment(q, e, t)
         \/ \E e \in Entity, j \in Jurisdiction : BeginGrantPermission(q, e, j)
         \/ \E i \in Ids(db.roles) : BeginEndRoleAssignment(q, i)
         \/ \E e \in Entity, s \in LicenceStatus, v \in BOOLEAN : RecordEntityLicence(q, e, s, v)
         \/ \E i \in Ids(db.licences), s \in LicenceStatus, v \in BOOLEAN :
              BeginUpdateLicence(q, i, s, v)
  PROVE  Step
<1>0. now \in Nat
  BY RequestsAssumption DEF IInv, RequestsShaped
<1>1. CASE \E e \in Entity : CreateOperatingEntity(q, e)
  <2> PICK e \in Entity : CreateOperatingEntity(q, e)
    BY <1>1
  <2>1. RegisterSound(Row("entity.write", [entity |-> e, status |-> "ACTIVE"], now, <<>>))
    BY DEF RegisterSound, Row, EntityStatus
  <2> QED
    BY <2>1, RegisterBegins DEF CreateOperatingEntity, RegisterAt
<1>2. CASE \E e \in Entity, s \in EntityStatus : UpdateOperatingEntityStatus(q, e, s)
  <2> PICK e \in Entity, s \in EntityStatus : UpdateOperatingEntityStatus(q, e, s)
    BY <1>2
  <2>1. RegisterSound(Row("entity.write", [entity |-> e, status |-> s], now, <<>>))
    BY DEF RegisterSound, Row
  <2> QED
    BY <2>1, RegisterBegins DEF UpdateOperatingEntityStatus, RegisterAt
<1>3. CASE \E e \in Entity, t \in Tenant \cup {Platform} : BeginCreateRoleAssignment(q, e, t)
  <2> PICK e \in Entity, t \in Tenant \cup {Platform} : BeginCreateRoleAssignment(q, e, t)
    BY <1>3
  <2> DEFINE in == [entity |-> e, tenant |-> t, from |-> now, to |-> Open]
  <2>1. RegisterSound(Row("role.insert", in, now, <<>>))
    BY <1>0 DEF RegisterSound, Row, RoleRow
  <2> QED
    BY <2>1, RegisterBegins DEF BeginCreateRoleAssignment, OpensWindow, RegisterAt
<1>4. CASE \E e \in Entity, j \in Jurisdiction : BeginGrantPermission(q, e, j)
  <2> PICK e \in Entity, j \in Jurisdiction : BeginGrantPermission(q, e, j)
    BY <1>4
  <2> DEFINE in == [entity |-> e, jurisdiction |-> j, from |-> now, to |-> Open]
  <2>1. RegisterSound(Row("permission.insert", in, now, <<>>))
    BY <1>0 DEF RegisterSound, Row, PermissionRow
  <2> QED
    BY <2>1, RegisterBegins DEF BeginGrantPermission, OpensWindow, RegisterAt
<1>5. CASE \E i \in Ids(db.roles) : BeginEndRoleAssignment(q, i)
  <2> PICK i \in Ids(db.roles) : BeginEndRoleAssignment(q, i)
    BY <1>5
  <2>1. RegisterSound(Row("role.end", [id |-> i], now, <<>>))
    BY DEF RegisterSound, Row
  <2> QED
    BY <2>1, RegisterBegins DEF BeginEndRoleAssignment, RegisterAt
<1>6. CASE \E e \in Entity, s \in LicenceStatus, v \in BOOLEAN : RecordEntityLicence(q, e, s, v)
  <2> PICK e \in Entity, s \in LicenceStatus, v \in BOOLEAN : RecordEntityLicence(q, e, s, v)
    BY <1>6
  <2> DEFINE in == [entity |-> e, status |-> s, evidence |-> v]
  <2>1. RegisterSound(Row("licence.insert", in, now, <<>>))
    BY DEF RegisterSound, Row, LicenceKept, LicenceRow, RecordEntityLicence
  <2> QED
    BY <2>1, RegisterBegins DEF RecordEntityLicence, RegisterAt
<1>7. CASE \E i \in Ids(db.licences), s \in LicenceStatus, v \in BOOLEAN :
             BeginUpdateLicence(q, i, s, v)
  <2> PICK i \in Ids(db.licences), s \in LicenceStatus, v \in BOOLEAN :
             BeginUpdateLicence(q, i, s, v)
    BY <1>7
  <2> DEFINE kept == v \/ db.licences[i].evidence
             in == [id |-> i, status |-> s, evidence |-> kept]
  <2>1. kept \in BOOLEAN
    OBVIOUS
  <2>2. RegisterSound(Row("licence.update", in, now, <<>>))
    BY <2>1 DEF RegisterSound, Row, BeginUpdateLicence
  <2> QED
    BY <2>2, RegisterBegins DEF BeginUpdateLicence, RegisterAt
<1> QED
  BY <1>1, <1>2, <1>3, <1>4, <1>5, <1>6, <1>7

-----------------------------------------------------------------------------
(* The writes of the register *)

\* A row that is inserted keeps the others, whatever they may turn into.
LEMMA BindingsInserted ==
  ASSUME TablesInv, NEW row \in AssignmentRow,
         db' = [db EXCEPT !.bindings = Append(@, row)]
  PROVE  Advances
<1> DEFINE T == Append(db.bindings, row)
<1>1. db.bindings \in Seq(AssignmentRow)
  BY DEF TablesInv, TablesTyped
<1>2. T \in Seq(AssignmentRow) /\ Kept(db.bindings, T, OnlyEnded)
  BY <1>1, Inserted DEF Kept, Ids
<1> QED
  BY <1>2, WritesBindings

\* end: the row is open and ends after it began.
LEMMA BindingEnded ==
  ASSUME TablesInv, NEW i \in Ids(db.bindings), NEW at \in Nat,
         WindowMayEnd(db.bindings[i], at), db' = [db EXCEPT !.bindings[i].to = at]
  PROVE  Advances
<1> DEFINE row == [db.bindings[i] EXCEPT !.to = at]
           T == [db.bindings EXCEPT ![i] = row]
<1>1. db.bindings \in Seq(AssignmentRow)
  BY DEF TablesInv, TablesTyped
<1>2. db.bindings[i] \in AssignmentRow
  BY <1>1 DEF Ids
<1>3. row \in AssignmentRow /\ OnlyEnded(db.bindings[i], row)
  BY <1>2 DEF AssignmentRow, OnlyEnded, WindowMayEnd
<1>4. T \in Seq(AssignmentRow) /\ Kept(db.bindings, T, OnlyEnded)
  BY <1>1, <1>3, Updated DEF Kept, Ids
<1>5. db' = [db EXCEPT !.bindings = T]
  OBVIOUS
<1> QED
  BY <1>4, <1>5, WritesBindings

\* SetTenantEntityAssignment: the open bindings are found, ended, and one inserted.
LEMMA BindingSteps ==
  ASSUME IInv, NEW q \in Requests,
         \/ SetBindingFindsOpen(q)
         \/ \E i \in Ids(db.bindings) : EndOpenBinding(q, i)
         \/ InsertBinding(q)
  PROVE  Step
<1>1. Sound(req[q]) /\ TablesInv /\ now \in 0 .. MaxNow
  BY DEF IInv, RequestsShaped
<1> DEFINE in == req[q].in
           when == req[q].now
<1>2. /\ req[q].at \in {"binding.open", "binding.end"}
      /\ in.scope \in Scope /\ in.tenant \in Tenant \cup {Platform}
      /\ in.entity \in Entity /\ in.from \in Nat /\ when \in 0 .. MaxNow
  BY <1>1 DEF SetBindingFindsOpen, EndOpenBinding, InsertBinding, At, Sound, RegisterSound
<1>3. \A read : Sound(Row("binding.end", in, when, read))
  <2> TAKE read
  <2>1. RegisterSound(Row("binding.end", in, when, read))
    BY <1>2 DEF RegisterSound, Row
  <2> QED
    BY <1>2, <2>1, InRegister DEF RegisterAt
<1>4. CASE SetBindingFindsOpen(q)
  BY <1>3, <1>4, GoesOnKeeps DEF SetBindingFindsOpen
<1>5. CASE \E i \in Ids(db.bindings) : EndOpenBinding(q, i)
  <2> PICK i \in Ids(db.bindings) : EndOpenBinding(q, i)
    BY <1>5
  <2> PICK r : r = Row("binding.end", in, when, req[q].read \ {i})
    OBVIOUS
  <2>1. Turns(q, r) /\ now' = now /\ db' = [db EXCEPT !.bindings[i].to = in.from]
    BY WritesTurns DEF EndOpenBinding, IInv
  <2>2. Advances
    BY <1>1, <1>2, <2>1, BindingEnded DEF EndOpenBinding
  <2>3. Sound(r)'
    BY <1>1, <1>3, <2>2, SoundStays
  <2> QED
    BY <1>1, <2>1, <2>2, <2>3, StepKeeps
<1>6. CASE InsertBinding(q)
  <2> DEFINE row == [scope |-> in.scope, tenant |-> in.tenant, entity |-> in.entity,
                     from |-> in.from, to |-> Open]
  <2>1. row \in AssignmentRow
    BY <1>2 DEF AssignmentRow
  <2>2. db' = [db EXCEPT !.bindings = Append(@, row)] => Advances
    BY <1>1, <2>1, BindingsInserted
  <2> QED
    BY <1>6, <2>2, OthersKeep DEF InsertBinding, Final
<1> QED
  BY <1>4, <1>5, <1>6

\* One row more of a table whose rows nothing depends on.
LEMMA RegisterInserted ==
  ASSUME TablesInv
  PROVE  /\ \A row \in MigrationKept :
              db' = [db EXCEPT !.migrations = Append(@, row)] => Advances
         /\ \A row \in RoleRow : db' = [db EXCEPT !.roles = Append(@, row)] => Advances
         /\ \A row \in PermissionRow :
              db' = [db EXCEPT !.permissions = Append(@, row)] => Advances
         /\ \A row \in LicenceKept :
              db' = [db EXCEPT !.licences = Append(@, row)] => Advances
<1>0. /\ db.migrations \in Seq(MigrationKept) /\ db.roles \in Seq(RoleRow)
      /\ db.permissions \in Seq(PermissionRow) /\ db.licences \in Seq(LicenceKept)
  BY DEF TablesInv, TablesTyped
<1>1. ASSUME NEW row \in MigrationKept, db' = [db EXCEPT !.migrations = Append(@, row)]
      PROVE  Advances
  <2> DEFINE T == Append(db.migrations, row)
  <2>1. T \in Seq(MigrationKept) /\ Kept(db.migrations, T, MigrationMoves)
    BY <1>0, Inserted DEF Kept, Ids
  <2> QED
    BY <1>1, <2>1, WritesMigrations
<1>2. ASSUME NEW row \in RoleRow, db' = [db EXCEPT !.roles = Append(@, row)]
      PROVE  Advances
  <2> DEFINE T == Append(db.roles, row)
  <2>1. T \in Seq(RoleRow) /\ Kept(db.roles, T, OnlyEnded)
    BY <1>0, Inserted DEF Kept, Ids
  <2> QED
    BY <1>2, <2>1, WritesRoles
<1>3. ASSUME NEW row \in PermissionRow, db' = [db EXCEPT !.permissions = Append(@, row)]
      PROVE  Advances
  <2>1. Append(db.permissions, row) \in Seq(PermissionRow)
    BY <1>0, Inserted
  <2> QED
    BY <1>3, <2>1, WritesPermissions
<1>4. ASSUME NEW row \in LicenceKept, db' = [db EXCEPT !.licences = Append(@, row)]
      PROVE  Advances
  <2> DEFINE T == Append(db.licences, row)
  <2>1. T \in Seq(LicenceKept) /\ Ids(db.licences) \subseteq Ids(T)
    BY <1>0, Inserted DEF Ids
  <2> QED
    BY <1>4, <2>1, WritesLicences
<1> QED
  BY <1>1, <1>2, <1>3, <1>4

\* The inserts of the register.
LEMMA InsertSteps ==
  ASSUME IInv, NEW q \in Requests,
         InsertMigration(q) \/ CreateRoleAssignment(q) \/ GrantJurisdictionPermission(q)
           \/ InsertLicence(q)
  PROVE  Step
<1> DEFINE in == req[q].in
<1>1. RegisterSound(req[q]) /\ TablesInv
  BY DEF IInv, Sound
<1>2. CASE InsertMigration(q)
  <2> DEFINE row == [from |-> in.from, to |-> in.to, status |-> "PROPOSED", evaluation |-> None]
  <2>1. row \in MigrationKept
    BY <1>1, <1>2 DEF InsertMigration, At, RegisterSound, MigrationKept, MigrationRow,
                      MigrationStatus
  <2>2. db' = [db EXCEPT !.migrations = Append(@, row)] => Advances
    BY <1>1, <2>1, RegisterInserted
  <2> QED
    BY <1>2, <2>2, OthersKeep DEF InsertMigration, Final
<1>3. CASE CreateRoleAssignment(q)
  <2>1. in \in RoleRow
    BY <1>1, <1>3 DEF CreateRoleAssignment, At, RegisterSound
  <2>2. db' = [db EXCEPT !.roles = Append(@, in)] => Advances
    BY <1>1, <2>1, RegisterInserted
  <2> QED
    BY <1>3, <2>2, OthersKeep DEF CreateRoleAssignment, Final
<1>4. CASE GrantJurisdictionPermission(q)
  <2>1. in \in PermissionRow
    BY <1>1, <1>4 DEF GrantJurisdictionPermission, At, RegisterSound
  <2>2. db' = [db EXCEPT !.permissions = Append(@, in)] => Advances
    BY <1>1, <2>1, RegisterInserted
  <2> QED
    BY <1>4, <2>2, OthersKeep DEF GrantJurisdictionPermission, Final
<1>5. CASE InsertLicence(q)
  <2>1. in \in LicenceKept
    BY <1>1, <1>5 DEF InsertLicence, At, RegisterSound
  <2>2. db' = [db EXCEPT !.licences = Append(@, in)] => Advances
    BY <1>1, <2>1, RegisterInserted
  <2> QED
    BY <1>5, <2>2, OthersKeep DEF InsertLicence, Final
<1> QED
  BY <1>2, <1>3, <1>4, <1>5

\* advance: the row is not terminal and takes the status that was checked.
LEMMA AdvanceMigrationSteps ==
  ASSUME IInv, NEW q \in Requests, AdvanceMigration(q)
  PROVE  Step
<1> PICK m, to, evaluation :
       m = req[q].in.migration /\ to = req[q].in.to /\ evaluation = req[q].in.evaluation
  OBVIOUS
<1> DEFINE old == db.migrations[m]
           row == [old EXCEPT !.status = to, !.evaluation = evaluation]
           T == [db.migrations EXCEPT ![m] = row]
<1>1. TablesInv /\ db.migrations \in Seq(MigrationKept)
  BY DEF IInv, TablesInv, TablesTyped
<1>2. m \in Ids(db.migrations) /\ to \in MigrationStatus \ {"PROPOSED"} /\ evaluation \in Evaluation
  BY DEF AdvanceMigration, At, IInv, Sound, RegisterSound
<1>3. old \in MigrationKept /\ MigrationMayChange(old, evaluation)
  BY <1>1, <1>2 DEF Ids, AdvanceMigration
<1>4. evaluation # None
  BY <1>2, EntitiesAssumption
<1>5. row \in MigrationKept /\ MigrationMoves(old, row) /\ row.status = to
  BY <1>2, <1>3, <1>4 DEF MigrationKept, MigrationRow, MigrationMoves, MigrationMayChange
<1> HIDE DEF row
<1>6. /\ T \in Seq(MigrationKept) /\ Kept(db.migrations, T, MigrationMoves)
      /\ m \in Ids(T) /\ T[m] = row
  BY <1>1, <1>2, <1>5, Updated DEF Kept, Ids
<1> PICK entry : entry = [action |-> "entity.migration.advanced", id |-> m, status |-> to]
  OBVIOUS
<1>7. ASSUME db' = [db EXCEPT !.migrations = T]
      PROVE  Advances /\ EntryStands(entry)'
  <2>1. Advances
    BY <1>1, <1>6, <1>7, WritesMigrations
  <2>2. db'.migrations = T
    BY <1>1, <1>7 DEF TablesInv, TablesTyped, Fields
  <2>3. EntryStands(entry)'
    BY <1>5, <1>6, <2>2 DEF EntryStands, Ids
  <2> QED
    BY <2>1, <2>3
<1>8. WritesAudited(q, [db EXCEPT !.migrations = T], entry)
  BY DEF AdvanceMigration, row
<1> QED
  BY <1>7, <1>8, AuditedKeeps

\* An open window that ends after it began is a row that only ended.
LEMMA RoleWindowEnds ==
  ASSUME NEW old \in RoleRow, NEW at \in Nat, WindowMayEnd(old, at)
  PROVE  LET row == [old EXCEPT !.to = at]
         IN row \in RoleRow /\ OnlyEnded(old, row) /\ row.to # Open
<1> PICK row : row = [old EXCEPT !.to = at]
  OBVIOUS
<1>1. row \in RoleRow /\ row.to = at
  BY DEF RoleRow
<1>2. row.to # Open
  BY <1>1 DEF Open
<1>3. OnlyEnded(old, row)
  BY <1>1 DEF OnlyEnded, WindowMayEnd
<1> QED
  BY <1>1, <1>2, <1>3

\* The end of a role: the row is open and ends after it began.
LEMMA EndRoleSteps ==
  ASSUME IInv, NEW q \in Requests, EndRoleAssignment(q)
  PROVE  Step
<1> PICK i : i = req[q].in.id
  OBVIOUS
<1> DEFINE old == db.roles[i]
           row == [old EXCEPT !.to = now]
           T == [db.roles EXCEPT ![i] = row]
<1>1. TablesInv /\ db.roles \in Seq(RoleRow) /\ now \in Nat
  BY RequestsAssumption DEF IInv, RequestsShaped, TablesInv, TablesTyped
<1>2. i \in Ids(db.roles)
  BY DEF EndRoleAssignment, At, IInv, Sound, RegisterSound
<1>3. old \in RoleRow /\ WindowMayEnd(old, now)
  BY <1>1, <1>2 DEF Ids, EndRoleAssignment
<1>4. row \in RoleRow /\ OnlyEnded(old, row) /\ row.to # Open
  BY <1>1, <1>3, RoleWindowEnds
<1> HIDE DEF row
<1>5. T \in Seq(RoleRow) /\ Kept(db.roles, T, OnlyEnded) /\ i \in Ids(T) /\ T[i] = row
  BY <1>1, <1>2, <1>4, Updated DEF Kept, Ids
<1> PICK entry : entry = [action |-> "entity.role_assignment.ended", id |-> i, status |-> "ENDED"]
  OBVIOUS
<1> PICK rows, last : rows = T /\ last = row
  OBVIOUS
<1>6. ASSUME db' = [db EXCEPT !.roles = rows]
      PROVE  Advances /\ EntryStands(entry)'
  <2>1. Advances
    BY <1>1, <1>5, <1>6, WritesRoles
  <2>2. db'.roles = rows
    BY <1>1, <1>6 DEF TablesInv, TablesTyped, Fields
  <2>3. EntryStands(entry)'
    BY <1>4, <1>5, <2>2 DEF EntryStands, Ids
  <2> QED
    BY <2>1, <2>3
<1>7. WritesAudited(q, [db EXCEPT !.roles = rows], entry)
  BY DEF EndRoleAssignment, row
<1> QED
  BY <1>6, <1>7, AuditedKeeps

\* The status of an entity is written.
LEMMA WriteEntitySteps ==
  ASSUME IInv, NEW q \in Requests, WriteEntity(q)
  PROVE  Step
<1> DEFINE in == req[q].in
           T == [db.entities EXCEPT ![in.entity] = in.status]
<1>1. TablesInv /\ db.entities \in [Entity -> EntityStatus \cup {"UNKNOWN"}]
  BY DEF IInv, TablesInv, TablesTyped
<1>2. in.entity \in Entity /\ in.status \in EntityStatus
  BY DEF WriteEntity, At, IInv, Sound, RegisterSound
<1>3. T \in [Entity -> EntityStatus \cup {"UNKNOWN"}]
  BY <1>1, <1>2
<1>4. db' = [db EXCEPT !.entities = T] => Advances
  BY <1>1, <1>3, WritesEntities
<1>5. WritesAudited(q, [db EXCEPT !.entities = T],
                    [action |-> "entity.entity.changed", id |-> 0, status |-> in.status])
  BY DEF WriteEntity
<1> QED
  BY <1>4, <1>5, OthersKeep DEF Final

\* A licence is updated by its id, to what evidence there is.
LEMMA UpdateLicenceSteps ==
  ASSUME IInv, NEW q \in Requests, UpdateEntityLicenceStatus(q)
  PROVE  Step
<1> DEFINE in == req[q].in
           old == db.licences[in.id]
           row == [old EXCEPT !.status = in.status, !.evidence = in.evidence]
           T == [db.licences EXCEPT ![in.id] = row]
<1>1. TablesInv /\ db.licences \in Seq(LicenceKept)
  BY DEF IInv, TablesInv, TablesTyped
<1>2. /\ in.id \in Ids(db.licences)
      /\ in.status \in LicenceStatus /\ in.evidence \in BOOLEAN
      /\ EvidenceHeld(in.status, in.evidence)
  BY DEF UpdateEntityLicenceStatus, At, IInv, Sound, RegisterSound
<1>3. old \in LicenceKept
  BY <1>1, <1>2 DEF Ids
<1>4. row \in LicenceKept
  BY <1>2, <1>3 DEF LicenceKept, LicenceRow
<1>5. T \in Seq(LicenceKept) /\ Ids(db.licences) \subseteq Ids(T)
  BY <1>1, <1>2, <1>4, Updated DEF Ids
<1>6. db' = [db EXCEPT !.licences = T] => Advances
  BY <1>1, <1>5, WritesLicences
<1>7. WritesAudited(q, [db EXCEPT !.licences = T],
                    [action |-> "entity.licence.status_changed", id |-> in.id,
                     status |-> in.status])
  BY DEF UpdateEntityLicenceStatus
<1> QED
  BY <1>6, <1>7, OthersKeep DEF Final

\* The table of permissions has no guard: only the row's schema is kept.
LEMMA EndPermissionSteps ==
  ASSUME IInv, NEW q \in Requests, NEW i \in Ids(db.permissions), NEW at \in now .. now + 1,
         EndJurisdictionPermission(q, i, at)
  PROVE  Step
<1> DEFINE row == [db.permissions[i] EXCEPT !.to = at]
           T == [db.permissions EXCEPT ![i] = row]
<1>1. TablesInv /\ db.permissions \in Seq(PermissionRow) /\ at \in Nat /\ now \in 0 .. MaxNow
  BY RequestsAssumption DEF IInv, RequestsShaped, TablesInv, TablesTyped
<1>2. db.permissions[i] \in PermissionRow
  BY <1>1 DEF Ids
<1>3. row \in PermissionRow
  BY <1>1, <1>2 DEF PermissionRow
<1>4. T \in Seq(PermissionRow)
  BY <1>1, <1>3, Updated DEF Ids
<1>5. db' = [db EXCEPT !.permissions = T]
  BY DEF EndJurisdictionPermission
<1>6. Advances
  BY <1>1, <1>4, <1>5, WritesPermissions
<1> PICK r : r = Row("audit", <<>>, now,
                     [action |-> "entity.jurisdiction_permission.ended", id |-> i,
                      status |-> "ENDED"])
  OBVIOUS
<1>7. Turns(q, r) /\ now' = now
  BY DEF EndJurisdictionPermission, IInv, RequestsShaped, Turns, Row, Idle
<1>8. EntryStands(r.read)'
  BY DEF EntryStands, Row
<1> QED
  BY <1>1, <1>6, <1>7, <1>8, WriteKeeps DEF Row

\* Every step of the register.
LEMMA EntitiesSteps ==
  ASSUME IInv, EntitiesNext
  PROVE  Step
BY BeginBindingSteps, BindingSteps, BeginMigrationSteps, BeginRegisterSteps, InsertSteps,
   AdvanceMigrationSteps, EndRoleSteps, WriteEntitySteps, UpdateLicenceSteps,
   EndPermissionSteps DEF EntitiesNext

-----------------------------------------------------------------------------
(* The catalogue of documents *)

CatalogueAt == {"document.insert", "version.insert", "version.classify", "version.publish"}

\* A call of the catalogue begins with what it was given.
LEMMA CatalogueBegins ==
  ASSUME IInv, NEW q \in Requests, NEW group, NEW at \in CatalogueAt, NEW in, NEW read,
         Begins(q, group, at, in, read), CatalogueSound(Row(at, in, now, read))
  PROVE  Step
<1>1. Sound(Row(at, in, now, read))
  BY DEF CatalogueAt, Row, Sound, RegisterSound, ConsentSound, CheckSound, Towards,
     IInv, RequestsShaped
<1> QED
  BY <1>1, BeginKeeps

\* At a statement that no part of Sound mentions there is nothing to keep.
LEMMA QuietSound ==
  ASSUME NEW at \in {"evaluation.insert", "content.version", "content.fetch", "served"}, NEW in,
         NEW when \in 0 .. MaxNow, NEW read
  PROVE  Sound(Row(at, in, when, read))
BY DEF Row, Sound, RegisterSound, CatalogueSound, ConsentSound, CheckSound, Towards

\* The first statement of the calls of the catalogue.
LEMMA BeginCatalogueSteps ==
  ASSUME IInv, NEW q \in Requests,
         \/ \E e \in Entity, j \in Jurisdiction, p \in SUBSET Purpose :
              BeginCreateDocument(q, e, j, p)
         \/ \E d \in Ids(db.documents), c \in {"pinned", "other", "absent"} :
              BeginDraftVersion(q, d, c)
         \/ \E v \in Ids(db.versions), c \in Classification : BeginClassify(q, v, c)
         \/ \E v \in Ids(db.versions), at \in now .. now + 1 : BeginPublish(q, v, at)
         \/ \E v \in Ids(db.versions), p \in Purpose : BeginEvaluate(q, v, p)
  PROVE  Step
<1>0. now \in 0 .. MaxNow /\ TablesTyped /\ MaxNow \in Nat
  BY RequestsAssumption DEF IInv, RequestsShaped, TablesInv
<1>1. CASE \E e \in Entity, j \in Jurisdiction, p \in SUBSET Purpose :
             BeginCreateDocument(q, e, j, p)
  <2> PICK e \in Entity, j \in Jurisdiction, p \in SUBSET Purpose : BeginCreateDocument(q, e, j, p)
    BY <1>1
  <2>1. CatalogueSound(Row("document.insert",
                           [entity |-> e, jurisdiction |-> j, purposes |-> p], now, <<>>))
    BY DEF CatalogueSound, Row, DocumentRow
  <2> QED
    BY <2>1, CatalogueBegins DEF BeginCreateDocument, CatalogueAt
<1>2. CASE \E d \in Ids(db.documents), c \in {"pinned", "other", "absent"} :
             BeginDraftVersion(q, d, c)
  <2> PICK d \in Ids(db.documents), c \in {"pinned", "other", "absent"} : BeginDraftVersion(q, d, c)
    BY <1>2
  <2> DEFINE in == [document |-> d, classification |-> Unclassified, effective |-> Open,
                    published |-> Open, content |-> c]
  <2>1. d \in Nat
    BY <1>0 DEF TablesTyped, Ids
  <2>2. CatalogueSound(Row("version.insert", in, now, <<>>))
    BY <2>1 DEF CatalogueSound, Row, VersionKept, VersionRow
  <2> QED
    BY <2>2, CatalogueBegins DEF BeginDraftVersion, CatalogueAt
<1>3. CASE \E v \in Ids(db.versions), c \in Classification : BeginClassify(q, v, c)
  <2> PICK v \in Ids(db.versions), c \in Classification : BeginClassify(q, v, c)
    BY <1>3
  <2>1. CatalogueSound(Row("version.classify", [version |-> v, classification |-> c], now, <<>>))
    BY DEF CatalogueSound, Row
  <2> QED
    BY <2>1, CatalogueBegins DEF BeginClassify, CatalogueAt
<1>4. CASE \E v \in Ids(db.versions), at \in now .. now + 1 : BeginPublish(q, v, at)
  <2> PICK v \in Ids(db.versions), at \in now .. now + 1 : BeginPublish(q, v, at)
    BY <1>4
  <2>1. at \in Nat
    BY <1>0
  <2>2. CatalogueSound(Row("version.publish", [version |-> v, effective |-> at], now, <<>>))
    BY <2>1 DEF CatalogueSound, Row, BeginPublish, VersionMayPublish
  <2> QED
    BY <2>2, CatalogueBegins DEF BeginPublish, CatalogueAt
<1>5. CASE \E v \in Ids(db.versions), p \in Purpose : BeginEvaluate(q, v, p)
  BY <1>0, <1>5, QuietSound, BeginKeeps DEF BeginEvaluate
<1> QED
  BY <1>1, <1>2, <1>3, <1>4, <1>5

\* CreateLegalDocument inserts.
LEMMA CreateDocumentSteps ==
  ASSUME IInv, NEW q \in Requests, CreateLegalDocument(q)
  PROVE  Step
<1> DEFINE T == Append(db.documents, req[q].in)
<1>1. TablesInv /\ db.documents \in Seq(DocumentRow)
  BY DEF IInv, TablesInv, TablesTyped
<1>2. req[q].in \in DocumentRow
  BY DEF CreateLegalDocument, At, IInv, Sound, CatalogueSound
<1>3. T \in Seq(DocumentRow) /\ Kept(db.documents, T, LAMBDA d, e : FALSE)
  BY <1>1, <1>2, Inserted DEF Kept, Ids
<1>4. db' = [db EXCEPT !.documents = T] => Advances
  BY <1>1, <1>3, WritesDocuments
<1> QED
  BY <1>4, OthersKeep DEF CreateLegalDocument, Final

\* DraftDocumentVersion inserts an unclassified row of a document that is there.
LEMMA DraftSteps ==
  ASSUME IInv, NEW q \in Requests, DraftDocumentVersion(q)
  PROVE  Step
<1> DEFINE T == Append(db.versions, req[q].in)
<1>1. TablesInv /\ db.versions \in Seq(VersionKept)
  BY DEF IInv, TablesInv, TablesTyped
<1>2. req[q].in \in VersionKept /\ req[q].in.document \in Ids(db.documents)
  BY DEF DraftDocumentVersion, At, IInv, Sound, CatalogueSound
<1>3. T \in Seq(VersionKept) /\ Kept(db.versions, T, VersionMoves)
  BY <1>1, <1>2, Inserted DEF Kept, Ids
<1>4. \A v \in DOMAIN T : T[v].document \in Ids(db.documents)
  BY <1>1, <1>2, Inserted DEF TablesInv, References, Ids
<1>5. db' = [db EXCEPT !.versions = T] => Advances
  BY <1>1, <1>3, <1>4, WritesVersions
<1> QED
  BY <1>5, OthersKeep DEF DraftDocumentVersion, Final

\* A version that is not published is written, keeping its document.
LEMMA VersionWritten ==
  ASSUME TablesInv, NEW v \in Ids(db.versions), NEW row \in VersionKept,
         VersionMoves(db.versions[v], row),
         db' = [db EXCEPT !.versions = [db.versions EXCEPT ![v] = row]]
  PROVE  Advances /\ v \in Ids(db'.versions) /\ db'.versions[v] = row
<1> DEFINE T == [db.versions EXCEPT ![v] = row]
<1>1. db.versions \in Seq(VersionKept)
  BY DEF TablesInv, TablesTyped
<1>2. T \in Seq(VersionKept) /\ Kept(db.versions, T, VersionMoves) /\ v \in Ids(T) /\ T[v] = row
  BY <1>1, Updated DEF Kept, Ids
<1>3. row.document = db.versions[v].document
  BY DEF VersionMoves, VersionStays
<1>4. \A w \in DOMAIN T : T[w].document \in Ids(db.documents)
  BY <1>1, <1>3, Updated DEF TablesInv, References, Ids
<1>5. db'.versions = T
  BY DEF TablesInv, TablesTyped, Fields
<1> QED
  BY <1>2, <1>4, <1>5, WritesVersions

\* classifyVersion: the guard lets it write what is not published alone.
LEMMA ClassifySteps ==
  ASSUME IInv, NEW q \in Requests, ClassifyVersion(q)
  PROVE  Step
<1> DEFINE in == req[q].in
           old == db.versions[in.version]
           row == [old EXCEPT !.classification = in.classification]
           T == [db.versions EXCEPT ![in.version] = row]
<1>1. TablesInv /\ db.versions \in Seq(VersionKept)
  BY DEF IInv, TablesInv, TablesTyped
<1>2. in.version \in Ids(db.versions) /\ in.classification \in Classification
  BY DEF ClassifyVersion, At, IInv, Sound, CatalogueSound
<1>3. old \in VersionKept /\ old.published = Open
  BY <1>1, <1>2 DEF Ids, ClassifyVersion, VersionMayChange, Published
<1>4. row \in VersionKept /\ VersionMoves(old, row)
  BY <1>2, <1>3 DEF VersionKept, VersionRow, VersionMoves, VersionStays, Classification,
                    Unclassified
<1>5. db' = [db EXCEPT !.versions = T] => Advances
  BY <1>1, <1>2, <1>4, VersionWritten
<1>6. WritesAudited(q, [db EXCEPT !.versions = T],
                    [action |-> "consent.document_version.classified",
                     id |-> in.version, status |-> in.classification])
  BY DEF ClassifyVersion
<1> QED
  BY <1>5, <1>6, OthersKeep DEF Final

\* publishVersion: what is published was classified, and stays so.
LEMMA PublishSteps ==
  ASSUME IInv, NEW q \in Requests, PublishVersion(q)
  PROVE  Step
<1> PICK v, at, when : v = req[q].in.version /\ at = req[q].in.effective /\ when = req[q].now
  OBVIOUS
<1> DEFINE old == db.versions[v]
           new == [old EXCEPT !.effective = at, !.published = when]
<1>1. TablesInv /\ db.versions \in Seq(VersionKept)
  BY DEF IInv, TablesInv, TablesTyped
<1>2. /\ v \in Ids(db.versions) /\ at \in Nat /\ when \in 0 .. MaxNow
      /\ old.classification # Unclassified
  BY DEF PublishVersion, At, IInv, Sound, CatalogueSound
<1>3. old \in VersionKept /\ old.published = Open
  BY <1>1, <1>2 DEF Ids, PublishVersion, VersionMayChange, Published
<1>4. new \in VersionKept /\ VersionMoves(old, new) /\ new.published # Open
  <2>1. when \in Nat /\ when # Open /\ at # Open
    BY <1>2, RequestsAssumption DEF Open
  <2>2. new \in VersionRow
    BY <1>2, <1>3, <2>1 DEF VersionKept, VersionRow
  <2>3. /\ new.published = when /\ new.effective = at
        /\ new.classification = old.classification /\ new.document = old.document
    BY <1>3 DEF VersionKept, VersionRow
  <2> QED
    BY <1>2, <1>3, <2>1, <2>2, <2>3 DEF VersionKept, VersionMoves, VersionStays
<1> PICK row : row = new
  OBVIOUS
<1> PICK entry : entry = [action |-> "consent.document_version.published", id |-> v,
                          status |-> "PUBLISHED"]
  OBVIOUS
<1>5. ASSUME db' = [db EXCEPT !.versions = [db.versions EXCEPT ![v] = row]]
      PROVE  Advances /\ EntryStands(entry)'
  <2>1. Advances /\ v \in Ids(db'.versions) /\ db'.versions[v] = row
    BY <1>1, <1>2, <1>4, <1>5, VersionWritten
  <2>2. EntryStands(entry)'
    BY <1>4, <2>1 DEF EntryStands, Published, Ids
  <2> QED
    BY <2>1, <2>2
<1>6. WritesAudited(q, [db EXCEPT !.versions = [db.versions EXCEPT ![v] = row]], entry)
  <2>1. [db EXCEPT !.versions[v].effective = at, !.versions[v].published = when] =
          [db EXCEPT !.versions = [db.versions EXCEPT ![v] = new]]
    <3>1. v \in DOMAIN db.versions /\ "versions" \in DOMAIN db
      BY <1>1, <1>2 DEF TablesInv, TablesTyped, Fields, Ids
    <3>2. DOMAIN old = {"document", "classification", "effective", "published", "content"}
      BY <1>3 DEF VersionKept, VersionRow
    <3> QED
      BY <3>1, <3>2
  <2> QED
    BY <2>1 DEF PublishVersion
<1> QED
  BY <1>5, <1>6, AuditedKeeps

\* RecordReconsentEvaluation inserts.
LEMMA EvaluateSteps ==
  ASSUME IInv, NEW q \in Requests, RecordReconsentEvaluation(q)
  PROVE  Step
<1> DEFINE T == db.evaluations \cup {req[q].in}
<1>1. db' = [db EXCEPT !.evaluations = T] => Advances
  BY WritesEvaluations DEF IInv
<1>2. WritesAudited(q, [db EXCEPT !.evaluations = T],
                    [action |-> "consent.reconsent.evaluated", id |-> req[q].in.version,
                     status |-> req[q].in.evaluation])
  BY DEF RecordReconsentEvaluation
<1> QED
  BY <1>1, <1>2, OthersKeep DEF Final

\* DeclareProcessingBasisReference upserts.
LEMMA DeclareSteps ==
  ASSUME IInv, NEW q \in Requests, NEW purpose, NEW jurisdiction, NEW basis,
         DeclareProcessingBasisReference(q, purpose, jurisdiction, basis)
  PROVE  Step
<1>1. Advances
  BY WritesBases DEF DeclareProcessingBasisReference, IInv
<1> PICK r : r = Row("audit", <<>>, now,
                     [action |-> "consent.processing_basis.declared", id |-> 0,
                      status |-> "OPEN"])
  OBVIOUS
<1>2. Turns(q, r) /\ now' = now
  BY DEF DeclareProcessingBasisReference, IInv, RequestsShaped, Turns, Row, Idle
<1>3. EntryStands(r.read)'
  BY DEF EntryStands, Row
<1>4. now \in 0 .. MaxNow
  BY DEF IInv, RequestsShaped
<1> QED
  BY <1>1, <1>2, <1>3, <1>4, WriteKeeps DEF Row

-----------------------------------------------------------------------------
(* The directory adapter *)

\* A call of the principal begins with the lookup of the entity, or behind it.
LEMMA ForEntityKeeps ==
  ASSUME IInv, NEW q \in Requests, NEW group, NEW at, NEW tenant, NEW ask,
         BeginForEntity(q, group, at, tenant, ask),
         Sound(Row("entity.default", [call |-> at, tenant |-> tenant, ask |-> ask], now, <<>>)),
         \A read : Sound(Row(at, [call |-> at, tenant |-> tenant, ask |-> ask], now, read))
  PROVE  Step
<1> DEFINE in == [call |-> at, tenant |-> tenant, ask |-> ask]
<1>1. CASE Begins(q, group, "entity.default", in, <<>>)
  BY <1>1, BeginKeeps
<1>2. CASE \E i : Begins(q, group, at, in, [entity |-> db.bindings[i].entity])
  BY <1>2, BeginKeeps
<1> QED
  BY <1>1, <1>2 DEF BeginForEntity

\* What a call held on its way to its first statement it holds there.
LEMMA ResolveDefaultSteps ==
  ASSUME IInv, NEW q \in Requests, ResolveDefault(q)
  PROVE  Step
<1> PICK in, when : in = req[q].in /\ when = req[q].now
  OBVIOUS
<1>1. req[q].at = "entity.default" /\ Sound(req[q])
  BY DEF ResolveDefault, At, IInv
<1>2. /\ in.call \in {"accept.select", "check.document", "content.version"}
      /\ when \in 0 .. MaxNow
  BY <1>1 DEF Sound, ConsentSound
<1>3. \A read : Sound(Row(in.call, in, when, read))
  <2> TAKE read
  <2> DEFINE r == Row(in.call, in, when, read)
  <2>1. ConsentSound(r) /\ CheckSound(r)
    BY <1>1, <1>2 DEF Sound, ConsentSound, CheckSound, Towards, Row
  <2>2. RegisterSound(r) /\ CatalogueSound(r)
    BY <1>2 DEF RegisterSound, CatalogueSound, Row
  <2> QED
    BY <1>2, <2>1, <2>2 DEF Sound, Row
<1>4. \E value : Reads(q, in.call, value)
  BY DEF ResolveDefault
<1> QED
  BY <1>3, <1>4, GoesOnKeeps

-----------------------------------------------------------------------------
(* Acceptance and withdrawal *)

\* What RecordOwnAcceptance was given and checked.
Acceptable(in) ==
  /\ in.tenant \in Tenant
  /\ in.ask.purpose \in Purpose /\ in.ask.pack \in PinnedPacks
  /\ in.ask.version \in Ids(db.versions)
  /\ MayBeAccepted(in.ask.version, in.ask.purpose)

\* A request on its way to accept holds what may be accepted.
LEMMA AcceptableSound ==
  ASSUME NEW at, NEW in, NEW when \in 0 .. MaxNow, NEW read, Acceptable(in),
         at \in {"accept.select", "accept.commit"}
           \/ (at = "entity.default" /\ in.call = "accept.select")
  PROVE  Sound(Row(at, in, when, read))
BY DEF Acceptable, Row, Sound, RegisterSound, CatalogueSound, ConsentSound, CheckSound, Towards

\* RecordOwnAcceptance begins: the version was read, and published.
LEMMA BeginAcceptanceSteps ==
  ASSUME IInv, NEW q \in Requests, NEW t \in Tenant, NEW v \in Ids(db.versions),
         NEW p \in Purpose, NEW k \in PinnedPacks, BeginAcceptance(q, t, v, p, k)
  PROVE  Step
<1> DEFINE ask == [version |-> v, purpose |-> p, pack |-> k]
           in == [call |-> "accept.select", tenant |-> t, ask |-> ask]
<1>1. Acceptable(in)
  BY DEF Acceptable, BeginAcceptance
<1>2. now \in 0 .. MaxNow
  BY DEF IInv, RequestsShaped
<1>3. Sound(Row("entity.default", in, now, <<>>)) /\ \A read : Sound(Row("accept.select", in, now, read))
  BY <1>1, <1>2, AcceptableSound
<1> QED
  BY <1>3, ForEntityKeeps DEF BeginAcceptance

\* The transaction begins: what may be accepted is the same.
LEMMA AcceptanceSelectsSteps ==
  ASSUME IInv, NEW q \in Requests, AcceptanceSelects(q)
  PROVE  Step
<1>1. Acceptable(req[q].in) /\ req[q].now \in 0 .. MaxNow
  BY DEF AcceptanceSelects, At, IInv, Sound, ConsentSound, Towards, Acceptable
<1>2. \A read : Sound(Row("accept.commit", req[q].in, req[q].now, read))
  BY <1>1, AcceptableSound
<1> QED
  BY <1>2, GoesOnKeeps DEF AcceptanceSelects

\* The grant of an acceptance pins a published version of its own document.
LEMMA GrantOfPins ==
  ASSUME TablesInv, NEW in, NEW at \in 0 .. MaxNow, Acceptable(in)
  PROVE  GrantOf(in, at) \in GrantKept /\ PinsPublished(GrantOf(in, at))
<1> DEFINE version == db.versions[in.ask.version]
           document == db.documents[version.document]
<1>1. in.ask.version \in DOMAIN db.versions /\ version.document \in DOMAIN db.documents
  BY Zenon DEF Acceptable, TablesInv, References, Ids
<1>2. document \in DocumentRow /\ in.ask.version \in Nat
  <2>1. db.versions \in Seq(VersionKept) /\ db.documents \in Seq(DocumentRow)
    BY DEF TablesInv, TablesTyped
  <2> QED
    BY <1>1, <2>1
<1>3. at \in Nat /\ at <= MaxNow
  BY RequestsAssumption
<1>4. GrantOf(in, at) \in GrantKept
  BY <1>1, <1>2, <1>3 DEF GrantOf, GrantKept, GrantRow, GrantStatus, DocumentRow, Acceptable
<1>5. PinsPublished(GrantOf(in, at))
  BY DEF PinsPublished, GrantOf, Acceptable, MayBeAccepted, Published, DocumentCoversPurpose
<1> QED
  BY <1>4, <1>5

\* A decision leaves what a grant pins.
LEMMA DecidedPins ==
  ASSUME NEW g \in GrantKept, NEW status \in {"WITHDRAWN", "SUPERSEDED"},
         GrantMayBecome(g.status, status), PinsPublished(g)
  PROVE  LET h == [g EXCEPT !.status = status]
         IN h \in GrantKept /\ OnlyDecided(g, h) /\ PinsPublished(h) /\ h.status = status
<1> DEFINE h == [g EXCEPT !.status = status]
<1>1. h \in GrantKept /\ h.status = status
  BY DEF GrantKept, GrantRow, GrantStatus
<1>2. OnlyDecided(g, h)
  BY <1>1 DEF GrantMayBecome, OnlyDecided
<1>3. /\ h.version = g.version /\ h.entity = g.entity /\ h.purpose = g.purpose
      /\ h.jurisdiction = g.jurisdiction
  BY DEF GrantKept, GrantRow
<1>4. PinsPublished(h)
  BY <1>3 DEF PinsPublished
<1> QED
  BY <1>1, <1>2, <1>4

\* A function from the ids of a table to rows is a table.
LEMMA Mapped ==
  ASSUME NEW S, NEW R, NEW s \in Seq(R), NEW t, t = [i \in DOMAIN s |-> t[i]],
         \A i \in DOMAIN s : t[i] \in S
  PROVE  t \in Seq(S) /\ DOMAIN t = DOMAIN s /\ Len(t) = Len(s)
<1>1. DOMAIN s = 1 .. Len(s) /\ Len(s) \in Nat
  OBVIOUS
<1>2. t \in [1 .. Len(s) -> S]
  BY <1>1
<1>3. t \in Seq(S)
  BY <1>1, <1>2
<1> QED
  BY <1>1, <1>2, <1>3

\* It commits: prior grants leave ACTIVE, and the new one pins what may be accepted.
LEMMA RecordAcceptanceSteps ==
  ASSUME IInv, NEW q \in Requests, RecordAcceptance(q)
  PROVE  Step
<1> DEFINE prior == req[q].read
           kept == [g \in Ids(db.grants) |->
                      IF g \in prior THEN [db.grants[g] EXCEPT !.status = "SUPERSEDED"]
                      ELSE db.grants[g]]
           new == GrantOf(req[q].in, req[q].now)
           T == Append(kept, new)
<1>1. TablesInv /\ db.grants \in Seq(GrantKept)
  BY DEF IInv, TablesInv, TablesTyped
<1>2. Acceptable(req[q].in) /\ req[q].now \in 0 .. MaxNow
  BY DEF RecordAcceptance, At, IInv, Sound, ConsentSound, Towards, Acceptable
<1>3. new \in GrantKept /\ PinsPublished(new)
  BY <1>1, <1>2, GrantOfPins
<1>4. ASSUME NEW g \in Ids(db.grants)
      PROVE  /\ kept[g] \in GrantKept /\ PinsPublished(kept[g])
             /\ kept[g] = db.grants[g] \/ OnlyDecided(db.grants[g], kept[g])
  <2>1. db.grants[g] \in GrantKept /\ PinsPublished(db.grants[g])
    BY <1>1 DEF TablesInv, References, Ids
  <2>2. CASE g \in prior
    <3>1. GrantMayBecome(db.grants[g].status, "SUPERSEDED")
      BY <2>2 DEF RecordAcceptance
    <3>2. kept[g] = [db.grants[g] EXCEPT !.status = "SUPERSEDED"]
      BY <2>2
    <3> QED
      BY <2>1, <3>1, <3>2, DecidedPins
  <2>3. CASE g \notin prior
    BY <2>1, <2>3
  <2> QED
    BY <2>2, <2>3
<1>5. kept = [g \in DOMAIN db.grants |-> kept[g]]
  BY DEF Ids
<1>6. db' = [db EXCEPT !.grants = T]
  BY DEF RecordAcceptance, WritesAudited, Writes
<1> HIDE DEF kept, new
<1>7. kept \in Seq(GrantKept) /\ DOMAIN kept = DOMAIN db.grants /\ Len(kept) = Len(db.grants)
  BY <1>1, <1>4, <1>5, Mapped DEF Ids
<1>8. /\ T \in Seq(GrantKept) /\ \A g \in DOMAIN kept : g \in DOMAIN T /\ T[g] = kept[g]
      /\ DOMAIN T = DOMAIN kept \cup {Len(kept) + 1} /\ T[Len(kept) + 1] = new
  BY <1>3, <1>7, Inserted
<1>9. Kept(db.grants, T, OnlyDecided)
  BY <1>4, <1>7, <1>8 DEF Kept, Ids
<1>10. \A g \in DOMAIN T : PinsPublished(T[g])
  BY <1>3, <1>4, <1>7, <1>8 DEF Ids
<1>11. Advances
  BY <1>1, <1>6, <1>8, <1>9, <1>10, WritesGrants
<1>12. WritesAudited(q, db', [action |-> "consent.grant.recorded", id |-> Len(db.grants) + 1,
                              status |-> "ACTIVE"])
  BY DEF RecordAcceptance, WritesAudited, Writes
<1> QED
  BY <1>11, <1>12, OthersKeep DEF Final

\* WithdrawOwnConsent begins: the grant is there.
LEMMA BeginWithdrawalSteps ==
  ASSUME IInv, NEW q \in Requests, NEW t \in Tenant, NEW g \in Ids(db.grants),
         BeginWithdrawal(q, t, g)
  PROVE  Step
<1>1. Sound(Row("withdraw", [grant |-> g], now, <<>>))
  BY DEF Row, Sound, RegisterSound, CatalogueSound, ConsentSound, CheckSound, Towards,
     IInv, RequestsShaped
<1> QED
  BY <1>1, BeginKeeps DEF BeginWithdrawal

\* The withdrawal commits, and its event says what the table then holds.
LEMMA WithdrawSteps ==
  ASSUME IInv, NEW q \in Requests, Withdraw(q)
  PROVE  Step
<1> PICK g : g = req[q].in.grant
  OBVIOUS
<1> DEFINE new == [db.grants[g] EXCEPT !.status = "WITHDRAWN"]
<1>1. TablesInv /\ db.grants \in Seq(GrantKept)
  BY DEF IInv, TablesInv, TablesTyped
<1>2. g \in Ids(db.grants)
  BY DEF Withdraw, At, IInv, Sound, ConsentSound
<1>3. db.grants[g] \in GrantKept /\ PinsPublished(db.grants[g])
  BY <1>1, <1>2 DEF TablesInv, References, Ids
<1>4. GrantMayBecome(db.grants[g].status, "WITHDRAWN")
  BY DEF Withdraw
<1>5. new \in GrantKept /\ OnlyDecided(db.grants[g], new) /\ PinsPublished(new)
        /\ new.status = "WITHDRAWN"
  BY <1>3, <1>4, DecidedPins
<1> PICK row, T : row = new /\ T = [db.grants EXCEPT ![g] = row]
  OBVIOUS
<1> PICK entry : entry = [action |-> "consent.grant.withdrawn", id |-> g, status |-> "WITHDRAWN"]
  OBVIOUS
<1>6. /\ T \in Seq(GrantKept) /\ Kept(db.grants, T, OnlyDecided)
      /\ g \in DOMAIN T /\ T[g] = row
      /\ \A h \in DOMAIN T : h = g \/ (h \in DOMAIN db.grants /\ T[h] = db.grants[h])
  <2>1. g \in DOMAIN db.grants /\ row \in GrantKept /\ OnlyDecided(db.grants[g], row)
    BY <1>2, <1>5 DEF Ids
  <2>2. /\ T \in Seq(GrantKept) /\ DOMAIN T = DOMAIN db.grants
        /\ \A h \in DOMAIN db.grants : T[h] = IF h = g THEN row ELSE db.grants[h]
    BY <1>1, <2>1, Updated
  <2> QED
    BY Zenon, <2>1, <2>2 DEF Kept, Ids
<1>7. \A h \in DOMAIN T : PinsPublished(T[h])
  BY <1>1, <1>5, <1>6 DEF TablesInv, References, Ids
<1>8. ASSUME db' = [db EXCEPT !.grants = T]
      PROVE  Advances /\ EntryStands(entry)'
  <2>1. Advances
    BY <1>1, <1>6, <1>7, <1>8, WritesGrants
  <2>2. db'.grants = T
    BY <1>1, <1>8 DEF TablesInv, TablesTyped, Fields
  <2>3. EntryStands(entry)'
    BY Zenon, <1>5, <1>6, <2>2 DEF EntryStands, Ids
  <2> QED
    BY <2>1, <2>3
<1>9. WritesAudited(q, [db EXCEPT !.grants = T], entry)
  BY DEF Withdraw
<1> QED
  BY <1>8, <1>9, AuditedKeeps

-----------------------------------------------------------------------------
(* The consent check *)

CheckAt == {"check.document", "check.version", "check.grant", "checked"}

\* A check begins: its snapshot is the tables.
LEMMA BeginCheckSteps ==
  ASSUME IInv, NEW q \in Requests, NEW t \in Tenant, NEW p \in Purpose,
         NEW j \in Jurisdiction \cup {Anywhere}, BeginCheck(q, t, p, j)
  PROVE  Step
<1> DEFINE ask == [purpose |-> p, scope |-> j, grants |-> db.grants, versions |-> db.versions]
           in == [call |-> "check.document", tenant |-> t, ask |-> ask]
<1>1. SnapshotHolds(ask)
  BY DEF SnapshotHolds, Kept, IInv, TablesInv, TablesTyped
<1>2. now \in 0 .. MaxNow
  BY DEF IInv, RequestsShaped
<1>3. Sound(Row("entity.default", in, now, <<>>))
  BY <1>1, <1>2 DEF Row, Sound, RegisterSound, CatalogueSound, ConsentSound, CheckSound, Towards
<1>4. \A read : Sound(Row("check.document", in, now, read))
  BY <1>1, <1>2 DEF Row, Sound, RegisterSound, CatalogueSound, ConsentSound, CheckSound, Towards
<1> QED
  BY <1>3, <1>4, ForEntityKeeps DEF BeginCheck

\* At a statement of the check only CheckSound has something to say.
LEMMA InCheck ==
  ASSUME NEW at \in CheckAt, NEW in, NEW when \in 0 .. MaxNow, NEW read,
         CheckSound(Row(at, in, when, read))
  PROVE  Sound(Row(at, in, when, read))
BY DEF CheckAt, Row, Sound, RegisterSound, CatalogueSound, ConsentSound, Towards

\* The one document that covers the purpose is the only one of the time when
\* the check began, since every version of that time has its document.
LEMMA CheckFindsDocumentSteps ==
  ASSUME IInv, NEW q \in Requests, CheckFindsDocument(q)
  PROVE  Step
<1> PICK in, when : in = req[q].in /\ when = req[q].now
  OBVIOUS
<1> DEFINE ask == in.ask
           covering == Covering(req[q].read.entity, ask.purpose, ask.scope)
<1>1. SnapshotHolds(ask) /\ when \in 0 .. MaxNow
  BY DEF CheckFindsDocument, At, IInv, Sound, CheckSound, Towards
<1>2. CASE covering = {} /\ Reads(q, "checked", [state |-> "NO_GRANT", grant |-> 0,
                                                 entity |-> req[q].read.entity])
  <2> PICK read : read = [state |-> "NO_GRANT", grant |-> 0, entity |-> req[q].read.entity]
    OBVIOUS
  <2>1. CheckSound(Row("checked", in, when, read))
    BY <1>1 DEF CheckSound, Row, Towards
  <2> QED
    BY <1>1, <1>2, <2>1, InCheck, GoesOnKeeps DEF CheckAt
<1>3. CASE /\ Cardinality(covering) = 1
           /\ \E d \in covering : Reads(q, "check.version", [entity |-> req[q].read.entity,
                                                             document |-> d])
  <2> PICK d \in covering : Reads(q, "check.version", [entity |-> req[q].read.entity,
                                                       document |-> d])
    BY <1>3
  <2> PICK read : read = [entity |-> req[q].read.entity, document |-> d]
    OBVIOUS
  <2>1. \A e \in covering : e = d
    <3>1. covering \subseteq DOMAIN db.documents /\ db.documents \in Seq(DocumentRow)
      BY DEF Covering, IInv, TablesInv, TablesTyped, Ids
    <3>2. covering \in SUBSET (1 .. Len(db.documents)) /\ Len(db.documents) \in Nat
      BY <3>1
    <3>3. IsFiniteSet(1 .. Len(db.documents))
      BY <3>2, FS_Interval
    <3>4. IsFiniteSet(covering)
      BY <3>2, <3>3, FS_Subset
    <3>5. PICK c : covering = {c}
      BY <1>3, <3>4, FS_Singleton
    <3> QED
      BY <3>5
  <2>2. DocumentStands(ask, read)
    BY <2>1 DEF DocumentStands
  <2>3. CheckSound(Row("check.version", in, when, read))
    BY <1>1, <2>2 DEF CheckSound, Row, Towards
  <2> QED
    BY <1>1, <2>3, InCheck, GoesOnKeeps DEF CheckAt
<1> QED
  BY <1>2, <1>3 DEF CheckFindsDocument

\* What is in force among the published versions depends on nothing else.
LEMMA InForceThen ==
  ASSUME NEW ask, SnapshotHolds(ask), NEW d, NEW at,
         PublishedIds(ask.versions) = PublishedIds(db.versions)
  PROVE  CurrentEffective(ask.versions, d, at) = CurrentEffective(db.versions, d, at)
<1>1. \A v \in PublishedIds(db.versions) : ask.versions[v] = db.versions[v]
  BY DEF SnapshotHolds, Kept, VersionStays, PublishedIds, Ids
<1> DEFINE inForce(versions) == {v \in Ids(versions) :
                    /\ versions[v].document = d
                    /\ versions[v].published # Open
                    /\ versions[v].effective <= at}
<1>2. \A v : v \in inForce(ask.versions) <=> v \in inForce(db.versions)
  BY <1>1 DEF PublishedIds
<1>3. inForce(ask.versions) = inForce(db.versions)
  BY <1>2
<1>4. \A v \in inForce(db.versions) : ask.versions[v] = db.versions[v]
  BY <1>1 DEF PublishedIds
<1> QED
  BY <1>3, <1>4 DEF CurrentEffective

\* The version in force is read.
LEMMA CheckReadsVersionSteps ==
  ASSUME IInv, NEW q \in Requests, CheckReadsVersion(q)
  PROVE  Step
<1> PICK in, when, found : in = req[q].in /\ when = req[q].now /\ found = req[q].read
  OBVIOUS
<1> DEFINE current == CurrentEffective(db.versions, found.document, when)
<1>1. SnapshotHolds(in.ask) /\ DocumentStands(in.ask, found) /\ when \in 0 .. MaxNow
  BY DEF CheckReadsVersion, At, IInv, Sound, CheckSound
<1> PICK v \in IF current = {} THEN {0} ELSE current :
           Reads(q, "check.grant", [entity |-> found.entity, document |-> found.document,
                                    effective |-> v])
  BY DEF CheckReadsVersion
<1> PICK read : read = [entity |-> found.entity, document |-> found.document, effective |-> v]
  OBVIOUS
<1>2. DocumentStands(in.ask, read)
  BY <1>1 DEF DocumentStands
<1>3. VersionStands(in.ask, read, when)
  <2>1. 0 \notin current
    BY DEF CurrentEffective, Ids, IInv, TablesInv, TablesTyped
  <2> QED
    BY <1>1, <2>1, InForceThen DEF VersionStands
<1>4. CheckSound(Row("check.grant", in, when, read))
  BY <1>1, <1>2, <1>3 DEF CheckSound, Row, Towards
<1> QED
  BY <1>1, <1>4, InCheck, GoesOnKeeps DEF CheckAt

\* Some rows that were found have a newest: the latest, and of these the last.
LEMMA NewestIsFound ==
  ASSUME NEW grants \in Seq(GrantKept), NEW found \in SUBSET DOMAIN grants, found # {}
  PROVE  LET newest == NewestGrant(grants, found)
         IN /\ newest \in found
            /\ \A h \in found : \/ grants[h].granted < grants[newest].granted
                                \/ grants[h].granted = grants[newest].granted /\ h <= newest
<1> DEFINE age(g) == MaxNow - grants[g].granted
           rank(g) == Len(grants) - g
           ages == {age(g) : g \in found}
<1>1. /\ DOMAIN grants = 1 .. Len(grants) /\ Len(grants) \in Nat
      /\ \A g \in found : /\ grants[g].granted \in Nat /\ grants[g].granted <= MaxNow
                          /\ g \in 1 .. Len(grants)
  BY DEF GrantKept, GrantRow
<1>2. ages \in SUBSET Nat /\ ages # {}
  BY <1>1, RequestsAssumption
<1>3. PICK a \in ages : \A b \in ages : a <= b
  BY <1>2, LeastOfSet
<1> DEFINE latest == {g \in found : age(g) = a}
           ranks == {rank(g) : g \in latest}
<1>4. ranks \in SUBSET Nat /\ ranks # {}
  BY <1>1
<1>5. PICK r \in ranks : \A s \in ranks : r <= s
  BY <1>4, LeastOfSet
<1>6. PICK n \in latest : rank(n) = r
  OBVIOUS
<1>7. \A h \in found : \/ grants[h].granted < grants[n].granted
                       \/ grants[h].granted = grants[n].granted /\ h <= n
  <2> TAKE h \in found
  <2>1. age(n) <= age(h)
    BY <1>3, <1>6
  <2>2. CASE age(h) = age(n)
    <3>1. rank(h) \in ranks
      BY <1>6, <2>2
    <3>2. rank(n) <= rank(h)
      BY <1>5, <1>6, <3>1
    <3>3. /\ n \in 1 .. Len(grants) /\ h \in 1 .. Len(grants) /\ Len(grants) \in Nat
          /\ grants[n].granted \in Nat /\ grants[h].granted \in Nat
      BY <1>1, <1>6
    <3>4. grants[h].granted = grants[n].granted
      <4>1. \A x, y \in Nat : MaxNow - x = MaxNow - y => x = y
        BY RequestsAssumption
      <4> QED
        BY <2>2, <3>3, <4>1
    <3>5. h <= n
      BY <3>2, <3>3
    <3> QED
      BY <3>4, <3>5
  <2>3. CASE age(h) # age(n)
    BY <1>1, <1>6, <2>1, <2>3, RequestsAssumption
  <2> QED
    BY <2>2, <2>3
<1>8. n \in found
  BY <1>6
<1> QED
  BY <1>7, <1>8 DEF NewestGrant

\* The rows of a triple that were not superseded.
Standing(grants, tenant, entity, purpose, jurisdiction) ==
  {g \in Ids(grants) : /\ InTriple(grants[g], tenant, entity, purpose, jurisdiction)
                       /\ grants[g].status # "SUPERSEDED"}

\* latestResolutionGrant reads the newest of them.
LEMMA LatestIsNewest ==
  ASSUME TablesInv, NEW tenant, NEW entity, NEW purpose, NEW jurisdiction
  PROVE  LatestResolutionGrant(db.grants, tenant, entity, purpose, jurisdiction) =
           NewestGrant(db.grants, Standing(db.grants, tenant, entity, purpose, jurisdiction))
<1>1. \A g \in Ids(db.grants) : db.grants[g].status \in GrantStatus
  BY DEF TablesInv, TablesTyped, GrantKept, GrantRow, Ids
<1>2. {g \in Ids(db.grants) : /\ InTriple(db.grants[g], tenant, entity, purpose, jurisdiction)
                              /\ db.grants[g].status \in {"ACTIVE", "WITHDRAWN"}} =
        Standing(db.grants, tenant, entity, purpose, jurisdiction)
  BY <1>1 DEF Standing, GrantStatus
<1> QED
  BY <1>2 DEF LatestResolutionGrant

\* A decision leaves everything but the status, which it takes from ACTIVE.
LEMMA DecidedFields ==
  ASSUME NEW f \in GrantKept, NEW h \in GrantKept, h = f \/ OnlyDecided(f, h)
  PROVE  /\ h.granted = f.granted
         /\ f.status # "ACTIVE" => h = f
         /\ \A e, p, j, t : InTriple(h, t, e, p, j) <=> InTriple(f, t, e, p, j)
<1>1. CASE h = f
  BY <1>1
<1>2. CASE OnlyDecided(f, h)
  <2>1. /\ h.granted = f.granted /\ h.tenant = f.tenant /\ h.entity = f.entity
        /\ h.purpose = f.purpose /\ h.jurisdiction = f.jurisdiction
    BY <1>2 DEF OnlyDecided, GrantKept, GrantRow
  <2> QED
    BY <1>2, <2>1 DEF OnlyDecided, InTriple
<1> QED
  BY <1>1, <1>2

\* The grant that was read is active, and so was the newest decision then: had
\* it been a withdrawal, it would still be one and newer than what was read.
LEMMA ReadGrantStood ==
  ASSUME TablesInv, NEW in, SnapshotHolds(in.ask), NEW read,
         NEW jurisdiction,
         Standing(db.grants, in.tenant, read.entity, in.ask.purpose, jurisdiction) # {},
         read.grant = NewestGrant(db.grants, Standing(db.grants, in.tenant, read.entity,
                                                      in.ask.purpose, jurisdiction)),
         db.grants[read.grant].status = "ACTIVE"
  PROVE  read.grant \in Ids(db.grants) /\ GrantStood(in, read)
<1> DEFINE grant == db.grants[read.grant]
           then == in.ask.grants
           standing(grants) ==
             Standing(grants, in.tenant, read.entity, in.ask.purpose, jurisdiction)
           newest == NewestGrant(then, standing(then))
<1>1. db.grants \in Seq(GrantKept) /\ then \in Seq(GrantKept)
  BY DEF TablesInv, TablesTyped, SnapshotHolds
<1>2. /\ read.grant \in standing(db.grants)
      /\ \A h \in standing(db.grants) :
           \/ db.grants[h].granted < grant.granted
           \/ db.grants[h].granted = grant.granted /\ h <= read.grant
  <2>1. standing(db.grants) \in SUBSET DOMAIN db.grants
    BY DEF Standing, Ids
  <2> QED
    BY <1>1, <2>1, NewestIsFound
<1>3. /\ read.grant \in Ids(db.grants) /\ grant.jurisdiction = jurisdiction
      /\ InTriple(grant, in.tenant, read.entity, in.ask.purpose, jurisdiction)
  BY Zenon, <1>2 DEF Standing, InTriple
<1>4. \A g \in Ids(then) : /\ g \in Ids(db.grants)
                           /\ db.grants[g] = then[g] \/ OnlyDecided(then[g], db.grants[g])
                           /\ then[g] \in GrantKept /\ db.grants[g] \in GrantKept
  BY <1>1 DEF SnapshotHolds, Kept, Ids
<1>5. \A g \in Ids(then) :
        /\ db.grants[g].granted = then[g].granted
        /\ then[g].status # "ACTIVE" => db.grants[g] = then[g]
        /\ \A e, p, j, t : InTriple(db.grants[g], t, e, p, j) <=> InTriple(then[g], t, e, p, j)
  BY <1>4, DecidedFields
<1>6. read.grant \in Ids(then) => then[read.grant].status = "ACTIVE"
  BY <1>5
<1>7. ASSUME newest # 0, Len(db.grants) = Len(then)
      PROVE  then[newest].status = "ACTIVE"
  <2>1. read.grant \in Ids(then)
    BY <1>1, <1>3, <1>7 DEF Ids
  <2>2. read.grant \in standing(then)
    BY <1>3, <1>5, <1>6, <2>1 DEF Standing
  <2>3. standing(then) \in SUBSET DOMAIN then /\ standing(then) # {}
    BY <2>2 DEF Standing, Ids
  <2>4. /\ newest \in standing(then)
        /\ \A h \in standing(then) :
             \/ then[h].granted < then[newest].granted
             \/ then[h].granted = then[newest].granted /\ h <= newest
    BY <1>1, <2>3, NewestIsFound
  <2> SUFFICES ASSUME then[newest].status # "ACTIVE"
               PROVE  FALSE
    OBVIOUS
  <2>5. newest \in Ids(then) /\ newest \in standing(db.grants)
    BY Zenon, <1>4, <1>5, <2>4 DEF Standing
  <2>6. read.grant = newest
    <3>1. /\ then[newest].granted \in Nat /\ then[read.grant].granted \in Nat
          /\ newest \in Nat /\ read.grant \in Nat
      <4>1. then[newest] \in GrantKept /\ then[read.grant] \in GrantKept
        BY <1>4, <2>1, <2>5
      <4>2. DOMAIN then = 1 .. Len(then)
        BY <1>1
      <4> QED
        BY <2>1, <2>5, <4>1, <4>2 DEF GrantKept, GrantRow, Ids
    <3>2. /\ then[read.grant].granted = grant.granted
          /\ then[newest].granted = db.grants[newest].granted
      BY <1>5, <2>1, <2>5
    <3>3. \/ db.grants[newest].granted < grant.granted
          \/ db.grants[newest].granted = grant.granted /\ newest <= read.grant
      BY <1>2, <2>5
    <3>4. \/ then[read.grant].granted < then[newest].granted
          \/ then[read.grant].granted = then[newest].granted /\ read.grant <= newest
      BY <2>2, <2>4
    <3> QED
      BY <3>1, <3>2, <3>3, <3>4
  <2> QED
    BY <1>6, <2>1, <2>6
<1> QED
  BY <1>3, <1>6, <1>7 DEF GrantStood, Standing

\* The version that was read was in force at the start, if none came since, and
\* it is of the pinned document: the grant stands beside it only if it is not
\* newer than what was pinned, or asks for nothing.
LEMMA ReadVersionStood ==
  ASSUME TablesInv, NEW in, NEW found, NEW read, NEW at,
         SnapshotHolds(in.ask), DocumentStands(in.ask, found), VersionStands(in.ask, found, at),
         read.entity = found.entity, read.grant \in Ids(db.grants),
         InTriple(db.grants[read.grant], in.tenant, read.entity, in.ask.purpose,
                  db.documents[found.document].jurisdiction),
         ResolveConsentStatus(db.grants[read.grant], found.effective) = "ACTIVE",
         db.grants[read.grant].status = "ACTIVE"
  PROVE  NoMaterialVersion(in, read, at)
<1> DEFINE then == in.ask.versions
           pinned == db.grants[read.grant].version
           d == db.versions[pinned].document
           inForce == CurrentEffective(then, d, at)
           covering == Covering(found.entity, in.ask.purpose, in.ask.scope)
<1>1. SUFFICES ASSUME PublishedIds(then) = PublishedIds(db.versions), inForce # {}
               PROVE  \E v \in inForce :
                        then[v].effective > then[pinned].effective =>
                          then[v].classification # "MATERIAL_REACCEPTANCE_REQUIRED"
  BY DEF NoMaterialVersion, PublishedIds
<1>2. PinsPublished(db.grants[read.grant])
  BY DEF TablesInv, References
<1>3. pinned \in PublishedIds(then) /\ pinned \in Ids(then) /\ pinned \in Ids(db.versions)
  BY Zenon, <1>1, <1>2 DEF PinsPublished, PublishedIds, Ids
<1>4. \A v \in PublishedIds(then) : then[v] = db.versions[v]
  BY DEF SnapshotHolds, Kept, VersionStays, PublishedIds, Ids
<1>5. d \in covering
  <2>1. d \in Ids(db.documents)
    BY <1>3 DEF TablesInv, References
  <2>2. /\ db.documents[d].entity = found.entity
        /\ db.documents[d].jurisdiction = db.documents[found.document].jurisdiction
        /\ in.ask.purpose \in db.documents[d].purposes
    BY Zenon, <1>2 DEF PinsPublished, InTriple
  <2>3. in.ask.scope \in {Anywhere, db.documents[found.document].jurisdiction}
    BY DEF DocumentStands, Covering
  <2> QED
    BY Zenon, <2>1, <2>2, <2>3 DEF Covering, DocumentCoversPurpose
<1>6. d = found.document
  BY <1>3, <1>4, <1>5 DEF DocumentStands
<1>7. found.effective # 0 /\ found.effective \in inForce
  <2>1. IF found.effective = 0 THEN inForce = {} ELSE found.effective \in inForce
    BY <1>1, <1>6 DEF VersionStands
  <2> QED
    BY <1>1, <2>1
<1>8. then[found.effective] = db.versions[found.effective] /\ then[pinned] = db.versions[pinned]
  BY <1>3, <1>4, <1>7 DEF CurrentEffective, PublishedIds
<1>9. then[found.effective].effective > then[pinned].effective =>
        then[found.effective].classification # "MATERIAL_REACCEPTANCE_REQUIRED"
  <2> SUFFICES ASSUME db.versions[found.effective].effective > db.versions[pinned].effective
               PROVE  db.versions[found.effective].classification
                        # "MATERIAL_REACCEPTANCE_REQUIRED"
    BY <1>8
  <2>1. found.effective # pinned
    <3>1. db.versions[pinned].effective \in Nat
      <4>1. db.versions[pinned] \in VersionKept
        BY <1>3 DEF TablesInv, TablesTyped, Ids
      <4> QED
        BY Zenon, <1>2, <4>1 DEF PinsPublished, VersionKept, VersionRow
    <3> QED
      BY <3>1
  <2>2. NeedsNoAcceptance(db.versions[found.effective].classification)
    BY <1>7, <2>1 DEF ResolveConsentStatus
  <2> QED
    BY <2>2 DEF NeedsNoAcceptance
<1> QED
  BY Zenon, <1>7, <1>9

\* A grant of the table that resolves to ACTIVE is active.
LEMMA ResolvedActive ==
  ASSUME NEW grant \in GrantKept, NEW effective,
         ResolveConsentStatus(grant, effective) = "ACTIVE"
  PROVE  grant.status = "ACTIVE"
<1>1. grant.status \in GrantStatus
  BY DEF GrantKept, GrantRow
<1>2. grant.status # "WITHDRAWN"
  BY DEF ResolveConsentStatus
<1>3. grant.status # "SUPERSEDED"
  BY DEF ResolveConsentStatus
<1> QED
  BY <1>1, <1>2, <1>3 DEF GrantStatus

\* The grant of the triple was read: what it resolves to may be returned.
LEMMA CheckReadsGrantSteps ==
  ASSUME IInv, NEW q \in Requests, CheckReadsGrant(q)
  PROVE  Step
<1> PICK in, when, found : in = req[q].in /\ when = req[q].now /\ found = req[q].read
  OBVIOUS
<1> PICK tenant, entity, purpose, jurisdiction :
      /\ tenant = in.tenant /\ entity = found.entity /\ purpose = in.ask.purpose
      /\ jurisdiction = db.documents[found.document].jurisdiction
  OBVIOUS
<1> PICK standing : standing = Standing(db.grants, tenant, entity, purpose, jurisdiction)
  OBVIOUS
<1>1. /\ SnapshotHolds(in.ask) /\ DocumentStands(in.ask, found)
      /\ VersionStands(in.ask, found, when) /\ when \in 0 .. MaxNow /\ TablesInv
  BY Zenon DEF CheckReadsGrant, At, IInv, Sound, CheckSound
<1>2. PICK g : g = LatestResolutionGrant(db.grants, tenant, entity, purpose, jurisdiction)
  OBVIOUS
<1>3. g = NewestGrant(db.grants, standing)
  <2>1. TablesInv
    BY <1>1
  <2> QED
    BY <1>2, <2>1, LatestIsNewest
<1>4. PICK state : state = IF g = 0 THEN "NO_GRANT"
                           ELSE ResolveConsentStatus(db.grants[g], found.effective)
  OBVIOUS
<1>5. PICK read : read = [state |-> state, grant |-> g, entity |-> entity]
  BY Zenon
<1>6. Reads(q, "checked", read)
  BY Zenon, <1>2, <1>4, <1>5 DEF CheckReadsGrant
<1>7. read.state = state /\ read.grant = g /\ read.entity = entity
  BY <1>5
<1>8. ASSUME state = "ACTIVE"
      PROVE  /\ read.grant \in Ids(db.grants) /\ GrantStood(in, read)
             /\ NoMaterialVersion(in, read, when)
  <2>1. g # 0 /\ ResolveConsentStatus(db.grants[g], found.effective) = "ACTIVE"
    BY <1>4, <1>8
  <2>2. standing # {}
    BY Zenon, <1>3, <2>1 DEF NewestGrant
  <2>3. db.grants \in Seq(GrantKept)
    BY <1>1 DEF TablesInv, TablesTyped
  <2>4. standing \in SUBSET DOMAIN db.grants
    BY DEF Standing, Ids
  <2>5. g \in standing
    BY <1>3, <2>2, <2>3, <2>4, NewestIsFound
  <2>6. db.grants[g].status = "ACTIVE"
    <3>1. db.grants[g] \in GrantKept
      BY <2>3, <2>4, <2>5
    <3> QED
      BY <2>1, <3>1, ResolvedActive
  <2>7. read.grant \in Ids(db.grants) /\ GrantStood(in, read)
    BY Zenon, <1>1, <1>3, <1>7, <2>2, <2>6, ReadGrantStood
  <2>8. InTriple(db.grants[read.grant], in.tenant, read.entity, in.ask.purpose, jurisdiction)
    BY <1>7, <2>5 DEF Standing
  <2>9. NoMaterialVersion(in, read, when)
    BY <1>1, <1>7, <2>1, <2>6, <2>7, <2>8, ReadVersionStood
  <2> QED
    BY <2>7, <2>9
<1>9. CheckSound(Row("checked", in, when, read))
  BY <1>1, <1>7, <1>8 DEF CheckSound, Row, Towards
<1> QED
  BY <1>1, <1>6, <1>9, InCheck, GoesOnKeeps DEF CheckAt

-----------------------------------------------------------------------------
(* The content of a document *)

\* GetLegalDocumentContent reads.
LEMMA ContentSteps ==
  ASSUME IInv, NEW q \in Requests,
         \/ \E t \in Tenant, d \in Ids(db.documents) : BeginReadContent(q, t, d)
         \/ ContentFindsVersion(q)
         \/ ContentServes(q)
  PROVE  Step
<1>1. now \in 0 .. MaxNow /\ req[q].now \in 0 .. MaxNow
  BY DEF IInv, RequestsShaped, Sound
<1>2. CASE \E t \in Tenant, d \in Ids(db.documents) : BeginReadContent(q, t, d)
  <2> PICK t \in Tenant, d \in Ids(db.documents) : BeginReadContent(q, t, d)
    BY <1>2
  <2> DEFINE in == [call |-> "content.version", tenant |-> t, ask |-> [document |-> d]]
  <2>1. Sound(Row("entity.default", in, now, <<>>))
    BY <1>1 DEF Row, Sound, RegisterSound, CatalogueSound, ConsentSound, CheckSound, Towards
  <2>2. \A read : Sound(Row("content.version", in, now, read))
    BY <1>1, QuietSound
  <2> QED
    BY <2>1, <2>2, ForEntityKeeps DEF BeginReadContent
<1>3. CASE ContentFindsVersion(q)
  BY <1>1, <1>3, QuietSound, GoesOnKeeps DEF ContentFindsVersion
<1>4. CASE ContentServes(q)
  BY <1>1, <1>4, QuietSound, GoesOnKeeps DEF ContentServes
<1> QED
  BY <1>2, <1>3, <1>4

-----------------------------------------------------------------------------
(* Every step *)

\* Every step of consent.
LEMMA ConsentSteps ==
  ASSUME IInv, ConsentNext
  PROVE  Step
BY BeginCatalogueSteps, CreateDocumentSteps, DraftSteps, ClassifySteps, PublishSteps,
   EvaluateSteps, DeclareSteps, ResolveDefaultSteps, BeginAcceptanceSteps,
   AcceptanceSelectsSteps, RecordAcceptanceSteps, BeginWithdrawalSteps, WithdrawSteps,
   BeginCheckSteps, CheckFindsDocumentSteps, CheckReadsVersionSteps, CheckReadsGrantSteps,
   ContentSteps DEF ConsentNext

\* Init: the seeded rows are rows, and no request is in flight.
LEMMA InitIInv == Init => IInv
<1> SUFFICES ASSUME Init
             PROVE  IInv
  OBVIOUS
<1> PICK tenant \in Tenant, entities \in (SUBSET Entity) \ {{}}, jurisdiction \in Jurisdiction,
         drafts \in Seq(DraftRow) : ConsentInit(tenant, entities, jurisdiction, drafts)
  BY DEF Init
<1> DEFINE entity == CHOOSE e \in entities : TRUE
           register == SeededEntities(tenant, entities)
           catalogue == SeededDocuments(entity, jurisdiction, Purpose, drafts)
           document == [entity |-> entity, jurisdiction |-> jurisdiction, purposes |-> Purpose]
           version == [document |-> 1, classification |-> "MATERIAL_REACCEPTANCE_REQUIRED",
                       effective |-> 0, published |-> 0, content |-> "pinned"]
<1>1. entity \in Entity
  OBVIOUS
<1>2. DOMAIN register = {"entities", "bindings", "migrations", "licences", "roles", "permissions"}
      /\ DOMAIN catalogue = {"documents", "versions", "grants", "evaluations", "bases", "trail"}
  BY DEF SeededEntities, SeededDocuments
<1>3. db = [f \in DOMAIN register \cup DOMAIN catalogue |->
              IF f \in DOMAIN register THEN register[f] ELSE catalogue[f]]
  BY DEF ConsentInit
<1>4. /\ DOMAIN db = Fields
      /\ db.entities = register.entities /\ db.bindings = register.bindings
      /\ db.migrations = register.migrations /\ db.licences = register.licences
      /\ db.roles = register.roles /\ db.permissions = register.permissions
      /\ db.documents = catalogue.documents /\ db.versions = catalogue.versions
      /\ db.grants = catalogue.grants /\ db.trail = catalogue.trail
  BY <1>2, <1>3 DEF Fields
<1>5. /\ db.entities = [e \in Entity |-> IF e \in entities THEN "ACTIVE" ELSE "UNKNOWN"]
      /\ db.bindings = <<SeededBinding(tenant, entity)>>
      /\ db.migrations = <<>> /\ db.licences = <<>> /\ db.roles = <<>> /\ db.permissions = <<>>
  BY <1>4 DEF SeededEntities
<1>6. /\ db.documents = <<document>> /\ db.versions = <<version>> \o drafts
      /\ db.grants = <<>> /\ db.trail = {}
  BY <1>4 DEF SeededDocuments
<1>7. document \in DocumentRow /\ version \in VersionKept
  BY <1>1 DEF DocumentRow, VersionKept, VersionRow, Classification, Open, Unclassified
<1>8. drafts \in Seq(VersionKept) /\ \A i \in 1 .. Len(drafts) : drafts[i].document = 1
  BY DEF DraftRow, VersionKept
<1>9. /\ db.versions \in Seq(VersionKept)
      /\ \A v \in Ids(db.versions) : db.versions[v].document = 1
  BY <1>6, <1>7, <1>8 DEF Ids
<1>10. SeededBinding(tenant, entity) \in AssignmentRow
  BY <1>1 DEF SeededBinding, AssignmentRow, Scope, Open
<1>11. TablesTyped
  <2>1. db.entities \in [Entity -> EntityStatus \cup {"UNKNOWN"}]
    BY <1>5 DEF EntityStatus
  <2>2. db.bindings \in Seq(AssignmentRow) /\ db.documents \in Seq(DocumentRow)
    BY <1>5, <1>6, <1>7, <1>10
  <2>3. \A S : <<>> \in Seq(S)
    OBVIOUS
  <2>4. /\ db.migrations \in Seq(MigrationKept) /\ db.licences \in Seq(LicenceKept)
        /\ db.roles \in Seq(RoleRow) /\ db.permissions \in Seq(PermissionRow)
        /\ db.grants \in Seq(GrantKept)
    BY <1>5, <1>6, <2>3
  <2>5. DOMAIN db = Fields
    BY <1>4
  <2> QED
    BY <1>9, <2>1, <2>2, <2>4, <2>5 DEF TablesTyped
<1>12. References /\ TrailStands
  BY <1>6, <1>9 DEF References, TrailStands, Ids
<1>13. RequestsShaped /\ \A q \in Requests : req[q] = Idle
  BY RequestsAssumption DEF ConsentInit, RequestsShaped, Idle, Row
<1>14. Sound(Idle)
  BY RequestsAssumption DEF Idle, Sound, RegisterSound, CatalogueSound, ConsentSound, CheckSound,
                            Towards
<1> QED
  BY <1>11, <1>12, <1>13, <1>14 DEF IInv, TablesInv

\* Every step, or none.
LEMMA NextSteps ==
  ASSUME IInv, [Next]_vars
  PROVE  Step
<1>1. CASE Next
  BY <1>1, EntitiesSteps, ConsentSteps, AppendAuditSteps, AbandonSteps, TickSteps DEF Next
<1>2. CASE UNCHANGED vars
  BY <1>2, ClockSteps DEF vars, IInv, RequestsShaped
<1> QED
  BY <1>1, <1>2

\* The invariant holds of every state of every behaviour.
LEMMA Invariance == Spec => []IInv
<1>1. ASSUME IInv, [Next]_vars
      PROVE  IInv'
  BY <1>1, NextSteps DEF Step
<1> QED
  BY <1>1, InitIInv, PTL DEF Spec

-----------------------------------------------------------------------------
(* Theorems *)

\* The rows of every table are rows of its schema and refer to rows that exist,
\* whatever requests are in flight and wherever they were interrupted.
THEOREM TypeCorrect == Spec => []TypeOK
<1>1. ASSUME IInv
      PROVE  TypeOK
  <2>1. TablesTyped /\ References /\ now \in 0 .. MaxNow
    BY <1>1 DEF IInv, TablesInv, RequestsShaped
  <2>2. /\ \A i \in Ids(db.bindings) : db.bindings[i] \in AssignmentRow
        /\ \A i \in Ids(db.migrations) : db.migrations[i] \in MigrationKept
        /\ \A i \in Ids(db.licences) : db.licences[i] \in LicenceKept
        /\ \A i \in Ids(db.roles) : db.roles[i] \in RoleRow
        /\ \A i \in Ids(db.permissions) : db.permissions[i] \in PermissionRow
        /\ \A d \in Ids(db.documents) : db.documents[d] \in DocumentRow
        /\ \A v \in Ids(db.versions) : db.versions[v] \in VersionKept
        /\ \A g \in Ids(db.grants) : db.grants[g] \in GrantKept
    <3>1. \A S, T : T \in Seq(S) => \A i \in Ids(T) : T[i] \in S
      BY DEF Ids
    <3> QED
      BY Zenon, <2>1, <3>1 DEF TablesTyped
  <2>3. \A i \in Ids(db.licences) :
          /\ db.licences[i] \in LicenceRow
          /\ db.licences[i].status = "EVIDENCED" => db.licences[i].evidence
    BY <2>2 DEF LicenceKept, EvidenceHeld
  <2>4. \A v \in Ids(db.versions) : db.versions[v].document \in Ids(db.documents)
    BY <2>1 DEF References
  <2>5. \A g \in Ids(db.grants) : db.grants[g].version \in Ids(db.versions)
    BY <2>1 DEF References, PinsPublished
  <2>6. db.entities \in [Entity -> EntityStatus \cup {"UNKNOWN"}]
    BY <2>1 DEF TablesTyped
  <2> QED
    BY <2>1, <2>2, <2>3, <2>4, <2>5, <2>6 DEF TypeOK, MigrationKept, VersionKept, GrantKept
<1> QED
  BY <1>1, Invariance, PTL

\* RecordOwnAcceptance: a grant pins a published and classified version of a
\* document of its own entity and jurisdiction that covers its purpose.
THEOREM GrantsPinWhatCouldBeAccepted == Spec => []GrantsPinPublished
<1>1. ASSUME IInv
      PROVE  GrantsPinPublished
  <2> SUFFICES ASSUME NEW g \in Ids(db.grants)
               PROVE  LET grant == db.grants[g]
                          version == db.versions[grant.version]
                          document == db.documents[version.document]
                      IN /\ Published(grant.version)
                         /\ version.classification # Unclassified
                         /\ document.entity = grant.entity
                         /\ document.jurisdiction = grant.jurisdiction
                         /\ grant.purpose \in document.purposes
    BY Zenon DEF GrantsPinPublished
  <2>1. PinsPublished(db.grants[g])
    BY <1>1 DEF IInv, TablesInv, References
  <2>2. db.versions[db.grants[g].version] \in VersionKept
    BY <1>1, <2>1 DEF IInv, TablesInv, TablesTyped, PinsPublished, Ids
  <2> QED
    BY Zenon, <2>1, <2>2 DEF PinsPublished, VersionKept, Published
<1> QED
  BY <1>1, Invariance, PTL

\* The audit events of final changes, appended after the change committed, say
\* what the tables hold, whatever was written since.
THEOREM TrailIsTrue == Spec => []TrailAgrees
<1>1. ASSUME IInv
      PROVE  TrailAgrees
  <2> SUFFICES ASSUME NEW entry \in db.trail
               PROVE  CASE entry.action = "consent.grant.withdrawn" ->
                             db.grants[entry.id].status = "WITHDRAWN"
                        [] entry.action = "consent.document_version.published" ->
                             Published(entry.id)
                        [] entry.action = "entity.migration.advanced"
                             /\ Terminal(entry.status) ->
                             db.migrations[entry.id].status = entry.status
                        [] entry.action = "entity.role_assignment.ended" ->
                             db.roles[entry.id].to # Open
                        [] OTHER -> TRUE
    BY DEF TrailAgrees
  <2>1. EntryStands(entry)
    BY <1>1 DEF IInv, TablesInv, TrailStands
  <2> QED
    BY <2>1 DEF EntryStands
<1> QED
  BY <1>1, Invariance, PTL

\* AssertConsentFor over GetOwnConsentStatus: processing is permitted on a grant
\* that stood when the check began or was recorded since, beside the version in
\* force, although document, version and grant are read by statements between
\* which anything may commit.
THEOREM ProcessingIsPermittedOnLiveConsent == Spec => []PermittedOnLiveConsent
<1>1. ASSUME IInv
      PROVE  PermittedOnLiveConsent
  <2> SUFFICES ASSUME NEW q \in Requests, Permitted(q)
               PROVE  /\ GrantStood(req[q].in, req[q].read)
                      /\ NoMaterialVersion(req[q].in, req[q].read, req[q].now)
    BY DEF PermittedOnLiveConsent
  <2>1. CheckSound(req[q])
    BY <1>1 DEF IInv, Sound
  <2> QED
    BY <2>1 DEF CheckSound, Permitted, At, StatusPermitsProcessing
<1> QED
  BY <1>1, Invariance, PTL

\* The guards of migrations 0064 and 0065: a grant leaves ACTIVE once, a version
\* is never written after publication, and the rest is only added.
THEOREM ConsentEvidenceIsHistory == Spec => EvidenceIsHistory
<1>1. ASSUME IInv, [Next]_vars
      PROVE  [/\ Kept(db.grants, db'.grants, OnlyDecided)
              /\ Kept(db.versions, db'.versions, LAMBDA v, w : v.published = Open)
              /\ Kept(db.documents, db'.documents, LAMBDA d, e : FALSE)
              /\ db.evaluations \subseteq db'.evaluations
              /\ db.trail \subseteq db'.trail]_vars
  <2>1. Advances
    BY <1>1, NextSteps DEF Step
  <2>2. Kept(db.versions, db'.versions, LAMBDA v, w : v.published = Open)
    BY <2>1 DEF Advances, Kept, VersionMoves, VersionStays
  <2> QED
    BY <2>1, <2>2 DEF Advances, Kept
<1> QED
  BY <1>1, Invariance, PTL DEF Spec, EvidenceIsHistory

\* The guards of migrations 0062 and 0063: bindings and roles only end, and a
\* migration that reached a terminal status stays there with its evaluation.
THEOREM EntityRegisterIsHistory == Spec => RegisterIsHistory
<1>1. ASSUME IInv, [Next]_vars
      PROVE  [/\ Kept(db.bindings, db'.bindings, OnlyEnded)
              /\ Kept(db.roles, db'.roles, OnlyEnded)
              /\ Kept(db.migrations, db'.migrations,
                      LAMBDA m, n : /\ ~Terminal(m.status)
                                    /\ n.from = m.from /\ n.to = m.to
                                    /\ m.evaluation \in {None, n.evaluation}
                                    /\ n.status # "PROPOSED" /\ n.evaluation # None)]_vars
  <2>1. Advances
    BY <1>1, NextSteps DEF Step
  <2>2. Kept(db.migrations, db'.migrations,
             LAMBDA m, n : /\ ~Terminal(m.status)
                           /\ n.from = m.from /\ n.to = m.to
                           /\ m.evaluation \in {None, n.evaluation}
                           /\ n.status # "PROPOSED" /\ n.evaluation # None)
    BY <2>1 DEF Advances, Kept, MigrationMoves
  <2> QED
    BY <2>1, <2>2 DEF Advances, Kept
<1> QED
  BY <1>1, Invariance, PTL DEF Spec, RegisterIsHistory
=============================================================================
