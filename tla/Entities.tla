------------------------------ MODULE Entities ------------------------------
(***************************************************************************)
(* The register of operating entities (src/modules/operating-entity): the  *)
(* legal persons, what they are bound to, and the migration workflow.      *)
(*                                                                         *)
(* A binding is forward-only: setting one finds the open rows of its       *)
(* subject, ends each and inserts a successor, every one of these a        *)
(* statement that commits on its own.  The triggers of migrations 0062 and *)
(* 0063 decide what an UPDATE may do when it commits, whatever the use     *)
(* case read before; a refused statement ends the call.                    *)
(*                                                                         *)
(* One user, who may be a member of several tenants.  Names, contacts,     *)
(* references and reasons are left out.                                    *)
(***************************************************************************)
EXTENDS Requests

CONSTANTS
  Entity,        \* operating entities that may be registered
  Tenant,        \* tenants
  Platform,      \* the null tenant of a row
  Jurisdiction,  \* jurisdictions an entity may be permitted in
  Evaluation     \* ids of re-consent evaluations a migration may link

None == 0    \* an absent reference

ASSUME EntitiesAssumption == Platform \notin Tenant /\ None \notin Evaluation

EntityStatus == {"ACTIVE", "SUSPENDED", "RETIRED"}
Scope == {"TENANT_DEFAULT", "USER_CONTRACTING"}
MigrationStatus ==
  {"PROPOSED", "RECONSENT_EVALUATED", "AWAITING_ACCEPTANCE", "MIGRATED", "BLOCKED"}

-----------------------------------------------------------------------------
\* Rows

AssignmentRow ==
  [scope : Scope, tenant : Tenant \cup {Platform}, entity : Entity,
   from : Nat, to : Nat \cup {Open}]

MigrationRow ==
  [from : Entity, to : Entity, status : MigrationStatus, evaluation : Evaluation \cup {None}]

LicenceStatus == {"CLAIMED_UNVERIFIED", "EVIDENCED", "EXPIRED", "REVOKED"}

LicenceRow == [entity : Entity, status : LicenceStatus, evidence : BOOLEAN]

\* A role of an entity in a relationship, and a permission in a jurisdiction:
\* windows that are granted and ended.
RoleRow == [entity : Entity, tenant : Tenant \cup {Platform}, from : Nat, to : Nat \cup {Open}]

PermissionRow == [entity : Entity, jurisdiction : Jurisdiction, from : Nat, to : Nat \cup {Open}]

\* What the local seed leaves: its entity, bound as the tenant default.
SeededBinding(tenant, entity) ==
  [scope |-> "TENANT_DEFAULT", tenant |-> tenant, entity |-> entity, from |-> 0, to |-> Open]

SeededEntities(tenant, entities) ==
  [entities |-> [e \in Entity |-> IF e \in entities THEN "ACTIVE" ELSE "UNKNOWN"],
   bindings |-> <<SeededBinding(tenant, CHOOSE e \in entities : TRUE)>>,
   migrations |-> <<>>, licences |-> <<>>, roles |-> <<>>, permissions |-> <<>>]

-----------------------------------------------------------------------------
\* What the domain and the repositories compute

\* entities.findById returned a row.
Registered(entity) == db.entities[entity] # "UNKNOWN"

ActiveAt(row, at) == row.from <= at /\ (row.to = Open \/ row.to > at)

\* findOpen: the tenant is a filter whenever the call names one, for a user's
\* contracting entity as well.
FindOpen(scope, tenant) ==
  {i \in Ids(db.bindings) :
     /\ db.bindings[i].scope = scope
     /\ db.bindings[i].to = Open
     /\ tenant \in {Platform, db.bindings[i].tenant}}

\* findActiveAt: the contracting entity is looked up by user alone.
FindActiveAt(scope, tenant, at) ==
  {i \in Ids(db.bindings) :
     /\ db.bindings[i].scope = scope
     /\ tenant \in {Platform, db.bindings[i].tenant}
     /\ ActiveAt(db.bindings[i], at)}

\* newest: the latest start; among equals the first the store returns.
Newest(ids) ==
  {i \in ids : \A j \in ids : db.bindings[j].from <= db.bindings[i].from}

\* ResolveEffectiveOperatingEntity: the entities it may answer with, none
\* when nothing is bound.
EffectiveEntity(tenant, at) ==
  LET contracting == FindActiveAt("USER_CONTRACTING", Platform, at)
      default == FindActiveAt("TENANT_DEFAULT", tenant, at)
  IN {db.bindings[i].entity :
        i \in Newest(IF contracting # {} THEN contracting ELSE default)}

\* The guard on windows: an open row may be ended, after it started.
WindowMayEnd(row, at) == row.to = Open /\ at > row.from

MigrationTransitionAllowed(from, to) ==
  \/ from = "PROPOSED" /\ to = "RECONSENT_EVALUATED"
  \/ from = "RECONSENT_EVALUATED" /\ to \in {"AWAITING_ACCEPTANCE", "MIGRATED"}
  \/ from = "AWAITING_ACCEPTANCE" /\ to \in {"MIGRATED", "BLOCKED"}

Terminal(status) == status \in {"MIGRATED", "BLOCKED"}

\* entity_migrations_guard: a terminal row is immutable and an evaluation,
\* once linked, is never swapped.
MigrationMayChange(row, evaluation) ==
  /\ ~Terminal(row.status)
  /\ row.evaluation \in {None, evaluation}

-----------------------------------------------------------------------------
\* Bindings: SetTenantDefaultEntity, SetUserContractingEntity

\* The entity is looked up, then the open rows of the subject.
BeginSetBinding(q, scope, tenant, entity, from) ==
  /\ Registered(entity)
  /\ scope = "TENANT_DEFAULT" => tenant # Platform
  /\ Begins(q, "bindings", "binding.open",
            [scope |-> scope, tenant |-> tenant, entity |-> entity, from |-> from], <<>>)

SetBindingFindsOpen(q) ==
  LET in == req[q].in
  IN /\ At(q, "binding.open")
     /\ Reads(q, "binding.end", FindOpen(in.scope, in.tenant))

\* end: one UPDATE per open row; the guard refuses one that was ended since.
EndOpenBinding(q, i) ==
  LET at == req[q].in.from
  IN /\ At(q, "binding.end")
     /\ i \in req[q].read
     /\ WindowMayEnd(db.bindings[i], at)
     /\ Writes(q, [db EXCEPT !.bindings[i].to = at], "binding.end", req[q].read \ {i})

InsertBinding(q) ==
  LET in == req[q].in
      row == [scope |-> in.scope, tenant |-> in.tenant, entity |-> in.entity,
              from |-> in.from, to |-> Open]
  IN /\ At(q, "binding.end")
     /\ req[q].read = {}
     /\ Room(db.bindings)
     /\ WritesAudited(q, [db EXCEPT !.bindings = Append(@, row)],
                      [action |-> "entity.assignment.set", id |-> Len(db.bindings) + 1,
                       status |-> "OPEN"])

-----------------------------------------------------------------------------
\* Migrations

ProposeEntityMigration(q, from, to) ==
  /\ from # to
  /\ Registered(from) /\ Registered(to)
  /\ Begins(q, "migrations", "migration.insert", [from |-> from, to |-> to], <<>>)

InsertMigration(q) ==
  LET in == req[q].in
      row == [from |-> in.from, to |-> in.to, status |-> "PROPOSED", evaluation |-> None]
  IN /\ At(q, "migration.insert")
     /\ Room(db.migrations)
     /\ WritesAudited(q, [db EXCEPT !.migrations = Append(@, row)],
                      [action |-> "entity.migration.proposed",
                       id |-> Len(db.migrations) + 1, status |-> "PROPOSED"])

\* RecordMigrationReconsentEvaluation reads the status it checks.
BeginRecordEvaluation(q, m, evaluation) ==
  /\ MigrationTransitionAllowed(db.migrations[m].status, "RECONSENT_EVALUATED")
  /\ Begins(q, "migrations", "migration.advance",
            [migration |-> m, to |-> "RECONSENT_EVALUATED", evaluation |-> evaluation], <<>>)

\* AdvanceEntityMigration reads the status it checks.
BeginAdvance(q, m, to) ==
  /\ to \in {"AWAITING_ACCEPTANCE", "MIGRATED", "BLOCKED"}
  /\ MigrationTransitionAllowed(db.migrations[m].status, to)
  /\ Begins(q, "migrations", "migration.advance",
            [migration |-> m, to |-> to, evaluation |-> db.migrations[m].evaluation], <<>>)

\* advance: an UPDATE by id, which the guard may refuse.
AdvanceMigration(q) ==
  LET in == req[q].in
      row == db.migrations[in.migration]
  IN /\ At(q, "migration.advance")
     /\ MigrationMayChange(row, in.evaluation)
     /\ WritesAudited(q, [db EXCEPT !.migrations[in.migration] =
                                      [row EXCEPT !.status = in.to,
                                                  !.evaluation = in.evaluation]],
                      [action |-> "entity.migration.advanced", id |-> in.migration,
                       status |-> in.to])

-----------------------------------------------------------------------------
\* The rest of the register

CreateOperatingEntity(q, entity) ==
  /\ ~Registered(entity)
  /\ Begins(q, "registers", "entity.write", [entity |-> entity, status |-> "ACTIVE"], <<>>)

\* UpdateOperatingEntityStatus: any status may follow any other.
UpdateOperatingEntityStatus(q, entity, status) ==
  /\ Registered(entity)
  /\ Begins(q, "registers", "entity.write", [entity |-> entity, status |-> status], <<>>)

WriteEntity(q) ==
  LET in == req[q].in
  IN /\ At(q, "entity.write")
     /\ WritesAudited(q, [db EXCEPT !.entities[in.entity] = in.status],
                      [action |-> "entity.entity.changed", id |-> 0, status |-> in.status])

\* Opening a window: a role assignment or a jurisdiction permission.
OpensWindow(q, at, entity, fields) ==
  /\ Registered(entity)
  /\ Begins(q, "registers", at, fields, <<>>)

BeginCreateRoleAssignment(q, entity, tenant) ==
  OpensWindow(q, "role.insert", entity,
              [entity |-> entity, tenant |-> tenant, from |-> now, to |-> Open])

CreateRoleAssignment(q) ==
  /\ At(q, "role.insert")
  /\ Room(db.roles)
  /\ WritesAudited(q, [db EXCEPT !.roles = Append(@, req[q].in)],
                   [action |-> "entity.role_assignment.created",
                    id |-> Len(db.roles) + 1, status |-> "OPEN"])

BeginGrantPermission(q, entity, jurisdiction) ==
  OpensWindow(q, "permission.insert", entity,
              [entity |-> entity, jurisdiction |-> jurisdiction, from |-> now, to |-> Open])

GrantJurisdictionPermission(q) ==
  /\ At(q, "permission.insert")
  /\ Room(db.permissions)
  /\ WritesAudited(q, [db EXCEPT !.permissions = Append(@, req[q].in)],
                   [action |-> "entity.jurisdiction_permission.granted",
                    id |-> Len(db.permissions) + 1, status |-> "OPEN"])

\* EndRoleAssignment finds the row, then ends it by id.
BeginEndRoleAssignment(q, i) ==
  Begins(q, "registers", "role.end", [id |-> i], <<>>)

EndRoleAssignment(q) ==
  LET i == req[q].in.id
  IN /\ At(q, "role.end")
     /\ WindowMayEnd(db.roles[i], now)
     /\ WritesAudited(q, [db EXCEPT !.roles[i].to = now],
                      [action |-> "entity.role_assignment.ended", id |-> i, status |-> "ENDED"])

\* EndJurisdictionPermission reads nothing and its table has no guard: a
\* window that was ended may be ended again, later or earlier.
EndJurisdictionPermission(q, i, at) ==
  /\ At(q, "idle")
  /\ left["registers"] > 0
  /\ at > db.permissions[i].from
  /\ db' = [db EXCEPT !.permissions[i].to = at]
  /\ req' = [req EXCEPT ![q] = [Idle EXCEPT !.at = "audit", !.now = now, !.read =
               [action |-> "entity.jurisdiction_permission.ended", id |-> i,
                status |-> "ENDED"]]]
  /\ left' = [left EXCEPT !["registers"] = @ - 1]
  /\ UNCHANGED now

\* licenceStatusRequiresEvidence, in the use case and in a CHECK.
EvidenceHeld(status, evidence) == status = "EVIDENCED" => evidence

RecordEntityLicence(q, entity, status, evidence) ==
  /\ EvidenceHeld(status, evidence)
  /\ Registered(entity)
  /\ Begins(q, "registers", "licence.insert",
            [entity |-> entity, status |-> status, evidence |-> evidence], <<>>)

InsertLicence(q) ==
  /\ At(q, "licence.insert")
  /\ Room(db.licences)
  /\ WritesAudited(q, [db EXCEPT !.licences = Append(@, req[q].in)],
                   [action |-> "entity.licence.recorded", id |-> Len(db.licences) + 1,
                    status |-> req[q].in.status])

\* The evidence is the caller's, or what the row held when it was read.
BeginUpdateLicence(q, i, status, evidence) ==
  LET kept == evidence \/ db.licences[i].evidence
  IN /\ EvidenceHeld(status, kept)
     /\ Begins(q, "registers", "licence.update",
               [id |-> i, status |-> status, evidence |-> kept], <<>>)

UpdateEntityLicenceStatus(q) ==
  LET in == req[q].in
  IN /\ At(q, "licence.update")
     /\ WritesAudited(q, [db EXCEPT !.licences[in.id].status = in.status,
                                    !.licences[in.id].evidence = in.evidence],
                      [action |-> "entity.licence.status_changed", id |-> in.id,
                       status |-> in.status])

-----------------------------------------------------------------------------
EntitiesNext ==
  \E q \in Requests :
    \/ \E s \in Scope, t \in Tenant \cup {Platform}, e \in Entity, from \in now .. now + 1 :
         BeginSetBinding(q, s, t, e, from)
    \/ SetBindingFindsOpen(q)
    \/ \E i \in Ids(db.bindings) : EndOpenBinding(q, i)
    \/ InsertBinding(q)
    \/ \E e, f \in Entity : ProposeEntityMigration(q, e, f)
    \/ InsertMigration(q)
    \/ \E m \in Ids(db.migrations), v \in Evaluation : BeginRecordEvaluation(q, m, v)
    \/ \E m \in Ids(db.migrations), to \in MigrationStatus : BeginAdvance(q, m, to)
    \/ AdvanceMigration(q)
    \/ \E e \in Entity : CreateOperatingEntity(q, e)
    \/ \E e \in Entity, s \in EntityStatus : UpdateOperatingEntityStatus(q, e, s)
    \/ WriteEntity(q)
    \/ \E e \in Entity, t \in Tenant \cup {Platform} : BeginCreateRoleAssignment(q, e, t)
    \/ CreateRoleAssignment(q)
    \/ \E e \in Entity, j \in Jurisdiction : BeginGrantPermission(q, e, j)
    \/ GrantJurisdictionPermission(q)
    \/ \E i \in Ids(db.roles) : BeginEndRoleAssignment(q, i)
    \/ EndRoleAssignment(q)
    \/ \E i \in Ids(db.permissions), at \in now .. now + 1 :
         EndJurisdictionPermission(q, i, at)
    \/ \E e \in Entity, s \in LicenceStatus, v \in BOOLEAN : RecordEntityLicence(q, e, s, v)
    \/ InsertLicence(q)
    \/ \E i \in Ids(db.licences), s \in LicenceStatus, v \in BOOLEAN :
         BeginUpdateLicence(q, i, s, v)
    \/ UpdateEntityLicenceStatus(q)
=============================================================================
