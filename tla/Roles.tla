-------------------------------- MODULE Roles --------------------------------
(***************************************************************************)
(* The authorization module: role assignments, and the decision every      *)
(* other module asks for.  A decision reads the caller's own active rows   *)
(* and is used after that read, when the rows may have changed.            *)
(***************************************************************************)
EXTENDS Accounts

CONSTANTS
  Tenant,     \* tenants
  Platform    \* the tenant of a platform-scoped assignment (tenant_id null)

ASSUME PlatformAssumption == Platform \notin Tenant

-----------------------------------------------------------------------------
\* The catalogue

RoleScope ==
  [TENANT_MEMBER |-> "TENANT", TENANT_ADMIN |-> "TENANT", USER |-> "PLATFORM",
   SUPPORT |-> "PLATFORM", OPERATOR |-> "PLATFORM", SECURITY |-> "PLATFORM",
   PLATFORM_ADMIN |-> "PLATFORM", DISCLOSURE_APPROVER |-> "PLATFORM"]

RoleId == DOMAIN RoleScope

RolePermissions ==
  [r \in RoleId |->
     CASE r = "TENANT_ADMIN" -> {"tenancy.member.read", "tenancy.invitation.create",
                                 "tenancy.invitation.revoke"}
       [] r = "SUPPORT" -> {"users.profile.read", "consent.status.read"}
       [] r = "OPERATOR" -> {"controlplane.killswitch.operate"}
       [] r = "PLATFORM_ADMIN" -> {"authorization.role.assign", "authorization.role.revoke",
                                   "entity.entity.manage", "entity.migration.approve",
                                   "identity.session.revoke", "identity.mfa.reset",
                                   "users.status.update", "consent.document.publish"}
       [] OTHER -> {}]

ScopeAdmits(role, tenant) == (RoleScope[role] = "TENANT") = (tenant # Platform)

-----------------------------------------------------------------------------
\* Decisions

AssignmentActiveAt(row, at) ==
  /\ row.status = "ACTIVE"
  /\ row.from <= at
  /\ row.to = Open \/ row.to > at

\* MUTANT of AssignmentAppliesTo: the tenant of the caller is not compared.
AppliesAnywhere(row, tenant) == TRUE

AssignmentAppliesTo(row, tenant) == row.tenant \in {Platform, tenant}

\* listOwnActive of a caller bound to tenant, and the rules applied again.
ApplicableRoles(user, tenant, at) ==
  {db.roles[i].role : i \in {j \in Ids(db.roles) :
     /\ db.roles[j].user = user
     /\ AssignmentActiveAt(db.roles[j], at)
     /\ AssignmentAppliesTo(db.roles[j], tenant)}}

Authorized(user, tenant, permission) ==
  \E role \in ApplicableRoles(user, tenant, now) : permission \in RolePermissions[role]

\* The records of the audit trail.
Denial(user, action, subject) ==
  [outcome |-> "DENIED", by |-> user, action |-> action, about |-> subject]

Success(user, action, subject) ==
  [outcome |-> "SUCCESS", by |-> user, action |-> action, about |-> subject]

-----------------------------------------------------------------------------
\* AssignRole and RevokeRole

Grant(user, role, tenant) == [user |-> user, role |-> role, tenant |-> tenant]

Granted(row) == Grant(row.user, row.role, row.tenant)

\* authorize: denied calls only leave a DENIED record.
BeginRoleCall(q, step, permission, by, user, role, tenant) ==
  LET in == [user |-> user, role |-> role, tenant |-> tenant, by |-> by]
      denied == Denial(by, permission, Grant(user, role, tenant))
  IN IF Authorized(by, Platform, permission)
     THEN Begins(q, "roles", step, in, <<>>)
     ELSE Begins(q, "roles", "audit", in, denied)

BeginAssign(q, by, user, role, tenant) ==
  /\ ScopeAdmits(role, tenant)
  /\ BeginRoleCall(q, "delegate", "authorization.role.assign", by, user, role, tenant)

\* Only a PLATFORM_ADMIN peer mints a PLATFORM_ADMIN.
Delegate(q) ==
  LET in == req[q].in
  IN /\ At(q, "delegate")
     /\ IF in.role = "PLATFORM_ADMIN" =>
             "PLATFORM_ADMIN" \in ApplicableRoles(in.by, Platform, now)
        THEN Reads(q, "grant", <<>>)
        ELSE Reads(q, "audit", Denial(in.by, "authorization.role.assign", Granted(in)))

\* role_assignments_active_unique: one ACTIVE row of a user, role and tenant.
ActiveRows(grant) ==
  {i \in Ids(db.roles) : Granted(db.roles[i]) = grant /\ db.roles[i].status = "ACTIVE"}

InsertAssignmentOf(q) ==
  LET in == req[q].in
      row == [user |-> in.user, role |-> in.role, tenant |-> in.tenant, status |-> "ACTIVE",
              by |-> in.by, asked |-> req[q].now, from |-> now, to |-> Open]
  IN /\ At(q, "grant")
     /\ ActiveRows(Granted(in)) = {}
     /\ Room(db.roles)
     /\ WritesAudited(q, [db EXCEPT !.roles = Append(@, row)],
                      Success(in.by, "authorization.role.assign", Granted(in)))

BeginRevokeRole(q, by, user, role, tenant) ==
  BeginRoleCall(q, "ungrant", "authorization.role.revoke", by, user, role, tenant)

\* The active row, updated WHERE status is still ACTIVE; the CHECK refuses an
\* effective_to that is not after effective_from.
RevokeAssignment(q) ==
  LET in == req[q].in
  IN /\ At(q, "ungrant")
     /\ \E i \in ActiveRows(Granted(in)) :
          /\ now > db.roles[i].from
          /\ WritesAudited(q, [db EXCEPT !.roles[i].status = "REVOKED", !.roles[i].to = now],
                           Success(in.by, "authorization.role.revoke", Granted(in)))
=============================================================================
