------------------------------- MODULE Tenancy -------------------------------
(***************************************************************************)
(* The tenancy module: invitations, their redemption by the invited        *)
(* account, and membership.  A member may be suspended, and a tenant too,  *)
(* while a call that found them active is on its way.                      *)
(*                                                                         *)
(* An invitation names the e-mail address it was sent to, which is the     *)
(* account of that name in module Accounts; whoever presents its token is  *)
(* the redeemer.                                                           *)
(***************************************************************************)
EXTENDS Roles

CONSTANTS
  FirstParty,      \* KARAR_FIRST_PARTY_TENANT_ID
  InvitationLife,  \* expiresInHours
  MaxAttempts      \* DEFAULT_MAX_ATTEMPTS

ASSUME TenancyAssumption ==
  FirstParty \in Tenant /\ {InvitationLife, MaxAttempts} \subseteq Nat \ {0}

-----------------------------------------------------------------------------
\* Membership

NoMembership == [state |-> "none", from |-> 0, to |-> Open, ended |-> Open]

\* ended says when a membership or a tenant last stopped being active.
ActiveMembership(at) == [state |-> "ACTIVE", from |-> at, to |-> Open, ended |-> Open]

IsMember(tenant, user) == db.members[<<tenant, user>>].state # "none"

MembershipActiveAt(row, at) ==
  /\ row.state = "ACTIVE"
  /\ row.from <= at
  /\ row.to = Open \/ row.to > at

\* findOwn looks at the state alone, not at the dates.
OwnActive(tenant, user) == db.members[<<tenant, user>>].state = "ACTIVE"

TenantActive(tenant) == db.tenants[tenant].status = "ACTIVE"

\* findForMember: tenants_member_select shows a tenant to its active members.
UsableTenant(tenant, user) == OwnActive(tenant, user) /\ TenantActive(tenant)

Ended(row, was, is) ==
  IF is = "ACTIVE" THEN Open ELSE IF was = "ACTIVE" THEN now ELSE row.ended

\* Operators change both tables from outside of the API.
MemberChanged(tenant, user, state) ==
  LET row == db.members[<<tenant, user>>]
  IN /\ row.state \notin {"none", state}
     /\ left["operators"] > 0
     /\ left' = [left EXCEPT !["operators"] = @ - 1]
     /\ db' = [db EXCEPT !.members[<<tenant, user>>] =
                 [row EXCEPT !.state = state, !.ended = Ended(row, row.state, state)]]
     /\ UNCHANGED <<now, req>>

TenantChanged(tenant, status) ==
  LET row == db.tenants[tenant]
  IN /\ row.status # status
     /\ left["operators"] > 0
     /\ left' = [left EXCEPT !["operators"] = @ - 1]
     /\ db' = [db EXCEPT !.tenants[tenant] =
                 [status |-> status, ended |-> Ended(row, row.status, status)]]
     /\ UNCHANGED <<now, req>>

\* GrantFirstPartyMembership: the tenant is read, then the member inserted
\* unless there is one in any state; only an insert is audited.
BeginEnrol(q, user) ==
  /\ TenantActive(FirstParty)
  /\ Begins(q, "invitations", "enrol", [by |-> user], <<>>)

CreateOwnMembership(q) ==
  LET user == req[q].in.by
  IN /\ At(q, "enrol")
     /\ IF IsMember(FirstParty, user) THEN Ends(q)
        ELSE WritesAudited(q, [db EXCEPT !.members[<<FirstParty, user>>] = ActiveMembership(now)],
                           Success(user, "tenancy.membership.first_party_granted",
                                   [tenant |-> FirstParty]))

-----------------------------------------------------------------------------
\* Creating and revoking an invitation: findOwn, authorize, then the write.

BeginInvite(q, by, tenant, email) ==
  /\ OwnActive(tenant, by)
  /\ Begins(q, "invitations", "authorize",
            [by |-> by, tenant |-> tenant, email |-> email, next |-> "create"], <<>>)

BeginRevokeInvitation(q, by, tenant, i) ==
  /\ OwnActive(tenant, by)
  /\ Begins(q, "invitations", "authorize",
            [by |-> by, tenant |-> tenant, invitation |-> i, next |-> "revoke"], <<>>)

InvitationPermission ==
  [create |-> "tenancy.invitation.create", revoke |-> "tenancy.invitation.revoke"]

AuthorizeInvitation(q) ==
  LET in == req[q].in
  IN /\ At(q, "authorize")
     /\ IF Authorized(in.by, in.tenant, InvitationPermission[in.next])
        THEN Reads(q, in.next, <<>>)
        ELSE Ends(q)

\* A record about an invitation.
Invited(i) == [invitation |-> i]

CreateForTenant(q) ==
  LET in == req[q].in
      row == [tenant |-> in.tenant, email |-> in.email, expires |-> now + InvitationLife,
              redeemed |-> Open, redeemedBy |-> Open, revoked |-> Open, attempts |-> 0,
              by |-> in.by, asked |-> req[q].now]
  IN /\ At(q, "create")
     /\ Room(db.invitations)
     /\ WritesAudited(q, [db EXCEPT !.invitations = Append(@, row)],
                      Success(in.by, "tenancy.invitation.created", Invited(Len(db.invitations) + 1)))

StillOpen(row) == row.revoked = Open /\ row.redeemed = Open

RevokeOpen(q) ==
  LET in == req[q].in
      row == db.invitations[in.invitation]
  IN /\ At(q, "revoke")
     /\ IF row.tenant = in.tenant /\ StillOpen(row)
        THEN WritesAudited(q, [db EXCEPT !.invitations[in.invitation].revoked = now],
                           Success(in.by, "tenancy.invitation.revoked",
                                   Invited(in.invitation)))
        ELSE Ends(q)

-----------------------------------------------------------------------------
\* Redemption

\* evaluateRedeemability, in the order of denial.
Redeemability(row, at, email) ==
  IF row.revoked # Open THEN "revoked"
  ELSE IF row.redeemed # Open THEN "already_redeemed"
  ELSE IF row.expires <= at THEN "expired"
  ELSE IF row.attempts >= MaxAttempts THEN "attempts_exhausted"
  ELSE IF email # row.email THEN "email_mismatch"
  ELSE "redeemable"

BeginRedeem(q, user, i) ==
  Begins(q, "redemptions", "gate", [by |-> user, invitation |-> i], db.invitations[i])

\* The row that was read is judged after the verified e-mail is read.
RedemptionGate(q) ==
  LET in == req[q].in
      email == IF VerifiedEmailOf(in.by) THEN in.by ELSE Open
      gate == Redeemability(req[q].read, now, email)
  IN /\ At(q, "gate")
     /\ CASE gate = "redeemable" -> Reads(q, "redeem", [at |-> now])
          [] gate = "email_mismatch" -> Reads(q, "attempt", <<>>)
          [] OTHER -> Reads(q, "audit", Denial(in.by, gate, Invited(in.invitation)))

RecordFailedAttempt(q) ==
  LET in == req[q].in
  IN /\ At(q, "attempt")
     /\ WritesAudited(q, [db EXCEPT !.invitations[in.invitation].attempts = @ + 1],
                      Denial(in.by, "email_mismatch", Invited(in.invitation)))

\* MUTANT of RedeemableStill: the conditional update does not ask whether the
\* row was redeemed or revoked meanwhile.
RedeemableWhenRead(row, at) == row.expires > at

RedeemableStill(row, at) == StillOpen(row) /\ row.expires > at

\* One transaction: the member, the conditional update, the insert.
Redeem(q) ==
  LET in == req[q].in
      row == db.invitations[in.invitation]
      at == req[q].read.at
      tables == [db EXCEPT !.invitations[in.invitation].redeemed = at,
                           !.invitations[in.invitation].redeemedBy = in.by,
                           !.members[<<row.tenant, in.by>>] = ActiveMembership(at)]
  IN /\ At(q, "redeem")
     /\ IF ~IsMember(row.tenant, in.by) /\ RedeemableStill(row, at)
        THEN WritesAudited(q, tables, Success(in.by, "tenancy.invitation.redeem",
                                                 Invited(in.invitation)))
        ELSE Ends(q)

\* The steps of a call that has begun.
TenancyStep(q) ==
  \/ Delegate(q) \/ InsertAssignmentOf(q) \/ RevokeAssignment(q)
  \/ CreateOwnMembership(q) \/ AuthorizeInvitation(q) \/ CreateForTenant(q) \/ RevokeOpen(q)
  \/ RedemptionGate(q) \/ RecordFailedAttempt(q) \/ Redeem(q)

-----------------------------------------------------------------------------
\* Properties

HeldSince(from, row) == row.to = Open \/ row.to >= from

\* An invitation was created by a member who was active, and held a role of
\* that tenant that permits it, at some instant of the call: the decisions
\* are used after they were read (create-invitation.ts).
InvitersHadAuthority ==
  \A i \in Ids(db.invitations) :
    LET row == db.invitations[i]
        member == db.members[<<row.tenant, row.by>>]
    IN /\ member.state = "ACTIVE" \/ member.ended >= row.asked
       /\ \E j \in Ids(db.roles) :
            /\ db.roles[j].user = row.by /\ db.roles[j].tenant = row.tenant
            /\ db.roles[j].role = "TENANT_ADMIN"
            /\ HeldSince(row.asked, db.roles[j])

\* A role is granted by an administrator who was one during the call, and
\* by the same rule up to the assignment that was seeded (assign-role.ts).
GrantersHadAuthority ==
  \A i \in Ids(db.roles) :
    LET row == db.roles[i]
    IN row.by \in User =>
         \E j \in 1 .. i - 1 :
           /\ db.roles[j].user = row.by
           /\ db.roles[j].role = "PLATFORM_ADMIN"
           /\ HeldSince(row.asked, db.roles[j])

\* An invitation that was redeemed made exactly its addressee a member, was
\* not revoked, and no other invitation made the same member.
RedemptionsAreUnique ==
  \A i \in Ids(db.invitations) :
    LET row == db.invitations[i]
    IN row.redeemed # Open =>
         /\ row.redeemedBy = row.email /\ IsMember(row.tenant, row.email)
         /\ row.revoked = Open
         /\ \A j \in Ids(db.invitations) \ {i} :
              db.invitations[j].redeemed # Open =>
                <<db.invitations[j].tenant, db.invitations[j].redeemedBy>> # <<row.tenant, row.email>>

\* Wrong guesses are counted after the row was judged, so calls that overlap
\* may pass the bound by one each.
AttemptsAreBounded ==
  \A i \in Ids(db.invitations) :
    db.invitations[i].attempts < MaxAttempts + Cardinality(Requests)

AuthorityWasHeld ==
  /\ InvitersHadAuthority
  /\ GrantersHadAuthority
  /\ RedemptionsAreUnique
  /\ AttemptsAreBounded
=============================================================================
