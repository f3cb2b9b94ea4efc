----------------------------- MODULE AccessStore -----------------------------
(***************************************************************************)
(* The components of access over one database: accounts and their proofs,  *)
(* roles, memberships and invitations, the tenant bindings of sessions and *)
(* the profiles.  What a component finds in another one's table is what    *)
(* that one last committed.                                                *)
(***************************************************************************)
EXTENDS Profiles

AccountStatus == {"none", "active", "disabled"}
MemberState   == {"none", "INVITED", "ACTIVE", "SUSPENDED", "REMOVED"}
TenantStatus  == {"ACTIVE", "SUSPENDED", "CLOSED"}
ProfileStatus == DOMAIN StatusTransitions
Proof         == {"password", "totp", "recovery"}

Date == Nat \cup {Open}

CodeRow == [user : User, created : Nat, expires : Nat, attempts : Nat, consumed : BOOLEAN]
EventRow == [type : {"login_failed", "recovery_code_failed"}, user : User, at : Nat]
FactorRow == [secret : Nat, confirmed : Date, disabled : Date]
RecoveryRow == [code : Nat, used : BOOLEAN]

SessionRow ==
  [user : User, proof : Proof, asked : Nat, revoked : BOOLEAN, tenant : Tenant \cup {Unbound},
   bound : Nat, replaces : Nat, since : Nat]

\* A role is held in a scope of its kind, which AssignRole sees to; by is
\* nobody of User where an operator assigned it.
AssignmentRow ==
  {row \in [user : User, role : RoleId, tenant : Tenant \cup {Platform},
            status : {"ACTIVE", "REVOKED"}, by : User \cup {"seed"}, asked : Nat, from : Nat,
            to : Date] : ScopeAdmits(row.role, row.tenant)}

MemberRow == [state : MemberState, from : Nat, to : Date, ended : Date]
TenantRow == [status : TenantStatus, ended : Date]

InvitationRow ==
  [tenant : Tenant, email : User, expires : Nat, redeemed : Date, redeemedBy : User \cup {Open},
   revoked : Date, attempts : Nat, by : User, asked : Nat]

ProfileRow == [status : ProfileStatus, fields : Nat]
HistoryRow == [user : User, from : ProfileStatus, to : ProfileStatus]

\* What the columns and the CHECKs of the schemas promise.
AccessTypeOK ==
  /\ db.accounts \in [User -> [status : AccountStatus, verified : BOOLEAN]]
  /\ db.codes \in Seq(CodeRow) /\ db.events \in Seq(EventRow)
  /\ db.mfa \in [User -> FactorRow] /\ db.recovery \in [User -> SUBSET RecoveryRow]
  /\ db.challenges \subseteq [user : User, expires : Nat]
  /\ db.minted \in Nat /\ db.proofs \in Seq(Nat)
  /\ db.sessions \in Seq(SessionRow)
  /\ db.roles \in Seq(AssignmentRow)
  /\ db.members \in [Tenant \X User -> MemberRow] /\ db.tenants \in [Tenant -> TenantRow]
  /\ db.invitations \in Seq(InvitationRow)
  /\ db.profiles \in [User -> ProfileRow] /\ db.history \in Seq(HistoryRow)

-----------------------------------------------------------------------------
\* What was there before: any accounts, factors, sessions, memberships and
\* roles of instant 0, with the codes minted for them, where a session that
\* is bound stands on a membership; open invitations of administrators; and
\* nothing yet that the calls themselves leave behind.
Seeded ==
  /\ DOMAIN db = {"accounts", "codes", "events", "minted", "proofs", "trail", "spent", "mfa",
                  "recovery", "challenges", "sessions", "roles", "members", "tenants",
                  "invitations", "profiles", "history"}
  /\ AccessTypeOK
  /\ db.codes = <<>> /\ db.events = <<>> /\ db.proofs = <<>> /\ db.trail = {}
  /\ \A u, w \in User : \A r \in db.recovery[u], s \in db.recovery[w] :
       r.code <= db.minted /\ ~r.used /\ (r.code = s.code => u = w)
  /\ \A s \in Ids(db.sessions) :
       /\ db.sessions[s].asked = 0 /\ db.sessions[s].bound = 0 /\ db.sessions[s].since = 0
       /\ db.sessions[s].replaces = 0
       /\ db.sessions[s].tenant # Unbound => BackedWhenBound(s)
  /\ \A i \in Ids(db.roles) : db.roles[i].by \notin User /\ db.roles[i].asked = 0
  /\ \A i \in Ids(db.invitations) :
       LET row == db.invitations[i]
       IN /\ row.redeemed = Open /\ row.attempts = 0 /\ row.asked = 0
          /\ OwnActive(row.tenant, row.by)
          /\ \E j \in Ids(db.roles) :
               /\ db.roles[j].user = row.by /\ db.roles[j].tenant = row.tenant
               /\ db.roles[j].role = "TENANT_ADMIN"
  /\ \A u \in User : db.profiles[u].status = "ACTIVE"
  /\ db.history = <<>>

Init ==
  /\ Seeded
  /\ now = 0
  /\ req = [q \in Requests |-> Idle]
  /\ left \in Budgets

-----------------------------------------------------------------------------
(* The calls *)

AccountCall(q) ==
  \/ \E u \in User :
       \/ BeginRegister(q, u) \/ BeginResend(q, u) \/ BeginEnroll(q, u)
       \/ \E right \in BOOLEAN : BeginLogin(q, u, right)
       \/ \E number \in Nat :
            BeginVerify(q, u, number) \/ BeginConfirm(q, u, number) \/ BeginDisable(q, u, number)
  \/ \E challenge \in db.challenges, method \in {"totp", "recovery"}, number \in Nat :
       BeginChallenge(q, challenge, method, number)

RoleCall(q) ==
  \E by, u \in User, role \in RoleId, tenant \in Tenant \cup {Platform} :
    BeginAssign(q, by, u, role, tenant) \/ BeginRevokeRole(q, by, u, role, tenant)

TenancyCall(q) ==
  \E u \in User :
    \/ BeginEnrol(q, u)
    \/ \E t \in Tenant, email \in User : BeginInvite(q, u, t, email)
    \/ \E t \in Tenant, i \in Ids(db.invitations) : BeginRevokeInvitation(q, u, t, i)
    \/ \E i \in Ids(db.invitations) : BeginRedeem(q, u, i)

BindingCall(q) ==
  \E s \in Ids(db.sessions) :
    BeginBootstrap(q, s) \/ \E t \in Tenant : BeginSetBinding(q, s, t)

ProfileCall(q) ==
  \E u \in User : BeginDisableRequest(q, u) \/ \E f \in Nat : UpdateOwnFields(q, u, f)

\* A step of a call that has begun.
CallStep(q) ==
  \/ AccountsStep(q) \/ TenancyStep(q) \/ BindingStep(q) \/ TransitionOwnStatus(q)
  \/ AppendAudit(q) \/ Abandon(q)

\* What operators and later phases change from outside of these calls.
Operators ==
  \/ \E u \in User :
       \/ \E status \in AccountStatus \ {"none"} : SetStatus(u, status)
       \/ \E t \in Tenant, state \in MemberState \ {"none"} : MemberChanged(t, u, state)
       \/ \E status \in ProfileStatus : StatusActedOn(u, status)
  \/ \E t \in Tenant, status \in TenantStatus : TenantChanged(t, status)

Next ==
  \/ \E q \in Requests :
       \/ AccountCall(q) \/ RoleCall(q) \/ TenancyCall(q) \/ BindingCall(q) \/ ProfileCall(q)
       \/ CallStep(q)
  \/ Operators
  \/ Tick

Spec == Init /\ [][Next]_vars
=============================================================================
