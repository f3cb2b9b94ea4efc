----------------------------- MODULE AccessProofs -----------------------------
(***************************************************************************)
(* Theorems of the components of access over their one database, for every *)
(* number of accounts, tenants, requests, sessions and rows: how many      *)
(* proofs an account lets through, that a recovery code proves once, whose *)
(* authority an invitation and a role rest on, that what the trail says of *)
(* a binding is so, and that the history of a profile is one.              *)
(*                                                                         *)
(* A step writes a few tables and takes back little of what they say       *)
(* (Advances), so that what another request has read stays as good as it   *)
(* was (Sound); a request is looked at only for the step it takes.  What   *)
(* is judged and counted in two statements is bounded by counting both     *)
(* the rows and the requests in between (CountersInv).                     *)
(***************************************************************************)
EXTENDS AccessStore, FiniteSetTheorems, WellFoundedInduction, TLAPS

-----------------------------------------------------------------------------
(* The tables *)

Fields ==
  {"accounts", "codes", "events", "minted", "proofs", "trail", "spent", "mfa", "recovery",
   "challenges", "sessions", "roles", "members", "tenants", "invitations", "profiles",
   "history"}

\* Active, or active until no earlier than the given instant.
ActiveOrEnded(active, ended, at) == active \/ ended >= at

MemberHeld(tenant, user, at) ==
  LET row == db.members[<<tenant, user>>] IN ActiveOrEnded(row.state = "ACTIVE", row.ended, at)

\* The dates of the membership reach beyond the given instant.
MemberLasts(tenant, user, at) ==
  LET to == db.members[<<tenant, user>>].to IN to = Open \/ to > at

TenantHeld(tenant, at) ==
  LET row == db.tenants[tenant] IN ActiveOrEnded(row.status = "ACTIVE", row.ended, at)

\* A role that was held at some instant since the given one.
RoleHeld(user, role, at) ==
  \E j \in Ids(db.roles) :
    db.roles[j].user = user /\ db.roles[j].role = role /\ HeldSince(at, db.roles[j])

TenantRoleHeld(user, role, tenant, at) ==
  \E j \in Ids(db.roles) :
    /\ db.roles[j].user = user /\ db.roles[j].role = role /\ db.roles[j].tenant = tenant
    /\ HeldSince(at, db.roles[j])

\* Codes are minted once: no two accounts have the same, no account has one
\* twice, and one that is not used has proved nothing.
RecoveryInv ==
  /\ \A u, w \in User : \A r \in db.recovery[u], s \in db.recovery[w] :
       r.code = s.code => u = w /\ r = s
  /\ \A u \in User : \A r \in db.recovery[u] :
       r.code <= db.minted /\ (~r.used => \A k \in Ids(db.proofs) : db.proofs[k] # r.code)
  /\ \A k \in Ids(db.proofs) : db.proofs[k] <= db.minted
  /\ RecoveryCodesProveOnce

\* No factor that is active was passed over, at the given instant.
NotPassedOver(user, at) == MfaActive(db.mfa[user]) => db.mfa[user].confirmed >= at

SessionsInv ==
  /\ PasswordIsNotEnough /\ BoundOnMembership
  /\ \A s \in Ids(db.sessions) :
       /\ db.sessions[s].asked <= now /\ db.sessions[s].bound <= now /\ db.sessions[s].since <= now
       /\ db.sessions[s].replaces # 0 =>
            /\ db.sessions[s].replaces \in Ids(db.sessions)
            /\ db.sessions[db.sessions[s].replaces].revoked
  /\ \A s, t \in Ids(db.sessions) :
       db.sessions[s].replaces = db.sessions[t].replaces /\ db.sessions[s].replaces # 0 => s = t

\* Who invited had the authority, and who redeemed is a member.
InvitationHolds(row) ==
  /\ row.asked <= now
  /\ MemberHeld(row.tenant, row.by, row.asked)
  /\ TenantRoleHeld(row.by, "TENANT_ADMIN", row.tenant, row.asked)
  /\ row.redeemed # Open =>
       row.redeemedBy = row.email /\ IsMember(row.tenant, row.email) /\ row.revoked = Open

\* No two invitations made the same member.
Distinct(invitations) ==
  \A i, j \in Ids(invitations) :
    /\ invitations[i].redeemed # Open /\ invitations[j].redeemed # Open
    /\ invitations[i].tenant = invitations[j].tenant
    /\ invitations[i].email = invitations[j].email
    => i = j

InvitationsInv ==
  /\ \A i \in Ids(db.invitations) : InvitationHolds(db.invitations[i])
  /\ Distinct(db.invitations)

RolesInv ==
  /\ GrantersHadAuthority
  /\ \A i \in Ids(db.roles) : db.roles[i].asked <= now

\* The actions of the records that say something of a session.
BindingActions ==
  FirstBindActions \cup {"tenancy.tenant.switch", "platform.tenant_binding.switched",
                         "membership_revoked_concurrently"}

\* What the trail says of a session, which is there.
EntrySound(entry) ==
  /\ RecordIsSo(entry)
  /\ entry.action \in BindingActions => entry.about.tenant \in Tenant
  /\ \/ entry.action \in FirstBindActions
     \/ entry.action = "membership_revoked_concurrently"
          /\ entry.about.resource = "identity_session"
     => entry.about.session \in Ids(db.sessions)

TrailInv == \A entry \in db.trail : EntrySound(entry)

TablesInv ==
  /\ DOMAIN db = Fields /\ AccessTypeOK
  /\ RecoveryInv
  /\ SessionsInv
  /\ RolesInv
  /\ InvitationsInv
  /\ TrailInv
  /\ StatusIsHistory

-----------------------------------------------------------------------------
(* What a request holds *)

AccountLabels ==
  {"register.spend", "register", "resend", "cooldown", "issue", "code", "mismatch", "consume",
   "mark", "login.spend", "login.ip", "login.find", "lockout", "failed", "verified", "session",
   "enroll", "confirm", "codes", "challenge.spend", "open", "totp", "recovery", "claim",
   "unproven", "disable", "off"}

AccountSound(r) ==
  /\ r.at \in AccountLabels => r.in.user \in User
  /\ r.at = "register.spend" => r.in.kind \in {"register", "resend"}
  /\ r.at = "challenge.spend" => r.in.next \in {"totp", "recovery", "disable"}
  /\ r.at = "open" => r.in.next \in {"totp", "recovery"}
  /\ r.at = "disable" => r.in.next = "disable"
  /\ r.at \in {"mismatch", "consume"} => r.read \in Ids(db.codes)
  /\ r.at = "session" =>
       /\ r.read \in Proof
       /\ r.read = "password" => NotPassedOver(r.in.user, r.now)

RoleSound(r) ==
  /\ r.at \in {"delegate", "grant", "ungrant"} =>
       /\ r.in.by \in User /\ r.in.user \in User /\ r.in.role \in RoleId
       /\ r.in.tenant \in Tenant \cup {Platform}
  /\ r.at \in {"delegate", "grant"} =>
       ScopeAdmits(r.in.role, r.in.tenant) /\ RoleHeld(r.in.by, "PLATFORM_ADMIN", r.now)

TenancySound(r) ==
  /\ r.at \in {"enrol", "authorize", "create", "gate", "redeem"} => r.in.by \in User
  /\ r.at \in {"authorize", "create"} =>
       r.in.tenant \in Tenant /\ MemberHeld(r.in.tenant, r.in.by, r.now)
  /\ r.at = "authorize" => r.in.next \in {"create", "revoke"}
  /\ (r.at = "authorize" /\ r.in.next = "create") \/ r.at = "create" => r.in.email \in User
  /\ (r.at = "authorize" /\ r.in.next = "revoke") \/ r.at \in {"revoke", "gate", "attempt", "redeem"} =>
       r.in.invitation \in Ids(db.invitations)
  /\ r.at = "create" => TenantRoleHeld(r.in.by, "TENANT_ADMIN", r.in.tenant, r.now)
  /\ r.at = "gate" =>
       r.read.email = db.invitations[r.in.invitation].email /\ r.read.attempts \in Nat
  /\ r.at = "redeem" =>
       /\ r.in.by = db.invitations[r.in.invitation].email
       /\ r.read.at \in Nat

\* The labels of a binding before it has chosen, with a choice, and after
\* the session has been bound to it.
Resolves == {"resolve"}
First    == {"find", "bind"}
Switches == {"verify", "verify.tenant", "account", "old", "rebind"}
Chosen   == First \cup Switches
Carried  == {"bound", "relist", "recheck", "rebound", "verify.again", "verify.tenant.again",
             "compensate", "settle", "settle.surface", "reverse"}

BindingRead(read) ==
  read = [session |-> read.session, tenant |-> read.tenant, pending |-> read.pending,
          choices |-> read.choices]

BindingSound(r) ==
  /\ r.at \in Resolves \cup Chosen \cup Carried =>
       /\ r.in.kind \in {"auto", "bind", "switch"} /\ BindingRead(r.read)
       /\ r.in.session \in Ids(db.sessions) /\ db.sessions[r.in.session].user = r.in.by
       /\ r.read.session \in Ids(db.sessions) /\ db.sessions[r.read.session].user = r.in.by
  /\ r.at \in Resolves =>
       /\ r.read.pending \subseteq Tenant /\ r.read.choices \subseteq Tenant
       /\ \A t \in r.read.pending : MemberLasts(t, r.in.by, r.now)
       /\ \A t \in r.read.choices : BackedSince(t, r.in.by, r.now)
  /\ r.at \in Resolves \cup Chosen => r.read.session = r.in.session
  /\ r.at \in Chosen \cup Carried => r.read.tenant \in Tenant
  /\ r.at \in Chosen => BackedSince(r.read.tenant, r.in.by, r.now)
  /\ r.at \in First => r.in.kind # "switch"
  /\ r.at \in Switches => r.in.kind = "switch"
  /\ r.at \in Carried =>
       /\ db.sessions[r.read.session].tenant = r.read.tenant
       /\ r.in.kind # "switch" => r.read.session = r.in.session
       /\ r.in.kind = "switch" => db.sessions[r.read.session].replaces = r.in.session
  /\ r.at = "recheck" =>
       /\ r.read.tenant \in r.read.pending =>
            MemberLasts(r.read.tenant, r.in.by, db.sessions[r.read.session].bound)
       /\ r.read.tenant \in r.read.choices => BackedWhenBound(r.read.session)
  /\ r.at = "verify.tenant.again" =>
       MemberLasts(r.read.tenant, r.in.by, db.sessions[r.read.session].bound)
  /\ r.at \in {"settle", "settle.surface"} => BackedWhenBound(r.read.session)
  /\ r.at = "settle.surface" => r.in.kind = "switch"

OtherSound(r) ==
  /\ r.at = "transition" =>
       /\ r.in.by \in User /\ r.read \in ProfileStatus
       /\ "DISABLE_REQUESTED" \in StatusTransitions[r.read]
  /\ r.at = "audit" => EntrySound(r.read)

Sound(r) ==
  /\ r.now \in Nat /\ r.now <= now
  /\ AccountSound(r) /\ RoleSound(r) /\ TenancySound(r) /\ BindingSound(r) /\ OtherSound(r)

-----------------------------------------------------------------------------
(* The proofs that are judged and not yet counted *)

FailingAt(r, user) == r.at = "failed" /\ r.in.user = user

UnprovingAt(r, user) ==
  /\ r.at = "unproven" \/ (r.at = "claim" /\ r.in.next # "disable")
  /\ r.in.user = user

MismatchingAt(r, i) == r.at = "mismatch" /\ r.read = i

GuessingAt(r, i) ==
  /\ r.at = "attempt" \/ (r.at = "gate" /\ r.read.attempts < MaxAttempts)
  /\ r.in.invitation = i

Failing(user)    == {q \in Requests : FailingAt(req[q], user)}
Unproving(user)  == {q \in Requests : UnprovingAt(req[q], user)}
Mismatching(i)   == {q \in Requests : MismatchingAt(req[q], i)}
Guessing(i)      == {q \in Requests : GuessingAt(req[q], i)}

\* Those that are counted and those that are not yet, together.
Within(counted, pending, bound) == counted + Cardinality(pending) < bound + Cardinality(Requests)

LoginsCounted ==
  \A u \in User : Within(RecentFailures("login_failed", u), Failing(u), LockoutThreshold)

CodesCounted ==
  \A u \in User : Within(RecentFailures("recovery_code_failed", u), Unproving(u), RecoveryThreshold)

VerificationsCounted ==
  \A i \in Ids(db.codes) : Within(db.codes[i].attempts, Mismatching(i), CodeAttempts)

GuessesCounted ==
  \A i \in Ids(db.invitations) : Within(db.invitations[i].attempts, Guessing(i), MaxAttempts)

CountersInv == LoginsCounted /\ CodesCounted /\ VerificationsCounted /\ GuessesCounted

Row(at, in, when, read) == [at |-> at, in |-> in, now |-> when, read |-> read]

RequestsShaped ==
  /\ now \in Nat
  /\ DOMAIN req = Requests
  /\ \A q \in Requests : req[q] = Row(req[q].at, req[q].in, req[q].now, req[q].read)

AccessInv ==
  /\ TablesInv
  /\ RequestsShaped
  /\ \A q \in Requests : Sound(req[q])
  /\ CountersInv

-----------------------------------------------------------------------------
(* What a step may do to the tables *)

\* The types of the columns, table by table.
Typed(table, t) ==
  /\ table = "accounts" => t \in [User -> [status : AccountStatus, verified : BOOLEAN]]
  /\ table = "codes" => t \in Seq(CodeRow)
  /\ table = "events" => t \in Seq(EventRow)
  /\ table = "mfa" => t \in [User -> FactorRow]
  /\ table = "recovery" => t \in [User -> SUBSET RecoveryRow]
  /\ table = "challenges" => t \subseteq [user : User, expires : Nat]
  /\ table = "minted" => t \in Nat
  /\ table = "proofs" => t \in Seq(Nat)
  /\ table = "sessions" => t \in Seq(SessionRow)
  /\ table = "roles" => t \in Seq(AssignmentRow)
  /\ table = "members" => t \in [Tenant \X User -> MemberRow]
  /\ table = "tenants" => t \in [Tenant -> TenantRow]
  /\ table = "invitations" => t \in Seq(InvitationRow)
  /\ table = "profiles" => t \in [User -> ProfileRow]
  /\ table = "history" => t \in Seq(HistoryRow)

\* A factor that was not passed over at an instant was not, whatever became
\* of it since.
FactorsKept ==
  \A u \in User, at \in Nat : at <= now /\ NotPassedOver(u, at) => NotPassedOver(u, at)'

\* A session keeps its account, its tenant and the one it was switched from,
\* and is revoked for good.
SessionKept(old, new) ==
  /\ new.user = old.user /\ new.replaces = old.replaces
  /\ old.revoked => new.revoked
  /\ old.tenant # Unbound => new.tenant = old.tenant /\ new.bound = old.bound

SessionsKept ==
  \A s \in Ids(db.sessions) :
    s \in Ids(db'.sessions) /\ SessionKept(db.sessions[s], db'.sessions[s])

\* An assignment keeps what it grants and who granted it, and ends now if it
\* ends.
RoleKept(old, new) ==
  /\ new.user = old.user /\ new.role = old.role /\ new.tenant = old.tenant
  /\ new.by = old.by /\ new.asked = old.asked
  /\ new.to = old.to \/ new.to = now

RolesKept ==
  \A i \in Ids(db.roles) : i \in Ids(db'.roles) /\ RoleKept(db.roles[i], db'.roles[i])

\* A membership is never deleted, ends now if it ends, and its dates are not
\* brought forward.
MembersKept ==
  \A t \in Tenant, u \in User :
    /\ IsMember(t, u) => IsMember(t, u)'
    /\ \A at \in Nat : /\ at <= now /\ MemberHeld(t, u, at) => MemberHeld(t, u, at)'
                       /\ MemberLasts(t, u, at) => MemberLasts(t, u, at)'

TenantsKept ==
  \A t \in Tenant, at \in Nat : at <= now /\ TenantHeld(t, at) => TenantHeld(t, at)'

\* An invitation keeps its addressee and who sent it.
InvitationKept(old, new) ==
  /\ new.tenant = old.tenant /\ new.email = old.email
  /\ new.by = old.by /\ new.asked = old.asked

InvitationsKept ==
  \A i \in Ids(db.invitations) :
    i \in Ids(db'.invitations) /\ InvitationKept(db.invitations[i], db'.invitations[i])

Advances ==
  /\ TablesInv'
  /\ now' \in Nat /\ now <= now'
  /\ Ids(db.codes) \subseteq Ids(db'.codes)
  /\ FactorsKept /\ SessionsKept /\ RolesKept /\ MembersKept /\ TenantsKept /\ InvitationsKept

-----------------------------------------------------------------------------
(* Numbers and sequences *)

\* A row that is inserted takes the next id and leaves the others alone.
LEMMA Inserted ==
  ASSUME NEW S, NEW s \in Seq(S), NEW e \in S
  PROVE  /\ Append(s, e) \in Seq(S)
         /\ DOMAIN s \subseteq DOMAIN Append(s, e)
         /\ \A i \in DOMAIN s : Append(s, e)[i] = s[i]
         /\ DOMAIN Append(s, e) = DOMAIN s \cup {Len(s) + 1}
         /\ Append(s, e)[Len(s) + 1] = e
         /\ Len(s) \in Nat /\ DOMAIN s = 1 .. Len(s)
OBVIOUS

\* A row that is updated by its id leaves the others alone.
LEMMA Updated ==
  ASSUME NEW S, NEW s \in Seq(S), NEW i \in DOMAIN s, NEW e \in S
  PROVE  /\ [s EXCEPT ![i] = e] \in Seq(S)
         /\ DOMAIN [s EXCEPT ![i] = e] = DOMAIN s
         /\ \A j \in DOMAIN s : [s EXCEPT ![i] = e][j] = IF j = i THEN e ELSE s[j]
OBVIOUS

\* A set of numbers that is not empty has a least one, since there is no
\* infinite descent in Nat.
LEMMA LeastOfSet ==
  ASSUME NEW S \in SUBSET Nat, S # {}
  PROVE  \E m \in S : \A k \in S : m <= k
<1> DEFINE R == OpToRel(<, Nat)
<1>1. IsWellFoundedOn(R, Nat)
  BY NatLessThanWellFounded
<1>2. \A x, y \in Nat : <<x, y>> \in R <=> x < y
  BY DEF OpToRel
<1> HIDE DEF R
<1>3. \E m \in S : \A k \in S : ~(<<k, m>> \in R)
  BY <1>1, WFMin
<1>4. PICK m \in S : \A k \in S : ~(<<k, m>> \in R)
  BY <1>3
<1>5. \A k \in S : k \in Nat /\ m \in Nat /\ ~(k < m)
  BY <1>2, <1>4
<1>6. \A k \in S : m <= k
  BY <1>5
<1> QED
  BY <1>6

\* A set of places in a sequence that is not empty has a last one.
LEMMA MaxIsThere ==
  ASSUME NEW n \in Nat, NEW S \in SUBSET (1 .. n), S # {}
  PROVE  Max(S) \in S /\ \A k \in S : k <= Max(S)
<1> DEFINE D == {n - k : k \in S}
<1>1. \A k \in S : k \in 1 .. n /\ n - k \in Nat
  OBVIOUS
<1>2. D \in SUBSET Nat /\ D # {}
  BY <1>1
<1>3. PICK d \in D : \A e \in D : d <= e
  BY <1>2, LeastOfSet
<1>4. PICK m \in S : d = n - m
  OBVIOUS
<1>5. \A k \in S : n - m <= n - k
  BY <1>3, <1>4
<1>6. \A k \in S : m >= k
  BY <1>1, <1>5
<1>7. Max(S) \in S /\ \A k \in S : Max(S) >= k
  BY <1>6 DEF Max
<1> QED
  BY <1>1, <1>7

\* And it is the only one that no other follows.
LEMMA MaxIsOne ==
  ASSUME NEW n \in Nat, NEW S \in SUBSET (1 .. n), NEW m \in S, \A k \in S : k <= m
  PROVE  Max(S) = m
<1>1. Max(S) \in S /\ \A k \in S : k <= Max(S)
  BY MaxIsThere
<1>2. Max(S) <= m /\ m <= Max(S) /\ Max(S) \in 1 .. n /\ m \in 1 .. n
  BY <1>1
<1> QED
  BY <1>2

-----------------------------------------------------------------------------
(* What other tables' writers leave of an invariant *)

\* Active or ended no earlier than then, and so still.
LEMMA RoleStays ==
  ASSUME TablesInv, RolesKept, NEW i \in Ids(db.roles), NEW at \in Nat, at <= now, now \in Nat,
         HeldSince(at, db.roles[i])
  PROVE  /\ i \in Ids(db'.roles) /\ HeldSince(at, db'.roles[i])
         /\ db'.roles[i].user = db.roles[i].user /\ db'.roles[i].role = db.roles[i].role
         /\ db'.roles[i].tenant = db.roles[i].tenant
BY DEF RolesKept, RoleKept, HeldSince

\* A role that was held at an instant that is past was held then for good.
LEMMA RoleHeldStays ==
  ASSUME TablesInv, RolesKept, NEW user, NEW role, NEW at \in Nat, at <= now, now \in Nat,
         RoleHeld(user, role, at)
  PROVE  RoleHeld(user, role, at)'
BY RoleStays DEF RoleHeld

\* And so for a role in a tenant.
LEMMA TenantRoleHeldStays ==
  ASSUME TablesInv, RolesKept, NEW user, NEW role, NEW tenant, NEW at \in Nat, at <= now,
         now \in Nat, TenantRoleHeld(user, role, tenant, at)
  PROVE  TenantRoleHeld(user, role, tenant, at)'
BY RoleStays DEF TenantRoleHeld

\* Every row is one of its table.
LEMMA RowsTyped ==
  ASSUME TablesInv
  PROVE  /\ \A i \in Ids(db.codes) : db.codes[i] \in CodeRow
         /\ \A i \in Ids(db.events) : db.events[i] \in EventRow
         /\ \A i \in Ids(db.sessions) : db.sessions[i] \in SessionRow
         /\ \A i \in Ids(db.roles) : db.roles[i] \in AssignmentRow
         /\ \A i \in Ids(db.invitations) : db.invitations[i] \in InvitationRow
         /\ \A i \in Ids(db.history) : db.history[i] \in HistoryRow
BY DEF TablesInv, AccessTypeOK, Ids

\* A membership and its tenant that stood at an instant that is past stood.
LEMMA StoodStays ==
  ASSUME MembersKept, TenantsKept, NEW t \in Tenant, NEW u \in User, NEW at \in Nat, at <= now,
         BackedSince(t, u, at)
  PROVE  BackedSince(t, u, at)'
<1>1. MemberHeld(t, u, at) /\ MemberLasts(t, u, at) /\ TenantHeld(t, at)
  BY DEF BackedSince, MemberHeld, MemberLasts, TenantHeld, ActiveOrEnded
<1>2. MemberHeld(t, u, at)' /\ MemberLasts(t, u, at)' /\ TenantHeld(t, at)'
  BY <1>1 DEF MembersKept, TenantsKept
<1> QED
  BY <1>2 DEF BackedSince, MemberHeld, MemberLasts, TenantHeld, ActiveOrEnded

\* The membership and the tenant behind a session, by their dates.
LEMMA BackedMeans ==
  ASSUME NEW s
  PROVE  BackedWhenBound(s) <=>
           LET session == db.sessions[s]
           IN /\ MemberHeld(session.tenant, session.user, session.bound)
              /\ MemberLasts(session.tenant, session.user, session.bound)
              /\ TenantHeld(session.tenant, session.bound)
BY DEF BackedWhenBound, BackedSince, MemberHeld, MemberLasts, TenantHeld, ActiveOrEnded

\* The same, after a step.
LEMMA BackedMeansThen ==
  ASSUME NEW s, NEW t, NEW u, NEW at,
         t = db'.sessions[s].tenant, u = db'.sessions[s].user, at = db'.sessions[s].bound
  PROVE  BackedWhenBound(s)' <=>
           MemberHeld(t, u, at)' /\ MemberLasts(t, u, at)' /\ TenantHeld(t, at)'
BY DEF BackedWhenBound, BackedSince, MemberHeld, MemberLasts, TenantHeld, ActiveOrEnded

\* What was behind a session when it was bound was.
LEMMA BackedStays ==
  ASSUME TablesInv, now \in Nat, SessionsKept, MembersKept, TenantsKept,
         NEW s \in Ids(db.sessions), db.sessions[s].tenant \in Tenant, BackedWhenBound(s)
  PROVE  BackedWhenBound(s)'
<1> PICK t, u, at : /\ t = db.sessions[s].tenant /\ u = db.sessions[s].user
                    /\ at = db.sessions[s].bound
  OBVIOUS
<1>1. t \in Tenant /\ u \in User /\ at \in Nat /\ at <= now /\ t # Unbound
  BY BindingsAssumption, RowsTyped DEF TablesInv, SessionsInv, SessionRow
<1>2. MemberHeld(t, u, at) /\ MemberLasts(t, u, at) /\ TenantHeld(t, at)
  BY BackedMeans
<1>3. MemberHeld(t, u, at)' /\ MemberLasts(t, u, at)' /\ TenantHeld(t, at)'
  BY <1>1, <1>2 DEF MembersKept, TenantsKept
<1>4. db'.sessions[s].tenant = t /\ db'.sessions[s].user = u /\ db'.sessions[s].bound = at
  BY <1>1 DEF SessionsKept, SessionKept
<1> QED
  BY <1>3, <1>4, BackedMeansThen

\* Recovery codes are judged by their own tables alone.
LEMMA RecoveryStays ==
  ASSUME RecoveryInv, db'.recovery = db.recovery, db'.proofs = db.proofs, db'.minted = db.minted
  PROVE  RecoveryInv'
BY DEF RecoveryInv, RecoveryCodesProveOnce

\* Sessions that are not written stay sound, whatever became of the factors,
\* the memberships and the tenants.
LEMMA SessionsStay ==
  ASSUME TablesInv, now \in Nat, now' \in Nat, now <= now', FactorsKept, MembersKept, TenantsKept,
         db'.sessions = db.sessions
  PROVE  SessionsInv'
<1>1. ASSUME NEW s \in Ids(db.sessions)
      PROVE  /\ db.sessions[s].asked <= now' /\ db.sessions[s].bound <= now'
             /\ db.sessions[s].since <= now'
             /\ db.sessions[s].tenant # Unbound =>
                  BackedSince(db.sessions[s].tenant, db.sessions[s].user, db.sessions[s].since)'
             /\ db.sessions[s].proof = "password"
                  => NotPassedOver(db.sessions[s].user, db.sessions[s].asked)'
  <2> PICK row : row = db.sessions[s]
    OBVIOUS
  <2>1. /\ row \in SessionRow /\ row.asked <= now /\ row.bound <= now /\ row.since <= now
        /\ row.proof = "password" => NotPassedOver(row.user, row.asked)
        /\ row.tenant # Unbound => BackedSince(row.tenant, row.user, row.since)
    BY DEF TablesInv, AccessTypeOK, SessionsInv, PasswordIsNotEnough, NotPassedOver, Ids,
           BoundOnMembership
  <2>2. /\ row.user \in User /\ row.asked \in Nat /\ row.bound \in Nat /\ row.since \in Nat
        /\ row.tenant # Unbound => row.tenant \in Tenant
    BY <2>1 DEF SessionRow
  <2>3. row.proof = "password" => NotPassedOver(row.user, row.asked)'
    BY <2>1, <2>2 DEF FactorsKept
  <2>4. row.tenant # Unbound => BackedSince(row.tenant, row.user, row.since)'
    BY <2>1, <2>2, StoodStays
  <2>5. /\ row.asked <= now' /\ row.bound <= now' /\ row.since <= now'
    BY <2>1, <2>2
  <2> QED
    BY <2>3, <2>4, <2>5
<1>2. PasswordIsNotEnough'
  BY <1>1 DEF PasswordIsNotEnough, NotPassedOver
<1>3. BoundOnMembership'
  BY <1>1 DEF BoundOnMembership
<1> QED
  BY <1>1, <1>2, <1>3 DEF TablesInv, SessionsInv

\* Assignments that are not written stay granted.
LEMMA RolesStay ==
  ASSUME TablesInv, now \in Nat, now' \in Nat, now <= now', db'.roles = db.roles
  PROVE  RolesInv'
<1>1. \A i \in Ids(db.roles) : db.roles[i].asked \in Nat /\ db.roles[i].asked <= now
  BY DEF TablesInv, AccessTypeOK, AssignmentRow, RolesInv, Ids
<1> QED
  BY <1>1 DEF TablesInv, RolesInv, GrantersHadAuthority

\* An invitation holds whatever became of its inviter and its role.
LEMMA InvitationHoldsStill ==
  ASSUME TablesInv, now \in Nat, now' \in Nat, now <= now', MembersKept, RolesKept,
         NEW row \in InvitationRow, InvitationHolds(row)
  PROVE  InvitationHolds(row)'
<1>1. row.tenant \in Tenant /\ row.by \in User /\ row.asked \in Nat /\ row.email \in User
  BY DEF InvitationRow
<1>2. MemberHeld(row.tenant, row.by, row.asked)' /\ row.asked <= now'
  BY <1>1 DEF MembersKept, InvitationHolds
<1>3. TenantRoleHeld(row.by, "TENANT_ADMIN", row.tenant, row.asked)'
  BY <1>1, TenantRoleHeldStays DEF InvitationHolds
<1>4. row.redeemed # Open =>
        row.redeemedBy = row.email /\ IsMember(row.tenant, row.email)' /\ row.revoked = Open
  BY <1>1 DEF MembersKept, InvitationHolds
<1> QED
  BY <1>2, <1>3, <1>4 DEF InvitationHolds

\* An invitation is judged as the row it is now.
LEMMA InvitationsHoldThen ==
  ASSUME \A i \in Ids(db'.invitations) : \A row : row = db'.invitations[i] => InvitationHolds(row)',
         Distinct(db'.invitations)
  PROVE  InvitationsInv'
BY DEF InvitationsInv, InvitationHolds

\* Invitations that are not written hold.
LEMMA InvitationsStay ==
  ASSUME TablesInv, now \in Nat, now' \in Nat, now <= now', MembersKept, RolesKept,
         db'.invitations = db.invitations
  PROVE  InvitationsInv'
<1>1. /\ db.invitations \in Seq(InvitationRow) /\ Distinct(db.invitations)
      /\ \A i \in Ids(db.invitations) : InvitationHolds(db.invitations[i])
  BY DEF TablesInv, AccessTypeOK, InvitationsInv
<1>2. ASSUME NEW i \in Ids(db.invitations), NEW row, row = db.invitations[i]
      PROVE  InvitationHolds(row)'
  BY <1>1, <1>2, RowsTyped, InvitationHoldsStill
<1> QED
  BY <1>1, <1>2, InvitationsHoldThen

\* What the trail says of a session is so still.
LEMMA EntryStays ==
  ASSUME TablesInv, now \in Nat, SessionsKept, MembersKept, TenantsKept, NEW entry,
         EntrySound(entry)
  PROVE  EntrySound(entry)'
<1> PICK i, t, by, resource, action :
      /\ i = entry.about.session /\ t = entry.about.tenant /\ by = entry.by
      /\ resource = entry.about.resource /\ action = entry.action
  OBVIOUS
<1>1. ASSUME NEW s \in Ids(db.sessions)
      PROVE  /\ s \in Ids(db'.sessions)
             /\ db.sessions[s].revoked => db'.sessions[s].revoked
             /\ t \in Tenant /\ BoundAs(s, t) => BoundAs(s, t)'
             /\ t \in Tenant /\ db.sessions[s].tenant = t => db'.sessions[s].tenant = t
             /\ s \in SwitchedTo(by) => s \in SwitchedTo(by)'
             /\ db'.sessions[s].replaces = db.sessions[s].replaces
  <2>1. s \in Ids(db'.sessions) /\ SessionKept(db.sessions[s], db'.sessions[s])
    BY DEF SessionsKept
  <2>2. t \in Tenant /\ db.sessions[s].tenant = t => db'.sessions[s].tenant = t
    BY <2>1, BindingsAssumption DEF SessionKept
  <2>3. t \in Tenant /\ BoundAs(s, t) => BoundAs(s, t)'
    BY <2>2, BackedStays DEF BoundAs
  <2>4. s \in SwitchedTo(by) => s \in SwitchedTo(by)'
    BY <2>1 DEF SwitchedTo, SessionKept
  <2> QED
    BY <2>1, <2>2, <2>3, <2>4 DEF SessionKept
<1>2. /\ action \in BindingActions => t \in Tenant
      /\ action \in FirstBindActions => i \in Ids(db.sessions)
      /\ action = "membership_revoked_concurrently" /\ resource = "identity_session"
           => i \in Ids(db.sessions)
  BY DEF EntrySound
<1>3. RecordIsSo(entry)
  BY DEF EntrySound
<1>4. action \in FirstBindActions => i \in Ids(db'.sessions) /\ BoundAs(i, t)'
  <2>1. action \in FirstBindActions => BoundAs(i, t) /\ t \in Tenant /\ i \in Ids(db.sessions)
    BY <1>2, <1>3 DEF RecordIsSo, BindingActions
  <2> QED
    BY <1>1, <2>1
<1>5. ASSUME action = "tenancy.tenant.switch"
      PROVE  \E s \in SwitchedTo(by)' : BoundAs(s, t)'
  <2>1. PICK s \in SwitchedTo(by) : BoundAs(s, t)
    BY <1>3, <1>5 DEF RecordIsSo
  <2> QED
    BY <1>1, <1>2, <1>5, <2>1 DEF BindingActions, SwitchedTo
<1>6. ASSUME action = "platform.tenant_binding.switched"
      PROVE  \E s \in SwitchedTo(by)' : db'.sessions[s].replaces = i /\ BoundAs(s, t)'
  <2>1. PICK s \in SwitchedTo(by) : db.sessions[s].replaces = i /\ BoundAs(s, t)
    BY <1>3, <1>6 DEF RecordIsSo
  <2>2. s \in Ids(db.sessions) /\ t \in Tenant
    BY <1>2, <1>6 DEF SwitchedTo, BindingActions
  <2>3. s \in SwitchedTo(by)' /\ db'.sessions[s].replaces = i /\ BoundAs(s, t)'
    BY <1>1, <2>1, <2>2
  <2> QED
    BY <2>3
<1>7. action = "membership_revoked_concurrently" /\ resource = "identity_session"
        => i \in Ids(db'.sessions) /\ db'.sessions[i].revoked
  BY <1>1, <1>2, <1>3 DEF RecordIsSo
<1>8. ASSUME action = "membership_revoked_concurrently", resource = "tenant_membership"
      PROVE  \E s \in SwitchedTo(by)' : db'.sessions[s].tenant = t /\ db'.sessions[s].revoked
  <2>1. PICK s \in SwitchedTo(by) : db.sessions[s].tenant = t /\ db.sessions[s].revoked
    BY <1>3, <1>8 DEF RecordIsSo
  <2>2. s \in Ids(db.sessions) /\ t \in Tenant
    BY <1>2, <1>8 DEF SwitchedTo, BindingActions
  <2>3. s \in SwitchedTo(by)' /\ db'.sessions[s].tenant = t /\ db'.sessions[s].revoked
    BY <1>1, <2>1, <2>2
  <2> QED
    BY <2>3
<1>9. RecordIsSo(entry)'
  BY <1>4, <1>5, <1>6, <1>7, <1>8 DEF RecordIsSo
<1> QED
  BY <1>2, <1>4, <1>7, <1>9 DEF EntrySound

\* A trail that is not written says what is so.
LEMMA TrailStays ==
  ASSUME TablesInv, now \in Nat, SessionsKept, MembersKept, TenantsKept, db'.trail = db.trail
  PROVE  TrailInv'
<1>1. ASSUME NEW entry \in db.trail
      PROVE  EntrySound(entry)'
  BY <1>1, EntryStays DEF TablesInv, TrailInv
<1> QED
  BY <1>1 DEF TrailInv

\* A history that is not written leaves each account its status.
LEMMA HistoryStays ==
  ASSUME TablesInv, db'.history = db.history, DOMAIN db'.profiles = DOMAIN db.profiles,
         \A u \in DOMAIN db.profiles : db'.profiles[u].status = db.profiles[u].status
  PROVE  StatusIsHistory'
<1>1. \A u, n : StatusAfter(u, n)' = StatusAfter(u, n)
  BY Zenon DEF StatusAfter
<1> QED
  BY <1>1 DEF TablesInv, StatusIsHistory

-----------------------------------------------------------------------------
(* What a request holds, while others write *)

\* A call on an account: codes are not deleted, and no factor was passed over.
LEMMA AccountStays ==
  ASSUME Ids(db.codes) \subseteq Ids(db'.codes), FactorsKept,
         NEW r, r.now \in Nat, r.now <= now, AccountSound(r)
  PROVE  AccountSound(r)'
<1>1. r.at \in {"mismatch", "consume"} => r.read \in Ids(db'.codes)
  BY DEF AccountSound
<1>2. ASSUME r.at = "session", r.read = "password"
      PROVE  NotPassedOver(r.in.user, r.now)'
  BY <1>2 DEF AccountSound, AccountLabels, FactorsKept
<1> QED
  BY <1>1, <1>2 DEF AccountSound

\* A call on roles: who was an administrator was one.
LEMMA RoleCallStays ==
  ASSUME TablesInv, now \in Nat, RolesKept, NEW r, r.now \in Nat, r.now <= now, RoleSound(r)
  PROVE  RoleSound(r)'
BY RoleHeldStays DEF RoleSound

\* A call on an invitation: its inviter was a member, its addressee is who it was.
LEMMA TenancyStays ==
  ASSUME TablesInv, now \in Nat, RolesKept, MembersKept, InvitationsKept,
         NEW r, r.now \in Nat, r.now <= now, TenancySound(r)
  PROVE  TenancySound(r)'
<1>1. ASSUME r.at \in {"authorize", "create"}
      PROVE  MemberHeld(r.in.tenant, r.in.by, r.now)'
  BY <1>1 DEF TenancySound, MembersKept
<1>2. ASSUME r.at = "create"
      PROVE  TenantRoleHeld(r.in.by, "TENANT_ADMIN", r.in.tenant, r.now)'
  BY <1>2, TenantRoleHeldStays DEF TenancySound
<1>3. ASSUME (r.at = "authorize" /\ r.in.next = "revoke")
               \/ r.at \in {"revoke", "gate", "attempt", "redeem"}
      PROVE  /\ r.in.invitation \in Ids(db'.invitations)
             /\ db'.invitations[r.in.invitation].email = db.invitations[r.in.invitation].email
  BY <1>3 DEF TenancySound, InvitationsKept, InvitationKept
<1> QED
  BY <1>1, <1>2, <1>3 DEF TenancySound

\* A binding: its sessions keep their tenant, and what was behind them was.
LEMMA BindingStays ==
  ASSUME TablesInv, now \in Nat, SessionsKept, MembersKept, TenantsKept,
         NEW r, BindingSound(r), r.now \in Nat, r.now <= now
  PROVE  BindingSound(r)'
<1> PICK s, t : s = r.read.session /\ t = r.read.tenant
  OBVIOUS
<1>1. ASSUME r.at \in Resolves \cup Chosen \cup Carried
      PROVE  /\ r.in.session \in Ids(db'.sessions) /\ db'.sessions[r.in.session].user = r.in.by
             /\ s \in Ids(db'.sessions) /\ db'.sessions[s].user = r.in.by
             /\ db'.sessions[s].replaces = db.sessions[s].replaces
  BY <1>1 DEF BindingSound, SessionsKept, SessionKept
<1>10. ASSUME r.at \in Resolves \cup Chosen
       PROVE  /\ r.at \in Resolves => \A u \in r.read.pending : MemberLasts(u, r.in.by, r.now)'
              /\ r.at \in Resolves => \A u \in r.read.choices : BackedSince(u, r.in.by, r.now)'
              /\ r.at \in Chosen => BackedSince(t, r.in.by, r.now)'
  <2> PICK by, when : by = r.in.by /\ when = r.now
    OBVIOUS
  <2>1. r.in.session \in Ids(db.sessions) /\ db.sessions[r.in.session].user = by
    BY <1>10 DEF BindingSound
  <2>2. db.sessions[r.in.session] \in SessionRow
    BY <2>1, RowsTyped
  <2>3. by \in User /\ when \in Nat /\ when <= now
    BY <2>1, <2>2 DEF SessionRow
  <2>4. ASSUME r.at \in Resolves
        PROVE  \A u \in r.read.pending : MemberLasts(u, by, when)'
    <3>1. \A u \in r.read.pending : u \in Tenant /\ MemberLasts(u, by, when)
      BY <2>4 DEF BindingSound
    <3> QED
      BY <2>3, <3>1 DEF MembersKept
  <2>5. ASSUME r.at \in Resolves
        PROVE  \A u \in r.read.choices : BackedSince(u, by, when)'
    <3>1. \A u \in r.read.choices : u \in Tenant /\ BackedSince(u, by, when)
      BY <2>5 DEF BindingSound
    <3> QED
      BY <2>3, <3>1, StoodStays
  <2>6. ASSUME r.at \in Chosen
        PROVE  BackedSince(t, by, when)'
    <3>1. t \in Tenant /\ BackedSince(t, by, when)
      BY <2>6 DEF BindingSound
    <3> QED
      BY <2>3, <3>1, StoodStays
  <2> QED
    BY <2>4, <2>5, <2>6
<1>2. ASSUME r.at \in Carried
      PROVE  /\ s \in Ids(db.sessions) /\ t \in Tenant /\ db.sessions[s].tenant = t
             /\ db.sessions[s].user = r.in.by /\ r.in.by \in User
             /\ db'.sessions[s].tenant = t /\ db'.sessions[s].bound = db.sessions[s].bound
             /\ db.sessions[s].bound \in Nat
  <2>1. /\ s \in Ids(db.sessions) /\ t \in Tenant /\ db.sessions[s].tenant = t
        /\ db.sessions[s].user = r.in.by
    BY <1>2 DEF BindingSound
  <2>2. db.sessions[s] \in SessionRow
    BY <2>1, RowsTyped
  <2> QED
    BY <2>1, <2>2, BindingsAssumption DEF SessionsKept, SessionKept, SessionRow
<1>3. ASSUME r.at \in {"recheck", "verify.tenant.again"},
             MemberLasts(t, r.in.by, db.sessions[s].bound)
      PROVE  MemberLasts(t, r.in.by, db.sessions[s].bound)'
  <2> PICK u, at : u = r.in.by /\ at = db.sessions[s].bound
    OBVIOUS
  <2>1. t \in Tenant /\ u \in User /\ at \in Nat /\ db'.sessions[s].bound = at
    BY <1>2, <1>3 DEF Carried
  <2>2. MemberLasts(t, u, at)'
    BY <1>3, <2>1 DEF MembersKept
  <2> QED
    BY <2>1, <2>2 DEF MemberLasts
<1>4. ASSUME r.at \in Carried, BackedWhenBound(s)
      PROVE  BackedWhenBound(s)'
  BY <1>2, <1>4, BackedStays
<1>5. /\ r.at = "recheck" /\ t \in r.read.pending => MemberLasts(t, r.in.by, db.sessions[s].bound)'
      /\ r.at = "verify.tenant.again" => MemberLasts(t, r.in.by, db.sessions[s].bound)'
  BY <1>3 DEF BindingSound
<1>6. /\ r.at = "recheck" /\ t \in r.read.choices => BackedWhenBound(s)'
      /\ r.at \in {"settle", "settle.surface"} => BackedWhenBound(s)'
  BY <1>4 DEF BindingSound, Carried
<1> QED
  BY <1>1, <1>2, <1>5, <1>6, <1>10 DEF BindingSound

\* What is still to be recorded is so still.
LEMMA OtherStays ==
  ASSUME TablesInv, now \in Nat, SessionsKept, MembersKept, TenantsKept, NEW r, OtherSound(r)
  PROVE  OtherSound(r)'
<1>1. r.at = "audit" => EntrySound(r.read)'
  BY EntryStays DEF OtherSound
<1> QED
  BY <1>1 DEF OtherSound

\* Whatever other requests wrote, what a request holds is sound still.
LEMMA SoundStays ==
  ASSUME TablesInv, now \in Nat, Advances, NEW r, Sound(r)
  PROVE  Sound(r)'
<1>1. r.now \in Nat /\ r.now <= now'
  BY DEF Sound, Advances
<1>2. AccountSound(r)' /\ RoleSound(r)'
  BY AccountStays, RoleCallStays DEF Sound, Advances
<1>3. TenancySound(r)'
  BY TenancyStays DEF Sound, Advances
<1>4. BindingSound(r)' /\ OtherSound(r)'
  BY BindingStays, OtherStays DEF Sound, Advances
<1> QED
  BY <1>1, <1>2, <1>3, <1>4 DEF Sound

-----------------------------------------------------------------------------
(* Writing tables *)

\* The types of the tables, table by table.
LEMMA TypesByTable ==
  ASSUME TablesInv
  PROVE  \A f \in Fields : Typed(f, db[f])
BY DEF TablesInv, AccessTypeOK, Typed, Fields

\* And back: the types of the tables are those of the schema.
LEMMA TypesThen ==
  ASSUME DOMAIN db' = Fields, \A f \in Fields : Typed(f, db'[f])
  PROVE  AccessTypeOK'
BY DEF AccessTypeOK, Typed, Fields

\* Only these tables are written.
Wrote(W) == DOMAIN db' = Fields /\ \A f \in Fields \ W : db'[f] = db[f]

\* A step that writes the tables of W: what has to be seen of each of them.
LEMMA Frame ==
  ASSUME TablesInv, now \in Nat, now' \in Nat, now <= now',
         NEW W \in SUBSET Fields, Wrote(W), \A f \in W : Typed(f, db'[f]),
         "codes" \in W => Ids(db.codes) \subseteq Ids(db'.codes),
         {"recovery", "proofs", "minted"} \cap W # {} => RecoveryInv',
         "mfa" \in W => FactorsKept,
         "sessions" \in W => SessionsKept /\ SessionsInv',
         "roles" \in W => RolesKept /\ RolesInv',
         "members" \in W => MembersKept,
         "tenants" \in W => TenantsKept,
         "invitations" \in W => InvitationsKept /\ InvitationsInv',
         "trail" \in W => TrailInv',
         {"profiles", "history"} \cap W # {} => StatusIsHistory'
  PROVE  Advances
<1> DEFINE Same(f) == db'[f] = db[f]
<1>1. DOMAIN db' = Fields /\ \A f \in Fields : f \in W \/ Same(f)
  BY DEF Wrote
<1>2. AccessTypeOK'
  <2>1. ASSUME NEW f \in Fields
        PROVE  Typed(f, db'[f])
    BY <1>1, TypesByTable
  <2> QED
    BY <1>1, <2>1, TypesThen
<1>3. Ids(db.codes) \subseteq Ids(db'.codes)
  BY <1>1 DEF Fields
<1>4. FactorsKept
  <2>1. CASE "mfa" \in W
    BY <2>1
  <2>2. CASE db'.mfa = db.mfa
    BY <2>2 DEF FactorsKept, NotPassedOver
  <2> QED
    BY <1>1, <2>1, <2>2 DEF Fields
<1>5. SessionsKept
  <2>1. CASE "sessions" \in W
    BY <2>1
  <2>2. CASE db'.sessions = db.sessions
    BY <2>2 DEF SessionsKept, SessionKept
  <2> QED
    BY <1>1, <2>1, <2>2 DEF Fields
<1>6. RolesKept
  <2>1. CASE "roles" \in W
    BY <2>1
  <2>2. CASE db'.roles = db.roles
    BY <2>2 DEF RolesKept, RoleKept
  <2> QED
    BY <1>1, <2>1, <2>2 DEF Fields
<1>7. MembersKept
  <2>1. CASE "members" \in W
    BY <2>1
  <2>2. CASE db'.members = db.members
    BY <2>2 DEF MembersKept, IsMember, MemberHeld, MemberLasts
  <2> QED
    BY <1>1, <2>1, <2>2 DEF Fields
<1>8. TenantsKept
  <2>1. CASE "tenants" \in W
    BY <2>1
  <2>2. CASE db'.tenants = db.tenants
    BY <2>2 DEF TenantsKept, TenantHeld
  <2> QED
    BY <1>1, <2>1, <2>2 DEF Fields
<1>9. InvitationsKept
  <2>1. CASE "invitations" \in W
    BY <2>1
  <2>2. CASE db'.invitations = db.invitations
    BY <2>2 DEF InvitationsKept, InvitationKept
  <2> QED
    BY <1>1, <2>1, <2>2 DEF Fields
<1>10. RecoveryInv'
  <2>1. CASE {"recovery", "proofs", "minted"} \cap W # {}
    BY <2>1
  <2>2. CASE {"recovery", "proofs", "minted"} \cap W = {}
    <3>1. db'.recovery = db.recovery /\ db'.proofs = db.proofs /\ db'.minted = db.minted
      BY <1>1, <2>2 DEF Fields
    <3> QED
      BY <3>1, RecoveryStays DEF TablesInv
  <2> QED
    BY <2>1, <2>2
<1>11. SessionsInv'
  <2>1. CASE "sessions" \in W
    BY <2>1
  <2>2. CASE db'.sessions = db.sessions
    BY <1>4, <1>7, <1>8, <2>2, SessionsStay
  <2> QED
    BY <1>1, <2>1, <2>2 DEF Fields
<1>12. RolesInv'
  <2>1. CASE "roles" \in W
    BY <2>1
  <2>2. CASE db'.roles = db.roles
    BY <2>2, RolesStay
  <2> QED
    BY <1>1, <2>1, <2>2 DEF Fields
<1>13. InvitationsInv'
  <2>1. CASE "invitations" \in W
    BY <2>1
  <2>2. CASE db'.invitations = db.invitations
    BY <1>6, <1>7, <2>2, InvitationsStay
  <2> QED
    BY <1>1, <2>1, <2>2 DEF Fields
<1>14. TrailInv'
  <2>1. CASE "trail" \in W
    BY <2>1
  <2>2. CASE db'.trail = db.trail
    BY <1>5, <1>7, <1>8, <2>2, TrailStays
  <2> QED
    BY <1>1, <2>1, <2>2 DEF Fields
<1>15. StatusIsHistory'
  <2>1. CASE {"profiles", "history"} \cap W # {}
    BY <2>1
  <2>2. CASE {"profiles", "history"} \cap W = {}
    <3>1. db'.profiles = db.profiles /\ db'.history = db.history
      BY <1>1, <2>2 DEF Fields
    <3> QED
      BY <3>1, HistoryStays
  <2> QED
    BY <2>1, <2>2
<1>16. TablesInv'
  BY <1>1, <1>2, <1>10, <1>11, <1>12, <1>13, <1>14, <1>15 DEF TablesInv
<1> QED
  BY <1>3, <1>4, <1>5, <1>6, <1>7, <1>8, <1>9, <1>16 DEF Advances

-----------------------------------------------------------------------------
(* What is judged, and counted by a later statement *)

\* A step may add a request to those that are judged only where the count
\* has room.
Judged(r, s) ==
  /\ \A u \in User :
       /\ FailingAt(r, u) => FailingAt(s, u) \/ RecentFailures("login_failed", u) < LockoutThreshold
       /\ UnprovingAt(r, u) =>
            UnprovingAt(s, u) \/ RecentFailures("recovery_code_failed", u) < RecoveryThreshold
  /\ \A i \in Ids(db.codes) :
       MismatchingAt(r, i) => MismatchingAt(s, i) \/ db.codes[i].attempts < CodeAttempts
  /\ \A i \in Ids(db.invitations) :
       GuessingAt(r, i) => GuessingAt(s, i) \/ db.invitations[i].attempts < MaxAttempts

\* And what was counted stays, but for rows that are new.
SameAttempts(old, new) ==
  \A i \in Ids(new) :
    new[i].attempts = 0 \/ (i \in Ids(old) /\ new[i].attempts = old[i].attempts)

Uncounted ==
  /\ db'.events = db.events
  /\ SameAttempts(db.codes, db'.codes)
  /\ SameAttempts(db.invitations, db'.invitations)

\* A count that does not grow, of requests that do not either, is within its bound.
LEMMA WithinStays ==
  ASSUME NEW c \in Nat, NEW d \in Nat, d <= c, NEW P \in SUBSET Requests, NEW Q \in SUBSET P,
         NEW bound \in Nat, Within(c, P, bound)
  PROVE  Within(d, Q, bound)
<1>1. /\ IsFiniteSet(Requests) /\ IsFiniteSet(P) /\ IsFiniteSet(Q)
      /\ Cardinality(P) \in Nat /\ Cardinality(Q) \in Nat /\ Cardinality(Requests) \in Nat
      /\ Cardinality(Q) <= Cardinality(P)
  BY AccountsAssumption, FS_Subset, FS_CardinalityType
<1> QED
  BY <1>1 DEF Within

\* A request may join those that are judged where the count is below its bound.
LEMMA WithinEnters ==
  ASSUME NEW c \in Nat, NEW P \in SUBSET Requests, NEW bound \in Nat, c < bound
  PROVE  Within(c, P, bound)
<1>1. /\ IsFiniteSet(P) /\ Cardinality(P) \in Nat /\ Cardinality(Requests) \in Nat
      /\ Cardinality(P) <= Cardinality(Requests)
  BY AccountsAssumption, FS_Subset, FS_CardinalityType
<1> QED
  BY <1>1 DEF Within

\* A request that is counted is not one that is judged any more.
LEMMA WithinLeaves ==
  ASSUME NEW c \in Nat, NEW d \in Nat, d <= c + 1, NEW P \in SUBSET Requests, NEW q \in P,
         NEW Q \in SUBSET (P \ {q}), NEW bound \in Nat, Within(c, P, bound)
  PROVE  Within(d, Q, bound)
<1>1. IsFiniteSet(P) /\ IsFiniteSet(Requests) /\ Cardinality(Requests) \in Nat
  BY AccountsAssumption, FS_Subset, FS_CardinalityType
<1>2. /\ IsFiniteSet(P \ {q}) /\ Cardinality(P \ {q}) = Cardinality(P) - 1
      /\ Cardinality(P) \in Nat
  BY <1>1, FS_RemoveElement, FS_CardinalityType
<1>3. Cardinality(Q) \in Nat /\ Cardinality(Q) <= Cardinality(P \ {q})
  BY <1>2, FS_Subset, FS_CardinalityType
<1> QED
  BY <1>1, <1>2, <1>3 DEF Within

\* The failures of an account in the window, of a ledger at an instant.
Counted(events, at, type, user) ==
  {i \in Ids(events) : /\ events[i].type = type /\ events[i].user = user
                       /\ events[i].at > at - LedgerWindow}

\* There are finitely many failures to count.
LEMMA CountedFinite ==
  ASSUME NEW events \in Seq(EventRow), NEW at, NEW type, NEW user
  PROVE  /\ IsFiniteSet(Counted(events, at, type, user))
         /\ Cardinality(Counted(events, at, type, user)) \in Nat
<1>1. Len(events) \in Nat /\ Ids(events) = 1 .. Len(events)
  BY DEF Ids
<1>2. IsFiniteSet(Ids(events))
  BY <1>1, FS_Interval
<1>3. Counted(events, at, type, user) \in SUBSET Ids(events)
  BY DEF Counted
<1> QED
  BY <1>2, <1>3, FS_Subset, FS_CardinalityType

\* What the ledger counts is a number of its rows.
LEMMA RecentIs ==
  ASSUME NEW type, NEW user
  PROVE  /\ RecentFailures(type, user) = Cardinality(Counted(db.events, now, type, user))
         /\ RecentFailures(type, user)' = Cardinality(Counted(db'.events, now', type, user))
BY DEF RecentFailures, Counted

\* And a natural number.
LEMMA RecentIsNatural ==
  ASSUME TablesInv, NEW type, NEW user
  PROVE  RecentFailures(type, user) \in Nat
BY CountedFinite, RecentIs DEF TablesInv, AccessTypeOK

\* The window moves on, and nothing enters it but what is recorded.
LEMMA RecentStays ==
  ASSUME TablesInv, now \in Nat, now' \in Nat, now <= now', db'.events = db.events,
         NEW type, NEW user
  PROVE  /\ RecentFailures(type, user)' \in Nat
         /\ RecentFailures(type, user)' <= RecentFailures(type, user)
<1> DEFINE C == Counted(db.events, now, type, user)
           D == Counted(db.events, now', type, user)
<1>1. \A i \in Ids(db.events) : db.events[i].at \in Nat
  BY RowsTyped DEF EventRow
<1>2. LedgerWindow \in Nat
  BY AccountsAssumption
<1>3. D \in SUBSET C
  BY <1>1, <1>2 DEF Counted
<1>4. IsFiniteSet(C) /\ IsFiniteSet(D) /\ Cardinality(D) \in Nat
  BY CountedFinite DEF TablesInv, AccessTypeOK
<1>5. Cardinality(D) <= Cardinality(C)
  BY <1>3, <1>4, FS_Subset
<1> QED
  BY <1>4, <1>5, RecentIs

\* A failure that is recorded counts once, and for its account alone.
LEMMA RecentGrows ==
  ASSUME TablesInv, now \in Nat, now' = now, NEW kind, NEW mine,
         Failure(kind, mine) \in EventRow, db'.events = Append(db.events, Failure(kind, mine)),
         NEW type, NEW user
  PROVE  /\ RecentFailures(type, user)' \in Nat
         /\ RecentFailures(type, user)' <= RecentFailures(type, user) + 1
         /\ type # kind \/ user # mine => RecentFailures(type, user)' = RecentFailures(type, user)
<1> DEFINE C == Counted(db.events, now, type, user)
           D == Counted(db'.events, now, type, user)
           n == Len(db.events) + 1
<1> PICK e : e = Failure(kind, mine)
  OBVIOUS
<1>1. /\ db.events \in Seq(EventRow) /\ db'.events \in Seq(EventRow)
      /\ Ids(db'.events) = Ids(db.events) \cup {n} /\ n \notin Ids(db.events)
      /\ db'.events[n] = e /\ \A i \in Ids(db.events) : db'.events[i] = db.events[i]
  <2>1. db.events \in Seq(EventRow)
    BY DEF TablesInv, AccessTypeOK
  <2> QED
    BY <2>1, Inserted DEF Ids
<1>2. IsFiniteSet(C) /\ Cardinality(C) \in Nat
  BY <1>1, CountedFinite
<1>3. D \in SUBSET (C \cup {n})
  BY <1>1 DEF Counted
<1>4. IsFiniteSet(C \cup {n}) /\ Cardinality(C \cup {n}) = Cardinality(C) + 1
  BY <1>1, <1>2, FS_AddElement DEF Counted
<1>5. Cardinality(D) \in Nat /\ Cardinality(D) <= Cardinality(C) + 1
  BY <1>3, <1>4, FS_Subset, FS_CardinalityType
<1>6. ASSUME type # kind \/ user # mine
      PROVE  D = C
  <2>1. ~(e.type = type /\ e.user = user)
    BY <1>6 DEF Failure
  <2>2. \A i : i \in D <=> i \in C
    BY <1>1, <2>1 DEF Counted
  <2> QED
    BY <2>2
<1> QED
  BY <1>5, <1>6, RecentIs

\* The thresholds.
LEMMA Thresholds ==
  /\ LockoutThreshold \in Nat /\ 0 < LockoutThreshold
  /\ RecoveryThreshold \in Nat /\ 0 < RecoveryThreshold
  /\ CodeAttempts \in Nat /\ 0 < CodeAttempts
  /\ MaxAttempts \in Nat /\ 0 < MaxAttempts
BY AccountsAssumption, TenancyAssumption

\* How the requests that are judged may move.
Moves == DOMAIN req' = Requests /\ \A p \in Requests : \A r : r = req'[p] => Judged(r, req[p])

\* A step that records no failure keeps the failed logins within their bound.
LEMMA LoginsStay ==
  ASSUME TablesInv, now \in Nat, now' \in Nat, now <= now', db'.events = db.events, Moves,
         LoginsCounted
  PROVE  LoginsCounted'
<1> SUFFICES ASSUME NEW u \in User
             PROVE  Within(RecentFailures("login_failed", u), Failing(u), LockoutThreshold)'
  BY DEF LoginsCounted
<1> PICK c, d, P, Q : /\ c = RecentFailures("login_failed", u)
                      /\ d = RecentFailures("login_failed", u)'
                      /\ P = Failing(u) /\ Q = Failing(u)'
  OBVIOUS
<1>1. c \in Nat /\ d \in Nat /\ d <= c
  BY RecentStays, RecentIsNatural
<1>2. P \in SUBSET Requests /\ Q \in SUBSET Requests
  BY DEF Failing
<1>3. Q \subseteq P \/ c < LockoutThreshold
  BY DEF Moves, Judged, Failing, FailingAt
<1>4. Within(c, P, LockoutThreshold)
  BY DEF LoginsCounted
<1>5. Within(d, Q, LockoutThreshold)
  BY <1>1, <1>2, <1>3, <1>4, Thresholds, WithinStays, WithinEnters
<1> QED
  BY <1>5 DEF Within

\* And the recovery codes that proved nothing.
LEMMA CodesStay ==
  ASSUME TablesInv, now \in Nat, now' \in Nat, now <= now', db'.events = db.events, Moves,
         CodesCounted
  PROVE  CodesCounted'
<1> SUFFICES ASSUME NEW u \in User
             PROVE  Within(RecentFailures("recovery_code_failed", u), Unproving(u),
                           RecoveryThreshold)'
  BY DEF CodesCounted
<1> PICK c, d, P, Q : /\ c = RecentFailures("recovery_code_failed", u)
                      /\ d = RecentFailures("recovery_code_failed", u)'
                      /\ P = Unproving(u) /\ Q = Unproving(u)'
  OBVIOUS
<1>1. c \in Nat /\ d \in Nat /\ d <= c
  BY RecentStays, RecentIsNatural
<1>2. P \in SUBSET Requests /\ Q \in SUBSET Requests
  BY DEF Unproving
<1>3. Q \subseteq P \/ c < RecoveryThreshold
  BY DEF Moves, Judged, Unproving, UnprovingAt
<1>4. Within(c, P, RecoveryThreshold)
  BY DEF CodesCounted
<1>5. Within(d, Q, RecoveryThreshold)
  BY <1>1, <1>2, <1>3, <1>4, Thresholds, WithinStays, WithinEnters
<1> QED
  BY <1>5 DEF Within

\* A step that counts no mismatch keeps the attempts of a code within their bound.
LEMMA VerificationsStay ==
  ASSUME TablesInv, SameAttempts(db.codes, db'.codes), Moves, VerificationsCounted
  PROVE  VerificationsCounted'
<1> SUFFICES ASSUME NEW i \in Ids(db'.codes)
             PROVE  Within(db.codes[i].attempts, Mismatching(i), CodeAttempts)'
  BY DEF VerificationsCounted
<1> PICK d, P, Q : d = db'.codes[i].attempts /\ P = Mismatching(i) /\ Q = Mismatching(i)'
  OBVIOUS
<1>1. P \in SUBSET Requests /\ Q \in SUBSET Requests
  BY DEF Mismatching
<1>2. CASE d = 0
  BY <1>1, <1>2, Thresholds, WithinEnters DEF Within
<1>3. CASE i \in Ids(db.codes) /\ d = db.codes[i].attempts
  <2>1. d \in Nat
    BY <1>3, RowsTyped DEF CodeRow
  <2>2. Q \subseteq P \/ d < CodeAttempts
    BY <1>3 DEF Moves, Judged, Mismatching, MismatchingAt
  <2>3. Within(d, P, CodeAttempts)
    BY <1>3 DEF VerificationsCounted
  <2>4. Within(d, Q, CodeAttempts)
    BY <1>1, <2>1, <2>2, <2>3, Thresholds, WithinStays, WithinEnters
  <2> QED
    BY <2>4 DEF Within
<1> QED
  BY <1>2, <1>3 DEF SameAttempts

\* And those of an invitation.
LEMMA GuessesStay ==
  ASSUME TablesInv, SameAttempts(db.invitations, db'.invitations), Moves, GuessesCounted
  PROVE  GuessesCounted'
<1> SUFFICES ASSUME NEW i \in Ids(db'.invitations)
             PROVE  Within(db.invitations[i].attempts, Guessing(i), MaxAttempts)'
  BY DEF GuessesCounted
<1> PICK d, P, Q : d = db'.invitations[i].attempts /\ P = Guessing(i) /\ Q = Guessing(i)'
  OBVIOUS
<1>1. P \in SUBSET Requests /\ Q \in SUBSET Requests
  BY DEF Guessing
<1>2. CASE d = 0
  BY <1>1, <1>2, Thresholds, WithinEnters DEF Within
<1>3. CASE i \in Ids(db.invitations) /\ d = db.invitations[i].attempts
  <2>1. d \in Nat
    BY <1>3, RowsTyped DEF InvitationRow
  <2>2. Q \subseteq P \/ d < MaxAttempts
    BY <1>3 DEF Moves, Judged, Guessing, GuessingAt
  <2>3. Within(d, P, MaxAttempts)
    BY <1>3 DEF GuessesCounted
  <2>4. Within(d, Q, MaxAttempts)
    BY <1>1, <2>1, <2>2, <2>3, Thresholds, WithinStays, WithinEnters
  <2> QED
    BY <2>4 DEF Within
<1> QED
  BY <1>2, <1>3 DEF SameAttempts

\* A step that writes none of the counted tables counts nothing.
LEMMA UncountedBy ==
  ASSUME NEW W \in SUBSET Fields, Wrote(W), {"events", "codes", "invitations"} \cap W = {}
  PROVE  Uncounted
<1>1. db'.events = db.events /\ db'.codes = db.codes /\ db'.invitations = db.invitations
  BY DEF Wrote, Fields
<1> QED
  BY <1>1 DEF Uncounted, SameAttempts

-----------------------------------------------------------------------------
(* The statements of a request *)

\* Request q becomes r and no other one moves.
Turns(q, r) ==
  /\ r = Row(r.at, r.in, r.now, r.read)
  /\ DOMAIN req' = Requests
  /\ req'[q] = r
  /\ \A p \in Requests \ {q} : req'[p] = req[p]

\* A call that begins takes its row: what it was given, and the clock.
LEMMA BeginsTurns ==
  ASSUME RequestsShaped, NEW q \in Requests, NEW group, NEW at, NEW in, NEW read,
         Begins(q, group, at, in, read)
  PROVE  Turns(q, Row(at, in, now, read)) /\ db' = db /\ now' = now
BY DEF RequestsShaped, Begins, Turns, Row

\* A statement goes on with what it read.
LEMMA GoesOn ==
  ASSUME RequestsShaped, NEW q \in Requests, NEW at, NEW value,
         req' = [req EXCEPT ![q].at = at, ![q].read = value]
  PROVE  Turns(q, Row(at, req[q].in, req[q].now, value))
<1>1. req[q] = Row(req[q].at, req[q].in, req[q].now, req[q].read) /\ q \in DOMAIN req
  BY DEF RequestsShaped
<1>2. req'[q] = [req[q] EXCEPT !.at = at, !.read = value]
  BY <1>1
<1>3. req'[q] = Row(at, req[q].in, req[q].now, value)
  BY <1>1, <1>2 DEF Row
<1> QED
  BY <1>3 DEF RequestsShaped, Turns, Row

\* The statements at which a request counts as judged.
Judging == {"failed", "claim", "unproven", "mismatch", "gate", "attempt"}

\* A request at another statement is none of those that are judged.
LEMMA NotJudged ==
  ASSUME NEW r, r.at \notin Judging, NEW s
  PROVE  Judged(r, s)
BY DEF Judging, Judged, FailingAt, UnprovingAt, MismatchingAt, GuessingAt

\* A request that does not move is judged as it was.
LEMMA JudgedItself == ASSUME NEW r PROVE Judged(r, r)
BY DEF Judged

\* The labels of each component's statements.
RoleLabels == {"delegate", "grant", "ungrant"}
TenancyLabels == {"enrol", "authorize", "create", "revoke", "gate", "attempt", "redeem"}
BindingLabels == Resolves \cup Chosen \cup Carried

\* A request is judged by the component whose statement is next.
LEMMA InAccounts ==
  ASSUME NEW r, r.at \in AccountLabels, r.now \in Nat, r.now <= now, AccountSound(r)
  PROVE  Sound(r)
BY DEF Sound, AccountLabels, RoleSound, TenancySound, BindingSound, OtherSound,
       Resolves, Chosen, First, Switches, Carried

\* And so for the authorization module,
LEMMA InRoles ==
  ASSUME NEW r, r.at \in RoleLabels, r.now \in Nat, r.now <= now, RoleSound(r)
  PROVE  Sound(r)
BY DEF Sound, RoleLabels, AccountLabels, AccountSound, TenancySound, BindingSound, OtherSound,
       Resolves, Chosen, First, Switches, Carried

\* for tenancy,
LEMMA InTenancy ==
  ASSUME NEW r, r.at \in TenancyLabels, r.now \in Nat, r.now <= now, TenancySound(r)
  PROVE  Sound(r)
BY DEF Sound, TenancyLabels, AccountLabels, AccountSound, RoleSound, BindingSound, OtherSound,
       Resolves, Chosen, First, Switches, Carried

\* for the bindings of sessions,
LEMMA InBinding ==
  ASSUME NEW r, r.at \in BindingLabels, r.now \in Nat, r.now <= now, BindingSound(r)
  PROVE  Sound(r)
BY DEF Sound, BindingLabels, AccountLabels, AccountSound, RoleSound, TenancySound, OtherSound,
       Resolves, Chosen, First, Switches, Carried

\* and for what is common to them.
LEMMA InOther ==
  ASSUME NEW r, r.at \in {"idle", "done", "refused", "transition", "audit"},
         r.now \in Nat, r.now <= now, OtherSound(r)
  PROVE  Sound(r)
BY DEF Sound, AccountLabels, AccountSound, RoleSound, TenancySound, BindingSound, OtherSound,
       Resolves, Chosen, First, Switches, Carried

\* A request that is not in a call holds nothing.
LEMMA IdleSound == ASSUME now \in Nat PROVE Sound(Idle)
BY InOther DEF Idle, OtherSound

-----------------------------------------------------------------------------
(* Steps *)

\* A step of one request: the tables advance, what it then holds is sound,
\* and what is judged is counted.
LEMMA StepHolds ==
  ASSUME AccessInv, NEW q \in Requests, NEW r, Turns(q, r), Advances, Sound(r)', CountersInv'
  PROVE  AccessInv'
<1>1. TablesInv' /\ now' \in Nat /\ now <= now'
  BY DEF Advances
<1>2. RequestsShaped'
  BY <1>1 DEF AccessInv, RequestsShaped, Turns, Row
<1>3. ASSUME NEW p \in Requests
      PROVE  Sound(req[p])'
  <2>1. CASE p = q
    BY <2>1 DEF Turns
  <2>2. CASE p # q
    <3>1. PICK s : s = req[p]
      OBVIOUS
    <3>2. Sound(s)
      BY <3>1 DEF AccessInv
    <3>3. Sound(s)' /\ req'[p] = s
      BY <2>2, <3>1, <3>2, SoundStays DEF AccessInv, RequestsShaped, Turns
    <3> QED
      BY <3>3
  <2> QED
    BY <2>1, <2>2
<1> QED
  BY <1>1, <1>2, <1>3 DEF AccessInv

\* Requests move one at a time.
LEMMA TurnsMove ==
  ASSUME NEW q \in Requests, NEW r, Turns(q, r), Judged(r, req[q])
  PROVE  Moves
BY JudgedItself DEF Moves, Turns

\* A step that counts nothing.
LEMMA StepKeeps ==
  ASSUME AccessInv, NEW q \in Requests, NEW r, Turns(q, r), Advances, Uncounted,
         Judged(r, req[q]), Sound(r)'
  PROVE  AccessInv'
<1>1. Moves /\ now' \in Nat /\ now <= now'
  BY TurnsMove DEF Advances
<1>2. CountersInv'
  BY <1>1, LoginsStay, CodesStay, VerificationsStay, GuessesStay
     DEF AccessInv, RequestsShaped, CountersInv, Uncounted
<1> QED
  BY <1>2, StepHolds

\* A step of none.
LEMMA WorldKeeps ==
  ASSUME AccessInv, req' = req, Advances, Uncounted
  PROVE  AccessInv'
<1>1. TablesInv' /\ now' \in Nat /\ now <= now'
  BY DEF Advances
<1>2. RequestsShaped'
  BY <1>1 DEF AccessInv, RequestsShaped, Row
<1>3. ASSUME NEW p \in Requests
      PROVE  Sound(req[p])'
  <2>1. PICK s : s = req[p]
    OBVIOUS
  <2>2. Sound(s)
    BY <2>1 DEF AccessInv
  <2>3. Sound(s)' /\ req'[p] = s
    BY <2>1, <2>2, SoundStays DEF AccessInv, RequestsShaped
  <2> QED
    BY <2>3
<1>4. Moves
  BY JudgedItself DEF Moves, AccessInv, RequestsShaped
<1>5. CountersInv'
  BY <1>1, <1>4, LoginsStay, CodesStay, VerificationsStay, GuessesStay
     DEF AccessInv, RequestsShaped, CountersInv, Uncounted
<1> QED
  BY <1>1, <1>2, <1>3, <1>5 DEF AccessInv

\* Nothing was written.
LEMMA NothingWritten ==
  ASSUME AccessInv, db' = db, now' \in Nat, now <= now'
  PROVE  Advances /\ Uncounted
<1>1. Wrote({})
  BY DEF Wrote, AccessInv, TablesInv
<1> QED
  BY <1>1, Frame, UncountedBy DEF AccessInv, RequestsShaped

\* A statement that wrote nothing: what was read is judged where it was read.
LEMMA ReadKeeps ==
  ASSUME AccessInv, NEW q \in Requests, NEW r, Turns(q, r), db' = db, now' = now, Sound(r),
         Judged(r, req[q])
  PROVE  AccessInv'
<1>1. Advances /\ Uncounted
  BY NothingWritten DEF AccessInv, RequestsShaped
<1>2. Sound(r)'
  BY <1>1, SoundStays DEF AccessInv, RequestsShaped
<1> QED
  BY <1>1, <1>2, StepKeeps

\* A call begins, and what it was given and has read is sound.
LEMMA BeginKeeps ==
  ASSUME AccessInv, NEW q \in Requests, NEW group, NEW at, NEW in, NEW read,
         Begins(q, group, at, in, read),
         NEW r, r = Row(at, in, now, read), Sound(r), Judged(r, req[q])
  PROVE  AccessInv'
<1>1. Turns(q, r) /\ db' = db /\ now' = now
  BY BeginsTurns DEF AccessInv
<1> QED
  BY <1>1, ReadKeeps

\* A statement of a call read something, and what it holds now is sound.
LEMMA GoesOnKeeps ==
  ASSUME AccessInv, NEW q \in Requests, NEW at, NEW value, Reads(q, at, value),
         NEW r, r = Row(at, req[q].in, req[q].now, value), Sound(r), Judged(r, req[q])
  PROVE  AccessInv'
<1>1. Turns(q, r) /\ db' = db /\ now' = now
  BY GoesOn DEF AccessInv, Reads
<1> QED
  BY <1>1, ReadKeeps

\* A statement that wrote: the tables advance, and what the call holds is sound.
LEMMA WriteKeeps ==
  ASSUME AccessInv, NEW q \in Requests, NEW tables, NEW at, NEW value, Writes(q, tables, at, value),
         NEW r, r = Row(at, req[q].in, req[q].now, value), at \notin Judging,
         Advances, Uncounted, Sound(r) \/ Sound(r)'
  PROVE  AccessInv'
<1>1. Turns(q, r) /\ now' = now
  BY GoesOn DEF AccessInv, Writes
<1>2. Sound(r)'
  BY SoundStays DEF AccessInv, RequestsShaped
<1>3. Judged(r, req[q])
  BY NotJudged DEF Row
<1> QED
  BY <1>1, <1>2, <1>3, StepKeeps

\* A call that ends leaves nothing behind but what it committed.
LEMMA EndSteps ==
  ASSUME AccessInv, NEW q \in Requests, Ends(q)
  PROVE  AccessInv'
<1>1. Turns(q, Idle) /\ db' = db /\ now' = now
  BY DEF AccessInv, RequestsShaped, Ends, Turns, Row, Idle
<1>2. Sound(Idle)
  BY IdleSound DEF AccessInv, RequestsShaped
<1>3. Judged(Idle, req[q])
  BY NotJudged DEF Judging, Idle
<1> QED
  BY <1>1, <1>2, <1>3, ReadKeeps

\* The clock moves, and what a request holds does not depend on it.
LEMMA TickSteps ==
  ASSUME AccessInv, Tick
  PROVE  AccessInv'
<1>1. db' = db /\ req' = req /\ now' \in Nat /\ now <= now'
  BY DEF Tick, AccessInv, RequestsShaped
<1> QED
  BY <1>1, NothingWritten, WorldKeeps

\* What a request holds, by its row.
LEMMA Holds ==
  ASSUME AccessInv, NEW q \in Requests, NEW s, s = req[q]
  PROVE  /\ Sound(s) /\ s.now \in Nat /\ s.now <= now /\ s = Row(s.at, s.in, s.now, s.read)
         /\ TablesInv /\ now \in Nat
BY DEF AccessInv, RequestsShaped, Sound

-----------------------------------------------------------------------------
(* Accounts: calls begin, and statements that read *)

\* The statements that need nothing but the account.
PlainLabels ==
  AccountLabels \ {"register.spend", "challenge.spend", "open", "disable", "mismatch", "consume",
                   "session"}

\* The statements of an account's call that hold nothing but the account.
LEMMA PlainSound ==
  ASSUME NEW r, r.at \in PlainLabels, r.in.user \in User
  PROVE  AccountSound(r)
BY DEF PlainLabels, AccountSound

\* A call on an account begins.
LEMMA AccountBegins ==
  ASSUME AccessInv, NEW q \in Requests, NEW group, NEW at \in AccountLabels \ Judging, NEW in,
         NEW read, Begins(q, group, at, in, read), AccountSound(Row(at, in, now, read))
  PROVE  AccessInv'
<1> PICK r : r = Row(at, in, now, read)
  OBVIOUS
<1>1. r.at = at /\ r.now = now /\ now \in Nat
  BY DEF Row, AccessInv, RequestsShaped
<1>2. Sound(r) /\ Judged(r, req[q])
  BY <1>1, InAccounts, NotJudged
<1> QED
  BY <1>2, BeginKeeps

\* A statement of a call on an account read something.
LEMMA AccountReads ==
  ASSUME AccessInv, NEW q \in Requests, NEW s, s = req[q],
         NEW at \in AccountLabels, NEW value, Reads(q, at, value),
         NEW r, r = Row(at, s.in, s.now, value), AccountSound(r), Judged(r, s)
  PROVE  AccessInv'
<1>1. r.at = at /\ r.now = s.now /\ s.now \in Nat /\ s.now <= now
  BY Holds DEF Row
<1>2. Sound(r)
  BY <1>1, InAccounts
<1> QED
  BY <1>2, GoesOnKeeps

\* A statement that reads, and goes on where nothing is judged.
LEMMA AccountGoesOn ==
  ASSUME AccessInv, NEW q \in Requests, NEW at \in PlainLabels \ Judging, NEW value,
         req[q].at \in AccountLabels, Reads(q, at, value)
  PROVE  AccessInv'
<1> PICK s : s = req[q]
  OBVIOUS
<1> PICK r : r = Row(at, s.in, s.now, value)
  OBVIOUS
<1>1. r.at = at /\ r.in = s.in /\ at \in AccountLabels
  BY DEF Row, PlainLabels
<1>2. s.in.user \in User
  BY Holds DEF Sound, AccountSound
<1>3. AccountSound(r) /\ Judged(r, s)
  BY <1>1, <1>2, PlainSound, NotJudged
<1> QED
  BY <1>1, <1>3, AccountReads

\* Any call on an account: BeginRegister to BeginChallenge.
LEMMA AccountCallSteps ==
  ASSUME AccessInv, NEW q \in Requests, AccountCall(q)
  PROVE  AccessInv'
<1> USE DEF Row, AccountLabels, Judging, AccountSound
<1>1. ASSUME NEW u \in User, BeginRegister(q, u) \/ BeginResend(q, u)
      PROVE  AccessInv'
  BY <1>1, AccountBegins DEF BeginRegister, BeginResend
<1>2. ASSUME NEW u \in User, BeginEnroll(q, u)
      PROVE  AccessInv'
  BY <1>2, AccountBegins DEF BeginEnroll
<1>3. ASSUME NEW u \in User, NEW right, BeginLogin(q, u, right)
      PROVE  AccessInv'
  BY <1>3, AccountBegins DEF BeginLogin
<1>4. ASSUME NEW u \in User, NEW number, BeginVerify(q, u, number)
      PROVE  AccessInv'
  BY <1>4, AccountBegins DEF BeginVerify
<1>5. ASSUME NEW u \in User, NEW number, BeginConfirm(q, u, number)
      PROVE  AccessInv'
  BY <1>5, AccountBegins DEF BeginConfirm
<1>6. ASSUME NEW u \in User, NEW number, BeginDisable(q, u, number)
      PROVE  AccessInv'
  BY <1>6, AccountBegins DEF BeginDisable
<1>7. ASSUME NEW challenge \in db.challenges, NEW method \in {"totp", "recovery"}, NEW number,
             BeginChallenge(q, challenge, method, number)
      PROVE  AccessInv'
  <2>1. challenge.user \in User
    BY DEF AccessInv, TablesInv, AccessTypeOK
  <2> QED
    BY <1>7, <2>1, AccountBegins DEF BeginChallenge
<1> QED
  BY <1>1, <1>2, <1>3, <1>4, <1>5, <1>6, <1>7 DEF AccountCall

\* A resend finds its account, or ends.
LEMMA FindForResendSteps ==
  ASSUME AccessInv, NEW q \in Requests, FindForResend(q)
  PROVE  AccessInv'
BY AccountGoesOn, EndSteps DEF FindForResend, At, PlainLabels, AccountLabels, Judging

\* A resend waits for the last code to cool down.
LEMMA CoolDownSteps ==
  ASSUME AccessInv, NEW q \in Requests, CoolDown(q)
  PROVE  AccessInv'
BY AccountGoesOn, EndSteps DEF CoolDown, At, PlainLabels, AccountLabels, Judging

\* A login finds its account, or ends.
LEMMA FindAccountSteps ==
  ASSUME AccessInv, NEW q \in Requests, FindAccount(q)
  PROVE  AccessInv'
BY AccountGoesOn, EndSteps DEF FindAccount, At, PlainLabels, AccountLabels, Judging

\* A code that is compared has attempts left when it is.
LEMMA LatestActiveSteps ==
  ASSUME AccessInv, NEW q \in Requests, LatestActive(q)
  PROVE  AccessInv'
<1> PICK s : s = req[q]
  OBVIOUS
<1> PICK live : live = LiveCodes(s.in.user)
  OBVIOUS
<1> PICK latest : latest = Max(live)
  OBVIOUS
<1>1. s.at = "code" /\ Sound(s) /\ s.in.user \in User
  BY Holds DEF LatestActive, At, Sound, AccountSound, AccountLabels
<1>2. CASE live = {} \/ db.codes[latest].attempts >= CodeAttempts
  BY <1>2, EndSteps DEF LatestActive
<1>3. CASE ~(live = {} \/ db.codes[latest].attempts >= CodeAttempts)
  <2>1. latest \in Ids(db.codes)
    <3>1. Len(db.codes) \in Nat /\ Ids(db.codes) = 1 .. Len(db.codes)
      BY DEF AccessInv, TablesInv, AccessTypeOK, Ids
    <3>2. live \in SUBSET (1 .. Len(db.codes))
      BY <3>1 DEF LiveCodes, CodesOf
    <3> QED
      BY <1>3, <3>1, <3>2, MaxIsThere
  <2>2. db.codes[latest].attempts < CodeAttempts
    BY <1>3, <2>1, RowsTyped, Thresholds DEF CodeRow, AccessInv
  <2> PICK at : at = IF s.in.code = latest THEN "consume" ELSE "mismatch"
    OBVIOUS
  <2> PICK r : r = Row(at, s.in, s.now, latest)
    OBVIOUS
  <2>3. Reads(q, at, latest) /\ at \in AccountLabels
    BY <1>3 DEF LatestActive, AccountLabels
  <2>4. AccountSound(r)
    BY <1>1, <2>1 DEF Row, AccountSound
  <2>5. Judged(r, s)
    BY <2>2 DEF Row, Judged, FailingAt, UnprovingAt, MismatchingAt, GuessingAt
  <2> QED
    BY <2>3, <2>4, <2>5, AccountReads
<1> QED
  BY <1>2, <1>3

\* A password that is judged wrong finds the ledger below its threshold.
LEMMA CheckLockoutSteps ==
  ASSUME AccessInv, NEW q \in Requests, CheckLockout(q)
  PROVE  AccessInv'
<1> PICK s : s = req[q]
  OBVIOUS
<1>1. s.at = "lockout" /\ s.in.user \in User
  BY Holds DEF CheckLockout, At, Sound, AccountSound, AccountLabels
<1> PICK at : at = IF s.in.right THEN "verified" ELSE "failed"
  OBVIOUS
<1>2. CASE LockedOut("login_failed", s.in.user, LockoutThreshold)
  BY <1>2, EndSteps DEF CheckLockout
<1>3. CASE ~LockedOut("login_failed", s.in.user, LockoutThreshold)
  <2> PICK r : r = Row(at, s.in, s.now, s.read)
    OBVIOUS
  <2>1. Reads(q, at, s.read) /\ at \in {"verified", "failed"} /\ at \in AccountLabels
    BY <1>3 DEF CheckLockout, AccountLabels
  <2>2. RecentFailures("login_failed", s.in.user) < LockoutThreshold
    BY <1>3, RecentIsNatural, Thresholds DEF LockedOut, AccessInv
  <2>3. AccountSound(r)
    BY <1>1, <2>1, PlainSound DEF Row, PlainLabels, AccountLabels
  <2>4. Judged(r, s)
    BY <2>1, <2>2 DEF Row, Judged, FailingAt, UnprovingAt, MismatchingAt, GuessingAt
  <2> QED
    BY <2>1, <2>3, <2>4, AccountReads
<1> QED
  BY <1>2, <1>3

\* So does a recovery code that is tried.
LEMMA CheckRecoveryLockSteps ==
  ASSUME AccessInv, NEW q \in Requests, CheckRecoveryLock(q)
  PROVE  AccessInv'
<1> PICK s : s = req[q]
  OBVIOUS
<1>1. s.at = "recovery" /\ s.in.user \in User
  BY Holds DEF CheckRecoveryLock, At, Sound, AccountSound, AccountLabels
<1>2. CASE LockedOut("recovery_code_failed", s.in.user, RecoveryThreshold)
  BY <1>2, EndSteps DEF CheckRecoveryLock
<1>3. CASE ~LockedOut("recovery_code_failed", s.in.user, RecoveryThreshold)
  <2> PICK r : r = Row("claim", s.in, s.now, <<>>)
    OBVIOUS
  <2>1. Reads(q, "claim", <<>>) /\ "claim" \in AccountLabels
    BY <1>3 DEF CheckRecoveryLock, AccountLabels
  <2>2. RecentFailures("recovery_code_failed", s.in.user) < RecoveryThreshold
    BY <1>3, RecentIsNatural, Thresholds DEF LockedOut, AccessInv
  <2>3. AccountSound(r)
    BY <1>1, PlainSound DEF Row, PlainLabels, AccountLabels
  <2>4. Judged(r, s)
    BY <2>2 DEF Row, Judged, FailingAt, UnprovingAt, MismatchingAt, GuessingAt
  <2> QED
    BY <2>1, <2>3, <2>4, AccountReads
<1> QED
  BY <1>2, <1>3

\* The account of a challenge is active, or the call ends.
LEMMA OpenChallengeSteps ==
  ASSUME AccessInv, NEW q \in Requests, OpenChallenge(q)
  PROVE  AccessInv'
<1>1. At(q, "open") /\ req[q].in.next \in {"totp", "recovery"}
  BY Holds DEF OpenChallenge, At, Sound, AccountSound
<1> QED
  BY <1>1, AccountGoesOn, EndSteps DEF OpenChallenge, At, PlainLabels, AccountLabels, Judging

\* A one-time code is right, or the call ends.
LEMMA VerifyTotpSteps ==
  ASSUME AccessInv, NEW q \in Requests, VerifyTotp(q)
  PROVE  AccessInv'
<1> PICK s : s = req[q]
  OBVIOUS
<1> PICK r : r = Row("session", s.in, s.now, "totp")
  OBVIOUS
<1>1. s.at = "totp" /\ s.in.user \in User
  BY Holds DEF VerifyTotp, At, Sound, AccountSound, AccountLabels
<1>2. AccountSound(r) /\ r.at = "session" /\ "session" \in AccountLabels
  BY <1>1 DEF Row, AccountSound, Proof, AccountLabels
<1>3. Judged(r, s)
  BY <1>2, NotJudged DEF Judging
<1>4. Ends(q) \/ Reads(q, "session", "totp")
  BY DEF VerifyTotp
<1> QED
  BY <1>2, <1>3, <1>4, EndSteps, AccountReads

\* To disable a factor one proves it.
LEMMA ProveDisableSteps ==
  ASSUME AccessInv, NEW q \in Requests, ProveDisable(q)
  PROVE  AccessInv'
<1> PICK s : s = req[q]
  OBVIOUS
<1> PICK at : at = IF s.in.code = s.read THEN "off" ELSE "claim"
  OBVIOUS
<1> PICK r : r = Row(at, s.in, s.now, <<>>)
  OBVIOUS
<1>1. s.at = "disable" /\ s.in.user \in User /\ s.in.next = "disable"
  BY Holds DEF ProveDisable, At, Sound, AccountSound, AccountLabels
<1>2. Reads(q, at, <<>>) /\ at \in {"off", "claim"} /\ at \in AccountLabels
  BY DEF ProveDisable, AccountLabels
<1>3. AccountSound(r)
  BY <1>1, <1>2, PlainSound DEF Row, PlainLabels, AccountLabels
<1>4. Judged(r, s)
  BY <1>1, <1>2 DEF Row, Judged, FailingAt, UnprovingAt, MismatchingAt, GuessingAt
<1> QED
  BY <1>2, <1>3, <1>4, AccountReads

-----------------------------------------------------------------------------
(* Accounts: statements that write *)

\* Tables that no invariant speaks of but for their types.
LEMMA PlainWritten ==
  ASSUME AccessInv, now' = now, NEW W \in SUBSET {"accounts", "challenges", "spent"}, Wrote(W),
         \A f \in W : Typed(f, db'[f])
  PROVE  Advances /\ Uncounted
<1>1. W \in SUBSET Fields
  BY DEF Fields
<1>2. Advances
  BY <1>1, Frame DEF AccessInv, RequestsShaped
<1>3. Uncounted
  BY <1>1, UncountedBy
<1> QED
  BY <1>2, <1>3

\* A statement of an account that wrote, and goes on where nothing is judged.
LEMMA AccountWrites ==
  ASSUME AccessInv, NEW q \in Requests, req[q].at \in AccountLabels,
         NEW tables, NEW at \in (PlainLabels \ Judging) \cup {"done"}, NEW value,
         Writes(q, tables, at, value), Advances, Uncounted
  PROVE  AccessInv'
<1> PICK s : s = req[q]
  OBVIOUS
<1> PICK r : r = Row(at, s.in, s.now, value)
  OBVIOUS
<1>1. r.at = at /\ r.in = s.in /\ r.now = s.now /\ s.now \in Nat /\ s.now <= now
  BY Holds DEF Row
<1>2. s.in.user \in User
  BY Holds DEF Sound, AccountSound
<1>3. CASE at = "done"
  <2>1. Sound(r)
    BY <1>1, <1>3, InOther DEF OtherSound
  <2> QED
    BY <1>3, <2>1, WriteKeeps DEF Judging
<1>4. CASE at \in PlainLabels \ Judging
  <2>1. AccountSound(r) /\ at \in AccountLabels
    BY <1>1, <1>2, <1>4, PlainSound DEF PlainLabels
  <2>2. Sound(r)
    BY <1>1, <2>1, InAccounts
  <2> QED
    BY <1>4, <2>2, WriteKeeps
<1> QED
  BY <1>3, <1>4

\* assertWithinLimit
LEMMA SpendSteps ==
  ASSUME AccessInv, NEW q \in Requests, NEW policy, NEW key, NEW next, next \notin Judging,
         Spend(q, policy, key, next), NEW s, s = req[q], Sound(Row(next, s.in, s.now, s.read))
  PROVE  AccessInv'
<1> PICK window : window = SlideWindow(db.spent[policy][key], now, RateLimit[policy], RateWindow)
  OBVIOUS
<1> PICK tables : tables = [db EXCEPT !.spent[policy][key] = window.log]
  OBVIOUS
<1> PICK at : at = IF window.allowed THEN next ELSE "refused"
  OBVIOUS
<1> PICK r : r = Row(at, s.in, s.now, s.read)
  OBVIOUS
<1>1. Writes(q, tables, at, s.read)
  BY DEF Spend
<1>2. Wrote({"spent"}) /\ now' = now
  BY <1>1 DEF Writes, Wrote, AccessInv, TablesInv
<1>3. Advances /\ Uncounted
  BY <1>2, PlainWritten DEF Typed
<1>4. Sound(r)
  <2>1. CASE at = next
    BY <2>1
  <2>2. CASE at = "refused"
    BY <2>2, Holds, InOther DEF Row, OtherSound
  <2> QED
    BY <2>1, <2>2
<1>5. at \notin Judging
  BY DEF Judging
<1> QED
  BY <1>1, <1>3, <1>4, <1>5, WriteKeeps

\* The limit on what is sent: register, resend.
LEMMA SpendSendSteps ==
  ASSUME AccessInv, NEW q \in Requests, SpendSend(q)
  PROVE  AccessInv'
<1> PICK s : s = req[q]
  OBVIOUS
<1> PICK r : r = Row(s.in.kind, s.in, s.now, s.read)
  OBVIOUS
<1>1. s.at = "register.spend" /\ s.in.user \in User /\ s.in.kind \in {"register", "resend"}
  BY Holds DEF SpendSend, At, Sound, AccountSound, AccountLabels
<1>2. AccountSound(r) /\ r.at \in AccountLabels /\ r.at = s.in.kind /\ r.now = s.now
  BY <1>1, PlainSound DEF Row, PlainLabels, AccountLabels
<1>3. Sound(r)
  BY <1>2, Holds, InAccounts
<1>4. s.in.kind \notin Judging
  BY <1>1 DEF Judging
<1> QED
  BY <1>3, <1>4, SpendSteps DEF SpendSend

\* The limits on logins, by account and by address.
LEMMA SpendLoginSteps ==
  ASSUME AccessInv, NEW q \in Requests, SpendLogin(q)
  PROVE  AccessInv'
<1> PICK s : s = req[q]
  OBVIOUS
<1>1. s.in.user \in User
  BY Holds DEF SpendLogin, At, Sound, AccountSound, AccountLabels
<1>2. ASSUME NEW at \in {"login.ip", "login.find"}
      PROVE  Sound(Row(at, s.in, s.now, s.read)) /\ at \notin Judging
  <2> PICK r : r = Row(at, s.in, s.now, s.read)
    OBVIOUS
  <2>1. AccountSound(r) /\ r.at \in AccountLabels /\ r.now = s.now
    BY <1>1, PlainSound DEF Row, PlainLabels, AccountLabels
  <2> QED
    BY <2>1, Holds, InAccounts DEF Judging
<1> QED
  BY <1>2, SpendSteps DEF SpendLogin

\* The limit on second factors.
LEMMA SpendChallengeSteps ==
  ASSUME AccessInv, NEW q \in Requests, SpendChallenge(q)
  PROVE  AccessInv'
<1> PICK s : s = req[q]
  OBVIOUS
<1> PICK at : at = IF s.in.next = "disable" THEN "disable" ELSE "open"
  OBVIOUS
<1> PICK r : r = Row(at, s.in, s.now, s.read)
  OBVIOUS
<1>1. /\ s.at = "challenge.spend" /\ s.in.user \in User
      /\ s.in.next \in {"totp", "recovery", "disable"}
  BY Holds DEF SpendChallenge, At, Sound, AccountSound, AccountLabels
<1>2. AccountSound(r) /\ r.at \in AccountLabels /\ r.now = s.now
  BY <1>1 DEF Row, AccountSound, AccountLabels
<1>3. Sound(r)
  BY <1>2, Holds, InAccounts
<1>4. at \notin Judging /\ Spend(q, "mfa_verify", s.in.user, at)
  BY DEF Judging, SpendChallenge
<1> QED
  BY <1>3, <1>4, SpendSteps

\* A column of an account is written.
LEMMA AccountWritten ==
  ASSUME AccessInv, now' = now, NEW user \in User,
         NEW account \in [status : AccountStatus, verified : BOOLEAN],
         db' = [db EXCEPT !.accounts = [db.accounts EXCEPT ![user] = account]]
  PROVE  Advances /\ Uncounted
<1>1. Wrote({"accounts"})
  BY DEF Wrote, AccessInv, TablesInv
<1>2. Typed("accounts", db'.accounts)
  BY DEF Typed, AccessInv, TablesInv, AccessTypeOK, Fields
<1> QED
  BY <1>1, <1>2, PlainWritten

\* An account is created once.
LEMMA CreateAccountSteps ==
  ASSUME AccessInv, NEW q \in Requests, CreateAccount(q)
  PROVE  AccessInv'
<1> PICK user : user = req[q].in.user
  OBVIOUS
<1>1. req[q].at = "register" /\ req[q].at \in AccountLabels /\ user \in User
  BY Holds DEF CreateAccount, At, Sound, AccountSound, AccountLabels
<1>2. ASSUME Writes(q, [db EXCEPT !.accounts[user].status = "active"], "issue", <<>>)
      PROVE  AccessInv'
  <2> PICK account : account = [db.accounts[user] EXCEPT !.status = "active"]
    OBVIOUS
  <2>1. account \in [status : AccountStatus, verified : BOOLEAN]
    <3>1. db.accounts[user] \in [status : AccountStatus, verified : BOOLEAN]
      BY <1>1 DEF AccessInv, TablesInv, AccessTypeOK
    <3> QED
      BY <3>1 DEF AccountStatus
  <2>2. /\ db' = [db EXCEPT !.accounts = [db.accounts EXCEPT ![user] = account]]
        /\ now' = now
    BY <1>2 DEF Writes
  <2>3. Advances /\ Uncounted
    BY <1>1, <2>1, <2>2, AccountWritten
  <2> QED
    BY <1>1, <1>2, <2>3, AccountWrites DEF PlainLabels, AccountLabels, Judging
<1> QED
  BY <1>2, EndSteps DEF CreateAccount

\* A code that was right verifies the address.
LEMMA MarkEmailVerifiedSteps ==
  ASSUME AccessInv, NEW q \in Requests, MarkEmailVerified(q)
  PROVE  AccessInv'
<1> PICK user : user = req[q].in.user
  OBVIOUS
<1>1. req[q].at = "mark" /\ req[q].at \in AccountLabels /\ user \in User
  BY Holds DEF MarkEmailVerified, At, Sound, AccountSound, AccountLabels
<1> PICK account : account = [db.accounts[user] EXCEPT !.verified = TRUE]
  OBVIOUS
<1>2. account \in [status : AccountStatus, verified : BOOLEAN]
  BY <1>1 DEF AccessInv, TablesInv, AccessTypeOK
<1>3. /\ db' = [db EXCEPT !.accounts = [db.accounts EXCEPT ![user] = account]]
      /\ now' = now
  BY DEF MarkEmailVerified, Writes
<1>4. Advances /\ Uncounted
  BY <1>1, <1>2, <1>3, AccountWritten
<1> QED
  BY <1>1, <1>4, AccountWrites DEF MarkEmailVerified

\* An operator disables an account or restores it.
LEMMA SetStatusSteps ==
  ASSUME AccessInv, NEW user \in User, NEW status \in AccountStatus, SetStatus(user, status)
  PROVE  AccessInv'
<1> PICK account : account = [db.accounts[user] EXCEPT !.status = status]
  OBVIOUS
<1>1. account \in [status : AccountStatus, verified : BOOLEAN]
  BY DEF AccessInv, TablesInv, AccessTypeOK
<1>2. /\ db' = [db EXCEPT !.accounts = [db.accounts EXCEPT ![user] = account]]
      /\ now' = now /\ req' = req
  BY DEF SetStatus
<1> QED
  BY <1>1, <1>2, AccountWritten, WorldKeeps

\* Codes that are issued or written keep their ids.
LEMMA CodesWritten ==
  ASSUME AccessInv, now' = now, Wrote({"codes"}), db'.codes \in Seq(CodeRow),
         Ids(db.codes) \subseteq Ids(db'.codes)
  PROVE  Advances
<1>1. {"codes"} \in SUBSET Fields /\ Typed("codes", db'.codes)
  BY DEF Fields, Typed
<1> QED
  BY <1>1, Frame DEF AccessInv, RequestsShaped

\* A step that writes no table but that of the codes.
LEMMA OnlyCodes ==
  ASSUME Wrote({"codes"}), SameAttempts(db.codes, db'.codes)
  PROVE  Uncounted
<1>1. db'.events = db.events /\ db'.invitations = db.invitations
  BY DEF Wrote, Fields
<1> QED
  BY <1>1 DEF Uncounted, SameAttempts

\* A code is issued with no attempts.
LEMMA IssueVerificationSteps ==
  ASSUME AccessInv, NEW q \in Requests, IssueVerification(q)
  PROVE  AccessInv'
<1> PICK code : code = [user |-> req[q].in.user, created |-> now, expires |-> now + CodeLife,
                        attempts |-> 0, consumed |-> FALSE]
  OBVIOUS
<1>1. req[q].at = "issue" /\ req[q].at \in AccountLabels /\ req[q].in.user \in User
  BY Holds DEF IssueVerification, At, Sound, AccountSound, AccountLabels
<1>2. code \in CodeRow /\ code.attempts = 0
  BY <1>1, AccountsAssumption DEF CodeRow, AccessInv, RequestsShaped
<1>3. db' = [db EXCEPT !.codes = Append(db.codes, code)] /\ now' = now
  BY DEF IssueVerification, Writes
<1>4. db.codes \in Seq(CodeRow) /\ DOMAIN db = Fields
  BY DEF AccessInv, TablesInv, AccessTypeOK
<1>5. Wrote({"codes"}) /\ db'.codes = Append(db.codes, code)
  BY <1>3, <1>4 DEF Wrote, Fields
<1>6. /\ db'.codes \in Seq(CodeRow) /\ Ids(db.codes) \subseteq Ids(db'.codes)
      /\ SameAttempts(db.codes, db'.codes)
  BY <1>2, <1>4, <1>5, Inserted DEF SameAttempts, Ids
<1>7. Advances /\ Uncounted
  BY <1>3, <1>5, <1>6, CodesWritten, OnlyCodes
<1> QED
  BY <1>1, <1>7, AccountWrites DEF IssueVerification

\* A code that was right is consumed.
LEMMA ConsumeCodeSteps ==
  ASSUME AccessInv, NEW q \in Requests, ConsumeCode(q)
  PROVE  AccessInv'
<1> PICK i : i = req[q].read
  OBVIOUS
<1>1. req[q].at = "consume" /\ req[q].at \in AccountLabels /\ i \in Ids(db.codes)
  BY Holds DEF ConsumeCode, At, Sound, AccountSound, AccountLabels
<1> PICK code : code = [db.codes[i] EXCEPT !.consumed = TRUE]
  OBVIOUS
<1>2. code \in CodeRow /\ code.attempts = db.codes[i].attempts
  BY <1>1, RowsTyped DEF CodeRow, AccessInv
<1>3. db' = [db EXCEPT !.codes = [db.codes EXCEPT ![i] = code]] /\ now' = now
  BY DEF ConsumeCode, Writes
<1>4. db.codes \in Seq(CodeRow) /\ DOMAIN db = Fields
  BY DEF AccessInv, TablesInv, AccessTypeOK
<1>5. Wrote({"codes"}) /\ db'.codes = [db.codes EXCEPT ![i] = code]
  BY <1>3, <1>4 DEF Wrote, Fields
<1>6. /\ db'.codes \in Seq(CodeRow) /\ Ids(db.codes) \subseteq Ids(db'.codes)
      /\ SameAttempts(db.codes, db'.codes)
  BY <1>1, <1>2, <1>4, <1>5, Updated DEF SameAttempts, Ids
<1>7. Advances /\ Uncounted
  BY <1>3, <1>5, <1>6, CodesWritten, OnlyCodes
<1> QED
  BY <1>1, <1>7, AccountWrites DEF ConsumeCode, PlainLabels, AccountLabels, Judging

\* A comparison that failed is counted, by the statement after it.
LEMMA CodeMismatchSteps ==
  ASSUME AccessInv, NEW q \in Requests, CodeMismatch(q)
  PROVE  AccessInv'
<1> PICK s : s = req[q]
  OBVIOUS
<1> PICK i : i = s.read
  OBVIOUS
<1> PICK r : r = Row("done", s.in, s.now, <<>>)
  OBVIOUS
<1>1. s.at = "mismatch" /\ i \in Ids(db.codes)
  BY Holds DEF CodeMismatch, At, Sound, AccountSound
<1> PICK code : code = [db.codes[i] EXCEPT !.attempts = db.codes[i].attempts + 1]
  OBVIOUS
<1>2. code \in CodeRow /\ code.attempts = db.codes[i].attempts + 1
  BY <1>1, RowsTyped DEF CodeRow, AccessInv
<1>3. db' = [db EXCEPT !.codes = [db.codes EXCEPT ![i] = code]] /\ now' = now
  BY DEF CodeMismatch, Writes
<1>4. db.codes \in Seq(CodeRow) /\ DOMAIN db = Fields
  BY DEF AccessInv, TablesInv, AccessTypeOK
<1>5. Wrote({"codes"}) /\ db'.codes = [db.codes EXCEPT ![i] = code]
  BY <1>3, <1>4 DEF Wrote, Fields
<1>6. /\ db'.codes \in Seq(CodeRow) /\ Ids(db'.codes) = Ids(db.codes)
      /\ \A j \in Ids(db.codes) : db'.codes[j] = IF j = i THEN code ELSE db.codes[j]
  BY <1>1, <1>2, <1>4, <1>5, Updated DEF Ids
<1>7. Advances
  BY <1>3, <1>5, <1>6, CodesWritten
<1>8. Turns(q, r)
  BY GoesOn DEF CodeMismatch, Writes, AccessInv
<1>9. Sound(r)' /\ Judged(r, s)
  <2>1. Sound(r)
    BY Holds, InOther DEF Row, OtherSound
  <2> QED
    BY <1>7, <2>1, SoundStays, NotJudged DEF AccessInv, RequestsShaped, Row, Judging
<1>10. LoginsCounted' /\ CodesCounted' /\ GuessesCounted'
  <2>1. db'.events = db.events /\ db'.invitations = db.invitations
    BY <1>5 DEF Wrote, Fields
  <2>2. Moves /\ SameAttempts(db.invitations, db'.invitations)
    BY <1>8, <1>9, <2>1, TurnsMove DEF SameAttempts
  <2> QED
    BY <1>3, <2>1, <2>2, LoginsStay, CodesStay, GuessesStay
       DEF AccessInv, RequestsShaped, CountersInv
<1>11. VerificationsCounted'
  <2> SUFFICES ASSUME NEW j \in Ids(db.codes)
               PROVE  Within(db.codes[j].attempts, Mismatching(j), CodeAttempts)'
    BY <1>6 DEF VerificationsCounted
  <2> PICK c, d, P, Q : /\ c = db.codes[j].attempts /\ d = db'.codes[j].attempts
                        /\ P = Mismatching(j) /\ Q = Mismatching(j)'
    OBVIOUS
  <2>1. c \in Nat /\ d \in Nat /\ Within(c, P, CodeAttempts) /\ P \in SUBSET Requests
    <3>1. c \in Nat /\ db'.codes[j] \in CodeRow
      BY <1>6, <1>2, RowsTyped DEF CodeRow, AccessInv
    <3>2. d \in Nat
      BY <3>1 DEF CodeRow
    <3>3. Within(c, P, CodeAttempts) /\ P \in SUBSET Requests
      BY DEF AccessInv, CountersInv, VerificationsCounted, Mismatching
    <3> QED
      BY <3>1, <3>2, <3>3
  <2>2. CASE j = i
    <3>1. q \in P
      BY <1>1, <2>2 DEF Mismatching, MismatchingAt
    <3>2. \A p \in Q : p \in P /\ p # q
      BY <1>8 DEF Mismatching, MismatchingAt, Turns, Row
    <3>3. d <= c + 1
      <4>1. db'.codes[j] = code
        BY <1>6, <2>2
      <4>2. d = c + 1
        BY <1>2, <2>2, <4>1
      <4> QED
        BY <2>1, <4>2
    <3>4. Within(d, Q, CodeAttempts)
      BY <2>1, <3>1, <3>2, <3>3, WithinLeaves, Thresholds
    <3> QED
      BY <3>4 DEF Within
  <2>3. CASE j # i
    <3>1. Q \in SUBSET P /\ d = c
      BY <1>6, <1>8, <2>3 DEF Mismatching, MismatchingAt, Turns, Row
    <3>2. Within(d, Q, CodeAttempts)
      BY <2>1, <3>1, WithinStays, Thresholds
    <3> QED
      BY <3>2 DEF Within
  <2> QED
    BY <2>2, <2>3
<1> QED
  BY <1>7, <1>8, <1>9, <1>10, <1>11, StepHolds DEF CountersInv

\* A factor that is active when the password was verified is asked for.
LEMMA CheckSecondFactorSteps ==
  ASSUME AccessInv, NEW q \in Requests, CheckSecondFactor(q)
  PROVE  AccessInv'
<1> PICK s : s = req[q]
  OBVIOUS
<1> PICK user : user = s.in.user
  OBVIOUS
<1>1. s.at = "verified" /\ s.at \in AccountLabels /\ user \in User /\ s.now \in Nat
  BY Holds DEF CheckSecondFactor, At, Sound, AccountSound, AccountLabels
<1>2. ASSUME MfaActive(db.mfa[user]),
             Writes(q, [db EXCEPT !.challenges = @ \cup {Challenge(user)}], "done", <<>>)
      PROVE  AccessInv'
  <2>1. Challenge(user) \in [user : User, expires : Nat]
    BY <1>1, AccountsAssumption DEF Challenge, AccessInv, RequestsShaped
  <2>2. Wrote({"challenges"}) /\ now' = now /\ db'.challenges = db.challenges \cup {Challenge(user)}
    BY <1>2 DEF Writes, Wrote, AccessInv, TablesInv, Fields
  <2>3. Typed("challenges", db'.challenges)
    BY <2>1, <2>2 DEF Typed, AccessInv, TablesInv, AccessTypeOK
  <2>4. Advances /\ Uncounted
    BY <2>2, <2>3, PlainWritten
  <2> QED
    BY <1>1, <1>2, <2>4, AccountWrites
<1>3. ASSUME ~MfaActive(db.mfa[user]), Reads(q, "session", "password")
      PROVE  AccessInv'
  <2> PICK r : r = Row("session", s.in, s.now, "password")
    OBVIOUS
  <2>1. NotPassedOver(user, s.now)
    BY <1>3 DEF NotPassedOver
  <2>2. AccountSound(r) /\ r.at = "session" /\ "session" \in AccountLabels
    BY <1>1, <2>1 DEF Row, AccountSound, Proof, AccountLabels
  <2>3. Judged(r, s)
    BY <2>2, NotJudged DEF Judging
  <2> QED
    BY <1>3, <2>2, <2>3, AccountReads
<1> QED
  BY <1>2, <1>3, EndSteps DEF CheckSecondFactor

-----------------------------------------------------------------------------
(* Sessions *)

\* What holds of one session by itself.
SessionHolds(row) ==
  /\ row.asked <= now /\ row.bound <= now /\ row.since <= now
  /\ row.proof = "password" => NotPassedOver(row.user, row.asked)
  /\ row.tenant # Unbound => BackedSince(row.tenant, row.user, row.since)

\* What holds of the sessions among each other: one that was switched from is
\* revoked, and was switched from once.
Switched(sessions) ==
  /\ \A s \in Ids(sessions) :
       sessions[s].replaces # 0 =>
         sessions[s].replaces \in Ids(sessions) /\ sessions[sessions[s].replaces].revoked
  /\ \A s, t \in Ids(sessions) :
       sessions[s].replaces = sessions[t].replaces /\ sessions[s].replaces # 0 => s = t

\* SessionsInv, session by session and for the sequence of them.
LEMMA SessionsMean ==
  ASSUME TablesInv
  PROVE  /\ \A s \in Ids(db.sessions) : SessionHolds(db.sessions[s])
         /\ Switched(db.sessions)
         /\ db.sessions \in Seq(SessionRow) /\ DOMAIN db = Fields
BY DEF TablesInv, AccessTypeOK, SessionsInv, PasswordIsNotEnough, BoundOnMembership, SessionHolds,
       NotPassedOver, Switched

\* A step that writes no table but that of the sessions.
LEMMA SessionsWritten ==
  ASSUME AccessInv, now' = now, Wrote({"sessions"}), db'.sessions \in Seq(SessionRow), SessionsKept,
         \A s \in Ids(db'.sessions) : SessionHolds(db'.sessions[s]),
         Switched(db'.sessions)
  PROVE  Advances /\ Uncounted
<1>1. /\ {"sessions"} \in SUBSET Fields /\ Typed("sessions", db'.sessions)
      /\ db'.mfa = db.mfa /\ db'.members = db.members /\ db'.tenants = db.tenants
  BY DEF Fields, Typed, Wrote
<1>a. PasswordIsNotEnough'
  BY <1>1 DEF PasswordIsNotEnough, SessionHolds, NotPassedOver
<1>b. BoundOnMembership'
  BY <1>1 DEF BoundOnMembership, SessionHolds, BackedSince
<1>2. SessionsInv'
  BY <1>1, <1>a, <1>b DEF SessionsInv, SessionHolds, Switched
<1>3. Advances
  BY <1>1, <1>2, Frame DEF AccessInv, RequestsShaped
<1>4. Uncounted
  BY <1>1, UncountedBy
<1> QED
  BY <1>3, <1>4

\* A session of its own, not bound and not switched from another.
LEMMA IssueSessionSteps ==
  ASSUME AccessInv, NEW q \in Requests, IssueSession(q)
  PROVE  AccessInv'
<1> PICK s : s = req[q]
  OBVIOUS
<1> PICK session : session = Session(s.in.user, s.read, s.now, Unbound, 0, s.now)
  OBVIOUS
<1>1. /\ s.at = "session" /\ s.at \in AccountLabels /\ s.in.user \in User /\ s.read \in Proof
      /\ s.now \in Nat /\ s.now <= now /\ now \in Nat
      /\ s.read = "password" => NotPassedOver(s.in.user, s.now)
  BY Holds DEF IssueSession, At, Sound, AccountSound, AccountLabels
<1>2. session \in SessionRow /\ SessionHolds(session) /\ session.replaces = 0
  BY <1>1 DEF Session, SessionRow, SessionHolds
<1>3. db' = [db EXCEPT !.sessions = Append(db.sessions, session)] /\ now' = now
  BY DEF IssueSession, Writes
<1>4. /\ \A i \in Ids(db.sessions) : SessionHolds(db.sessions[i])
      /\ Switched(db.sessions) /\ db.sessions \in Seq(SessionRow) /\ DOMAIN db = Fields
  BY SessionsMean DEF AccessInv
<1>5. Wrote({"sessions"}) /\ db'.sessions = Append(db.sessions, session)
  BY <1>3, <1>4 DEF Wrote, Fields
<1> DEFINE n == Len(db.sessions) + 1
<1>6. /\ db'.sessions \in Seq(SessionRow)
      /\ Ids(db'.sessions) = Ids(db.sessions) \cup {n}
      /\ db'.sessions[n] = session
      /\ \A i \in Ids(db.sessions) : db'.sessions[i] = db.sessions[i]
  BY <1>2, <1>4, <1>5, Inserted DEF Ids
<1> HIDE DEF n
<1>7. SessionsKept
  BY <1>6 DEF SessionsKept, SessionKept
<1>8. \A i \in Ids(db'.sessions) : SessionHolds(db'.sessions[i])
  BY <1>2, <1>4, <1>6
<1>9. Switched(db'.sessions)
  BY <1>2, <1>4, <1>6 DEF Switched
<1>10. Advances /\ Uncounted
  BY <1>3, <1>5, <1>6, <1>7, <1>8, <1>9, SessionsWritten
<1>11. Writes(q, [db EXCEPT !.sessions = Append(db.sessions, session)], "done", <<>>)
  BY DEF IssueSession
<1> QED
  BY <1>1, <1>10, <1>11, AccountWrites

-----------------------------------------------------------------------------
(* The ledger of failures *)

\* A step that writes no table but the security events.
LEMMA EventsWritten ==
  ASSUME AccessInv, now' = now, Wrote({"events"}), db'.events \in Seq(EventRow)
  PROVE  Advances
<1>1. {"events"} \in SUBSET Fields /\ Typed("events", db'.events)
  BY DEF Fields, Typed
<1> QED
  BY <1>1, Frame DEF AccessInv, RequestsShaped

\* A failure that is recorded leaves those that are judged by one request.
LEMMA RecordFailureKeeps ==
  ASSUME AccessInv, NEW q \in Requests, NEW s, s = req[q], s.at \in AccountLabels,
         NEW kind \in {"login_failed", "recovery_code_failed"},
         db' = [db EXCEPT !.events = Append(@, Failure(kind, s.in.user))],
         req' = [req EXCEPT ![q] = Idle], now' = now
  PROVE  /\ Turns(q, Idle) /\ Advances /\ Sound(Idle)' /\ Moves
         /\ VerificationsCounted' /\ GuessesCounted'
         /\ db'.events = Append(db.events, Failure(kind, s.in.user))
         /\ Failure(kind, s.in.user) \in EventRow /\ s.in.user \in User
<1> PICK user, e : user = s.in.user /\ e = Failure(kind, user)
  OBVIOUS
<1>1. user \in User /\ now \in Nat
  BY Holds DEF Sound, AccountSound
<1>2. e \in EventRow
  BY <1>1 DEF Failure, EventRow
<1>3. db.events \in Seq(EventRow) /\ DOMAIN db = Fields
  BY DEF AccessInv, TablesInv, AccessTypeOK
<1>4. Wrote({"events"}) /\ db'.events = Append(db.events, e)
  BY <1>3 DEF Wrote, Fields
<1>5. db'.events \in Seq(EventRow)
  BY <1>2, <1>3, <1>4, Inserted
<1>6. Advances
  BY <1>4, <1>5, EventsWritten
<1>7. Turns(q, Idle)
  BY DEF AccessInv, RequestsShaped, Turns, Row, Idle
<1>8. Sound(Idle)'
  BY <1>1, <1>6, IdleSound, SoundStays DEF AccessInv
<1>9. Moves
  BY <1>7, TurnsMove, NotJudged DEF Judging, Idle
<1>10. SameAttempts(db.codes, db'.codes) /\ SameAttempts(db.invitations, db'.invitations)
  BY <1>4 DEF Wrote, Fields, SameAttempts
<1>11. VerificationsCounted' /\ GuessesCounted'
  BY <1>9, <1>10, VerificationsStay, GuessesStay DEF AccessInv, CountersInv
<1> QED
  BY <1>1, <1>2, <1>4, <1>6, <1>7, <1>8, <1>9, <1>11

\* login_failed, by the statement after the judgement.
LEMMA LoginFailedSteps ==
  ASSUME AccessInv, NEW q \in Requests, RecordFailure(q, "failed", "login_failed")
  PROVE  AccessInv'
<1> PICK s : s = req[q]
  OBVIOUS
<1> PICK mine : mine = s.in.user
  OBVIOUS
<1>1. s.at = "failed" /\ s.at \in AccountLabels
  BY DEF RecordFailure, At, AccountLabels
<1>2. /\ Turns(q, Idle) /\ Advances /\ Sound(Idle)' /\ Moves
      /\ VerificationsCounted' /\ GuessesCounted'
      /\ db'.events = Append(db.events, Failure("login_failed", mine))
      /\ Failure("login_failed", mine) \in EventRow
  BY <1>1, RecordFailureKeeps DEF RecordFailure
<1>3. TablesInv /\ now \in Nat /\ now' = now
  BY DEF AccessInv, RequestsShaped, RecordFailure
<1>4. LoginsCounted'
  <2> SUFFICES ASSUME NEW u \in User
               PROVE  Within(RecentFailures("login_failed", u), Failing(u), LockoutThreshold)'
    BY DEF LoginsCounted
  <2> PICK c, d, P, Q : /\ c = RecentFailures("login_failed", u)
                        /\ d = RecentFailures("login_failed", u)'
                        /\ P = Failing(u) /\ Q = Failing(u)'
    OBVIOUS
  <2>1. c \in Nat /\ d \in Nat /\ d <= c + 1 /\ (u # mine => d = c)
    BY <1>2, <1>3, RecentGrows, RecentIsNatural
  <2>2. Within(c, P, LockoutThreshold) /\ P \in SUBSET Requests
    BY DEF AccessInv, CountersInv, LoginsCounted, Failing
  <2>3. \A p \in Q : p \in P /\ p # q
    BY <1>2 DEF Failing, FailingAt, Turns, Idle
  <2>4. u = mine => q \in P
    BY <1>1 DEF Failing, FailingAt
  <2>5. CASE u = mine
    BY <2>1, <2>2, <2>3, <2>4, <2>5, WithinLeaves, Thresholds DEF Within
  <2>6. CASE u # mine
    <3>1. Q \in SUBSET P /\ d <= c
      BY <2>1, <2>3, <2>6
    <3> QED
      BY <2>1, <2>2, <3>1, WithinStays, Thresholds DEF Within
  <2> QED
    BY <2>5, <2>6
<1>5. CodesCounted'
  <2> SUFFICES ASSUME NEW u \in User
               PROVE  Within(RecentFailures("recovery_code_failed", u), Unproving(u),
                             RecoveryThreshold)'
    BY DEF CodesCounted
  <2> PICK c, d, P, Q : /\ c = RecentFailures("recovery_code_failed", u)
                        /\ d = RecentFailures("recovery_code_failed", u)'
                        /\ P = Unproving(u) /\ Q = Unproving(u)'
    OBVIOUS
  <2>1. c \in Nat /\ d \in Nat /\ d = c
    BY <1>2, <1>3, RecentGrows, RecentIsNatural
  <2>2. Within(c, P, RecoveryThreshold) /\ P \in SUBSET Requests
    BY DEF AccessInv, CountersInv, CodesCounted, Unproving
  <2>3. \A p \in Q : p \in P
    BY <1>2 DEF Unproving, UnprovingAt, Turns, Idle
  <2>4. Q \in SUBSET P /\ d <= c
    BY <2>1, <2>3
  <2> QED
    BY <2>1, <2>2, <2>4, WithinStays, Thresholds DEF Within
<1> QED
  BY <1>2, <1>4, <1>5, StepHolds DEF CountersInv

\* recovery_code_failed, likewise.
LEMMA CodeFailedSteps ==
  ASSUME AccessInv, NEW q \in Requests, RecordFailure(q, "unproven", "recovery_code_failed")
  PROVE  AccessInv'
<1> PICK s : s = req[q]
  OBVIOUS
<1> PICK mine : mine = s.in.user
  OBVIOUS
<1>1. s.at = "unproven" /\ s.at \in AccountLabels
  BY DEF RecordFailure, At, AccountLabels
<1>2. /\ Turns(q, Idle) /\ Advances /\ Sound(Idle)' /\ Moves
      /\ VerificationsCounted' /\ GuessesCounted'
      /\ db'.events = Append(db.events, Failure("recovery_code_failed", mine))
      /\ Failure("recovery_code_failed", mine) \in EventRow
  BY <1>1, RecordFailureKeeps DEF RecordFailure
<1>3. TablesInv /\ now \in Nat /\ now' = now
  BY DEF AccessInv, RequestsShaped, RecordFailure
<1>4. LoginsCounted'
  <2> SUFFICES ASSUME NEW u \in User
               PROVE  Within(RecentFailures("login_failed", u), Failing(u), LockoutThreshold)'
    BY DEF LoginsCounted
  <2> PICK c, d, P, Q : /\ c = RecentFailures("login_failed", u)
                        /\ d = RecentFailures("login_failed", u)'
                        /\ P = Failing(u) /\ Q = Failing(u)'
    OBVIOUS
  <2>1. c \in Nat /\ d \in Nat /\ d = c
    BY <1>2, <1>3, RecentGrows, RecentIsNatural
  <2>2. Within(c, P, LockoutThreshold) /\ P \in SUBSET Requests
    BY DEF AccessInv, CountersInv, LoginsCounted, Failing
  <2>3. \A p \in Q : p \in P
    BY <1>2 DEF Failing, FailingAt, Turns, Idle
  <2>4. Q \in SUBSET P /\ d <= c
    BY <2>1, <2>3
  <2> QED
    BY <2>1, <2>2, <2>4, WithinStays, Thresholds DEF Within
<1>5. CodesCounted'
  <2> SUFFICES ASSUME NEW u \in User
               PROVE  Within(RecentFailures("recovery_code_failed", u), Unproving(u),
                             RecoveryThreshold)'
    BY DEF CodesCounted
  <2> PICK c, d, P, Q : /\ c = RecentFailures("recovery_code_failed", u)
                        /\ d = RecentFailures("recovery_code_failed", u)'
                        /\ P = Unproving(u) /\ Q = Unproving(u)'
    OBVIOUS
  <2>1. c \in Nat /\ d \in Nat /\ d <= c + 1 /\ (u # mine => d = c)
    BY <1>2, <1>3, RecentGrows, RecentIsNatural
  <2>2. Within(c, P, RecoveryThreshold) /\ P \in SUBSET Requests
    BY DEF AccessInv, CountersInv, CodesCounted, Unproving
  <2>3. \A p \in Q : p \in P /\ p # q
    BY <1>2 DEF Unproving, UnprovingAt, Turns, Idle
  <2>4. u = mine => q \in P
    BY <1>1 DEF Unproving, UnprovingAt
  <2>5. CASE u = mine
    BY <2>1, <2>2, <2>3, <2>4, <2>5, WithinLeaves, Thresholds DEF Within
  <2>6. CASE u # mine
    <3>1. Q \in SUBSET P /\ d <= c
      BY <2>1, <2>3, <2>6
    <3> QED
      BY <2>1, <2>2, <3>1, WithinStays, Thresholds DEF Within
  <2> QED
    BY <2>5, <2>6
<1> QED
  BY <1>2, <1>4, <1>5, StepHolds DEF CountersInv

-----------------------------------------------------------------------------
(* Second factors and recovery codes *)

\* A step that writes factors, recovery codes and what they proved, and nothing else.
LEMMA FactorsWritten ==
  ASSUME AccessInv, now' = now, NEW W \in SUBSET {"mfa", "recovery", "minted", "proofs"}, Wrote(W),
         db'.mfa \in [User -> FactorRow], db'.recovery \in [User -> SUBSET RecoveryRow],
         db'.minted \in Nat, db'.proofs \in Seq(Nat), RecoveryInv', FactorsKept
  PROVE  Advances /\ Uncounted
<1>1. W \in SUBSET Fields /\ \A f \in W : Typed(f, db'[f])
  BY DEF Fields, Typed
<1>2. Advances
  BY <1>1, Frame DEF AccessInv, RequestsShaped
<1>3. Uncounted
  BY <1>1, UncountedBy
<1> QED
  BY <1>2, <1>3

\* The tables that are written here.
LEMMA FactorTables ==
  ASSUME AccessInv
  PROVE  /\ DOMAIN db = Fields /\ db.mfa \in [User -> FactorRow]
         /\ db.recovery \in [User -> SUBSET RecoveryRow] /\ db.minted \in Nat
         /\ db.proofs \in Seq(Nat) /\ RecoveryInv /\ now \in Nat
         /\ \A u \in User : \A r \in db.recovery[u] : r.code \in Nat /\ r.used \in BOOLEAN
BY DEF AccessInv, RequestsShaped, TablesInv, AccessTypeOK, RecoveryRow

\* A factor that is replaced, disabled or confirmed now was not passed over
\* before.
LEMMA FactorKept ==
  ASSUME AccessInv, NEW user \in User, NEW row, db'.mfa = [db.mfa EXCEPT ![user] = row],
         MfaActive(row) => row.confirmed = now
  PROVE  FactorsKept
<1>1. now \in Nat /\ db.mfa \in [User -> FactorRow]
  BY FactorTables
<1> SUFFICES ASSUME NEW u \in User, NEW at \in Nat, at <= now, NotPassedOver(u, at)
             PROVE  NotPassedOver(u, at)'
  BY DEF FactorsKept
<1>2. CASE u = user
  BY <1>1, <1>2 DEF NotPassedOver
<1>3. CASE u # user
  BY <1>1, <1>3 DEF NotPassedOver
<1> QED
  BY <1>2, <1>3

\* The rows of one user are replaced.
LEMMA RowReplaced ==
  ASSUME NEW S, NEW T, NEW f \in [S -> SUBSET T], NEW s, NEW rows \in SUBSET T
  PROVE  [f EXCEPT ![s] = rows] \in [S -> SUBSET T]
OBVIOUS

\* An enrolment takes the place of one that was not confirmed.
LEMMA SaveEnrolmentSteps ==
  ASSUME AccessInv, NEW q \in Requests, SaveEnrolment(q)
  PROVE  AccessInv'
<1> PICK user : user = req[q].in.user
  OBVIOUS
<1> PICK secret : secret = db.minted + 1
  OBVIOUS
<1> PICK row : row = [secret |-> secret, confirmed |-> Open, disabled |-> Open]
  OBVIOUS
<1> DEFINE tables == [db EXCEPT !.minted = secret, !.recovery[user] = {}, !.mfa[user] = row]
<1>1. req[q].at = "enroll" /\ req[q].at \in AccountLabels /\ user \in User
  BY Holds DEF SaveEnrolment, At, Sound, AccountSound, AccountLabels
<1>2. Writes(q, tables, "done", <<>>)
  BY DEF SaveEnrolment
<1>3. /\ Wrote({"minted", "recovery", "mfa"}) /\ now' = now /\ db'.minted = secret
      /\ db'.recovery = [db.recovery EXCEPT ![user] = {}] /\ db'.mfa = [db.mfa EXCEPT ![user] = row]
      /\ db'.proofs = db.proofs
  BY <1>2, FactorTables DEF Writes, Wrote, Fields
<1> HIDE DEF tables
<1>4. secret \in Nat /\ db.minted \in Nat /\ db.minted < secret
  BY FactorTables
<1>5. row \in FactorRow /\ ~MfaActive(row)
  BY <1>4 DEF FactorRow, MfaActive, Date
<1>6. /\ db'.mfa \in [User -> FactorRow] /\ db'.recovery \in [User -> SUBSET RecoveryRow]
      /\ db'.minted \in Nat /\ db'.proofs \in Seq(Nat)
  <2>1. db.mfa \in [User -> FactorRow] /\ db.recovery \in [User -> SUBSET RecoveryRow]
        /\ db.proofs \in Seq(Nat)
    BY FactorTables
  <2>2. db'.mfa \in [User -> FactorRow]
    BY <1>3, <1>5, <2>1
  <2>3. db'.recovery \in [User -> SUBSET RecoveryRow]
    BY <1>3, <2>1, RowReplaced
  <2> QED
    BY <1>3, <1>4, <2>1, <2>2, <2>3
<1>7. FactorsKept
  BY <1>1, <1>3, <1>5, FactorKept
<1>8. RecoveryInv'
  <2>1. \A u \in User : \A r \in db'.recovery[u] : r \in db.recovery[u] /\ u # user
    BY <1>1, <1>3, FactorTables
  <2>2. \A k \in Ids(db.proofs) : db.proofs[k] \in Nat
    BY FactorTables DEF Ids
  <2> QED
    BY <1>3, <1>4, <2>1, <2>2, FactorTables DEF RecoveryInv, RecoveryCodesProveOnce
<1>9. Advances /\ Uncounted
  BY <1>3, <1>6, <1>7, <1>8, FactorsWritten
<1> QED
  BY <1>1, <1>2, <1>9, AccountWrites

\* An enrolment is confirmed now.
LEMMA ConfirmEnrolmentSteps ==
  ASSUME AccessInv, NEW q \in Requests, ConfirmEnrolment(q)
  PROVE  AccessInv'
<1> PICK user : user = req[q].in.user
  OBVIOUS
<1> PICK row : row = [db.mfa[user] EXCEPT !.confirmed = now, !.disabled = Open]
  OBVIOUS
<1> DEFINE tables == [db EXCEPT !.mfa[user].confirmed = now, !.mfa[user].disabled = Open]
<1>1. req[q].at = "confirm" /\ req[q].at \in AccountLabels /\ user \in User
  BY Holds DEF ConfirmEnrolment, At, Sound, AccountSound, AccountLabels
<1>2. Writes(q, tables, "codes", <<>>)
  BY DEF ConfirmEnrolment
<1>3. /\ Wrote({"mfa"}) /\ now' = now /\ db'.mfa = [db.mfa EXCEPT ![user] = row]
      /\ db'.minted = db.minted /\ db'.recovery = db.recovery /\ db'.proofs = db.proofs
  BY <1>1, <1>2, FactorTables DEF Writes, Wrote, Fields
<1> HIDE DEF tables
<1>4. row \in FactorRow /\ row.confirmed = now
  <2>1. db.mfa[user] \in FactorRow /\ now \in Nat
    BY <1>1, FactorTables
  <2> QED
    BY <2>1 DEF FactorRow, Date
<1>5. FactorsKept
  BY <1>1, <1>3, <1>4, FactorKept
<1>6. RecoveryInv'
  BY <1>3, FactorTables, RecoveryStays
<1>7. Advances /\ Uncounted
  <2>1. db'.mfa \in [User -> FactorRow]
    BY <1>3, <1>4, FactorTables
  <2> QED
    BY <1>3, <1>5, <1>6, <2>1, FactorTables, FactorsWritten
<1> QED
  BY <1>1, <1>2, <1>7, AccountWrites DEF PlainLabels, AccountLabels, Judging

\* A factor that is disabled is active no more, and its codes are gone.
LEMMA DisableEnrolmentSteps ==
  ASSUME AccessInv, NEW q \in Requests, DisableEnrolment(q)
  PROVE  AccessInv'
<1> PICK user : user = req[q].in.user
  OBVIOUS
<1> PICK row : row = [db.mfa[user] EXCEPT !.disabled = now]
  OBVIOUS
<1> DEFINE tables == [db EXCEPT !.mfa[user].disabled = now, !.recovery[user] = {}]
<1>1. req[q].at = "off" /\ req[q].at \in AccountLabels /\ user \in User
  BY Holds DEF DisableEnrolment, At, Sound, AccountSound, AccountLabels
<1>2. Writes(q, tables, "done", <<>>)
  BY DEF DisableEnrolment
<1>3. /\ Wrote({"recovery", "mfa"}) /\ now' = now /\ db'.minted = db.minted
      /\ db'.recovery = [db.recovery EXCEPT ![user] = {}] /\ db'.mfa = [db.mfa EXCEPT ![user] = row]
      /\ db'.proofs = db.proofs
  BY <1>1, <1>2, FactorTables DEF Writes, Wrote, Fields
<1> HIDE DEF tables
<1>4. row \in FactorRow /\ ~MfaActive(row)
  <2>1. db.mfa[user] \in FactorRow /\ now \in Nat
    BY <1>1, FactorTables
  <2> QED
    BY <2>1 DEF FactorRow, MfaActive, Date, Open
<1>5. db'.mfa \in [User -> FactorRow] /\ db'.recovery \in [User -> SUBSET RecoveryRow]
  <2>1. {} \in SUBSET RecoveryRow
    OBVIOUS
  <2>2. db.mfa \in [User -> FactorRow] /\ db.recovery \in [User -> SUBSET RecoveryRow]
    BY FactorTables
  <2>3. db'.mfa \in [User -> FactorRow]
    BY <1>3, <1>4, <2>2
  <2>4. db'.recovery \in [User -> SUBSET RecoveryRow]
    BY <1>3, <2>1, <2>2, RowReplaced
  <2> QED
    BY <2>3, <2>4
<1>6. FactorsKept
  BY <1>1, <1>3, <1>4, FactorKept
<1>7. RecoveryInv'
  <2>1. \A u \in User : \A r \in db'.recovery[u] : r \in db.recovery[u] /\ u # user
    BY <1>1, <1>3, FactorTables
  <2> QED
    BY <1>3, <2>1, FactorTables DEF RecoveryInv, RecoveryCodesProveOnce
<1>8. Advances /\ Uncounted
  BY <1>3, <1>5, <1>6, <1>7, FactorTables, FactorsWritten
<1> QED
  BY <1>1, <1>2, <1>8, AccountWrites

\* The codes that are minted are new.
LEMMA ReplaceRecoveryCodesSteps ==
  ASSUME AccessInv, NEW q \in Requests, ReplaceRecoveryCodes(q)
  PROVE  AccessInv'
<1> PICK user : user = req[q].in.user
  OBVIOUS
<1> PICK code : code = [code |-> db.minted + 1, used |-> FALSE]
  OBVIOUS
<1> DEFINE tables == [db EXCEPT !.minted = code.code, !.recovery[user] = {code}]
<1>1. req[q].at = "codes" /\ req[q].at \in AccountLabels /\ user \in User
  BY Holds DEF ReplaceRecoveryCodes, At, Sound, AccountSound, AccountLabels
<1>2. Writes(q, tables, "done", <<>>)
  BY DEF ReplaceRecoveryCodes
<1>3. /\ Wrote({"recovery", "minted"}) /\ now' = now /\ db'.minted = db.minted + 1
      /\ db'.recovery = [db.recovery EXCEPT ![user] = {code}]
      /\ db'.mfa = db.mfa /\ db'.proofs = db.proofs
  BY <1>1, <1>2, FactorTables DEF Writes, Wrote, Fields
<1> HIDE DEF tables
<1>4. code \in RecoveryRow /\ code.code = db.minted + 1 /\ db.minted \in Nat
  BY FactorTables DEF RecoveryRow
<1>5. db'.recovery \in [User -> SUBSET RecoveryRow] /\ db'.minted \in Nat
  <2>1. {code} \in SUBSET RecoveryRow /\ db.recovery \in [User -> SUBSET RecoveryRow]
    BY <1>4, FactorTables
  <2>2. db'.recovery \in [User -> SUBSET RecoveryRow]
    BY <1>3, <2>1, RowReplaced
  <2> QED
    BY <1>3, <1>4, <2>2
<1>6. FactorsKept
  BY <1>3 DEF FactorsKept, NotPassedOver
<1>7. RecoveryInv'
  <2>1. \A u \in User : \A r \in db'.recovery[u] :
          \/ u # user /\ r \in db.recovery[u]
          \/ u = user /\ r = code
    BY <1>1, <1>3, FactorTables
  <2>2. \A k \in Ids(db.proofs) : db.proofs[k] \in Nat /\ db.proofs[k] <= db.minted
    BY FactorTables DEF Ids, RecoveryInv
  <2>3. \A u \in User : \A r \in db.recovery[u] : r.code \in Nat /\ r.code <= db.minted
    BY FactorTables DEF RecoveryInv
  <2>4. \A u, w \in User : \A r \in db'.recovery[u], s \in db'.recovery[w] :
          r.code = s.code => u = w /\ r = s
    <3>1. \A u, w \in User : \A r \in db.recovery[u], s \in db.recovery[w] :
            r.code = s.code => u = w /\ r = s
      BY FactorTables DEF RecoveryInv
    <3>2. \A n \in Nat : n <= db.minted => n # code.code
      BY <1>4
    <3> QED
      BY <2>1, <2>3, <3>1, <3>2
  <2>5. \A u \in User : \A r \in db'.recovery[u] :
          r.code <= db'.minted /\ (~r.used => \A k \in Ids(db'.proofs) : db'.proofs[k] # r.code)
    BY <1>3, <1>4, <2>1, <2>2, <2>3, FactorTables DEF RecoveryInv
  <2>6. \A k \in Ids(db'.proofs) : db'.proofs[k] <= db'.minted
    BY <1>3, <1>4, <2>2
  <2>7. RecoveryCodesProveOnce'
    BY <1>3, FactorTables DEF RecoveryInv, RecoveryCodesProveOnce
  <2> QED
    BY <2>4, <2>5, <2>6, <2>7 DEF RecoveryInv
<1>8. Advances /\ Uncounted
  BY <1>3, <1>5, <1>6, <1>7, FactorTables, FactorsWritten
<1> QED
  BY <1>1, <1>2, <1>8, AccountWrites

\* A code that is claimed was not used, and so has proved nothing before.
LEMMA ClaimedKeeps ==
  ASSUME AccessInv, NEW user \in User, NEW code, now' = now, db' = Claimed(user, code),
         NEW row \in db.recovery[user], Claimable(row, code)
  PROVE  Advances /\ Uncounted
<1> DEFINE used(r) == [r EXCEPT !.used = r.used \/ r.code = code]
<1> PICK rows : rows = {used(r) : r \in db.recovery[user]}
  OBVIOUS
<1>1. /\ Wrote({"recovery", "proofs"})
      /\ db'.recovery = [db.recovery EXCEPT ![user] = rows]
      /\ db'.proofs = Append(db.proofs, code)
      /\ db'.minted = db.minted /\ db'.mfa = db.mfa
  BY FactorTables DEF Claimed, Wrote, Fields
<1>2. row.code = code /\ code \in Nat /\ code <= db.minted
      /\ \A k \in Ids(db.proofs) : db.proofs[k] # code
  BY FactorTables DEF RecoveryInv, Claimable
<1>3. \A r \in RecoveryRow : /\ used(r) \in RecoveryRow /\ used(r).code = r.code
                             /\ used(r).used <=> (r.used \/ r.code = code)
  BY DEF RecoveryRow
<1>4. db.recovery[user] \in SUBSET RecoveryRow
  BY FactorTables
<1> HIDE DEF used
<1>5. rows \in SUBSET RecoveryRow
  BY <1>3, <1>4
<1>6. db'.recovery \in [User -> SUBSET RecoveryRow]
  BY <1>1, <1>5, FactorTables
<1>7. /\ db'.proofs \in Seq(Nat) /\ Ids(db'.proofs) = Ids(db.proofs) \cup {Len(db.proofs) + 1}
      /\ db'.proofs[Len(db.proofs) + 1] = code
      /\ \A k \in Ids(db.proofs) : db'.proofs[k] = db.proofs[k]
  BY <1>1, <1>2, FactorTables, Inserted DEF Ids
<1>8. \A u \in User : \A r \in db'.recovery[u] :
        \E old \in db.recovery[u] :
          /\ r.code = old.code /\ (~r.used => ~old.used /\ r.code # code)
          /\ r = IF u = user THEN used(old) ELSE old
  <2> SUFFICES ASSUME NEW u \in User, NEW r \in db'.recovery[u]
               PROVE  \E old \in db.recovery[u] :
                        /\ r.code = old.code /\ (~r.used => ~old.used /\ r.code # code)
                        /\ r = IF u = user THEN used(old) ELSE old
    OBVIOUS
  <2>1. CASE u = user
    <3>1. PICK old \in db.recovery[user] : r = used(old)
      BY <1>1, <2>1, FactorTables
    <3> QED
      BY <1>3, <1>4, <2>1, <3>1
  <2>2. CASE u # user
    <3>1. r \in db.recovery[u]
      BY <1>1, <2>2, FactorTables
    <3>2. r.code # code
      BY <1>2, <2>2, <3>1, FactorTables DEF RecoveryInv
    <3> QED
      BY <2>2, <3>1, <3>2
  <2> QED
    BY <2>1, <2>2
<1>9. \A u, w \in User : \A r \in db'.recovery[u], s \in db'.recovery[w] :
        r.code = s.code => u = w /\ r = s
  <2> SUFFICES ASSUME NEW u \in User, NEW w \in User, NEW r \in db'.recovery[u],
                      NEW s \in db'.recovery[w], r.code = s.code
               PROVE  u = w /\ r = s
    OBVIOUS
  <2>1. PICK o \in db.recovery[u] : r.code = o.code /\ r = IF u = user THEN used(o) ELSE o
    BY <1>8
  <2>2. PICK p \in db.recovery[w] : s.code = p.code /\ s = IF w = user THEN used(p) ELSE p
    BY <1>8
  <2>3. o.code = p.code
    BY <2>1, <2>2
  <2>4. u = w /\ o = p
    BY <2>3, FactorTables DEF RecoveryInv
  <2> QED
    BY <2>1, <2>2, <2>4
<1>10. \A u \in User : \A r \in db'.recovery[u] :
         r.code <= db'.minted /\ (~r.used => \A k \in Ids(db'.proofs) : db'.proofs[k] # r.code)
  <2> SUFFICES ASSUME NEW u \in User, NEW r \in db'.recovery[u]
               PROVE  /\ r.code <= db'.minted
                      /\ ~r.used => \A k \in Ids(db'.proofs) : db'.proofs[k] # r.code
    OBVIOUS
  <2>1. PICK o \in db.recovery[u] : r.code = o.code /\ (~r.used => ~o.used /\ r.code # code)
    BY <1>8
  <2>2. o.code <= db.minted /\ (~o.used => \A k \in Ids(db.proofs) : db.proofs[k] # o.code)
    BY FactorTables DEF RecoveryInv
  <2> QED
    BY <1>1, <1>7, <2>1, <2>2
<1>11. \A k \in Ids(db'.proofs) : db'.proofs[k] <= db'.minted
  BY <1>1, <1>2, <1>7, FactorTables DEF RecoveryInv
<1>12. RecoveryCodesProveOnce'
  <2>1. \A i, j \in Ids(db'.proofs) : db'.proofs[i] = db'.proofs[j] => i = j
    <3>1. \A i, j \in Ids(db.proofs) : db.proofs[i] = db.proofs[j] => i = j
      BY FactorTables DEF RecoveryInv, RecoveryCodesProveOnce, Ids
    <3> QED
      BY <1>2, <1>7, <3>1
  <2> QED
    BY <2>1 DEF RecoveryCodesProveOnce, Ids
<1>13. RecoveryInv'
  BY <1>9, <1>10, <1>11, <1>12 DEF RecoveryInv
<1>14. FactorsKept
  BY <1>1 DEF FactorsKept, NotPassedOver
<1> QED
  BY <1>1, <1>6, <1>7, <1>13, <1>14, FactorTables, FactorsWritten

\* A recovery code is claimed by one statement: by one call alone.
LEMMA ClaimRecoveryCodeSteps ==
  ASSUME AccessInv, NEW q \in Requests, ClaimRecoveryCode(q)
  PROVE  AccessInv'
<1> PICK s : s = req[q]
  OBVIOUS
<1> PICK in : in = s.in
  OBVIOUS
<1> PICK rows : rows = {r \in db.recovery[in.user] : Claimable(r, in.code)}
  OBVIOUS
<1> PICK proven : proven = IF in.next = "disable" THEN "off" ELSE "session"
  OBVIOUS
<1>1. s.at = "claim" /\ s.at \in AccountLabels /\ in.user \in User
  BY Holds DEF ClaimRecoveryCode, At, Sound, AccountSound, AccountLabels
<1>2. CASE rows # {}
  <2>1. Writes(q, Claimed(in.user, in.code), proven, "recovery")
    BY <1>2 DEF ClaimRecoveryCode
  <2>2. PICK row \in db.recovery[in.user] : Claimable(row, in.code)
    BY <1>2
  <2>3. Advances /\ Uncounted
    BY <1>1, <2>1, <2>2, ClaimedKeeps DEF Writes
  <2> PICK r : r = Row(proven, in, s.now, "recovery")
    OBVIOUS
  <2>4. r.at \in AccountLabels /\ AccountSound(r) /\ r.now = s.now
    BY <1>1 DEF Row, AccountSound, AccountLabels, Proof
  <2>5. Sound(r)
    BY <2>4, Holds, InAccounts
  <2>6. proven \notin Judging
    BY DEF Judging
  <2> QED
    BY <2>1, <2>3, <2>5, <2>6, WriteKeeps
<1>3. CASE rows = {} /\ in.next = "disable"
  BY <1>3, EndSteps DEF ClaimRecoveryCode
<1>4. CASE rows = {} /\ in.next # "disable"
  <2>1. Reads(q, "unproven", <<>>) /\ "unproven" \in AccountLabels
    BY <1>4 DEF ClaimRecoveryCode, AccountLabels
  <2> PICK r : r = Row("unproven", in, s.now, <<>>)
    OBVIOUS
  <2>2. AccountSound(r)
    BY <1>1, PlainSound DEF Row, PlainLabels, AccountLabels
  <2>3. Judged(r, s)
    BY <1>1, <1>4 DEF Row, Judged, FailingAt, UnprovingAt, MismatchingAt, GuessingAt
  <2> QED
    BY <2>1, <2>2, <2>3, AccountReads
<1> QED
  BY <1>2, <1>3, <1>4

-----------------------------------------------------------------------------
(* Role assignments *)

\* A record that is not about the tenant of a session says nothing of one.
PlainEntry(entry) == entry.action \notin BindingActions

\* And so it is sound whatever the sessions are.
LEMMA PlainEntrySound == ASSUME NEW entry, PlainEntry(entry) PROVE EntrySound(entry)
BY DEF PlainEntry, EntrySound, RecordIsSo, BindingActions

\* The permissions that an assignment or an invitation asks for are those of
\* one role each.
LEMMA AdministratorsOnly ==
  ASSUME NEW role \in RoleId
  PROVE  /\ "authorization.role.assign" \in RolePermissions[role] => role = "PLATFORM_ADMIN"
         /\ "tenancy.invitation.create" \in RolePermissions[role] => role = "TENANT_ADMIN"
BY DEF RoleId, RoleScope, RolePermissions

\* A role that a decision found is held at its instant.
LEMMA DecidedThen ==
  ASSUME TablesInv, now \in Nat, NEW user, NEW tenant, NEW role,
         role \in ApplicableRoles(user, tenant, now)
  PROVE  \E j \in Ids(db.roles) :
           /\ db.roles[j].user = user /\ db.roles[j].role = role
           /\ db.roles[j].tenant \in {Platform, tenant} /\ HeldSince(now, db.roles[j])
           /\ role \in RoleId /\ ScopeAdmits(role, db.roles[j].tenant)
<1>1. PICK j \in Ids(db.roles) :
        /\ role = db.roles[j].role /\ db.roles[j].user = user
        /\ AssignmentActiveAt(db.roles[j], now) /\ AssignmentAppliesTo(db.roles[j], tenant)
  BY DEF ApplicableRoles
<1> PICK row : row = db.roles[j]
  OBVIOUS
<1>2. /\ row.to \in Date /\ row.role \in RoleId /\ ScopeAdmits(row.role, row.tenant)
  BY RowsTyped DEF AssignmentRow
<1>3. HeldSince(now, row) /\ row.tenant \in {Platform, tenant}
  BY <1>1, <1>2 DEF AssignmentActiveAt, AssignmentAppliesTo, HeldSince, Date
<1> QED
  BY <1>1, <1>2, <1>3

\* Who may act as an administrator of the platform holds that role.
LEMMA AdministratorHeld ==
  ASSUME TablesInv, now \in Nat, NEW user, "PLATFORM_ADMIN" \in ApplicableRoles(user, Platform, now)
  PROVE  RoleHeld(user, "PLATFORM_ADMIN", now)
BY DecidedThen DEF RoleHeld

\* Who may assign roles is an administrator of the platform.
LEMMA AssignAuthorized ==
  ASSUME TablesInv, now \in Nat, NEW user, Authorized(user, Platform, "authorization.role.assign")
  PROVE  RoleHeld(user, "PLATFORM_ADMIN", now)
<1>1. PICK role \in ApplicableRoles(user, Platform, now) :
        "authorization.role.assign" \in RolePermissions[role]
  BY DEF Authorized
<1>2. role \in RoleId
  BY DecidedThen
<1>3. role = "PLATFORM_ADMIN"
  BY <1>1, <1>2, AdministratorsOnly
<1> QED
  BY <1>3, AdministratorHeld

\* A call whose last statement is the record that it holds.
LEMMA AuditSound ==
  ASSUME NEW in, NEW when \in Nat, NEW entry, NEW r, r = Row("audit", in, when, entry)
  PROVE  /\ when <= now /\ EntrySound(entry) => Sound(r)
         /\ when <= now' /\ EntrySound(entry)' => Sound(r)'
<1>1. r.at = "audit" /\ r.now = when /\ r.read = entry
  BY DEF Row
<1> QED
  BY <1>1 DEF Sound, AccountLabels, AccountSound, RoleSound, TenancySound, BindingSound, OtherSound,
              Resolves, Chosen, First, Switches, Carried

\* A call that committed, and will record it.
LEMMA AuditedKeeps ==
  ASSUME AccessInv, NEW q \in Requests, NEW tables, NEW entry, WritesAudited(q, tables, entry),
         Advances, Uncounted, EntrySound(entry)'
  PROVE  AccessInv'
<1> PICK s : s = req[q]
  OBVIOUS
<1> PICK r : r = Row("audit", s.in, s.now, entry)
  OBVIOUS
<1>1. s.now \in Nat /\ s.now <= now /\ now' = now
  BY Holds DEF WritesAudited, Writes
<1>2. Sound(r)'
  BY <1>1, AuditSound
<1> QED
  BY <1>2, WriteKeeps DEF WritesAudited, Judging

\* And where the record says nothing of a binding.
LEMMA PlainAuditedKeeps ==
  ASSUME AccessInv, NEW q \in Requests, NEW tables, NEW entry, WritesAudited(q, tables, entry),
         Advances, Uncounted, PlainEntry(entry)
  PROVE  AccessInv'
<1>1. EntrySound(entry)'
  BY DEF PlainEntry, BindingActions, FirstBindActions, EntrySound, RecordIsSo
<1> QED
  BY <1>1, AuditedKeeps

\* A refusal that is recorded.
LEMMA DenialKeeps ==
  ASSUME AccessInv, NEW q \in Requests, NEW entry, Reads(q, "audit", entry), EntrySound(entry)
  PROVE  AccessInv'
<1> PICK s : s = req[q]
  OBVIOUS
<1> PICK r : r = Row("audit", s.in, s.now, entry)
  OBVIOUS
<1>1. s.now \in Nat /\ s.now <= now
  BY Holds
<1>2. Sound(r) /\ Judged(r, s)
  BY <1>1, AuditSound, NotJudged DEF Row, Judging
<1> QED
  BY <1>2, GoesOnKeeps

\* A call of the authorization module begins, denied or not.
LEMMA RoleCallSteps ==
  ASSUME AccessInv, NEW q \in Requests, RoleCall(q)
  PROVE  AccessInv'
<1>1. PICK by, user \in User, role \in RoleId, tenant \in Tenant \cup {Platform} :
        BeginAssign(q, by, user, role, tenant) \/ BeginRevokeRole(q, by, user, role, tenant)
  BY DEF RoleCall
<1> PICK in : in = [user |-> user, role |-> role, tenant |-> tenant, by |-> by]
  OBVIOUS
<1>2. TablesInv /\ now \in Nat
  BY DEF AccessInv, RequestsShaped
<1>3. ASSUME NEW step \in {"delegate", "ungrant"}, Begins(q, "roles", step, in, <<>>),
             step = "delegate" =>
               ScopeAdmits(role, tenant) /\ Authorized(by, Platform, "authorization.role.assign")
      PROVE  AccessInv'
  <2> PICK r : r = Row(step, in, now, <<>>)
    OBVIOUS
  <2>1. step = "delegate" => RoleHeld(by, "PLATFORM_ADMIN", now)
    BY <1>2, <1>3, AssignAuthorized
  <2>2. RoleSound(r) /\ r.at \in RoleLabels /\ r.now = now /\ r.at = step
    BY <1>3, <2>1 DEF Row, RoleSound, RoleLabels
  <2>3. Sound(r) /\ Judged(r, req[q])
    BY <1>2, <2>2, InRoles, NotJudged DEF Judging
  <2> QED
    BY <1>3, <2>3, BeginKeeps
<1>4. ASSUME NEW permission \in {"authorization.role.assign", "authorization.role.revoke"},
             Begins(q, "roles", "audit", in, Denial(by, permission, Grant(user, role, tenant)))
      PROVE  AccessInv'
  <2> PICK entry : entry = Denial(by, permission, Grant(user, role, tenant))
    OBVIOUS
  <2> PICK r : r = Row("audit", in, now, entry)
    OBVIOUS
  <2>1. EntrySound(entry)
    BY PlainEntrySound DEF PlainEntry, BindingActions, FirstBindActions, Denial
  <2>2. Sound(r) /\ Judged(r, req[q])
    BY <1>2, <2>1, AuditSound, NotJudged DEF Row, Judging
  <2> QED
    BY <1>4, <2>2, BeginKeeps
<1> QED
  BY <1>1, <1>3, <1>4 DEF BeginAssign, BeginRevokeRole, BeginRoleCall

\* An assignment is delegated by one who may assign that role.
LEMMA DelegateSteps ==
  ASSUME AccessInv, NEW q \in Requests, Delegate(q)
  PROVE  AccessInv'
<1> PICK s : s = req[q]
  OBVIOUS
<1>1. s.at = "delegate" /\ RoleSound(s)
  BY Holds DEF Delegate, At, Sound
<1>2. ASSUME Reads(q, "grant", <<>>)
      PROVE  AccessInv'
  <2> PICK r : r = Row("grant", s.in, s.now, <<>>)
    OBVIOUS
  <2>1. r.at = "grant" /\ r.in = s.in /\ r.now = s.now
    BY DEF Row
  <2>2. RoleSound(r)
    BY <1>1, <2>1 DEF RoleSound
  <2>3. Sound(r) /\ Judged(r, s)
    BY <2>1, <2>2, Holds, InRoles, NotJudged DEF RoleLabels, Judging
  <2> QED
    BY <1>2, <2>3, GoesOnKeeps
<1>3. ASSUME Reads(q, "audit", Denial(s.in.by, "authorization.role.assign", Granted(s.in)))
      PROVE  AccessInv'
  <2> PICK entry : entry = Denial(s.in.by, "authorization.role.assign", Granted(s.in))
    OBVIOUS
  <2>1. EntrySound(entry)
    BY PlainEntrySound DEF PlainEntry, BindingActions, FirstBindActions, Denial
  <2> QED
    BY <1>3, <2>1, DenialKeeps
<1> QED
  BY <1>2, <1>3 DEF Delegate

\* Who granted an assignment held the role for it.
GrantHolds(roles, i) ==
  roles[i].by \in User =>
    \E j \in 1 .. i - 1 :
      /\ roles[j].user = roles[i].by /\ roles[j].role = "PLATFORM_ADMIN"
      /\ HeldSince(roles[i].asked, roles[j])

\* GrantersHadAuthority, row by row.
LEMMA GrantsMean ==
  /\ GrantersHadAuthority <=> \A i \in Ids(db.roles) : GrantHolds(db.roles, i)
  /\ GrantersHadAuthority' <=> \A i \in Ids(db'.roles) : GrantHolds(db'.roles, i)
BY DEF GrantersHadAuthority, GrantHolds

\* An assignment that ends now does not undo what it was used for.
LEMMA GrantStays ==
  ASSUME AccessInv, RolesKept, db'.roles \in Seq(AssignmentRow), NEW i \in Ids(db.roles)
  PROVE  GrantHolds(db'.roles, i)
<1>1. i \in Ids(db'.roles) /\ RoleKept(db.roles[i], db'.roles[i])
  BY DEF RolesKept
<1> SUFFICES ASSUME db.roles[i].by \in User
             PROVE  \E j \in 1 .. i - 1 :
                      /\ db'.roles[j].user = db.roles[i].by
                      /\ db'.roles[j].role = "PLATFORM_ADMIN"
                      /\ HeldSince(db.roles[i].asked, db'.roles[j])
  BY <1>1 DEF GrantHolds, RoleKept
<1>2. /\ GrantHolds(db.roles, i) /\ db.roles[i].asked \in Nat /\ db.roles[i].asked <= now
      /\ now \in Nat /\ Ids(db.roles) = 1 .. Len(db.roles) /\ Len(db.roles) \in Nat
  <2>1. db.roles \in Seq(AssignmentRow) /\ db.roles[i] \in AssignmentRow
    BY RowsTyped DEF AccessInv, TablesInv, AccessTypeOK
  <2> QED
    BY <2>1, GrantsMean DEF AccessInv, RequestsShaped, TablesInv, RolesInv, AssignmentRow, Ids
<1>3. PICK j \in 1 .. i - 1 :
        /\ db.roles[j].user = db.roles[i].by /\ db.roles[j].role = "PLATFORM_ADMIN"
        /\ HeldSince(db.roles[i].asked, db.roles[j])
  BY <1>2 DEF GrantHolds
<1>4. j \in Ids(db.roles)
  BY <1>2
<1>5. RoleKept(db.roles[j], db'.roles[j])
  BY <1>4 DEF RolesKept
<1>6. HeldSince(db.roles[i].asked, db'.roles[j])
  BY <1>2, <1>3, <1>5 DEF RoleKept, HeldSince
<1> QED
  BY <1>3, <1>5, <1>6 DEF RoleKept

\* A step that writes no table but that of the assignments.
LEMMA RolesWritten ==
  ASSUME AccessInv, now' = now, Wrote({"roles"}), db'.roles \in Seq(AssignmentRow), RolesKept,
         \A i \in Ids(db'.roles) : db'.roles[i].asked <= now /\ GrantHolds(db'.roles, i)
  PROVE  Advances /\ Uncounted
<1>1. {"roles"} \in SUBSET Fields /\ Typed("roles", db'.roles)
  BY DEF Fields, Typed
<1>2. RolesInv'
  BY GrantsMean DEF RolesInv
<1>3. Advances
  BY <1>1, <1>2, Frame DEF AccessInv, RequestsShaped
<1>4. Uncounted
  BY <1>1, UncountedBy
<1> QED
  BY <1>3, <1>4

\* The assignments, as they are.
LEMMA RolesTable ==
  ASSUME AccessInv
  PROVE  /\ db.roles \in Seq(AssignmentRow) /\ DOMAIN db = Fields /\ now \in Nat
         /\ Ids(db.roles) = 1 .. Len(db.roles) /\ Len(db.roles) \in Nat
         /\ \A i \in Ids(db.roles) : db.roles[i] \in AssignmentRow /\ db.roles[i].asked <= now
BY RowsTyped DEF AccessInv, RequestsShaped, TablesInv, AccessTypeOK, RolesInv, Ids

\* An assignment is inserted with its granter and the instant of the call.
LEMMA InsertAssignmentOfSteps ==
  ASSUME AccessInv, NEW q \in Requests, InsertAssignmentOf(q)
  PROVE  AccessInv'
<1> PICK s : s = req[q]
  OBVIOUS
<1> PICK in : in = s.in
  OBVIOUS
<1> PICK row : row = [user |-> in.user, role |-> in.role, tenant |-> in.tenant,
                      status |-> "ACTIVE", by |-> in.by, asked |-> s.now, from |-> now,
                      to |-> Open]
  OBVIOUS
<1> PICK entry : entry = Success(in.by, "authorization.role.assign", Granted(in))
  OBVIOUS
<1>1. /\ s.at = "grant" /\ in.by \in User /\ in.user \in User /\ in.role \in RoleId
      /\ in.tenant \in Tenant \cup {Platform} /\ ScopeAdmits(in.role, in.tenant)
      /\ RoleHeld(in.by, "PLATFORM_ADMIN", s.now) /\ s.now \in Nat /\ s.now <= now
  BY Holds DEF InsertAssignmentOf, At, Sound, RoleSound
<1>2. row \in AssignmentRow /\ row.asked = s.now /\ row.by = in.by
  BY <1>1, RolesTable DEF AssignmentRow, Date
<1>3. WritesAudited(q, [db EXCEPT !.roles = Append(db.roles, row)], entry)
  BY DEF InsertAssignmentOf
<1>4. Wrote({"roles"}) /\ db'.roles = Append(db.roles, row) /\ now' = now
  BY <1>3, RolesTable DEF WritesAudited, Writes, Wrote, Fields
<1> DEFINE n == Len(db.roles) + 1
<1>5. /\ db'.roles \in Seq(AssignmentRow) /\ Ids(db'.roles) = Ids(db.roles) \cup {n}
      /\ db'.roles[n] = row /\ \A i \in Ids(db.roles) : db'.roles[i] = db.roles[i]
  BY <1>2, <1>4, RolesTable, Inserted DEF Ids
<1>6. Ids(db.roles) = 1 .. n - 1
  BY RolesTable
<1> HIDE DEF n
<1>7. RolesKept
  BY <1>5 DEF RolesKept, RoleKept
<1>8. GrantHolds(db'.roles, n)
  BY <1>1, <1>2, <1>5, <1>6 DEF GrantHolds, RoleHeld
<1>9. \A i \in Ids(db'.roles) : db'.roles[i].asked <= now /\ GrantHolds(db'.roles, i)
  BY <1>1, <1>2, <1>5, <1>7, <1>8, RolesTable, GrantStays
<1>10. Advances /\ Uncounted
  BY <1>4, <1>5, <1>7, <1>9, RolesWritten
<1>11. PlainEntry(entry)
  BY DEF PlainEntry, BindingActions, FirstBindActions, Success
<1> QED
  BY <1>3, <1>10, <1>11, PlainAuditedKeeps

\* An assignment that is revoked ends now.
LEMMA RevokeAssignmentSteps ==
  ASSUME AccessInv, NEW q \in Requests, RevokeAssignment(q)
  PROVE  AccessInv'
<1> PICK in : in = req[q].in
  OBVIOUS
<1> PICK entry : entry = Success(in.by, "authorization.role.revoke", Granted(in))
  OBVIOUS
<1>1. PICK i \in ActiveRows(Granted(in)) :
        WritesAudited(q, [db EXCEPT !.roles[i].status = "REVOKED", !.roles[i].to = now], entry)
  BY DEF RevokeAssignment
<1>2. i \in Ids(db.roles)
  BY DEF ActiveRows
<1> PICK row : row = [db.roles[i] EXCEPT !.status = "REVOKED", !.to = now]
  OBVIOUS
<1>3. row \in AssignmentRow /\ RoleKept(db.roles[i], row)
  BY <1>2, RolesTable DEF AssignmentRow, RoleKept, Date
<1>4. Wrote({"roles"}) /\ db'.roles = [db.roles EXCEPT ![i] = row] /\ now' = now
  BY <1>1, <1>2, RolesTable DEF WritesAudited, Writes, Wrote, Fields, Ids
<1>5. /\ db'.roles \in Seq(AssignmentRow) /\ Ids(db'.roles) = Ids(db.roles)
      /\ \A j \in Ids(db.roles) : db'.roles[j] = IF j = i THEN row ELSE db.roles[j]
  BY <1>2, <1>3, <1>4, RolesTable, Updated DEF Ids
<1>6. RolesKept
  BY <1>3, <1>5 DEF RolesKept, RoleKept
<1>7. \A j \in Ids(db'.roles) : db'.roles[j].asked <= now /\ GrantHolds(db'.roles, j)
  BY <1>5, <1>6, RolesTable, GrantStays DEF RolesKept, RoleKept
<1>8. Advances /\ Uncounted
  BY <1>4, <1>5, <1>6, <1>7, RolesWritten
<1>9. PlainEntry(entry)
  BY DEF PlainEntry, BindingActions, FirstBindActions, Success
<1> QED
  BY <1>1, <1>8, <1>9, PlainAuditedKeeps

-----------------------------------------------------------------------------
(* Members and tenants *)

\* The table of the memberships.
LEMMA MembersTable ==
  ASSUME AccessInv
  PROVE  /\ db.members \in [Tenant \X User -> MemberRow] /\ db.tenants \in [Tenant -> TenantRow]
         /\ DOMAIN db = Fields /\ now \in Nat
BY DEF AccessInv, RequestsShaped, TablesInv, AccessTypeOK

\* A row that takes the place of another: held now if it was, or ended now.
HeldOver(old, row) ==
  \/ row.state = "ACTIVE"
  \/ row.ended = IF old.state = "ACTIVE" THEN now ELSE old.ended

\* What was held until now is not lost by such a row.
LEMMA MemberKept ==
  ASSUME AccessInv, NEW tenant \in Tenant, NEW user \in User, NEW old, NEW row \in MemberRow,
         old = db.members[<<tenant, user>>],
         db'.members = [db.members EXCEPT ![<<tenant, user>>] = row],
         row.state # "none", row.to = Open \/ row.to = old.to,
         HeldOver(old, row)
  PROVE  MembersKept /\ db'.members \in [Tenant \X User -> MemberRow]
<1>1. db.members \in [Tenant \X User -> MemberRow] /\ now \in Nat
  BY MembersTable
<1>2. ASSUME NEW t \in Tenant, NEW u \in User
      PROVE  /\ IsMember(t, u) => IsMember(t, u)'
             /\ \A at \in Nat : /\ at <= now /\ MemberHeld(t, u, at) => MemberHeld(t, u, at)'
                                /\ MemberLasts(t, u, at) => MemberLasts(t, u, at)'
  <2>1. CASE t = tenant /\ u = user
    <3>1. db'.members[<<t, u>>] = row /\ db.members[<<t, u>>] = old
      BY <1>1, <2>1
    <3> QED
      BY <1>1, <3>1 DEF IsMember, MemberHeld, MemberLasts, ActiveOrEnded, HeldOver
  <2>2. CASE ~(t = tenant /\ u = user)
    <3>1. db'.members[<<t, u>>] = db.members[<<t, u>>]
      BY <1>1, <2>2
    <3> QED
      BY <3>1 DEF IsMember, MemberHeld, MemberLasts
  <2> QED
    BY <2>1, <2>2
<1>3. db'.members \in [Tenant \X User -> MemberRow]
  BY <1>1
<1> QED
  BY <1>2, <1>3 DEF MembersKept

\* A step that writes no table but that of the memberships.
LEMMA MembersWritten ==
  ASSUME AccessInv, now' = now, Wrote({"members"}), MembersKept,
         db'.members \in [Tenant \X User -> MemberRow]
  PROVE  Advances /\ Uncounted
<1>1. {"members"} \in SUBSET Fields /\ Typed("members", db'.members)
  BY DEF Fields, Typed
<1>2. Advances
  BY <1>1, Frame DEF AccessInv, RequestsShaped
<1>3. Uncounted
  BY <1>1, UncountedBy
<1> QED
  BY <1>2, <1>3

\* A membership that begins is active and has no end.
LEMMA ActiveMembershipIs ==
  ASSUME NEW at \in Nat
  PROVE  /\ ActiveMembership(at) \in MemberRow /\ ActiveMembership(at).state = "ACTIVE"
         /\ ActiveMembership(at).to = Open
BY DEF ActiveMembership, MemberRow, MemberState, Date

\* An account joins the first-party tenant, once.
LEMMA CreateOwnMembershipSteps ==
  ASSUME AccessInv, NEW q \in Requests, CreateOwnMembership(q)
  PROVE  AccessInv'
<1> PICK user : user = req[q].in.by
  OBVIOUS
<1> PICK row : row = ActiveMembership(now)
  OBVIOUS
<1> PICK entry : entry = Success(user, "tenancy.membership.first_party_granted",
                                 [tenant |-> FirstParty])
  OBVIOUS
<1>1. user \in User /\ FirstParty \in Tenant
  BY Holds, TenancyAssumption DEF CreateOwnMembership, At, Sound, TenancySound
<1>2. ASSUME WritesAudited(q, [db EXCEPT !.members[<<FirstParty, user>>] = row], entry)
      PROVE  AccessInv'
  <2>1. Wrote({"members"}) /\ now' = now
        /\ db'.members = [db.members EXCEPT ![<<FirstParty, user>>] = row]
    BY <1>2, MembersTable DEF WritesAudited, Writes, Wrote, Fields
  <2>2. row \in MemberRow /\ row.state = "ACTIVE" /\ row.to = Open
    BY MembersTable, ActiveMembershipIs
  <2>3. MembersKept /\ db'.members \in [Tenant \X User -> MemberRow]
    BY <1>1, <2>1, <2>2, MemberKept DEF HeldOver
  <2>4. Advances /\ Uncounted
    BY <2>1, <2>3, MembersWritten
  <2>5. PlainEntry(entry)
    BY DEF PlainEntry, BindingActions, FirstBindActions, Success
  <2> QED
    BY <1>2, <2>4, <2>5, PlainAuditedKeeps
<1> QED
  BY <1>2, EndSteps DEF CreateOwnMembership

\* An operator suspends, removes or restores a member.
LEMMA MemberChangedSteps ==
  ASSUME AccessInv, NEW tenant \in Tenant, NEW user \in User, NEW state \in MemberState \ {"none"},
         MemberChanged(tenant, user, state)
  PROVE  AccessInv'
<1> PICK old : old = db.members[<<tenant, user>>]
  OBVIOUS
<1>0. PICK row : row = [old EXCEPT !.state = state, !.ended = Ended(old, old.state, state)]
  OBVIOUS
<1>1. Wrote({"members"}) /\ now' = now /\ req' = req
      /\ db'.members = [db.members EXCEPT ![<<tenant, user>>] = row]
  BY <1>0, MembersTable DEF MemberChanged, Wrote, Fields
<1>2. old \in MemberRow /\ now \in Nat
  BY MembersTable
<1>3. Ended(old, old.state, state) \in Date
  BY <1>2 DEF Ended, MemberRow, Date
<1>4. /\ row \in MemberRow /\ row.state = state /\ row.to = old.to /\ row.state # "none"
      /\ row.ended = Ended(old, old.state, state)
  BY <1>0, <1>2, <1>3 DEF MemberRow
<1>5. HeldOver(old, row)
  BY <1>4 DEF HeldOver, Ended
<1>6. db'.members = [db.members EXCEPT ![<<tenant, user>>] = row]
  BY <1>1
<1>7. MembersKept /\ db'.members \in [Tenant \X User -> MemberRow]
  BY <1>4, <1>5, <1>6, MemberKept
<1> QED
  BY <1>1, <1>7, MembersWritten, WorldKeeps

\* A step that writes no table but that of the tenants.
LEMMA TenantsWritten ==
  ASSUME AccessInv, now' = now, Wrote({"tenants"}), TenantsKept, db'.tenants \in [Tenant -> TenantRow]
  PROVE  Advances /\ Uncounted
<1>1. {"tenants"} \in SUBSET Fields /\ Typed("tenants", db'.tenants)
  BY DEF Fields, Typed
<1>2. Advances
  BY <1>1, Frame DEF AccessInv, RequestsShaped
<1>3. Uncounted
  BY <1>1, UncountedBy
<1> QED
  BY <1>2, <1>3

\* An operator suspends, closes or restores a tenant.
LEMMA TenantChangedSteps ==
  ASSUME AccessInv, NEW tenant \in Tenant, NEW status \in TenantStatus,
         TenantChanged(tenant, status)
  PROVE  AccessInv'
<1> PICK old : old = db.tenants[tenant]
  OBVIOUS
<1> PICK row : row = [status |-> status, ended |-> Ended(old, old.status, status)]
  OBVIOUS
<1>1. Wrote({"tenants"}) /\ now' = now /\ req' = req
      /\ db'.tenants = [db.tenants EXCEPT ![tenant] = row]
  BY MembersTable DEF TenantChanged, Wrote, Fields
<1>2. old \in TenantRow /\ now \in Nat /\ db.tenants \in [Tenant -> TenantRow]
  BY MembersTable
<1>3. Ended(old, old.status, status) \in Date
  BY <1>2 DEF Ended, TenantRow, Date
<1>4. row \in TenantRow
  BY <1>3 DEF TenantRow
<1>5. TenantsKept
  <2> SUFFICES ASSUME NEW t \in Tenant, NEW at \in Nat, at <= now, TenantHeld(t, at)
               PROVE  TenantHeld(t, at)'
    BY DEF TenantsKept
  <2>1. CASE t = tenant
    <3>1. db'.tenants[t] = row /\ db.tenants[t] = old
      BY <1>1, <1>2, <2>1
    <3> QED
      BY <1>2, <3>1 DEF TenantHeld, ActiveOrEnded, Ended
  <2>2. CASE t # tenant
    <3>1. db'.tenants[t] = db.tenants[t]
      BY <1>1, <1>2, <2>2
    <3> QED
      BY <3>1 DEF TenantHeld
  <2> QED
    BY <2>1, <2>2
<1>6. db'.tenants \in [Tenant -> TenantRow]
  BY <1>1, <1>2, <1>4
<1> QED
  BY <1>1, <1>5, <1>6, TenantsWritten, WorldKeeps

-----------------------------------------------------------------------------
(* Invitations *)

\* A call on a membership or an invitation begins.
LEMMA TenancyBegins ==
  ASSUME AccessInv, NEW q \in Requests, NEW group, NEW at \in TenancyLabels, NEW in, NEW read,
         Begins(q, group, at, in, read), NEW r, r = Row(at, in, now, read), TenancySound(r),
         Judged(r, req[q])
  PROVE  AccessInv'
<1>1. r.at = at /\ r.now = now /\ now \in Nat
  BY DEF Row, AccessInv, RequestsShaped
<1>2. Sound(r)
  BY <1>1, InTenancy
<1> QED
  BY <1>2, BeginKeeps

\* A statement of such a call read something.
LEMMA TenancyReads ==
  ASSUME AccessInv, NEW q \in Requests, NEW s, s = req[q],
         NEW at \in TenancyLabels, NEW value, Reads(q, at, value),
         NEW r, r = Row(at, s.in, s.now, value), TenancySound(r), Judged(r, s)
  PROVE  AccessInv'
<1>1. r.at = at /\ r.now = s.now /\ s.now \in Nat /\ s.now <= now
  BY Holds DEF Row
<1>2. Sound(r)
  BY <1>1, InTenancy
<1> QED
  BY <1>2, GoesOnKeeps

\* Any call of tenancy: BeginEnrol to BeginRedeem.
LEMMA TenancyCallSteps ==
  ASSUME AccessInv, NEW q \in Requests, TenancyCall(q)
  PROVE  AccessInv'
<1>1. ASSUME NEW u \in User, BeginEnrol(q, u)
      PROVE  AccessInv'
  <2> PICK r : r = Row("enrol", [by |-> u], now, <<>>)
    OBVIOUS
  <2>1. TenancySound(r) /\ Judged(r, req[q])
    BY NotJudged DEF Row, TenancySound, Judging
  <2> QED
    BY <1>1, <2>1, TenancyBegins DEF BeginEnrol, TenancyLabels
<1>2. ASSUME NEW u \in User, NEW t \in Tenant, NEW email \in User, BeginInvite(q, u, t, email)
      PROVE  AccessInv'
  <2> PICK r : r = Row("authorize", [by |-> u, tenant |-> t, email |-> email, next |-> "create"],
                       now, <<>>)
    OBVIOUS
  <2>1. MemberHeld(t, u, now)
    BY <1>2 DEF BeginInvite, OwnActive, MemberHeld, ActiveOrEnded
  <2>2. TenancySound(r) /\ Judged(r, req[q])
    BY <2>1, NotJudged DEF Row, TenancySound, Judging
  <2> QED
    BY <1>2, <2>2, TenancyBegins DEF BeginInvite, TenancyLabels
<1>3. ASSUME NEW u \in User, NEW t \in Tenant, NEW i \in Ids(db.invitations),
             BeginRevokeInvitation(q, u, t, i)
      PROVE  AccessInv'
  <2> PICK r : r = Row("authorize", [by |-> u, tenant |-> t, invitation |-> i, next |-> "revoke"],
                       now, <<>>)
    OBVIOUS
  <2>1. MemberHeld(t, u, now)
    BY <1>3 DEF BeginRevokeInvitation, OwnActive, MemberHeld, ActiveOrEnded
  <2>2. TenancySound(r) /\ Judged(r, req[q])
    BY <2>1, NotJudged DEF Row, TenancySound, Judging
  <2> QED
    BY <1>3, <2>2, TenancyBegins DEF BeginRevokeInvitation, TenancyLabels
<1>4. ASSUME NEW u \in User, NEW i \in Ids(db.invitations), BeginRedeem(q, u, i)
      PROVE  AccessInv'
  <2> PICK read : read = db.invitations[i]
    OBVIOUS
  <2> PICK r : r = Row("gate", [by |-> u, invitation |-> i], now, read)
    OBVIOUS
  <2>1. read.attempts \in Nat
    BY RowsTyped DEF AccessInv, InvitationRow
  <2>2. TenancySound(r)
    BY <2>1 DEF Row, TenancySound
  <2>3. Judged(r, req[q])
    BY DEF Row, Judged, FailingAt, UnprovingAt, MismatchingAt, GuessingAt
  <2> QED
    BY <1>4, <2>2, <2>3, TenancyBegins DEF BeginRedeem, TenancyLabels
<1> QED
  BY <1>1, <1>2, <1>3, <1>4 DEF TenancyCall

\* Who may create an invitation held the role in its tenant.
LEMMA CreateAuthorized ==
  ASSUME TablesInv, now \in Nat, NEW user, NEW tenant \in Tenant, NEW at \in Nat, at <= now,
         Authorized(user, tenant, "tenancy.invitation.create")
  PROVE  TenantRoleHeld(user, "TENANT_ADMIN", tenant, at)
<1>1. PICK role \in ApplicableRoles(user, tenant, now) :
        "tenancy.invitation.create" \in RolePermissions[role]
  BY DEF Authorized
<1>2. PICK j \in Ids(db.roles) :
        /\ db.roles[j].user = user /\ db.roles[j].role = role
        /\ db.roles[j].tenant \in {Platform, tenant} /\ HeldSince(now, db.roles[j])
        /\ role \in RoleId /\ ScopeAdmits(role, db.roles[j].tenant)
  BY DecidedThen
<1>3. role = "TENANT_ADMIN"
  BY <1>1, <1>2, AdministratorsOnly
<1>4. db.roles[j].tenant = tenant
  BY <1>2, <1>3 DEF ScopeAdmits, RoleScope
<1>5. HeldSince(at, db.roles[j])
  <2>1. db.roles[j].to \in Date
    BY RowsTyped DEF AssignmentRow
  <2> QED
    BY <1>2, <2>1 DEF HeldSince, Date
<1> QED
  BY <1>2, <1>3, <1>4, <1>5 DEF TenantRoleHeld

\* An invitation is authorized by a role of its tenant.
LEMMA AuthorizeInvitationSteps ==
  ASSUME AccessInv, NEW q \in Requests, AuthorizeInvitation(q)
  PROVE  AccessInv'
<1> PICK s : s = req[q]
  OBVIOUS
<1> PICK in : in = s.in
  OBVIOUS
<1> PICK r : r = Row(in.next, in, s.now, <<>>)
  OBVIOUS
<1>1. s.at = "authorize" /\ TenancySound(s) /\ in.next \in {"create", "revoke"} /\ s.now \in Nat
      /\ s.now <= now /\ in.tenant \in Tenant
  BY Holds DEF AuthorizeInvitation, At, Sound, TenancySound
<1>2. CASE Authorized(in.by, in.tenant, InvitationPermission[in.next])
  <2>1. Reads(q, in.next, <<>>)
    BY <1>2 DEF AuthorizeInvitation
  <2>2. in.next = "create" => TenantRoleHeld(in.by, "TENANT_ADMIN", in.tenant, s.now)
    BY <1>1, <1>2, CreateAuthorized DEF AccessInv, RequestsShaped, InvitationPermission
  <2>3. r.at = in.next /\ r.in = in /\ r.now = s.now
    BY DEF Row
  <2>4. TenancySound(r)
    BY <1>1, <2>2, <2>3 DEF TenancySound
  <2>5. Judged(r, s)
    BY <1>1, <2>3, NotJudged DEF Judging
  <2> QED
    BY <1>1, <2>1, <2>4, <2>5, TenancyReads DEF TenancyLabels
<1>3. CASE ~Authorized(in.by, in.tenant, InvitationPermission[in.next])
  BY <1>3, EndSteps DEF AuthorizeInvitation
<1> QED
  BY <1>2, <1>3

-----------------------------------------------------------------------------
(* Invitations: statements that write *)

\* The table of the invitations.
LEMMA InvitationsTable ==
  ASSUME AccessInv
  PROVE  /\ db.invitations \in Seq(InvitationRow) /\ DOMAIN db = Fields /\ now \in Nat
         /\ Distinct(db.invitations)
         /\ \A i \in Ids(db.invitations) :
              db.invitations[i] \in InvitationRow /\ InvitationHolds(db.invitations[i])
BY RowsTyped DEF AccessInv, RequestsShaped, TablesInv, AccessTypeOK, InvitationsInv

\* A step that writes no table but that of the invitations.
LEMMA InvitationsWritten ==
  ASSUME AccessInv, now' = now, NEW W \in SUBSET {"invitations", "members"}, Wrote(W),
         db'.invitations \in Seq(InvitationRow), db'.members \in [Tenant \X User -> MemberRow],
         MembersKept, InvitationsKept, Distinct(db'.invitations),
         \A i \in Ids(db'.invitations) : \A row : row = db'.invitations[i] => InvitationHolds(row)'
  PROVE  Advances
<1>1. W \in SUBSET Fields /\ \A f \in W : Typed(f, db'[f])
  BY DEF Fields, Typed
<1>2. InvitationsInv'
  BY InvitationsHoldThen
<1> QED
  BY <1>1, <1>2, Frame DEF AccessInv, RequestsShaped

\* No role changed meanwhile.
LEMMA HoldsYet ==
  ASSUME AccessInv, now' = now, MembersKept, db'.roles = db.roles, NEW row \in InvitationRow,
         InvitationHolds(row)
  PROVE  InvitationHolds(row)'
<1>1. RolesKept
  BY DEF RolesKept, RoleKept
<1> QED
  BY <1>1, InvitationHoldsStill DEF AccessInv, RequestsShaped

\* One row of the table is written.
LEMMA InvitationRowChanged ==
  ASSUME AccessInv, now' = now, NEW i \in Ids(db.invitations), NEW row \in InvitationRow,
         InvitationKept(db.invitations[i], row), InvitationHolds(row), row.redeemed = db.invitations[i].redeemed,
         Wrote({"invitations"}), db'.invitations = [db.invitations EXCEPT ![i] = row]
  PROVE  /\ Advances /\ Ids(db'.invitations) = Ids(db.invitations)
         /\ \A j \in Ids(db.invitations) :
              db'.invitations[j] = IF j = i THEN row ELSE db.invitations[j]
<1>1. /\ db'.invitations \in Seq(InvitationRow) /\ Ids(db'.invitations) = Ids(db.invitations)
      /\ \A j \in Ids(db.invitations) :
           db'.invitations[j] = IF j = i THEN row ELSE db.invitations[j]
  BY InvitationsTable, Updated DEF Ids
<1>2. db'.members = db.members /\ db'.roles = db.roles
  BY DEF Wrote, Fields
<1>3. MembersKept
  BY <1>2 DEF MembersKept, IsMember, MemberHeld, MemberLasts
<1>4. InvitationsKept
  BY <1>1 DEF InvitationsKept, InvitationKept
<1>5. \A j \in Ids(db'.invitations) : \A r : r = db'.invitations[j] => InvitationHolds(r)'
  BY <1>1, <1>2, <1>3, InvitationsTable, HoldsYet
<1>6. Distinct(db'.invitations)
  <2>1. Distinct(db.invitations)
    BY InvitationsTable
  <2>2. \A j \in Ids(db.invitations) :
          /\ db'.invitations[j].redeemed = db.invitations[j].redeemed
          /\ db'.invitations[j].tenant = db.invitations[j].tenant
          /\ db'.invitations[j].email = db.invitations[j].email
    BY <1>1 DEF InvitationKept
  <2> QED
    BY <1>1, <2>1, <2>2 DEF Distinct
<1>7. db'.members \in [Tenant \X User -> MemberRow]
  BY <1>2, MembersTable
<1> QED
  BY <1>1, <1>3, <1>4, <1>5, <1>6, <1>7, InvitationsWritten

\* An invitation is inserted with its inviter and the instant of the call.
LEMMA CreateForTenantSteps ==
  ASSUME AccessInv, NEW q \in Requests, CreateForTenant(q)
  PROVE  AccessInv'
<1> PICK s : s = req[q]
  OBVIOUS
<1> PICK in : in = s.in
  OBVIOUS
<1>0. PICK row : row = [tenant |-> in.tenant, email |-> in.email, expires |-> now + InvitationLife,
                        redeemed |-> Open, redeemedBy |-> Open, revoked |-> Open, attempts |-> 0,
                        by |-> in.by, asked |-> s.now]
  OBVIOUS
<1>1. /\ s.at = "create" /\ in.by \in User /\ in.tenant \in Tenant /\ in.email \in User
      /\ s.now \in Nat /\ s.now <= now /\ now \in Nat
      /\ MemberHeld(in.tenant, in.by, s.now)
      /\ TenantRoleHeld(in.by, "TENANT_ADMIN", in.tenant, s.now)
  BY Holds DEF CreateForTenant, At, Sound, TenancySound
<1>2. row \in InvitationRow
  BY <1>0, <1>1, TenancyAssumption DEF InvitationRow, Date
<1>3. row.redeemed = Open /\ row.attempts = 0 /\ InvitationHolds(row)
  BY <1>0, <1>1 DEF InvitationHolds
<1>4. WritesAudited(q, [db EXCEPT !.invitations = Append(db.invitations, row)],
                    Success(in.by, "tenancy.invitation.created", Invited(Len(db.invitations) + 1)))
  BY <1>0 DEF CreateForTenant
<1>5. Wrote({"invitations"}) /\ db'.invitations = Append(db.invitations, row) /\ now' = now
  BY <1>4, InvitationsTable DEF WritesAudited, Writes, Wrote, Fields
<1> DEFINE n == Len(db.invitations) + 1
<1>6. /\ db'.invitations \in Seq(InvitationRow)
      /\ Ids(db'.invitations) = Ids(db.invitations) \cup {n}
      /\ db'.invitations[n] = row
      /\ \A i \in Ids(db.invitations) : db'.invitations[i] = db.invitations[i]
  BY <1>2, <1>5, InvitationsTable, Inserted DEF Ids
<1> HIDE DEF n
<1>7. db'.members = db.members /\ db'.roles = db.roles
      /\ db'.events = db.events /\ db'.codes = db.codes
  BY <1>5 DEF Wrote, Fields
<1>8. MembersKept /\ db'.members \in [Tenant \X User -> MemberRow]
  BY <1>7, MembersTable DEF MembersKept, IsMember, MemberHeld, MemberLasts
<1>9. InvitationsKept
  BY <1>6 DEF InvitationsKept, InvitationKept
<1>10. \A i \in Ids(db'.invitations) : \A r : r = db'.invitations[i] => InvitationHolds(r)'
  BY <1>2, <1>3, <1>5, <1>6, <1>7, <1>8, InvitationsTable, HoldsYet
<1>11. Distinct(db'.invitations)
  <2>1. Distinct(db.invitations)
    BY InvitationsTable
  <2> QED
    BY <1>3, <1>6, <2>1 DEF Distinct
<1>12. Advances
  BY <1>5, <1>6, <1>8, <1>9, <1>10, <1>11, InvitationsWritten
<1>13. Uncounted
  BY <1>3, <1>6, <1>7 DEF Uncounted, SameAttempts
<1> QED
  BY <1>4, <1>12, <1>13, PlainAuditedKeeps DEF PlainEntry, BindingActions, FirstBindActions, Success

\* An invitation that is still open is revoked, one that is not is left.
LEMMA RevokeOpenSteps ==
  ASSUME AccessInv, NEW q \in Requests, RevokeOpen(q)
  PROVE  AccessInv'
<1> PICK in : in = req[q].in
  OBVIOUS
<1> PICK i : i = in.invitation
  OBVIOUS
<1> PICK old : old = db.invitations[i]
  OBVIOUS
<1>0. PICK row : row = [old EXCEPT !.revoked = now]
  OBVIOUS
<1>1. i \in Ids(db.invitations)
  BY Holds DEF RevokeOpen, At, Sound, TenancySound
<1>2. ASSUME StillOpen(old),
             WritesAudited(q, [db EXCEPT !.invitations[i].revoked = now],
                           Success(in.by, "tenancy.invitation.revoked", Invited(i)))
      PROVE  AccessInv'
  <2>1. old \in InvitationRow /\ InvitationHolds(old) /\ now \in Nat
    BY <1>1, InvitationsTable
  <2>2. row \in InvitationRow /\ row.attempts = old.attempts
    BY <1>0, <2>1 DEF InvitationRow, Date
  <2>3. /\ InvitationKept(old, row) /\ row.redeemed = old.redeemed /\ row.attempts = old.attempts
    BY <1>0, <2>1 DEF InvitationKept, InvitationRow
  <2>4. row.redeemed = Open /\ InvitationHolds(row)
    BY <1>2, <2>1, <2>3 DEF StillOpen, InvitationHolds, InvitationKept
  <2>5. Wrote({"invitations"}) /\ db'.invitations = [db.invitations EXCEPT ![i] = row] /\ now' = now
    BY <1>0, <1>1, <1>2, InvitationsTable DEF WritesAudited, Writes, Wrote, Fields, Ids
  <2>6. /\ Advances /\ Ids(db'.invitations) = Ids(db.invitations)
        /\ \A j \in Ids(db.invitations) :
             db'.invitations[j] = IF j = i THEN row ELSE db.invitations[j]
    BY <1>1, <2>2, <2>3, <2>4, <2>5, InvitationRowChanged
  <2>7. Uncounted
    <3>1. db'.events = db.events /\ db'.codes = db.codes
      BY <2>5 DEF Wrote, Fields
    <3> QED
      BY <2>3, <2>6, <3>1 DEF Uncounted, SameAttempts
  <2> QED
    BY <1>2, <2>6, <2>7, PlainAuditedKeeps DEF PlainEntry, BindingActions, FirstBindActions, Success
<1> QED
  BY <1>2, EndSteps DEF RevokeOpen

\* Only its addressee passes the gate, and a wrong guess finds attempts left.
LEMMA RedemptionGateSteps ==
  ASSUME AccessInv, NEW q \in Requests, RedemptionGate(q)
  PROVE  AccessInv'
<1> PICK s : s = req[q]
  OBVIOUS
<1> PICK in : in = s.in
  OBVIOUS
<1> PICK i : i = in.invitation
  OBVIOUS
<1> PICK email : email = IF VerifiedEmailOf(in.by) THEN in.by ELSE Open
  OBVIOUS
<1>0. PICK gate : gate = Redeemability(s.read, now, email)
  OBVIOUS
<1>1. /\ s.at = "gate" /\ in.by \in User /\ i \in Ids(db.invitations)
      /\ s.read.email = db.invitations[i].email /\ s.read.attempts \in Nat /\ now \in Nat
  BY Holds DEF RedemptionGate, At, Sound, TenancySound
<1>2. db.invitations[i].email \in User /\ Open \notin User
  BY <1>1, InvitationsTable, AccountsAssumption DEF InvitationRow
<1>3. CASE gate = "redeemable"
  <2> PICK r : r = Row("redeem", in, s.now, [at |-> now])
    OBVIOUS
  <2>1. Reads(q, "redeem", [at |-> now])
    BY <1>0, <1>3 DEF RedemptionGate
  <2>2. in.by = db.invitations[i].email
    BY <1>0, <1>1, <1>2, <1>3 DEF Redeemability
  <2>3. TenancySound(r)
    BY <1>1, <2>2 DEF Row, TenancySound
  <2>4. Judged(r, s)
    BY NotJudged DEF Row, Judging
  <2> QED
    BY <2>1, <2>3, <2>4, TenancyReads DEF TenancyLabels
<1>4. CASE gate = "email_mismatch"
  <2> PICK r : r = Row("attempt", in, s.now, <<>>)
    OBVIOUS
  <2>1. Reads(q, "attempt", <<>>)
    BY <1>0, <1>4 DEF RedemptionGate
  <2>2. s.read.attempts < MaxAttempts
    BY <1>0, <1>1, <1>4, Thresholds DEF Redeemability
  <2>3. TenancySound(r)
    BY <1>1 DEF Row, TenancySound
  <2>4. Judged(r, s)
    BY <1>1, <2>2 DEF Row, Judged, FailingAt, UnprovingAt, MismatchingAt, GuessingAt
  <2> QED
    BY <2>1, <2>3, <2>4, TenancyReads DEF TenancyLabels
<1>5. CASE gate \notin {"redeemable", "email_mismatch"}
  <2> PICK entry : entry = Denial(in.by, gate, Invited(i))
    OBVIOUS
  <2>1. Reads(q, "audit", entry)
    BY <1>0, <1>5 DEF RedemptionGate
  <2>2. gate \in {"revoked", "already_redeemed", "expired", "attempts_exhausted"}
    BY <1>0, <1>5 DEF Redeemability
  <2>3. EntrySound(entry)
    BY <2>2, PlainEntrySound DEF PlainEntry, BindingActions, FirstBindActions, Denial
  <2> QED
    BY <2>1, <2>3, DenialKeeps
<1> QED
  BY <1>3, <1>4, <1>5

\* A wrong guess is counted, by the statement after it was judged.
LEMMA RecordFailedAttemptSteps ==
  ASSUME AccessInv, NEW q \in Requests, RecordFailedAttempt(q)
  PROVE  AccessInv'
<1> PICK s : s = req[q]
  OBVIOUS
<1> PICK in : in = s.in
  OBVIOUS
<1> PICK i : i = in.invitation
  OBVIOUS
<1> PICK old : old = db.invitations[i]
  OBVIOUS
<1>0. PICK row : row = [old EXCEPT !.attempts = old.attempts + 1]
  OBVIOUS
<1> PICK entry : entry = Denial(in.by, "email_mismatch", Invited(i))
  OBVIOUS
<1> PICK r : r = Row("audit", in, s.now, entry)
  OBVIOUS
<1>1. s.at = "attempt" /\ i \in Ids(db.invitations)
  BY Holds DEF RecordFailedAttempt, At, Sound, TenancySound
<1>2. old \in InvitationRow /\ InvitationHolds(old) /\ now \in Nat
  BY <1>1, InvitationsTable
<1>3. row \in InvitationRow /\ row.attempts = old.attempts + 1
  <2>1. old.attempts + 1 \in Nat
    BY <1>2 DEF InvitationRow
  <2> QED
    BY <1>0, <1>2, <2>1 DEF InvitationRow
<1>4. /\ InvitationKept(old, row) /\ row.redeemed = old.redeemed /\ row.revoked = old.revoked
      /\ row.redeemedBy = old.redeemedBy
  BY <1>0, <1>2 DEF InvitationKept, InvitationRow
<1>5. InvitationHolds(row)
  BY <1>2, <1>4 DEF InvitationHolds, InvitationKept
<1>6. /\ Wrote({"invitations"}) /\ db'.invitations = [db.invitations EXCEPT ![i] = row]
      /\ now' = now
  BY <1>0, <1>1, InvitationsTable DEF RecordFailedAttempt, WritesAudited, Writes, Wrote, Fields, Ids
<1>7. /\ Advances /\ Ids(db'.invitations) = Ids(db.invitations)
      /\ \A j \in Ids(db.invitations) :
           db'.invitations[j] = IF j = i THEN row ELSE db.invitations[j]
  BY <1>1, <1>3, <1>4, <1>5, <1>6, InvitationRowChanged
<1>8. Turns(q, r)
  BY GoesOn DEF RecordFailedAttempt, WritesAudited, Writes, AccessInv
<1>9. Sound(r)' /\ Judged(r, s)
  <2>1. EntrySound(entry)
    BY PlainEntrySound DEF PlainEntry, BindingActions, FirstBindActions, Denial
  <2>2. Sound(r)
    BY <2>1, Holds, AuditSound
  <2> QED
    BY <1>7, <2>2, SoundStays, NotJudged DEF AccessInv, RequestsShaped, Row, Judging
<1>10. LoginsCounted' /\ CodesCounted' /\ VerificationsCounted'
  <2>1. db'.events = db.events /\ db'.codes = db.codes
    BY <1>6 DEF Wrote, Fields
  <2>2. Moves /\ SameAttempts(db.codes, db'.codes)
    BY <1>8, <1>9, <2>1, TurnsMove DEF SameAttempts
  <2> QED
    BY <1>6, <2>1, <2>2, LoginsStay, CodesStay, VerificationsStay, Holds
       DEF AccessInv, CountersInv
<1>11. GuessesCounted'
  <2> SUFFICES ASSUME NEW j \in Ids(db.invitations)
               PROVE  Within(db.invitations[j].attempts, Guessing(j), MaxAttempts)'
    BY <1>7 DEF GuessesCounted
  <2> PICK c, d, P, Q : /\ c = db.invitations[j].attempts /\ d = db'.invitations[j].attempts
                        /\ P = Guessing(j) /\ Q = Guessing(j)'
    OBVIOUS
  <2>1. c \in Nat /\ d \in Nat /\ Within(c, P, MaxAttempts) /\ P \in SUBSET Requests
    <3>1. c \in Nat /\ db'.invitations[j] \in InvitationRow
      BY <1>3, <1>7, InvitationsTable DEF InvitationRow
    <3>2. d \in Nat
      BY <3>1 DEF InvitationRow
    <3>3. Within(c, P, MaxAttempts) /\ P \in SUBSET Requests
      BY DEF AccessInv, CountersInv, GuessesCounted, Guessing
    <3> QED
      BY <3>1, <3>2, <3>3
  <2>2. CASE j = i
    <3>1. q \in P
      BY <1>1, <2>2 DEF Guessing, GuessingAt
    <3>2. \A p \in Q : p \in P /\ p # q
      BY <1>8 DEF Guessing, GuessingAt, Turns, Row
    <3>3. d <= c + 1
      <4>1. db'.invitations[j] = row
        BY <1>7, <2>2
      <4>2. d = c + 1
        BY <1>3, <2>2, <4>1
      <4> QED
        BY <2>1, <4>2
    <3>4. Within(d, Q, MaxAttempts)
      BY <2>1, <3>1, <3>2, <3>3, WithinLeaves, Thresholds
    <3> QED
      BY <3>4 DEF Within
  <2>3. CASE j # i
    <3>1. Q \in SUBSET P /\ d = c
      BY <1>7, <1>8, <2>3 DEF Guessing, GuessingAt, Turns, Row
    <3>2. Within(d, Q, MaxAttempts)
      BY <2>1, <3>1, WithinStays, Thresholds
    <3> QED
      BY <3>2 DEF Within
  <2> QED
    BY <2>2, <2>3
<1> QED
  BY <1>7, <1>8, <1>9, <1>10, <1>11, StepHolds DEF CountersInv

\* One transaction: the row is redeemed, and its addressee is a member who
\* was none.
LEMMA RedeemedKeeps ==
  ASSUME AccessInv, now' = now, NEW i \in Ids(db.invitations), NEW at \in Nat, NEW old, NEW user,
         old = db.invitations[i], user = old.email, ~IsMember(old.tenant, user), StillOpen(old),
         db' = [db EXCEPT !.invitations[i].redeemed = at, !.invitations[i].redeemedBy = user,
                          !.members[<<old.tenant, user>>] = ActiveMembership(at)]
  PROVE  Advances /\ Uncounted
<1>0. PICK row : row = [old EXCEPT !.redeemed = at, !.redeemedBy = user]
  OBVIOUS
<1>00. PICK member : member = ActiveMembership(at)
  OBVIOUS
<1>1. /\ old \in InvitationRow /\ InvitationHolds(old) /\ Distinct(db.invitations)
      /\ db.invitations \in Seq(InvitationRow) /\ DOMAIN db = Fields /\ now \in Nat
  BY InvitationsTable
<1>2. old.tenant \in Tenant /\ user \in User
  BY <1>1 DEF InvitationRow
<1>3. row \in InvitationRow /\ row.attempts = old.attempts
  BY <1>0, <1>1, <1>2 DEF InvitationRow, Date
<1>4. /\ InvitationKept(old, row) /\ row.redeemed = at /\ row.redeemedBy = row.email
      /\ row.revoked = old.revoked /\ row.email = user
  BY <1>0, <1>1 DEF InvitationKept, InvitationRow
<1>5. /\ Wrote({"invitations", "members"})
      /\ db'.invitations = [db.invitations EXCEPT ![i] = row]
      /\ db'.members = [db.members EXCEPT ![<<old.tenant, user>>] = member]
  BY <1>0, <1>00, <1>1 DEF Wrote, Fields, Ids
<1>6. member \in MemberRow /\ member.state = "ACTIVE" /\ member.to = Open
  BY <1>00, ActiveMembershipIs
<1>7. MembersKept /\ db'.members \in [Tenant \X User -> MemberRow]
  <2>1. HeldOver(db.members[<<old.tenant, user>>], member) /\ member.state # "none"
    BY <1>6 DEF HeldOver
  <2> QED
    BY <1>2, <1>5, <1>6, <2>1, MemberKept
<1>8. /\ db'.invitations \in Seq(InvitationRow) /\ Ids(db'.invitations) = Ids(db.invitations)
      /\ \A j \in Ids(db.invitations) :
           db'.invitations[j] = IF j = i THEN row ELSE db.invitations[j]
  <2>1. /\ [db.invitations EXCEPT ![i] = row] \in Seq(InvitationRow)
        /\ DOMAIN [db.invitations EXCEPT ![i] = row] = DOMAIN db.invitations
        /\ \A j \in DOMAIN db.invitations :
             [db.invitations EXCEPT ![i] = row][j] = IF j = i THEN row ELSE db.invitations[j]
    BY <1>1, <1>3, Updated DEF Ids
  <2>2. db'.invitations = [db.invitations EXCEPT ![i] = row]
    BY <1>5
  <2> QED
    BY <2>1, <2>2, Zenon DEF Ids
<1>9. InvitationsKept
  BY <1>4, <1>8 DEF InvitationsKept, InvitationKept
<1>10. IsMember(old.tenant, user)'
  <2>1. db'.members[<<old.tenant, user>>] = member
    BY <1>2, <1>5, MembersTable
  <2> QED
    BY <1>6, <2>1 DEF IsMember
<1>11. db'.roles = db.roles /\ db'.events = db.events /\ db'.codes = db.codes
  BY <1>5 DEF Wrote, Fields
<1>12. InvitationHolds(row)'
  <2>1. InvitationHolds(old)'
    BY <1>1, <1>7, <1>11, HoldsYet
  <2> QED
    BY <1>1, <1>4, <1>10, <2>1 DEF InvitationHolds, InvitationKept, StillOpen
<1>13. \A j \in Ids(db'.invitations) : \A r : r = db'.invitations[j] => InvitationHolds(r)'
  BY <1>7, <1>8, <1>11, <1>12, InvitationsTable, HoldsYet
<1>14. Distinct(db'.invitations)
  <2>1. ASSUME NEW j \in Ids(db.invitations), db.invitations[j].redeemed # Open,
               db.invitations[j].tenant = old.tenant, db.invitations[j].email = user
        PROVE  FALSE
    <3>1. InvitationHolds(db.invitations[j])
      BY InvitationsTable
    <3> QED
      BY <2>1, <3>1 DEF InvitationHolds
  <2>2. ASSUME NEW j \in Ids(db.invitations), NEW k \in Ids(db.invitations),
               db'.invitations[j].redeemed # Open, db'.invitations[k].redeemed # Open,
               db'.invitations[j].tenant = db'.invitations[k].tenant,
               db'.invitations[j].email = db'.invitations[k].email
        PROVE  j = k
    <3>1. row.tenant = old.tenant /\ row.email = user
      BY <1>4 DEF InvitationKept
    <3>2. CASE j # i /\ k # i
      BY <1>1, <1>8, <2>2, <3>2 DEF Distinct
    <3>3. CASE j = i /\ k # i
      BY <1>8, <2>1, <2>2, <3>1, <3>3
    <3>4. CASE j # i /\ k = i
      BY <1>8, <2>1, <2>2, <3>1, <3>4
    <3> QED
      BY <3>2, <3>3, <3>4
  <2> QED
    BY <1>8, <2>2 DEF Distinct
<1>15. Advances
  BY <1>5, <1>7, <1>8, <1>9, <1>13, <1>14, InvitationsWritten
<1>16. Uncounted
  BY <1>3, <1>8, <1>11 DEF Uncounted, SameAttempts
<1> QED
  BY <1>15, <1>16

\* The membership and the redemption are one transaction, or nothing.
LEMMA RedeemSteps ==
  ASSUME AccessInv, NEW q \in Requests, Redeem(q)
  PROVE  AccessInv'
<1> PICK in : in = req[q].in
  OBVIOUS
<1> PICK i : i = in.invitation
  OBVIOUS
<1> PICK at : at = req[q].read.at
  OBVIOUS
<1> PICK old : old = db.invitations[i]
  OBVIOUS
<1> DEFINE tables == [db EXCEPT !.invitations[i].redeemed = at, !.invitations[i].redeemedBy = in.by,
                                !.members[<<old.tenant, in.by>>] = ActiveMembership(at)]
           entry == Success(in.by, "tenancy.invitation.redeem", Invited(i))
<1>1. i \in Ids(db.invitations) /\ at \in Nat /\ in.by = old.email
  BY Holds DEF Redeem, At, Sound, TenancySound
<1>2. ASSUME ~IsMember(old.tenant, in.by), RedeemableStill(old, at), WritesAudited(q, tables, entry)
      PROVE  AccessInv'
  <2>1. Advances /\ Uncounted
    BY <1>1, <1>2, RedeemedKeeps DEF WritesAudited, Writes, RedeemableStill
  <2>2. PlainEntry(entry)
    BY DEF PlainEntry, BindingActions, FirstBindActions, Success
  <2> HIDE DEF tables, entry
  <2> QED
    BY <1>2, <2>1, <2>2, PlainAuditedKeeps
<1> QED
  BY <1>2, EndSteps DEF Redeem

-----------------------------------------------------------------------------
(* Bindings: choosing a tenant *)

\* A statement of a binding read something.
LEMMA BindingReads ==
  ASSUME AccessInv, NEW q \in Requests, NEW s, s = req[q],
         NEW at \in BindingLabels, NEW value, Reads(q, at, value),
         NEW r, r = Row(at, s.in, s.now, value), BindingSound(r)
  PROVE  AccessInv'
<1>1. r.at = at /\ r.now = s.now /\ s.now \in Nat /\ s.now <= now
  BY Holds DEF Row
<1>2. Sound(r)
  BY <1>1, InBinding
<1>3. Judged(r, s)
  BY <1>1, NotJudged DEF BindingLabels, Resolves, Chosen, First, Switches, Carried, Judging
<1> QED
  BY <1>2, <1>3, GoesOnKeeps

\* What was chosen is chosen still, at the next statement.
LEMMA ChosenOn ==
  ASSUME NEW s, BindingSound(s), NEW at, NEW r, r = Row(at, s.in, s.now, s.read),
         {s.at, at} \subseteq First \/ {s.at, at} \subseteq Switches
  PROVE  BindingSound(r)
<1>1. r.at = at /\ r.in = s.in /\ r.read = s.read /\ r.now = s.now
  BY DEF Row
<1> QED
  BY <1>1 DEF BindingSound, Resolves, Chosen, First, Switches, Carried

\* The statements after a binding that need no more than the session.
Bare == Carried \ {"recheck", "verify.tenant.again", "settle", "settle.surface"}

\* The session goes with it to the next statement.
LEMMA CarriedOn ==
  ASSUME NEW s, BindingSound(s), s.at \in Carried, NEW at \in Bare, NEW r,
         r = Row(at, s.in, s.now, s.read)
  PROVE  BindingSound(r)
<1>1. r.at = at /\ r.in = s.in /\ r.read = s.read
  BY DEF Row
<1> QED
  BY <1>1 DEF BindingSound, Bare, Resolves, Chosen, First, Switches, Carried

\* What a binding resolves to begin with: the active memberships.
LEMMA ResolvingIs ==
  ASSUME NEW session, NEW tenant, NEW user, NEW read, read = Resolving(session, tenant, user)
  PROVE  /\ BindingRead(read) /\ read.session = session /\ read.tenant = tenant
         /\ read.pending = OwnActiveTenants(user) /\ read.choices = {}
         /\ read.pending \subseteq Tenant
BY DEF Resolving, BindingRead, OwnActiveTenants

\* A tenant that was read is a choice if it is usable.
LEMMA ReadTenantIs ==
  ASSUME NEW q, NEW t, NEW known, known = ReadTenant(q, t), NEW s, s = req[q], BindingRead(s.read)
  PROVE  /\ BindingRead(known) /\ known.session = s.read.session /\ known.tenant = s.read.tenant
         /\ known.pending = s.read.pending \ {t}
         /\ known.choices = s.read.choices \cup {u \in {t} : UsableTenant(u, s.in.by)}
BY DEF ReadTenant, BindingRead

\* A binding begins with the memberships of its session's account.
LEMMA BindingBegins ==
  ASSUME AccessInv, NEW q \in Requests, NEW s \in Ids(db.sessions), NEW kind \in {"auto", "bind", "switch"},
         NEW tenant, BeginBinding(q, kind, s, tenant)
  PROVE  AccessInv'
<1> PICK user : user = db.sessions[s].user
  OBVIOUS
<1> PICK in : in = [kind |-> kind, by |-> user, session |-> s]
  OBVIOUS
<1> PICK read : read = Resolving(s, tenant, user)
  OBVIOUS
<1> PICK r : r = Row("resolve", in, now, read)
  OBVIOUS
<1>1. Begins(q, "bindings", "resolve", in, read)
  BY DEF BeginBinding
<1>2. r.at = "resolve" /\ r.in = in /\ r.read = read /\ r.now = now /\ now \in Nat
  BY DEF Row, AccessInv, RequestsShaped
<1>3. BindingRead(read) /\ read.session = s /\ read.pending \subseteq Tenant /\ read.choices = {}
      /\ read.pending = OwnActiveTenants(user)
  BY ResolvingIs
<1>a. \A t \in read.pending : MemberLasts(t, user, now)
  BY <1>3 DEF OwnActiveTenants, MembershipActiveAt, MemberLasts
<1>4. BindingSound(r)
  <2>1. r.in.kind = kind /\ r.in.by = user /\ r.in.session = s
    BY <1>2
  <2> QED
    BY <1>2, <1>3, <1>a, <2>1 DEF BindingSound, Resolves, Chosen, First, Switches, Carried
<1>5. Sound(r) /\ Judged(r, req[q])
  BY <1>2, <1>4, InBinding, NotJudged DEF BindingLabels, Resolves, Judging
<1> QED
  BY <1>1, <1>5, BeginKeeps

\* Any binding: bootstrap, first binding, switch.
LEMMA BindingCallSteps ==
  ASSUME AccessInv, NEW q \in Requests, BindingCall(q)
  PROVE  AccessInv'
<1>1. PICK s \in Ids(db.sessions) : BeginBootstrap(q, s) \/ \E t \in Tenant : BeginSetBinding(q, s, t)
  BY DEF BindingCall
<1>2. CASE BeginBootstrap(q, s)
  BY <1>2, BindingBegins DEF BeginBootstrap
<1>3. ASSUME NEW t \in Tenant, BeginSetBinding(q, s, t)
      PROVE  AccessInv'
  <2> PICK kind : kind = IF db.sessions[s].tenant = Unbound THEN "bind" ELSE "switch"
    OBVIOUS
  <2>1. BeginBinding(q, kind, s, t) /\ kind \in {"auto", "bind", "switch"}
    BY <1>3 DEF BeginSetBinding
  <2> QED
    BY <2>1, BindingBegins
<1> QED
  BY <1>1, <1>2, <1>3

\* A choice among several, one or none.
LEMMA ChooseSteps ==
  ASSUME AccessInv, NEW q \in Requests, At(q, "resolve"), NEW choices \in SUBSET Tenant,
         Choose(q, choices),
         \A t \in choices : BackedSince(t, req[q].in.by, req[q].now)
  PROVE  AccessInv'
<1> PICK s : s = req[q]
  OBVIOUS
<1>1. s.at = "resolve" /\ BindingSound(s)
  BY Holds DEF At, Sound
<1>2. CASE s.in.kind = "auto" /\ Cardinality(choices) = 1
  <2>1. PICK t : t = CHOOSE u \in choices : TRUE
    OBVIOUS
  <2>2. choices # {}
    BY <1>2, FS_EmptySet
  <2>3. t \in Tenant
    BY <2>1, <2>2
  <2> PICK read : read = Resolving(s.in.session, t, s.in.by)
    OBVIOUS
  <2> PICK r : r = Row("find", s.in, s.now, read)
    OBVIOUS
  <2>4. Reads(q, "find", read)
    BY <1>2, <2>1 DEF Choose
  <2>5. r.at = "find" /\ r.in = s.in /\ r.read = read /\ r.now = s.now
    BY DEF Row
  <2>6. BindingRead(read) /\ read.session = s.in.session /\ read.tenant = t
    BY ResolvingIs
  <2>a. BackedSince(t, s.in.by, s.now)
    <3>1. t \in choices /\ s.in = req[q].in /\ s.now = req[q].now
      BY <2>1, <2>2
    <3> QED
      BY <3>1
  <2>7. BindingSound(r)
    <3>1. r.in.kind = "auto" /\ r.read.session = r.in.session /\ r.read.tenant = t
      BY <1>2, <2>5, <2>6
    <3>2. /\ BindingRead(r.read) /\ BackedSince(r.read.tenant, r.in.by, r.now)
          /\ r.in.session \in Ids(db.sessions) /\ db.sessions[r.in.session].user = r.in.by
      BY <1>1, <2>5, <2>6, <2>a DEF BindingSound, Resolves
    <3>3. r.at \notin Resolves \cup Switches \cup Carried
      BY <2>5 DEF Resolves, Switches, Carried
    <3> QED
      BY <2>3, <2>5, <3>1, <3>2, <3>3 DEF BindingSound, Chosen, First
  <2> QED
    BY <2>4, <2>7, BindingReads DEF BindingLabels, Chosen, First
<1>3. CASE s.in.kind # "auto" /\ s.read.tenant \in choices
  <2> PICK at : at = IF s.in.kind = "bind" THEN "find" ELSE "verify"
    OBVIOUS
  <2> PICK r : r = Row(at, s.in, s.now, s.read)
    OBVIOUS
  <2>1. Reads(q, at, s.read) /\ at \in {"find", "verify"}
    BY <1>3 DEF Choose
  <2>2. r.at = at /\ r.in = s.in /\ r.read = s.read /\ r.now = s.now
    BY DEF Row
  <2>3. BackedSince(s.read.tenant, s.in.by, s.now)
    BY <1>3
  <2>4. at = "find" => s.in.kind = "bind"
    OBVIOUS
  <2>5. at = "verify" => s.in.kind = "switch"
    BY <1>1, <1>3 DEF BindingSound, Resolves
  <2>6. BindingSound(r)
    BY <1>1, <1>3, <2>1, <2>2, <2>3, <2>4, <2>5
       DEF BindingSound, Resolves, Chosen, First, Switches, Carried
  <2> QED
    BY <2>1, <2>6, BindingReads DEF BindingLabels, Chosen, First, Switches
<1>4. CASE ~(s.in.kind = "auto" /\ Cardinality(choices) = 1)
             /\ ~(s.in.kind # "auto" /\ s.read.tenant \in choices)
  <2>1. Ends(q)
    BY <1>4 DEF Choose
  <2> QED
    BY <2>1, EndSteps
<1> QED
  BY <1>2, <1>3, <1>4

\* The tenants of the memberships, one statement each.
LEMMA ResolveSteps ==
  ASSUME AccessInv, NEW q \in Requests, Resolve(q)
  PROVE  AccessInv'
<1> PICK s : s = req[q]
  OBVIOUS
<1>1. s.at = "resolve" /\ At(q, "resolve") /\ BindingSound(s)
  BY Holds DEF Resolve, At, Sound
<1>2. PICK t \in s.read.pending :
        LET known == ReadTenant(q, t)
        IN IF known.pending = {} THEN Choose(q, known.choices) ELSE Reads(q, "resolve", known)
  BY DEF Resolve
<1>3. PICK known : known = ReadTenant(q, t)
  OBVIOUS
<1>4. BindingRead(s.read) /\ s.read.pending \subseteq Tenant /\ s.read.choices \subseteq Tenant
  BY <1>1 DEF BindingSound, Resolves
<1>a. /\ known.pending = s.read.pending \ {t}
      /\ known.choices = s.read.choices \cup {u \in {t} : UsableTenant(u, s.in.by)}
  BY <1>3, <1>4, ReadTenantIs
<1>5. /\ BindingRead(known) /\ known.session = s.read.session
      /\ known.pending \subseteq Tenant /\ known.choices \in SUBSET Tenant
  BY <1>2, <1>3, <1>4, ReadTenantIs
<1>b. /\ \A u \in s.read.pending : MemberLasts(u, s.in.by, s.now)
      /\ \A u \in s.read.choices : BackedSince(u, s.in.by, s.now)
  BY <1>1 DEF BindingSound, Resolves
<1>c. UsableTenant(t, s.in.by) => BackedSince(t, s.in.by, s.now)
  BY <1>2, <1>b DEF UsableTenant, OwnActive, TenantActive, BackedSince, MemberLasts
<1>d. \A u \in known.choices : BackedSince(u, s.in.by, s.now)
  BY <1>a, <1>b, <1>c
<1>6. CASE known.pending = {}
  BY <1>1, <1>2, <1>3, <1>5, <1>6, <1>d, ChooseSteps
<1>7. CASE known.pending # {}
  <2> PICK r : r = Row("resolve", s.in, s.now, known)
    OBVIOUS
  <2>1. r.at = "resolve" /\ r.in = s.in /\ r.read = known /\ r.now = s.now
    BY DEF Row
  <2>a. \A u \in known.pending : MemberLasts(u, s.in.by, s.now)
    BY <1>a, <1>b
  <2>2. BindingSound(r)
    BY <1>1, <1>5, <1>d, <2>1, <2>a
       DEF BindingSound, Resolves, Chosen, First, Switches, Carried
  <2> QED
    BY <1>2, <1>3, <1>7, <2>2, BindingReads DEF BindingLabels, Resolves
<1> QED
  BY <1>6, <1>7

\* A conflict is recorded and ends the call.
LEMMA ConflictSteps ==
  ASSUME AccessInv, NEW q \in Requests, Conflict(q)
  PROVE  AccessInv'
<1> PICK entry : entry = Denial(req[q].in.by, "bind_conflict",
                                About(req[q].in.session, req[q].read.tenant))
  OBVIOUS
<1>1. EntrySound(entry)
  BY PlainEntrySound DEF PlainEntry, BindingActions, FirstBindActions, Denial
<1> QED
  BY <1>1, DenialKeeps, EndSteps DEF Conflict

\* What was chosen stays so over a statement that reads.
LEMMA ChosenReads ==
  ASSUME AccessInv, NEW q \in Requests, NEW at, Reads(q, at, req[q].read),
         {req[q].at, at} \subseteq First \/ {req[q].at, at} \subseteq Switches
  PROVE  AccessInv'
<1> PICK s : s = req[q]
  OBVIOUS
<1> PICK r : r = Row(at, s.in, s.now, s.read)
  OBVIOUS
<1>1. BindingSound(r)
  BY Holds, ChosenOn DEF Sound
<1> QED
  BY <1>1, BindingReads DEF BindingLabels, Chosen

\* The session is read before it is bound or switched.
LEMMA FindSessionSteps ==
  ASSUME AccessInv, NEW q \in Requests, FindSession(q)
  PROVE  AccessInv'
BY ChosenReads, ConflictSteps DEF FindSession, At, First

\* The membership, the tenant, the account and the session before a switch.
LEMMA VerifySteps ==
  ASSUME AccessInv, NEW q \in Requests,
         \/ VerifyMember(q, "verify", "verify.tenant")
         \/ VerifyTenant(q, "verify.tenant", "account")
         \/ FindAccountById(q) \/ FindBoundSession(q)
  PROVE  AccessInv'
<1>1. CASE VerifyMember(q, "verify", "verify.tenant")
  BY <1>1, ChosenReads, EndSteps DEF VerifyMember, At, Switches
<1>2. CASE VerifyTenant(q, "verify.tenant", "account")
  BY <1>2, ChosenReads, EndSteps DEF VerifyTenant, At, Switches
<1>3. CASE FindAccountById(q) \/ FindBoundSession(q)
  BY <1>3, ChosenReads, EndSteps DEF FindAccountById, FindBoundSession, At, Switches
<1> QED
  BY <1>1, <1>2, <1>3

-----------------------------------------------------------------------------
(* Bindings: the session is bound, and the choice is verified again *)

\* One session is written.
LEMMA SessionChanged ==
  ASSUME AccessInv, now' = now, NEW i \in Ids(db.sessions), NEW row \in SessionRow,
         SessionKept(db.sessions[i], row), SessionHolds(row),
         row.replaces = db.sessions[i].replaces,
         Wrote({"sessions"}), db'.sessions = [db.sessions EXCEPT ![i] = row]
  PROVE  /\ Advances /\ Uncounted /\ Ids(db'.sessions) = Ids(db.sessions)
         /\ \A j \in Ids(db.sessions) : db'.sessions[j] = IF j = i THEN row ELSE db.sessions[j]
<1>1. /\ \A s \in Ids(db.sessions) : SessionHolds(db.sessions[s])
      /\ Switched(db.sessions) /\ db.sessions \in Seq(SessionRow)
  BY SessionsMean DEF AccessInv
<1>2. /\ db'.sessions \in Seq(SessionRow) /\ Ids(db'.sessions) = Ids(db.sessions)
      /\ \A j \in Ids(db.sessions) : db'.sessions[j] = IF j = i THEN row ELSE db.sessions[j]
  BY <1>1, Updated DEF Ids
<1>3. SessionsKept
  BY <1>2 DEF SessionsKept, SessionKept
<1>4. \A j \in Ids(db'.sessions) : SessionHolds(db'.sessions[j])
  BY <1>1, <1>2
<1>5. \A j \in Ids(db.sessions) :
        /\ db'.sessions[j].replaces = db.sessions[j].replaces
        /\ db.sessions[j].revoked => db'.sessions[j].revoked
  BY <1>2 DEF SessionKept
<1>6. Switched(db'.sessions)
  BY <1>1, <1>2, <1>5 DEF Switched
<1> QED
  BY <1>2, <1>3, <1>4, <1>6, SessionsWritten

\* A session and its revocation.
LEMMA RevokedSession ==
  ASSUME AccessInv, now' = now, NEW i \in Ids(db.sessions),
         db' = [db EXCEPT !.sessions[i].revoked = TRUE]
  PROVE  /\ Advances /\ Uncounted /\ i \in Ids(db'.sessions) /\ db'.sessions[i].revoked
         /\ db'.sessions[i].user = db.sessions[i].user
         /\ db'.sessions[i].tenant = db.sessions[i].tenant
         /\ db'.sessions[i].replaces = db.sessions[i].replaces
<1> PICK old : old = db.sessions[i]
  OBVIOUS
<1>0. PICK row : row = [old EXCEPT !.revoked = TRUE]
  OBVIOUS
<1>1. /\ old \in SessionRow /\ SessionHolds(old)
      /\ DOMAIN db = Fields /\ db.sessions \in Seq(SessionRow)
  BY RowsTyped, SessionsMean DEF AccessInv
<1>2. row \in SessionRow /\ row.revoked = TRUE
  BY <1>0, <1>1 DEF SessionRow
<1>3. /\ row.user = old.user /\ row.tenant = old.tenant /\ row.bound = old.bound
      /\ row.asked = old.asked /\ row.proof = old.proof /\ row.replaces = old.replaces
      /\ row.since = old.since
  BY <1>0, <1>1 DEF SessionRow
<1>4. SessionKept(old, row) /\ SessionHolds(row)
  BY <1>1, <1>2, <1>3 DEF SessionKept, SessionHolds
<1>5. Wrote({"sessions"}) /\ db'.sessions = [db.sessions EXCEPT ![i] = row]
  BY <1>0, <1>1 DEF Wrote, Fields, Ids
<1>6. /\ Advances /\ Uncounted /\ Ids(db'.sessions) = Ids(db.sessions)
      /\ \A j \in Ids(db.sessions) : db'.sessions[j] = IF j = i THEN row ELSE db.sessions[j]
  BY <1>2, <1>3, <1>4, <1>5, SessionChanged
<1> QED
  BY <1>2, <1>3, <1>6

\* A session that is live and not bound is bound, now.
LEMMA SetTenantBindingSteps ==
  ASSUME AccessInv, NEW q \in Requests, SetTenantBinding(q)
  PROVE  AccessInv'
<1> PICK s : s = req[q]
  OBVIOUS
<1> PICK i : i = s.in.session
  OBVIOUS
<1> PICK tenant : tenant = s.read.tenant
  OBVIOUS
<1> PICK old : old = db.sessions[i]
  OBVIOUS
<1>0. PICK row : row = [old EXCEPT !.tenant = tenant, !.bound = now, !.since = s.now]
  OBVIOUS
<1>1. /\ s.at = "bind" /\ BindingSound(s) /\ i \in Ids(db.sessions) /\ s.read.session = i
      /\ tenant \in Tenant /\ s.now \in Nat /\ s.now <= now /\ now \in Nat
      /\ BackedSince(tenant, s.in.by, s.now) /\ s.in.kind # "switch" /\ old.user = s.in.by
  BY Holds DEF SetTenantBinding, At, Sound, BindingSound, Resolves, Chosen, First
<1>2. CASE Live(i) /\ db.sessions[i].tenant = Unbound
  <2> DEFINE tables == [db EXCEPT !.sessions[i].tenant = tenant, !.sessions[i].bound = now,
                                  !.sessions[i].since = s.now]
  <2> PICK r : r = Row("bound", s.in, s.now, s.read)
    OBVIOUS
  <2>1. Writes(q, tables, "bound", s.read)
    BY <1>2 DEF SetTenantBinding
  <2>a. now' = now
    BY <2>1 DEF Writes
  <2>2. /\ old \in SessionRow /\ SessionHolds(old)
        /\ DOMAIN db = Fields /\ db.sessions \in Seq(SessionRow)
    BY <1>1, RowsTyped, SessionsMean DEF AccessInv
  <2>3. row \in SessionRow /\ row.tenant = tenant /\ row.bound = now /\ row.since = s.now
    BY <1>0, <1>1, <2>2 DEF SessionRow
  <2>4. /\ row.user = old.user /\ row.asked = old.asked /\ row.proof = old.proof
        /\ row.replaces = old.replaces /\ row.revoked = old.revoked
    BY <1>0, <2>2 DEF SessionRow
  <2>5. SessionKept(old, row) /\ SessionHolds(row)
    BY <1>1, <1>2, <2>2, <2>3, <2>4 DEF SessionKept, SessionHolds
  <2>6. Wrote({"sessions"}) /\ db'.sessions = [db.sessions EXCEPT ![i] = row] /\ now' = now
    BY <1>0, <1>1, <2>1, <2>2 DEF Writes, Wrote, Fields, Ids
  <2>7. /\ Advances /\ Uncounted /\ Ids(db'.sessions) = Ids(db.sessions)
        /\ \A j \in Ids(db.sessions) : db'.sessions[j] = IF j = i THEN row ELSE db.sessions[j]
    BY <1>1, <2>3, <2>4, <2>5, <2>6, SessionChanged
  <2> HIDE DEF tables
  <2>8. r.at = "bound" /\ r.in = s.in /\ r.read = s.read /\ r.now = s.now
    BY DEF Row
  <2>9. db'.sessions[i].tenant = tenant /\ db'.sessions[i].user = s.in.by
    BY <1>1, <2>3, <2>4, <2>7
  <2>10. BindingSound(r)'
    <3>1. /\ r.in.kind \in {"auto", "bind"} /\ r.read.session = r.in.session
          /\ r.in.session = i /\ r.read.tenant = tenant /\ BindingRead(r.read)
      BY <1>1, <2>8 DEF BindingSound, Chosen, First
    <3>2. /\ i \in Ids(db'.sessions)
          /\ db'.sessions[i].user = r.in.by /\ db'.sessions[i].tenant = tenant
      BY <1>1, <2>7, <2>8, <2>9
    <3>3. /\ r.at \notin Resolves /\ r.at \notin Chosen /\ r.at \notin First /\ r.at \notin Switches
          /\ r.at \notin {"settle", "settle.surface"}
          /\ r.at # "recheck" /\ r.at # "verify.tenant.again" /\ r.at # "settle.surface"
      BY <2>8 DEF Resolves, Chosen, First, Switches
    <3>4. /\ r.in.kind \in {"auto", "bind", "switch"} /\ r.in.kind # "switch"
          /\ r.in.session \in Ids(db'.sessions) /\ db'.sessions[r.in.session].user = r.in.by
          /\ r.read.session \in Ids(db'.sessions) /\ db'.sessions[r.read.session].user = r.in.by
          /\ r.read.tenant \in Tenant /\ db'.sessions[r.read.session].tenant = r.read.tenant
          /\ r.read.session = r.in.session /\ BindingRead(r.read)
      BY <1>1, <3>1, <3>2
    <3> QED
      BY ONLY <3>3, <3>4 DEF BindingSound
  <2>11. Sound(r)'
    BY <1>1, <2>6, <2>8, <2>10
       DEF Sound, AccountLabels, AccountSound, RoleSound, TenancySound, OtherSound
  <2> QED
    BY <2>1, <2>7, <2>11, WriteKeeps DEF Judging
<1>3. CASE ~(Live(i) /\ db.sessions[i].tenant = Unbound)
  BY <1>3, ConflictSteps DEF SetTenantBinding
<1> QED
  BY <1>2, <1>3

\* A step that writes nothing but the trail.
LEMMA OnlyTrail ==
  ASSUME AccessInv, now' = now, Wrote({"trail"}), TrailInv'
  PROVE  Advances /\ Uncounted
<1>1. {"trail"} \in SUBSET Fields /\ Typed("trail", db'.trail)
  BY DEF Fields, Typed
<1>2. Advances
  BY <1>1, Frame DEF AccessInv, RequestsShaped
<1>3. Uncounted
  BY <1>1, UncountedBy
<1> QED
  BY <1>2, <1>3

\* A record of the trail that says what is so.
LEMMA TrailWritten ==
  ASSUME AccessInv, now' = now, NEW entry, EntrySound(entry), db' = Recorded(entry)
  PROVE  Advances /\ Uncounted
<1>1. Wrote({"trail"}) /\ db'.trail = db.trail \cup {entry}
  BY DEF Recorded, Wrote, Fields, AccessInv, TablesInv
<1>2. SessionsKept /\ MembersKept /\ TenantsKept
  BY <1>1 DEF Wrote, Fields, SessionsKept, SessionKept, MembersKept, TenantsKept, IsMember,
              MemberHeld, MemberLasts, TenantHeld
<1>3. \A e \in db.trail \cup {entry} : EntrySound(e)'
  BY <1>2, EntryStays DEF AccessInv, RequestsShaped, TablesInv, TrailInv
<1>4. TrailInv'
  BY <1>1, <1>3 DEF TrailInv
<1> QED
  BY <1>1, <1>4, OnlyTrail

\* A statement after the binding that writes, and goes on where nothing more
\* is known than the session.
LEMMA CarriedWrites ==
  ASSUME AccessInv, NEW q \in Requests, NEW s, s = req[q], BindingSound(s), s.at \in Carried,
         NEW at \in Bare, NEW tables, Writes(q, tables, at, s.read), Advances, Uncounted
  PROVE  AccessInv'
<1> PICK r : r = Row(at, s.in, s.now, s.read)
  OBVIOUS
<1>1. BindingSound(r) /\ r.at = at /\ r.now = s.now
  BY CarriedOn DEF Row
<1>2. Sound(r)
  BY <1>1, Holds, InBinding DEF BindingLabels, Bare
<1>3. at \notin Judging
  BY DEF Judging, Bare, Carried
<1> QED
  BY <1>2, <1>3, WriteKeeps

\* And one that reads.
LEMMA CarriedReads ==
  ASSUME AccessInv, NEW q \in Requests, NEW s, s = req[q], BindingSound(s), s.at \in Carried,
         NEW at \in Bare, Reads(q, at, s.read)
  PROVE  AccessInv'
<1> PICK r : r = Row(at, s.in, s.now, s.read)
  OBVIOUS
<1>1. BindingSound(r)
  BY CarriedOn
<1> QED
  BY <1>1, BindingReads DEF BindingLabels, Bare

\* The identity module records the binding that it has made.
LEMMA AuditBoundSteps ==
  ASSUME AccessInv, NEW q \in Requests,
         \/ AuditBound(q, "bound", "identity.session.tenant_bound", "relist")
         \/ AuditBound(q, "rebound", "identity.session.tenant_rebound", "verify.again")
  PROVE  AccessInv'
<1> PICK s : s = req[q]
  OBVIOUS
<1>1. s.at \in {"bound", "rebound"} /\ BindingSound(s)
  BY Holds DEF AuditBound, At, Sound
<1>2. PICK action \in {"identity.session.tenant_bound", "identity.session.tenant_rebound"},
           next \in {"relist", "verify.again"} :
        Writes(q, Recorded(Success(s.in.by, action, About(s.read.session, s.read.tenant))),
               next, s.read)
  BY DEF AuditBound
<1> PICK entry : entry = Success(s.in.by, action, About(s.read.session, s.read.tenant))
  OBVIOUS
<1>3. EntrySound(entry)
  BY PlainEntrySound DEF PlainEntry, BindingActions, FirstBindActions, Success
<1>4. Advances /\ Uncounted
  BY <1>2, <1>3, TrailWritten DEF Writes
<1>5. s.at \in Carried /\ next \in Bare
  BY <1>1 DEF Bare, Carried
<1> QED
  BY <1>1, <1>2, <1>4, <1>5, CarriedWrites

\* The membership reaches beyond the instant of the binding when it is active
\* after it.
LEMMA ActiveLasts ==
  ASSUME AccessInv, NEW i \in Ids(db.sessions), NEW tenant, NEW user,
         MembershipActiveAt(db.members[<<tenant, user>>], now), tenant \in Tenant, user \in User
  PROVE  MemberLasts(tenant, user, db.sessions[i].bound)
<1> PICK at : at = db.sessions[i].bound
  OBVIOUS
<1>1. at \in Nat /\ at <= now /\ now \in Nat
  BY RowsTyped DEF AccessInv, RequestsShaped, TablesInv, SessionsInv, SessionRow
<1> PICK to : to = db.members[<<tenant, user>>].to
  OBVIOUS
<1>2. to \in Date
  BY MembersTable DEF MemberRow
<1>3. to = Open \/ to > now
  BY DEF MembershipActiveAt
<1>4. to = Open \/ to > at
  BY <1>1, <1>2, <1>3 DEF Date
<1> QED
  BY <1>4 DEF MemberLasts

\* A session whose tenant is usable after it was bound is backed.
LEMMA UsableBacks ==
  ASSUME AccessInv, NEW i \in Ids(db.sessions), NEW tenant, NEW user,
         db.sessions[i].tenant = tenant, db.sessions[i].user = user,
         UsableTenant(tenant, user), MemberLasts(tenant, user, db.sessions[i].bound)
  PROVE  BackedWhenBound(i)
BY BackedMeans DEF UsableTenant, OwnActive, TenantActive, MemberHeld, TenantHeld, ActiveOrEnded

\* What a request after the binding holds of its session.
LEMMA CarriedSession ==
  ASSUME AccessInv, NEW s, BindingSound(s), s.at \in Carried
  PROVE  /\ s.read.session \in Ids(db.sessions) /\ s.read.tenant \in Tenant /\ s.in.by \in User
         /\ db.sessions[s.read.session].user = s.in.by
         /\ db.sessions[s.read.session].tenant = s.read.tenant
         /\ BindingRead(s.read)
         /\ s.in.kind # "switch" => s.read.session = s.in.session
         /\ s.in.kind = "switch" =>
              s.read.session \in SwitchedTo(s.in.by)
                /\ db.sessions[s.read.session].replaces = s.in.session
<1>1. /\ s.read.session \in Ids(db.sessions) /\ s.read.tenant \in Tenant
      /\ db.sessions[s.read.session].user = s.in.by
      /\ db.sessions[s.read.session].tenant = s.read.tenant
      /\ BindingRead(s.read) /\ s.in.session \in Ids(db.sessions)
      /\ s.in.kind # "switch" => s.read.session = s.in.session
      /\ s.in.kind = "switch" => db.sessions[s.read.session].replaces = s.in.session
  BY DEF BindingSound
<1>2. db.sessions[s.read.session] \in SessionRow
  BY <1>1, RowsTyped DEF AccessInv
<1>3. db.sessions \in Seq(SessionRow)
  BY DEF AccessInv, TablesInv, AccessTypeOK
<1>4. s.in.session # 0
  BY <1>1, <1>3 DEF Ids
<1> QED
  BY <1>1, <1>2, <1>4 DEF SessionRow, SwitchedTo

\* After a first binding the memberships are read again,
LEMMA RelistSteps ==
  ASSUME AccessInv, NEW q \in Requests, Relist(q)
  PROVE  AccessInv'
<1> PICK s : s = req[q]
  OBVIOUS
<1>0. PICK again : again = Resolving(s.read.session, s.read.tenant, s.in.by)
  OBVIOUS
<1> PICK at : at = IF again.pending = {} THEN "compensate" ELSE "recheck"
  OBVIOUS
<1> PICK r : r = Row(at, s.in, s.now, again)
  OBVIOUS
<1>1. s.at = "relist" /\ s.at \in Carried /\ BindingSound(s)
  BY Holds DEF Relist, At, Sound, Carried
<1>2. Reads(q, at, again) /\ at \in {"compensate", "recheck"}
  BY <1>0 DEF Relist
<1>3. /\ s.read.session \in Ids(db.sessions) /\ s.read.tenant \in Tenant /\ s.in.by \in User
      /\ db.sessions[s.read.session].user = s.in.by
      /\ db.sessions[s.read.session].tenant = s.read.tenant
  BY <1>1, CarriedSession
<1>4. /\ BindingRead(again) /\ again.session = s.read.session /\ again.tenant = s.read.tenant
      /\ again.pending = OwnActiveTenants(s.in.by) /\ again.choices = {}
  BY <1>0, ResolvingIs
<1>5. again.tenant \in again.pending =>
        MemberLasts(again.tenant, s.in.by, db.sessions[again.session].bound)
  BY <1>3, <1>4, ActiveLasts DEF OwnActiveTenants
<1>6. r.at = at /\ r.in = s.in /\ r.read = again
  BY DEF Row
<1>7. /\ s.in.kind \in {"auto", "bind", "switch"} /\ s.in.session \in Ids(db.sessions)
      /\ db.sessions[s.in.session].user = s.in.by
      /\ s.in.kind # "switch" => s.read.session = s.in.session
      /\ s.in.kind = "switch" => db.sessions[s.read.session].replaces = s.in.session
  BY <1>1 DEF BindingSound
<1>8. BindingSound(r)
  BY <1>2, <1>3, <1>4, <1>5, <1>6, <1>7 DEF BindingSound, Resolves, Chosen, First, Switches, Carried
<1> QED
  BY <1>2, <1>8, BindingReads DEF BindingLabels, Carried

\* A choice is confirmed by a membership and a tenant that are read after the
\* session was bound.
LEMMA RecheckSteps ==
  ASSUME AccessInv, NEW q \in Requests, Recheck(q)
  PROVE  AccessInv'
<1> PICK s : s = req[q]
  OBVIOUS
<1>1. s.at = "recheck" /\ s.at \in Carried /\ BindingSound(s)
  BY Holds DEF Recheck, At, Sound, Carried
<1>2. PICK t \in s.read.pending :
        LET known == ReadTenant(q, t)
        IN IF known.pending # {} THEN Reads(q, "recheck", known)
           ELSE Reads(q, IF known.tenant \in known.choices THEN "settle" ELSE "compensate", s.read)
  BY DEF Recheck
<1>0. PICK known : known = ReadTenant(q, t)
  OBVIOUS
<1>3. /\ s.read.session \in Ids(db.sessions) /\ s.read.tenant \in Tenant /\ s.in.by \in User
      /\ db.sessions[s.read.session].user = s.in.by
      /\ db.sessions[s.read.session].tenant = s.read.tenant
      /\ BindingRead(s.read)
  BY <1>1, CarriedSession
<1>4. /\ BindingRead(known) /\ known.session = s.read.session /\ known.tenant = s.read.tenant
      /\ known.pending = s.read.pending \ {t}
      /\ known.choices = s.read.choices \cup {u \in {t} : UsableTenant(u, s.in.by)}
  BY <1>0, <1>3, ReadTenantIs
<1>5. /\ s.read.tenant \in s.read.pending =>
           MemberLasts(s.read.tenant, s.in.by, db.sessions[s.read.session].bound)
      /\ s.read.tenant \in s.read.choices => BackedWhenBound(s.read.session)
      /\ s.in.kind \in {"auto", "bind", "switch"} /\ s.in.session \in Ids(db.sessions)
      /\ db.sessions[s.in.session].user = s.in.by
      /\ s.in.kind # "switch" => s.read.session = s.in.session
      /\ s.in.kind = "switch" => db.sessions[s.read.session].replaces = s.in.session
  BY <1>1 DEF BindingSound
<1>6. s.read.tenant \in known.choices => BackedWhenBound(s.read.session)
  <2>1. ASSUME s.read.tenant = t, UsableTenant(t, s.in.by)
        PROVE  BackedWhenBound(s.read.session)
    BY <1>2, <1>3, <1>5, <2>1, UsableBacks
  <2> QED
    BY <1>4, <1>5, <2>1
<1>7. CASE known.pending # {}
  <2> PICK r : r = Row("recheck", s.in, s.now, known)
    OBVIOUS
  <2>1. r.at = "recheck" /\ r.in = s.in /\ r.read = known
    BY DEF Row
  <2>2. known.tenant \in known.pending =>
          MemberLasts(known.tenant, s.in.by, db.sessions[known.session].bound)
    BY <1>4, <1>5
  <2>3. known.tenant \in known.choices => BackedWhenBound(known.session)
    BY <1>4, <1>6
  <2>4. BindingSound(r)
    BY <1>3, <1>4, <1>5, <2>1, <2>2, <2>3
       DEF BindingSound, Resolves, Chosen, First, Switches, Carried
  <2>5. Reads(q, "recheck", known)
    BY <1>0, <1>2, <1>7
  <2> QED
    BY <2>4, <2>5, BindingReads DEF BindingLabels, Carried
<1>8. CASE known.pending = {} /\ s.read.tenant \in known.choices
  <2> PICK r : r = Row("settle", s.in, s.now, s.read)
    OBVIOUS
  <2>1. r.at = "settle" /\ r.in = s.in /\ r.read = s.read
    BY DEF Row
  <2>2. BindingSound(r)
    BY <1>3, <1>5, <1>6, <1>8, <2>1 DEF BindingSound, Resolves, Chosen, First, Switches, Carried
  <2>3. Reads(q, "settle", s.read)
    BY <1>0, <1>2, <1>4, <1>8
  <2> QED
    BY <2>2, <2>3, BindingReads DEF BindingLabels, Carried
<1>9. CASE known.pending = {} /\ s.read.tenant \notin known.choices
  <2>1. Reads(q, "compensate", s.read)
    BY <1>0, <1>2, <1>4, <1>9
  <2> QED
    BY <1>1, <2>1, CarriedReads DEF Bare, Carried
<1> QED
  BY <1>7, <1>8, <1>9

-----------------------------------------------------------------------------
(* Bindings: a switch, and how a binding ends *)

\* After a switch the membership is verified again,
LEMMA VerifyMemberAgainSteps ==
  ASSUME AccessInv, NEW q \in Requests, VerifyMember(q, "verify.again", "verify.tenant.again")
  PROVE  AccessInv'
<1> PICK s : s = req[q]
  OBVIOUS
<1>1. s.at = "verify.again" /\ s.at \in Carried /\ BindingSound(s)
  BY Holds DEF VerifyMember, At, Sound, Carried
<1>2. /\ s.read.session \in Ids(db.sessions) /\ s.read.tenant \in Tenant /\ s.in.by \in User
      /\ db.sessions[s.read.session].user = s.in.by
      /\ db.sessions[s.read.session].tenant = s.read.tenant
  BY <1>1, CarriedSession
<1>3. ASSUME MembershipActiveAt(db.members[<<s.read.tenant, s.in.by>>], now),
             Reads(q, "verify.tenant.again", s.read)
      PROVE  AccessInv'
  <2> PICK r : r = Row("verify.tenant.again", s.in, s.now, s.read)
    OBVIOUS
  <2>1. r.at = "verify.tenant.again" /\ r.in = s.in /\ r.read = s.read
    BY DEF Row
  <2>2. MemberLasts(s.read.tenant, s.in.by, db.sessions[s.read.session].bound)
    BY <1>2, <1>3, ActiveLasts
  <2>3. BindingSound(r)
    BY <1>1, <2>1, <2>2 DEF BindingSound, Resolves, Chosen, First, Switches, Carried
  <2> QED
    BY <1>3, <2>3, BindingReads DEF BindingLabels, Carried
<1>4. ASSUME Reads(q, "compensate", s.read)
      PROVE  AccessInv'
  BY <1>1, <1>4, CarriedReads DEF Bare, Carried
<1> QED
  BY <1>3, <1>4 DEF VerifyMember

\* and the tenant: whether the switch stands.
LEMMA VerifyTenantAgainSteps ==
  ASSUME AccessInv, NEW q \in Requests, VerifyTenant(q, "verify.tenant.again", "settle")
  PROVE  AccessInv'
<1> PICK s : s = req[q]
  OBVIOUS
<1>1. s.at = "verify.tenant.again" /\ s.at \in Carried /\ BindingSound(s)
  BY Holds DEF VerifyTenant, At, Sound, Carried
<1>2. /\ s.read.session \in Ids(db.sessions) /\ s.read.tenant \in Tenant /\ s.in.by \in User
      /\ db.sessions[s.read.session].user = s.in.by
      /\ db.sessions[s.read.session].tenant = s.read.tenant
  BY <1>1, CarriedSession
<1>3. ASSUME UsableTenant(s.read.tenant, s.in.by), Reads(q, "settle", s.read)
      PROVE  AccessInv'
  <2> PICK r : r = Row("settle", s.in, s.now, s.read)
    OBVIOUS
  <2>1. r.at = "settle" /\ r.in = s.in /\ r.read = s.read
    BY DEF Row
  <2>2. MemberLasts(s.read.tenant, s.in.by, db.sessions[s.read.session].bound)
    BY <1>1 DEF BindingSound
  <2>3. BackedWhenBound(s.read.session)
    BY <1>2, <1>3, <2>2, UsableBacks
  <2>4. BindingSound(r)
    BY <1>1, <2>1, <2>3 DEF BindingSound, Resolves, Chosen, First, Switches, Carried
  <2> QED
    BY <1>3, <2>4, BindingReads DEF BindingLabels, Carried
<1>4. ASSUME Reads(q, "compensate", s.read)
      PROVE  AccessInv'
  BY <1>1, <1>4, CarriedReads DEF Bare, Carried
<1> QED
  BY <1>3, <1>4 DEF VerifyTenant

\* A session and its replacement, in one transaction.
Replacing(i, new) == [db EXCEPT !.sessions = Append([@ EXCEPT ![i].revoked = TRUE], new)]

Replacement(i, tenant, since) ==
  LET old == db.sessions[i] IN Session(old.user, old.proof, old.asked, tenant, i, since)

\* Such a pair of rows is sound: no session was replaced twice.
LEMMA ReplacedSession ==
  ASSUME AccessInv, now' = now, NEW i \in Ids(db.sessions), Live(i), NEW tenant \in Tenant,
         NEW since \in Nat, since <= now, BackedSince(tenant, db.sessions[i].user, since),
         db' = Replacing(i, Replacement(i, tenant, since)), NEW n, n = Len(db.sessions) + 1
  PROVE  /\ Advances /\ Uncounted
         /\ i \in Ids(db'.sessions) /\ db'.sessions[i].user = db.sessions[i].user
         /\ n \in Ids(db'.sessions) /\ db'.sessions[n].user = db.sessions[i].user
         /\ db'.sessions[n].tenant = tenant /\ db'.sessions[n].replaces = i
<1>000. PICK old : old = db.sessions[i]
  OBVIOUS
<1>00. PICK new : new = Session(old.user, old.proof, old.asked, tenant, i, since)
  OBVIOUS
<1>a. db' = Replacing(i, new)
  BY <1>000, <1>00 DEF Replacement
<1>0. PICK row : row = [old EXCEPT !.revoked = TRUE]
  OBVIOUS
<1>1. /\ old \in SessionRow /\ SessionHolds(old) /\ DOMAIN db = Fields
      /\ \A s \in Ids(db.sessions) : SessionHolds(db.sessions[s])
      /\ Switched(db.sessions) /\ db.sessions \in Seq(SessionRow) /\ now \in Nat
  BY <1>000, RowsTyped, SessionsMean DEF AccessInv, RequestsShaped
<1>2. row \in SessionRow /\ row.revoked = TRUE
  BY <1>0, <1>1 DEF SessionRow
<1>3. /\ row.user = old.user /\ row.tenant = old.tenant /\ row.bound = old.bound
      /\ row.asked = old.asked /\ row.proof = old.proof /\ row.replaces = old.replaces
      /\ row.since = old.since
  BY <1>0, <1>1 DEF SessionRow
<1>4. SessionKept(old, row) /\ SessionHolds(row)
  BY <1>1, <1>2, <1>3 DEF SessionKept, SessionHolds
<1>5. i \in Nat /\ i # 0 /\ Len(db.sessions) \in Nat /\ Ids(db.sessions) = 1 .. Len(db.sessions)
  BY <1>1 DEF Ids
<1>6. /\ new \in SessionRow /\ new.replaces = i /\ new.user = old.user /\ new.tenant = tenant
      /\ new.asked = old.asked /\ new.proof = old.proof /\ new.bound = now /\ new.since = since
  BY <1>00, <1>1, <1>5 DEF Session, SessionRow
<1>7. SessionHolds(new)
  BY <1>000, <1>1, <1>6 DEF SessionHolds
<1>8. PICK revoked : revoked = [db.sessions EXCEPT ![i] = row]
  OBVIOUS
<1>9. /\ revoked \in Seq(SessionRow) /\ DOMAIN revoked = Ids(db.sessions)
      /\ \A j \in Ids(db.sessions) : revoked[j] = IF j = i THEN row ELSE db.sessions[j]
  BY <1>1, <1>2, <1>8, Updated DEF Ids
<1>10. Len(revoked) + 1 = n
  BY <1>5, <1>9
<1>11. Wrote({"sessions"}) /\ db'.sessions = Append(revoked, new)
  BY <1>000, <1>a, <1>0, <1>1, <1>8 DEF Replacing, Wrote, Fields, Ids
<1>12. /\ db'.sessions \in Seq(SessionRow) /\ Ids(db'.sessions) = Ids(db.sessions) \cup {n}
       /\ db'.sessions[n] = new /\ \A j \in Ids(db.sessions) : db'.sessions[j] = revoked[j]
  <2> PICK sessions : sessions = Append(revoked, new)
    OBVIOUS
  <2>0. revoked \in Seq(SessionRow) /\ new \in SessionRow
    BY <1>6, <1>9
  <2>1. /\ sessions \in Seq(SessionRow) /\ DOMAIN sessions = DOMAIN revoked \cup {Len(revoked) + 1}
        /\ sessions[Len(revoked) + 1] = new
        /\ \A j \in DOMAIN revoked : sessions[j] = revoked[j]
    BY <2>0, Inserted
  <2>2. db'.sessions = sessions
    BY <1>11
  <2> QED
    BY <1>9, <1>10, <2>1, <2>2 DEF Ids
<1>13. /\ db'.sessions[i] = row
       /\ \A j \in Ids(db.sessions) : j # i => db'.sessions[j] = db.sessions[j]
       /\ i # n /\ n \notin Ids(db.sessions)
  BY <1>5, <1>9, <1>12
<1>14. SessionsKept
  <2>1. ASSUME NEW j \in Ids(db.sessions)
        PROVE  SessionKept(db.sessions[j], db'.sessions[j])
    BY <1>000, <1>4, <1>13 DEF SessionKept
  <2> QED
    BY <1>12, <2>1 DEF SessionsKept
<1>15. \A j \in Ids(db'.sessions) : SessionHolds(db'.sessions[j])
  BY <1>1, <1>4, <1>7, <1>12, <1>13
<1>16. Switched(db'.sessions)
  <2>1. \A j \in Ids(db.sessions) :
          /\ db'.sessions[j].replaces = db.sessions[j].replaces
          /\ db.sessions[j].revoked => db'.sessions[j].revoked
    BY <1>000, <1>2, <1>3, <1>13
  <2>2. \A j \in Ids(db.sessions) : db.sessions[j].replaces # i
    BY <1>1, <1>5 DEF Switched, Live
  <2>3. db'.sessions[i].revoked /\ db'.sessions[n].replaces = i
    BY <1>2, <1>6, <1>12, <1>13
  <2>4. \A j \in Ids(db'.sessions) :
          db'.sessions[j].replaces # 0 =>
            /\ db'.sessions[j].replaces \in Ids(db'.sessions)
            /\ db'.sessions[db'.sessions[j].replaces].revoked
    <3>1. ASSUME NEW j \in Ids(db.sessions), db'.sessions[j].replaces # 0
          PROVE  /\ db'.sessions[j].replaces \in Ids(db'.sessions)
                 /\ db'.sessions[db'.sessions[j].replaces].revoked
      <4> PICK k : k = db'.sessions[j].replaces
        OBVIOUS
      <4>1. k = db.sessions[j].replaces /\ k # 0
        BY <2>1, <3>1
      <4>2. k \in Ids(db.sessions) /\ db.sessions[k].revoked
        BY <1>1, <4>1 DEF Switched
      <4> QED
        BY <1>12, <2>1, <4>2
    <3>2. ASSUME NEW j \in Ids(db'.sessions), j = n
          PROVE  /\ db'.sessions[j].replaces \in Ids(db'.sessions)
                 /\ db'.sessions[db'.sessions[j].replaces].revoked
      BY <1>12, <2>3, <3>2
    <3>3. \A j \in Ids(db'.sessions) : j \in Ids(db.sessions) \/ j = n
      BY <1>12
    <3> QED
      BY <3>1, <3>2, <3>3, Zenon
  <2>5. ASSUME NEW j \in Ids(db'.sessions), NEW k \in Ids(db'.sessions),
               db'.sessions[j].replaces = db'.sessions[k].replaces, db'.sessions[j].replaces # 0
        PROVE  j = k
    <3>1. CASE j \in Ids(db.sessions) /\ k \in Ids(db.sessions)
      <4>1. /\ db.sessions[j].replaces = db.sessions[k].replaces
            /\ db.sessions[j].replaces # 0
        BY <2>1, <2>5, <3>1
      <4> QED
        BY <1>1, <3>1, <4>1 DEF Switched
    <3>2. CASE j = n \/ k = n
      <4>1. \A m \in Ids(db.sessions) : db'.sessions[m].replaces # i
        BY <2>1, <2>2
      <4>2. db'.sessions[j].replaces = i /\ db'.sessions[k].replaces = i
        BY <2>3, <2>5, <3>2
      <4>3. j \notin Ids(db.sessions) /\ k \notin Ids(db.sessions)
        BY <4>1, <4>2
      <4> QED
        BY <1>12, <2>5, <4>3
    <3> QED
      BY <1>12, <3>1, <3>2
  <2> QED
    BY <2>4, <2>5 DEF Switched
<1>17. Advances /\ Uncounted
  BY <1>11, <1>12, <1>14, <1>15, <1>16, SessionsWritten
<1> QED
  BY <1>000, <1>3, <1>6, <1>12, <1>13, <1>17

\* A live session is switched, one that is not ends the call.
LEMMA RebindSessionSteps ==
  ASSUME AccessInv, NEW q \in Requests, RebindSession(q)
  PROVE  AccessInv'
<1> PICK s : s = req[q]
  OBVIOUS
<1> PICK i, tenant, n : /\ i = s.in.session /\ tenant = s.read.tenant
                        /\ n = Len(db.sessions) + 1
  OBVIOUS
<1>0. PICK old : old = db.sessions[i]
  OBVIOUS
<1>00. PICK new : new = Session(old.user, old.proof, old.asked, tenant, i, s.now)
  OBVIOUS
<1>1. /\ s.at = "rebind" /\ BindingSound(s) /\ i \in Ids(db.sessions) /\ BindingRead(s.read)
      /\ tenant \in Tenant /\ s.now \in Nat /\ s.now <= now /\ now \in Nat
      /\ s.in.kind = "switch" /\ old.user = s.in.by /\ BackedSince(tenant, old.user, s.now)
  BY <1>0, Holds DEF RebindSession, At, Sound, BindingSound, Chosen, Switches
<1>2. CASE Live(i)
  <2>0. PICK read : read = [s.read EXCEPT !.session = n]
    OBVIOUS
  <2>1. Writes(q, [db EXCEPT !.sessions = Append([@ EXCEPT ![i].revoked = TRUE], new)],
               "rebound", read)
    BY <1>0, <1>00, <1>2, <2>0 DEF RebindSession
  <2>21. /\ now' = now /\ i \in Ids(db.sessions) /\ tenant \in Tenant /\ Live(i)
         /\ db' = Replacing(i, Replacement(i, tenant, s.now))
         /\ s.now \in Nat /\ s.now <= now /\ BackedSince(tenant, db.sessions[i].user, s.now)
    BY <1>0, <1>00, <1>1, <1>2, <2>1 DEF Writes, Replacing, Replacement
  <2>22. /\ Advances /\ Uncounted
         /\ i \in Ids(db'.sessions) /\ db'.sessions[i].user = db.sessions[i].user
         /\ Len(db.sessions) + 1 \in Ids(db'.sessions)
         /\ db'.sessions[Len(db.sessions) + 1].user = db.sessions[i].user
         /\ db'.sessions[Len(db.sessions) + 1].tenant = tenant
         /\ db'.sessions[Len(db.sessions) + 1].replaces = i
    BY ONLY AccessInv, <2>21, ReplacedSession
  <2>2. /\ Advances /\ Uncounted
        /\ i \in Ids(db'.sessions) /\ db'.sessions[i].user = db.sessions[i].user
        /\ n \in Ids(db'.sessions) /\ db'.sessions[n].user = db.sessions[i].user
        /\ db'.sessions[n].tenant = tenant /\ db'.sessions[n].replaces = i
    BY ONLY <2>22, n = Len(db.sessions) + 1
  <2>3. BindingRead(read) /\ read.session = n /\ read.tenant = tenant
    BY <1>1, <2>0 DEF BindingRead
  <2> PICK r : r = Row("rebound", s.in, s.now, read)
    OBVIOUS
  <2>4. r.at = "rebound" /\ r.in = s.in /\ r.read = read /\ r.now = s.now
    BY DEF Row
  <2>5. BindingSound(r)'
    <3>1. r.in.session = i /\ r.read.session = n /\ r.read.tenant = tenant
      BY <2>3, <2>4
    <3>2. r.in.kind = "switch" /\ BindingRead(r.read) /\ r.in.by = s.in.by
      BY <1>1, <2>3, <2>4
    <3>3. db'.sessions[i].user = s.in.by /\ db'.sessions[n].user = s.in.by
      BY <1>0, <1>1, <2>2
    <3>4. r.at \notin Resolves \cup Chosen \cup First \cup Switches
      BY <2>4 DEF Resolves, Chosen, First, Switches
    <3>5. db'.sessions[n].replaces = i /\ db'.sessions[n].tenant = tenant
      BY <2>2
    <3> QED
      BY <1>1, <2>2, <2>4, <3>1, <3>2, <3>3, <3>4, <3>5 DEF BindingSound
  <2>6. now' = now
    BY <2>1 DEF Writes
  <2>7. Sound(r)'
    BY <1>1, <2>4, <2>5, <2>6
       DEF Sound, AccountLabels, AccountSound, RoleSound, TenancySound, OtherSound
  <2> QED
    BY <2>1, <2>2, <2>7, WriteKeeps DEF Judging
<1>3. CASE ~Live(i)
  BY <1>3, EndSteps DEF RebindSession
<1> QED
  BY <1>2, <1>3

\* A binding that does not stand leaves no session.
LEMMA CompensateSteps ==
  ASSUME AccessInv, NEW q \in Requests, Compensate(q)
  PROVE  AccessInv'
<1> PICK s : s = req[q]
  OBVIOUS
<1> PICK i : i = s.read.session
  OBVIOUS
<1>0. PICK entry : entry = Denial(s.in.by, "membership_revoked_concurrently",
                                  BindingRecord(s.in, s.read.tenant))
  OBVIOUS
<1>1. s.at = "compensate" /\ s.at \in Carried /\ BindingSound(s)
  BY Holds DEF Compensate, At, Sound, Carried
<1>2. /\ i \in Ids(db.sessions) /\ s.read.tenant \in Tenant
      /\ db.sessions[i].tenant = s.read.tenant
      /\ s.in.kind # "switch" => i = s.in.session
      /\ s.in.kind = "switch" => i \in SwitchedTo(s.in.by)
  BY <1>1, CarriedSession
<1>3. WritesAudited(q, [db EXCEPT !.sessions[i].revoked = TRUE], entry)
  BY <1>0 DEF Compensate
<1>4. /\ Advances /\ Uncounted /\ i \in Ids(db'.sessions) /\ db'.sessions[i].revoked
      /\ db'.sessions[i].user = db.sessions[i].user
      /\ db'.sessions[i].tenant = db.sessions[i].tenant
      /\ db'.sessions[i].replaces = db.sessions[i].replaces
  BY <1>2, <1>3, RevokedSession DEF WritesAudited, Writes
<1>5. /\ entry.action = "membership_revoked_concurrently" /\ entry.by = s.in.by
      /\ entry.about.tenant = s.read.tenant
  BY <1>0 DEF Denial, BindingRecord, About, AboutMembership
<1>6. EntrySound(entry)'
  <2>1. CASE s.in.kind = "switch"
    <3>1. entry.about.resource = "tenant_membership"
      BY <1>0, <2>1 DEF Denial, BindingRecord, AboutMembership
    <3>2. i \in SwitchedTo(s.in.by)' /\ db'.sessions[i].tenant = s.read.tenant
      BY <1>2, <1>4, <2>1 DEF SwitchedTo
    <3> QED
      BY <1>2, <1>4, <1>5, <3>1, <3>2 DEF EntrySound, RecordIsSo, FirstBindActions
  <2>2. CASE s.in.kind # "switch"
    <3>1. entry.about.resource = "identity_session" /\ entry.about.session = i
      BY <1>0, <1>2, <2>2 DEF Denial, BindingRecord, About
    <3> QED
      BY <1>2, <1>4, <1>5, <3>1 DEF EntrySound, RecordIsSo, FirstBindActions
  <2> QED
    BY <2>1, <2>2
<1> QED
  BY <1>3, <1>4, <1>6, AuditedKeeps

\* A call that is over but for its answer.
LEMMA DoneKeeps ==
  ASSUME AccessInv, NEW q \in Requests, NEW tables, NEW value, Writes(q, tables, "done", value),
         Advances, Uncounted
  PROVE  AccessInv'
<1> PICK s : s = req[q]
  OBVIOUS
<1> PICK r : r = Row("done", s.in, s.now, value)
  OBVIOUS
<1>1. r.at = "done" /\ r.now = s.now
  BY DEF Row
<1>2. Sound(r)
  BY <1>1, Holds, InOther DEF OtherSound
<1> QED
  BY <1>2, WriteKeeps DEF Judging

\* What a request that records a binding holds of its session.
LEMMA SettlingSession ==
  ASSUME AccessInv, NEW s, BindingSound(s), s.at \in {"settle", "settle.surface"}
  PROVE  /\ s.read.tenant \in Tenant /\ BoundAs(s.read.session, s.read.tenant)
         /\ s.in.kind \in {"auto", "bind", "switch"}
         /\ s.in.kind # "switch" =>
              s.read.session = s.in.session /\ s.in.session \in Ids(db.sessions)
         /\ s.in.kind = "switch" =>
              /\ s.read.session \in SwitchedTo(s.in.by)
              /\ db.sessions[s.read.session].replaces = s.in.session
<1>1. BackedWhenBound(s.read.session) /\ s.at \in Carried /\ s.in.kind \in {"auto", "bind", "switch"}
  BY DEF BindingSound, Carried
<1> QED
  BY <1>1, CarriedSession DEF BoundAs

\* The record of a binding that stands, by tenancy where it is a switch.
LEMMA SettleRecorded ==
  ASSUME AccessInv, NEW s, BindingSound(s), s.at = "settle", now' = now,
         db' = Recorded(Success(s.in.by, BindingAction(s.in.kind),
                                BindingRecord(s.in, s.read.tenant)))
  PROVE  Advances /\ Uncounted
<1> PICK entry : entry = Success(s.in.by, BindingAction(s.in.kind),
                                 BindingRecord(s.in, s.read.tenant))
  OBVIOUS
<1>1. /\ entry.by = s.in.by /\ entry.about.tenant = s.read.tenant
      /\ entry.action = BindingAction(s.in.kind)
  BY DEF Success, BindingRecord, About, AboutMembership
<1>2. EntrySound(entry)
  <2>1. CASE s.in.kind = "switch"
    <3>1. entry.action = "tenancy.tenant.switch"
      BY <1>1, <2>1 DEF BindingAction
    <3> QED
      BY <1>1, <2>1, <3>1, SettlingSession DEF EntrySound, RecordIsSo, FirstBindActions
  <2>2. CASE s.in.kind # "switch"
    <3>1. entry.action \in FirstBindActions
      BY <1>1, <2>2, SettlingSession DEF BindingAction, FirstBindActions
    <3>2. entry.about.session = s.in.session
      BY <2>2 DEF Success, BindingRecord, About
    <3> QED
      BY <1>1, <2>2, <3>1, <3>2, SettlingSession DEF EntrySound, RecordIsSo, FirstBindActions
  <2> QED
    BY <2>1, <2>2
<1> QED
  BY <1>2, TrailWritten

\* The surface's record of a switch, about the session that was replaced.
LEMMA SurfaceRecorded ==
  ASSUME AccessInv, NEW s, BindingSound(s), s.at = "settle.surface", s.in.kind = "switch",
         now' = now,
         db' = Recorded(Success(s.in.by, "platform.tenant_binding.switched",
                                About(s.in.session, s.read.tenant)))
  PROVE  Advances /\ Uncounted
<1> PICK entry : entry = Success(s.in.by, "platform.tenant_binding.switched",
                                 About(s.in.session, s.read.tenant))
  OBVIOUS
<1>1. /\ entry.by = s.in.by /\ entry.about.tenant = s.read.tenant
      /\ entry.about.session = s.in.session
      /\ entry.action = "platform.tenant_binding.switched"
  BY DEF Success, About
<1>2. EntrySound(entry)
  BY <1>1, SettlingSession DEF EntrySound, RecordIsSo, FirstBindActions
<1> QED
  BY <1>2, TrailWritten

\* A binding that stands is recorded, or reversed where it cannot be.
LEMMA SettleSteps ==
  ASSUME AccessInv, NEW q \in Requests, Settle(q)
  PROVE  AccessInv'
<1> PICK s : s = req[q]
  OBVIOUS
<1> PICK at, action : /\ at = IF s.in.kind = "switch" THEN "settle.surface" ELSE "done"
                      /\ action = BindingAction(s.in.kind)
  OBVIOUS
<1> DEFINE tables == Recorded(Success(s.in.by, action, BindingRecord(s.in, s.read.tenant)))
<1>1. s.at = "settle" /\ s.at \in Carried /\ BindingSound(s) /\ s.in.kind \in {"auto", "bind", "switch"}
  BY Holds DEF Settle, At, Sound, BindingSound, Carried
<1>3. ASSUME Writes(q, tables, at, s.read)
      PROVE  AccessInv'
  <2>1. Advances /\ Uncounted
    BY <1>1, <1>3, SettleRecorded DEF Writes
  <2> HIDE DEF tables
  <2>2. CASE at = "done"
    BY <1>3, <2>1, <2>2, DoneKeeps
  <2>3. CASE at = "settle.surface"
    <3> PICK r : r = Row("settle.surface", s.in, s.now, s.read)
      OBVIOUS
    <3>1. r.at = "settle.surface" /\ r.in = s.in /\ r.read = s.read /\ r.now = s.now
      BY DEF Row
    <3>2. BindingSound(r)
      BY <1>1, <2>3, <3>1 DEF BindingSound, Resolves, Chosen, First, Switches, Carried
    <3>3. Sound(r)
      BY <3>1, <3>2, Holds, InBinding DEF BindingLabels, Carried
    <3> QED
      BY <1>3, <2>1, <2>3, <3>3, WriteKeeps DEF Judging
  <2> QED
    BY <2>2, <2>3
<1>4. ASSUME Reads(q, "reverse", s.read)
      PROVE  AccessInv'
  BY <1>1, <1>4, CarriedReads DEF Bare, Carried
<1> QED
  BY <1>3, <1>4 DEF Settle

\* And so at the surface of a switch.
LEMMA SettleSurfaceSteps ==
  ASSUME AccessInv, NEW q \in Requests, SettleSurface(q)
  PROVE  AccessInv'
<1> PICK s : s = req[q]
  OBVIOUS
<1> DEFINE tables == Recorded(Success(s.in.by, "platform.tenant_binding.switched",
                                      About(s.in.session, s.read.tenant)))
<1>1. s.at = "settle.surface" /\ s.at \in Carried /\ BindingSound(s) /\ s.in.kind = "switch"
  BY Holds DEF SettleSurface, At, Sound, BindingSound, Carried
<1>2. ASSUME Writes(q, tables, "done", s.read)
      PROVE  AccessInv'
  <2>1. Advances /\ Uncounted
    BY <1>1, <1>2, SurfaceRecorded DEF Writes
  <2> HIDE DEF tables
  <2> QED
    BY <1>2, <2>1, DoneKeeps
<1>3. ASSUME Reads(q, "reverse", s.read)
      PROVE  AccessInv'
  BY <1>1, <1>3, CarriedReads DEF Bare, Carried
<1> QED
  BY <1>2, <1>3 DEF SettleSurface

\* A binding that could not be recorded leaves no session.
LEMMA ReverseSteps ==
  ASSUME AccessInv, NEW q \in Requests, Reverse(q)
  PROVE  AccessInv'
<1> PICK s : s = req[q]
  OBVIOUS
<1> PICK i : i = s.read.session
  OBVIOUS
<1>1. s.at = "reverse" /\ s.at \in Carried /\ BindingSound(s)
  BY Holds DEF Reverse, At, Sound, Carried
<1>2. i \in Ids(db.sessions)
  BY <1>1, CarriedSession
<1>3. Writes(q, [db EXCEPT !.sessions[i].revoked = TRUE], "done", <<>>)
  BY DEF Reverse
<1>4. Advances /\ Uncounted
  BY <1>2, <1>3, RevokedSession DEF Writes
<1> QED
  BY <1>3, <1>4, DoneKeeps

-----------------------------------------------------------------------------
(* Profiles and their history *)

\* The status the first n rows of a given history leave an account in.
StatusOf(history, user, n) ==
  LET mine == {i \in 1 .. n : history[i].user = user}
  IN IF mine = {} THEN "ACTIVE" ELSE history[Max(mine)].to

\* Which is what the property says of the table.
LEMMA StatusAfterIs ==
  ASSUME NEW user, NEW n
  PROVE  /\ StatusAfter(user, n) = StatusOf(db.history, user, n)
         /\ StatusAfter(user, n)' = StatusOf(db'.history, user, n)
BY DEF StatusAfter, StatusOf

\* A row that is added leaves what the earlier ones say, and is the last word
\* of its own account.
LEMMA StatusOfLonger ==
  ASSUME NEW h \in Seq(HistoryRow), NEW e \in HistoryRow, NEW u
  PROVE  /\ \A m \in 0 .. Len(h) : StatusOf(Append(h, e), u, m) = StatusOf(h, u, m)
         /\ StatusOf(Append(h, e), u, Len(h) + 1) =
              IF u = e.user THEN e.to ELSE StatusOf(h, u, Len(h))
<1> PICK g, n : g = Append(h, e) /\ n = Len(h)
  OBVIOUS
<1>1. /\ n \in Nat /\ DOMAIN h = 1 .. n /\ g[n + 1] = e
      /\ \A i \in 1 .. n : g[i] = h[i]
  BY Inserted
<1>2. ASSUME NEW m \in 0 .. n
      PROVE  StatusOf(g, u, m) = StatusOf(h, u, m)
  <2> PICK S : S = {i \in 1 .. m : h[i].user = u}
    OBVIOUS
  <2>1. m \in Nat /\ S \in SUBSET (1 .. m) /\ \A i \in 1 .. m : i \in 1 .. n /\ g[i] = h[i]
    BY <1>1
  <2>2. {i \in 1 .. m : g[i].user = u} = S
    BY <2>1
  <2>3. S # {} => g[Max(S)] = h[Max(S)]
    BY <2>1, MaxIsThere
  <2> QED
    BY <2>2, <2>3 DEF StatusOf
<1>3. CASE u = e.user
  <2> PICK S : S = {i \in 1 .. (n + 1) : g[i].user = u}
    OBVIOUS
  <2>1. n + 1 \in S /\ S \in SUBSET (1 .. (n + 1)) /\ n + 1 \in Nat
    BY <1>1, <1>3
  <2> PICK m : m = n + 1
    OBVIOUS
  <2>a. m \in Nat /\ S \in SUBSET (1 .. m) /\ m \in S /\ \A k \in S : k <= m
    BY <1>1, <2>1
  <2>2. Max(S) = n + 1
    BY <2>a, MaxIsOne
  <2>0. S # {}
    BY <2>1
  <2>3. StatusOf(g, u, n + 1) = g[Max(S)].to
    BY <2>0, Zenon DEF StatusOf
  <2>4. StatusOf(g, u, n + 1) = e.to
    BY <1>1, <2>2, <2>3
  <2> QED
    BY <1>2, <1>3, <2>4
<1>4. CASE u # e.user
  <2> PICK S : S = {i \in 1 .. n : h[i].user = u}
    OBVIOUS
  <2>1. \A i : i \in {j \in 1 .. (n + 1) : g[j].user = u} <=> i \in S
    BY <1>1, <1>4
  <2>2. {j \in 1 .. (n + 1) : g[j].user = u} = S
    BY <2>1
  <2>3. S # {} => Max(S) \in 1 .. n
    BY <1>1, MaxIsThere
  <2>4. StatusOf(g, u, n + 1) = StatusOf(h, u, n)
    BY <1>1, <2>2, <2>3 DEF StatusOf
  <2> QED
    BY <1>2, <1>4, <2>4
<1> QED
  BY <1>3, <1>4

\* A transition leads from status to status.
LEMMA TransitionsTyped ==
  \A status \in ProfileStatus : StatusTransitions[status] \subseteq ProfileStatus
BY DEF ProfileStatus, StatusTransitions

\* A legal transition of the status that is there, and its row of history.
LEMMA MovedKeeps ==
  ASSUME AccessInv, now' = now, NEW user \in User, NEW from, from = db.profiles[user].status,
         NEW to \in StatusTransitions[from], db' = Moved(user, from, to)
  PROVE  Advances /\ Uncounted
<1> PICK h, p : h = db.history /\ p = db.profiles[user]
  OBVIOUS
<1>0. PICK e : e = [user |-> user, from |-> from, to |-> to]
  OBVIOUS
<1>00. PICK row : row = [p EXCEPT !.status = to]
  OBVIOUS
<1>1. /\ h \in Seq(HistoryRow) /\ db.profiles \in [User -> ProfileRow] /\ p \in ProfileRow
      /\ DOMAIN db = Fields /\ StatusIsHistory /\ TablesInv /\ now \in Nat
  BY DEF AccessInv, TablesInv, AccessTypeOK, RequestsShaped
<1>2. from \in ProfileStatus /\ to \in ProfileStatus
  BY <1>1, TransitionsTyped DEF ProfileRow
<1>3. e \in HistoryRow /\ e.user = user /\ e.from = from /\ e.to = to
  BY <1>0, <1>2 DEF HistoryRow
<1>4. row \in ProfileRow /\ row.status = to
  BY <1>00, <1>1, <1>2 DEF ProfileRow
<1>5. /\ Wrote({"profiles", "history"})
      /\ db'.history = Append(h, e) /\ db'.profiles = [db.profiles EXCEPT ![user] = row]
  BY <1>0, <1>00, <1>1 DEF Moved, Wrote, Fields
<1>6. /\ db'.profiles \in [User -> ProfileRow]
      /\ \A u \in User : db'.profiles[u] = IF u = user THEN row ELSE db.profiles[u]
  BY <1>1, <1>4, <1>5
<1> DEFINE g == Append(h, e)
           n == Len(h)
<1>7. /\ g \in Seq(HistoryRow) /\ n \in Nat /\ DOMAIN h = 1 .. n /\ DOMAIN g = 1 .. n \cup {n + 1}
      /\ g[n + 1] = e /\ \A i \in 1 .. n : g[i] = h[i]
  BY <1>1, <1>3, Inserted
<1>8. Len(g) = n + 1
  BY <1>7
<1>9. \A u : /\ \A m \in 0 .. n : StatusOf(g, u, m) = StatusOf(h, u, m)
             /\ StatusOf(g, u, n + 1) = IF u = user THEN to ELSE StatusOf(h, u, n)
  <2>1. h \in Seq(HistoryRow) /\ e \in HistoryRow
    BY <1>1, <1>3
  <2>2. \A u : /\ \A m \in 0 .. n : StatusOf(g, u, m) = StatusOf(h, u, m)
               /\ StatusOf(g, u, n + 1) = IF u = e.user THEN e.to ELSE StatusOf(h, u, n)
    BY <2>1, StatusOfLonger, Zenon
  <2> HIDE DEF g, n
  <2> QED
    BY <1>3, <2>2
<1>a. n = Len(h) /\ db'.history = g
  BY <1>5
<1> HIDE DEF g, n
<1>10. /\ \A i \in 1 .. n : /\ h[i].from = StatusOf(h, h[i].user, i - 1)
                            /\ h[i].to \in StatusTransitions[h[i].from]
       /\ \A u \in User : db.profiles[u].status = StatusOf(h, u, n)
  BY <1>1, <1>7, <1>a, StatusAfterIs DEF StatusIsHistory, Ids
<1>11. ASSUME NEW i \in 1 .. (n + 1)
       PROVE  /\ g[i].from = StatusOf(g, g[i].user, i - 1)
              /\ g[i].to \in StatusTransitions[g[i].from]
  <2>1. CASE i \in 1 .. n
    <3>1. g[i] = h[i] /\ i - 1 \in 0 .. n
      BY <1>7, <2>1
    <3> QED
      BY <1>9, <1>10, <2>1, <3>1
  <2>2. CASE i = n + 1
    <3>1. g[i] = e /\ i - 1 = n /\ n \in 0 .. n
      BY <1>7, <2>2
    <3> QED
      BY <1>3, <1>9, <1>10, <3>1
  <2> QED
    BY <1>7, <2>1, <2>2
<1>12. ASSUME NEW u \in User
       PROVE  db'.profiles[u].status = StatusOf(g, u, n + 1)
  BY <1>4, <1>6, <1>9, <1>10
<1>13. StatusIsHistory'
  <2>1. /\ db'.history = g /\ Ids(db'.history) = 1 .. (n + 1) /\ Len(db'.history) = n + 1
        /\ DOMAIN db'.profiles = User
    BY <1>a, <1>6, <1>7, <1>8 DEF Ids
  <2>2. \A u, m : StatusAfter(u, m)' = StatusOf(g, u, m)
    BY <2>1, StatusAfterIs
  <2> QED
    BY <1>11, <1>12, <2>1, <2>2 DEF StatusIsHistory
<1>14. {"profiles", "history"} \in SUBSET Fields
  BY DEF Fields
<1>15. \A f \in {"profiles", "history"} : Typed(f, db'[f])
  BY <1>a, <1>6, <1>7 DEF Typed
<1>16. Advances
  BY <1>1, <1>5, <1>13, <1>14, <1>15, Frame
<1>17. Uncounted
  BY <1>5, <1>14, UncountedBy
<1> QED
  BY <1>16, <1>17

\* A subject's own fields are none of the status.
LEMMA UpdateOwnFieldsSteps ==
  ASSUME AccessInv, NEW q \in Requests, NEW user \in User, NEW fields \in Nat,
         UpdateOwnFields(q, user, fields)
  PROVE  AccessInv'
<1>0. PICK row : row = [db.profiles[user] EXCEPT !.fields = fields]
  OBVIOUS
<1>1. /\ db.profiles \in [User -> ProfileRow] /\ db.profiles[user] \in ProfileRow
      /\ DOMAIN db = Fields /\ TablesInv /\ now \in Nat
  BY DEF AccessInv, TablesInv, AccessTypeOK, RequestsShaped
<1>2. row \in ProfileRow /\ row.status = db.profiles[user].status
  BY <1>0, <1>1 DEF ProfileRow
<1>3. /\ Wrote({"profiles"}) /\ db'.profiles = [db.profiles EXCEPT ![user] = row]
      /\ now' = now /\ req' = req
  BY <1>0, <1>1 DEF UpdateOwnFields, Wrote, Fields
<1>4. /\ db'.profiles \in [User -> ProfileRow]
      /\ \A u \in User : db'.profiles[u] = IF u = user THEN row ELSE db.profiles[u]
  BY <1>1, <1>2, <1>3
<1>5. StatusIsHistory'
  <2>1. db'.history = db.history
    BY <1>3 DEF Wrote, Fields
  <2>2. /\ DOMAIN db'.profiles = DOMAIN db.profiles
        /\ \A u \in DOMAIN db.profiles : db'.profiles[u].status = db.profiles[u].status
    BY <1>1, <1>2, <1>4
  <2> QED
    BY <1>1, <2>1, <2>2, HistoryStays
<1>6. {"profiles"} \in SUBSET Fields /\ Typed("profiles", db'.profiles)
  BY <1>4 DEF Fields, Typed
<1>7. Advances
  BY <1>1, <1>3, <1>5, <1>6, Frame
<1>8. Uncounted
  BY <1>3, <1>6, UncountedBy
<1> QED
  BY <1>3, <1>7, <1>8, WorldKeeps

\* A request to disable reads the status it starts from.
LEMMA ProfileCallSteps ==
  ASSUME AccessInv, NEW q \in Requests, ProfileCall(q)
  PROVE  AccessInv'
<1>1. ASSUME NEW user \in User, BeginDisableRequest(q, user)
      PROVE  AccessInv'
  <2> PICK in, status : in = [by |-> user] /\ status = db.profiles[user].status
    OBVIOUS
  <2> PICK r : r = Row("transition", in, now, status)
    OBVIOUS
  <2>1. /\ Begins(q, "profiles", "transition", in, status)
        /\ "DISABLE_REQUESTED" \in StatusTransitions[status]
    BY <1>1 DEF BeginDisableRequest
  <2>2. now \in Nat /\ status \in ProfileStatus
    BY DEF AccessInv, TablesInv, AccessTypeOK, RequestsShaped, ProfileRow
  <2>3. r.at = "transition" /\ r.in.by = user /\ r.read = status /\ r.now = now
    BY DEF Row
  <2>4. OtherSound(r)
    BY <2>1, <2>2, <2>3 DEF OtherSound
  <2>5. Sound(r) /\ Judged(r, req[q])
    BY <2>2, <2>3, <2>4, InOther, NotJudged DEF Judging
  <2> QED
    BY <2>1, <2>5, BeginKeeps
<1> QED
  BY <1>1, UpdateOwnFieldsSteps DEF ProfileCall

\* The update is conditional on the status that was read.
LEMMA TransitionOwnStatusSteps ==
  ASSUME AccessInv, NEW q \in Requests, TransitionOwnStatus(q)
  PROVE  AccessInv'
<1> PICK user, from : user = req[q].in.by /\ from = req[q].read
  OBVIOUS
<1> DEFINE tables == Moved(user, from, "DISABLE_REQUESTED")
           entry == Success(user, "users.account.disable_requested", [status |-> from])
<1>1. user \in User /\ "DISABLE_REQUESTED" \in StatusTransitions[from]
  BY Holds DEF TransitionOwnStatus, At, Sound, OtherSound
<1>2. ASSUME db.profiles[user].status = from, WritesAudited(q, tables, entry)
      PROVE  AccessInv'
  <2>1. Advances /\ Uncounted
    BY <1>1, <1>2, MovedKeeps DEF WritesAudited, Writes
  <2>2. PlainEntry(entry)
    BY DEF PlainEntry, BindingActions, FirstBindActions, Success
  <2> HIDE DEF tables, entry
  <2> QED
    BY <1>2, <2>1, <2>2, PlainAuditedKeeps
<1> QED
  BY <1>2, EndSteps DEF TransitionOwnStatus, MayTransition

\* What acts on a request goes through the same transitions.
LEMMA StatusActedOnSteps ==
  ASSUME AccessInv, NEW user \in User, NEW to \in ProfileStatus, StatusActedOn(user, to)
  PROVE  AccessInv'
<1> PICK from : from = db.profiles[user].status
  OBVIOUS
<1>1. /\ to \in StatusTransitions[from] /\ db' = Moved(user, from, to) /\ now' = now /\ req' = req
  BY DEF StatusActedOn
<1>2. Advances /\ Uncounted
  BY <1>1, MovedKeeps
<1> QED
  BY <1>1, <1>2, WorldKeeps

\* The record of what a call has done, and the call is over.
LEMMA AppendAuditSteps ==
  ASSUME AccessInv, NEW q \in Requests, AppendAudit(q)
  PROVE  AccessInv'
<1> PICK entry : entry = req[q].read
  OBVIOUS
<1>1. EntrySound(entry)
  BY Holds DEF AppendAudit, At, Sound, OtherSound
<1>2. db' = Recorded(entry) /\ now' = now /\ req' = [req EXCEPT ![q] = Idle]
  BY DEF AppendAudit
<1>3. Advances /\ Uncounted
  BY <1>1, <1>2, TrailWritten
<1>4. Turns(q, Idle)
  BY <1>2 DEF Turns, Idle, Row, AccessInv, RequestsShaped
<1>5. Sound(Idle)'
  <2>1. Sound(Idle)
    BY IdleSound DEF AccessInv, RequestsShaped
  <2> QED
    BY <1>3, <2>1, SoundStays DEF AccessInv, RequestsShaped
<1>6. Judged(Idle, req[q])
  BY NotJudged DEF Idle, Judging
<1> QED
  BY <1>3, <1>4, <1>5, <1>6, StepKeeps

-----------------------------------------------------------------------------
(* Every step *)

\* A call that was refused by a limit, or has nothing left to do, ends.
LEMMA AnsweredSteps ==
  ASSUME AccessInv, NEW q \in Requests, Refused(q) \/ Done(q) \/ Abandon(q)
  PROVE  AccessInv'
BY EndSteps DEF Refused, Done, Abandon

\* The statements of registration, login and the second factors.
LEMMA AccountsSteps ==
  ASSUME AccessInv, NEW q \in Requests, AccountsStep(q)
  PROVE  AccessInv'
<1>1. CASE \/ SpendSend(q) \/ SpendLogin(q) \/ SpendChallenge(q) \/ Refused(q) \/ Done(q)
           \/ CreateAccount(q) \/ FindForResend(q) \/ CoolDown(q) \/ IssueVerification(q)
  BY <1>1, SpendSendSteps, SpendLoginSteps, SpendChallengeSteps, AnsweredSteps,
     CreateAccountSteps, FindForResendSteps, CoolDownSteps, IssueVerificationSteps
<1>2. CASE \/ LatestActive(q) \/ CodeMismatch(q) \/ ConsumeCode(q) \/ MarkEmailVerified(q)
           \/ FindAccount(q) \/ CheckLockout(q) \/ CheckSecondFactor(q) \/ IssueSession(q)
           \/ RecordFailure(q, "failed", "login_failed")
  BY <1>2, LatestActiveSteps, CodeMismatchSteps, ConsumeCodeSteps, MarkEmailVerifiedSteps,
     FindAccountSteps, CheckLockoutSteps, CheckSecondFactorSteps, IssueSessionSteps,
     LoginFailedSteps
<1>3. CASE \/ SaveEnrolment(q) \/ ConfirmEnrolment(q) \/ ReplaceRecoveryCodes(q)
           \/ OpenChallenge(q) \/ VerifyTotp(q) \/ CheckRecoveryLock(q) \/ ClaimRecoveryCode(q)
           \/ RecordFailure(q, "unproven", "recovery_code_failed")
           \/ ProveDisable(q) \/ DisableEnrolment(q)
  BY <1>3, SaveEnrolmentSteps, ConfirmEnrolmentSteps, ReplaceRecoveryCodesSteps,
     OpenChallengeSteps, VerifyTotpSteps, CheckRecoveryLockSteps, ClaimRecoveryCodeSteps,
     CodeFailedSteps, ProveDisableSteps, DisableEnrolmentSteps
<1> QED
  BY <1>1, <1>2, <1>3 DEF AccountsStep

\* The statements of roles, memberships and invitations.
LEMMA TenancySteps ==
  ASSUME AccessInv, NEW q \in Requests, TenancyStep(q)
  PROVE  AccessInv'
BY DelegateSteps, InsertAssignmentOfSteps, RevokeAssignmentSteps, CreateOwnMembershipSteps,
   AuthorizeInvitationSteps, CreateForTenantSteps, RevokeOpenSteps, RedemptionGateSteps,
   RecordFailedAttemptSteps, RedeemSteps
   DEF TenancyStep

\* The statements of a binding.
LEMMA BindingSteps ==
  ASSUME AccessInv, NEW q \in Requests, BindingStep(q)
  PROVE  AccessInv'
<1>1. CASE \/ Resolve(q) \/ FindSession(q) \/ SetTenantBinding(q)
           \/ AuditBound(q, "bound", "identity.session.tenant_bound", "relist")
           \/ Relist(q) \/ Recheck(q)
  BY <1>1, ResolveSteps, FindSessionSteps, SetTenantBindingSteps, AuditBoundSteps, RelistSteps,
     RecheckSteps
<1>2. CASE \/ VerifyMember(q, "verify", "verify.tenant")
           \/ VerifyTenant(q, "verify.tenant", "account")
           \/ FindAccountById(q) \/ FindBoundSession(q) \/ RebindSession(q)
           \/ AuditBound(q, "rebound", "identity.session.tenant_rebound", "verify.again")
  BY <1>2, VerifySteps, RebindSessionSteps, AuditBoundSteps
<1>3. CASE \/ VerifyMember(q, "verify.again", "verify.tenant.again")
           \/ VerifyTenant(q, "verify.tenant.again", "settle")
           \/ Compensate(q) \/ Settle(q) \/ SettleSurface(q) \/ Reverse(q)
  BY <1>3, VerifyMemberAgainSteps, VerifyTenantAgainSteps, CompensateSteps, SettleSteps,
     SettleSurfaceSteps, ReverseSteps
<1> QED
  BY <1>1, <1>2, <1>3 DEF BindingStep

\* Any statement of a call that has begun.
LEMMA CallSteps ==
  ASSUME AccessInv, NEW q \in Requests, CallStep(q)
  PROVE  AccessInv'
BY AccountsSteps, TenancySteps, BindingSteps, TransitionOwnStatusSteps, AppendAuditSteps,
   AnsweredSteps
   DEF CallStep

\* What changes from outside of the calls.
LEMMA OperatorSteps ==
  ASSUME AccessInv, Operators
  PROVE  AccessInv'
BY SetStatusSteps, MemberChangedSteps, StatusActedOnSteps, TenantChangedSteps DEF Operators

\* AccessInv is inductive.
LEMMA NextSteps ==
  ASSUME AccessInv, [Next]_vars
  PROVE  AccessInv'
<1>1. CASE UNCHANGED vars
  <2>1. db' = db /\ now' = now /\ req' = req
    BY <1>1 DEF vars
  <2>2. Advances /\ Uncounted
    BY <2>1, NothingWritten DEF AccessInv, RequestsShaped
  <2> QED
    BY <2>1, <2>2, WorldKeeps
<1>2. ASSUME NEW q \in Requests,
             \/ AccountCall(q) \/ RoleCall(q) \/ TenancyCall(q) \/ BindingCall(q) \/ ProfileCall(q)
             \/ CallStep(q)
      PROVE  AccessInv'
  BY <1>2, AccountCallSteps, RoleCallSteps, TenancyCallSteps, BindingCallSteps, ProfileCallSteps,
     CallSteps
<1> QED
  BY <1>1, <1>2, OperatorSteps, TickSteps DEF Next

-----------------------------------------------------------------------------
(* What was there before *)

\* Any seed of the tables is sound.
LEMMA SeededTables ==
  ASSUME Seeded, now = 0
  PROVE  TablesInv
<1>1. /\ DOMAIN db = Fields /\ AccessTypeOK
      /\ db.codes = <<>> /\ db.events = <<>> /\ db.proofs = <<>> /\ db.trail = {}
      /\ db.history = <<>>
  BY DEF Seeded, Fields
<1>2. RecoveryInv
  <2>1. \A u, w \in User : \A r \in db.recovery[u], s \in db.recovery[w] :
          r.code <= db.minted /\ ~r.used /\ ~s.used /\ (r.code = s.code => u = w)
    BY DEF Seeded
  <2>2. ASSUME NEW u \in User, NEW w \in User, NEW r \in db.recovery[u], NEW s \in db.recovery[w],
               r.code = s.code
        PROVE  u = w /\ r = s
    <3>1. r \in RecoveryRow /\ s \in RecoveryRow
      BY <1>1 DEF AccessTypeOK
    <3>2. r = [code |-> r.code, used |-> r.used] /\ s = [code |-> s.code, used |-> s.used]
      BY <3>1 DEF RecoveryRow
    <3>3. r.used = s.used
      BY <2>1, <3>1 DEF RecoveryRow
    <3> QED
      BY <2>1, <2>2, <3>2, <3>3
  <2>3. DOMAIN db.proofs = {}
    BY <1>1
  <2>4. RecoveryCodesProveOnce
    BY <2>3 DEF RecoveryCodesProveOnce
  <2> QED
    BY <2>1, <2>2, <2>3, <2>4 DEF RecoveryInv, Ids
<1>3. SessionsInv
  <2>1. ASSUME NEW s \in Ids(db.sessions)
        PROVE  /\ db.sessions[s].asked = 0 /\ db.sessions[s].bound = 0 /\ db.sessions[s].replaces = 0
               /\ db.sessions[s].since = 0
               /\ db.sessions[s].tenant # Unbound => BackedWhenBound(s)
               /\ MfaActive(db.mfa[db.sessions[s].user])
                    => db.mfa[db.sessions[s].user].confirmed >= db.sessions[s].asked
    <3> PICK user, factor : user = db.sessions[s].user /\ factor = db.mfa[user]
      OBVIOUS
    <3>1. /\ db.sessions[s].asked = 0 /\ db.sessions[s].bound = 0 /\ db.sessions[s].replaces = 0
          /\ db.sessions[s].since = 0
          /\ db.sessions[s].tenant # Unbound => BackedWhenBound(s)
      BY DEF Seeded
    <3>2. db.sessions[s] \in SessionRow /\ db.mfa \in [User -> FactorRow]
      BY <1>1 DEF AccessTypeOK, Ids
    <3>3. user \in User
      BY <3>2 DEF SessionRow
    <3>4. factor.confirmed \in Date
      BY <3>2, <3>3 DEF FactorRow
    <3> QED
      BY <3>1, <3>4 DEF MfaActive, Date
  <2>2. PasswordIsNotEnough
    BY <2>1 DEF PasswordIsNotEnough
  <2>3. BoundOnMembership
    BY <2>1 DEF BoundOnMembership, BackedWhenBound
  <2> QED
    BY <2>1, <2>2, <2>3 DEF SessionsInv
<1>4. RolesInv
  BY DEF Seeded, RolesInv, GrantersHadAuthority
<1>5. InvitationsInv
  <2>1. ASSUME NEW i \in Ids(db.invitations), NEW row, row = db.invitations[i]
        PROVE  InvitationHolds(row) /\ row.redeemed = Open
    <3>1. row.redeemed = Open /\ row.asked = 0 /\ OwnActive(row.tenant, row.by)
      BY <2>1 DEF Seeded
    <3>2. PICK j \in Ids(db.roles) :
            /\ db.roles[j].user = row.by /\ db.roles[j].tenant = row.tenant
            /\ db.roles[j].role = "TENANT_ADMIN"
      BY <2>1 DEF Seeded
    <3>3. HeldSince(0, db.roles[j])
      <4>1. db.roles[j] \in AssignmentRow
        BY <1>1 DEF AccessTypeOK, Ids
      <4>2. db.roles[j].to \in Date
        BY <4>1 DEF AssignmentRow
      <4> QED
        BY <4>2 DEF HeldSince, Date
    <3>4. TenantRoleHeld(row.by, "TENANT_ADMIN", row.tenant, row.asked)
      BY <3>1, <3>2, <3>3 DEF TenantRoleHeld
    <3>5. MemberHeld(row.tenant, row.by, row.asked)
      BY <3>1 DEF OwnActive, MemberHeld, ActiveOrEnded
    <3> QED
      BY <3>1, <3>4, <3>5 DEF InvitationHolds
  <2>2. Distinct(db.invitations)
    BY <2>1 DEF Distinct
  <2> QED
    BY <2>1, <2>2 DEF InvitationsInv
<1>6. TrailInv
  BY <1>1 DEF TrailInv
<1>7. StatusIsHistory
  <2>1. Ids(db.history) = {} /\ Len(db.history) = 0 /\ DOMAIN db.profiles = User
    BY <1>1 DEF Ids, AccessTypeOK
  <2>2. ASSUME NEW u
        PROVE  StatusAfter(u, 0) = "ACTIVE"
    BY DEF StatusAfter
  <2>3. \A u \in User : db.profiles[u].status = "ACTIVE"
    BY DEF Seeded
  <2> QED
    BY <2>1, <2>2, <2>3 DEF StatusIsHistory
<1> QED
  BY <1>1, <1>2, <1>3, <1>4, <1>5, <1>6, <1>7 DEF TablesInv

\* And so is the first state.
LEMMA InitInv == Init => AccessInv
<1> SUFFICES ASSUME Init PROVE AccessInv
  OBVIOUS
<1>1. Seeded /\ now = 0 /\ DOMAIN req = Requests /\ \A q \in Requests : req[q] = Idle
  BY DEF Init
<1>2. TablesInv
  BY <1>1, SeededTables
<1>3. RequestsShaped
  BY <1>1 DEF RequestsShaped, Row, Idle
<1>4. \A q \in Requests : Sound(req[q])
  BY <1>1, IdleSound
<1>5. ASSUME NEW type, NEW user
      PROVE  RecentFailures(type, user) = 0
  <2>1. Ids(db.events) = {}
    BY <1>1 DEF Seeded, Ids
  <2>2. Counted(db.events, now, type, user) = {}
    BY <2>1 DEF Counted
  <2> QED
    BY <2>2, RecentIs, FS_EmptySet
<1>6. LoginsCounted /\ CodesCounted
  <2>1. ASSUME NEW u \in User
        PROVE  /\ Within(0, Failing(u), LockoutThreshold)
               /\ Within(0, Unproving(u), RecoveryThreshold)
    BY WithinEnters, Thresholds DEF Failing, Unproving
  <2> QED
    BY <1>5, <2>1 DEF LoginsCounted, CodesCounted
<1>7. VerificationsCounted
  BY <1>1 DEF Seeded, VerificationsCounted, Ids
<1>8. GuessesCounted
  <2>1. ASSUME NEW i \in Ids(db.invitations)
        PROVE  db.invitations[i].attempts = 0 /\ Within(0, Guessing(i), MaxAttempts)
    BY <1>1, WithinEnters, Thresholds DEF Guessing, Seeded
  <2> QED
    BY <2>1 DEF GuessesCounted
<1> QED
  BY <1>2, <1>3, <1>4, <1>6, <1>7, <1>8 DEF AccessInv, CountersInv

\* The inductive invariant of access: what its tables hold, what each call
\* holds between two statements, and what is judged and not yet counted.
THEOREM Invariance == Spec => []AccessInv
BY InitInv, NextSteps, PTL DEF Spec

-----------------------------------------------------------------------------
(* What follows *)

\* Every column keeps the type and the CHECKs that the schemas declare.
THEOREM AccessTypes == Spec => []AccessTypeOK
<1>1. AccessInv => AccessTypeOK
  BY DEF AccessInv, TablesInv
<1> QED
  BY <1>1, Invariance, PTL

\* What is counted alone is within the bound as well.
LEMMA WithinMeans ==
  ASSUME NEW c \in Nat, NEW P \in SUBSET Requests, NEW bound \in Nat, Within(c, P, bound)
  PROVE  c < bound + Cardinality(Requests)
<1>1. Cardinality(P) \in Nat /\ Cardinality(Requests) \in Nat
  BY AccountsAssumption, FS_Subset, FS_CardinalityType
<1> QED
  BY <1>1 DEF Within

\* The bounds of the failures follow from the counts with what is judged.
LEMMA Accounted ==
  ASSUME AccessInv
  PROVE  ProofsAreAccounted
<1>1. TablesInv /\ CountersInv
  BY DEF AccessInv
<1>2. LedgerIsBounded
  <2>1. ASSUME NEW u \in User
        PROVE  /\ RecentFailures("login_failed", u) < LockoutThreshold + Cardinality(Requests)
               /\ RecentFailures("recovery_code_failed", u)
                    < RecoveryThreshold + Cardinality(Requests)
    <3>1. /\ RecentFailures("login_failed", u) \in Nat
          /\ RecentFailures("recovery_code_failed", u) \in Nat
      BY <1>1, RecentIsNatural
    <3>2. Failing(u) \in SUBSET Requests /\ Unproving(u) \in SUBSET Requests
      BY DEF Failing, Unproving
    <3>3. /\ Within(RecentFailures("login_failed", u), Failing(u), LockoutThreshold)
          /\ Within(RecentFailures("recovery_code_failed", u), Unproving(u), RecoveryThreshold)
      BY <1>1 DEF CountersInv, LoginsCounted, CodesCounted
    <3> QED
      BY <3>1, <3>2, <3>3, WithinMeans, Thresholds
  <2> QED
    BY <2>1 DEF LedgerIsBounded
<1>3. CodeAttemptsAreBounded
  <2>1. ASSUME NEW i \in Ids(db.codes)
        PROVE  db.codes[i].attempts < CodeAttempts + Cardinality(Requests)
    <3>1. db.codes[i].attempts \in Nat
      BY <1>1, RowsTyped DEF CodeRow
    <3>2. Mismatching(i) \in SUBSET Requests
      BY DEF Mismatching
    <3>3. Within(db.codes[i].attempts, Mismatching(i), CodeAttempts)
      BY <1>1 DEF CountersInv, VerificationsCounted
    <3> QED
      BY <3>1, <3>2, <3>3, WithinMeans, Thresholds
  <2> QED
    BY <2>1 DEF CodeAttemptsAreBounded
<1> QED
  BY <1>1, <1>2, <1>3 DEF ProofsAreAccounted, TablesInv, RecoveryInv, SessionsInv

\* However calls overlap, an account lets through no more failures than its
\* thresholds and one for each call in flight, a recovery code proves one
\* thing, and no session passes an active second factor over (login.ts,
\* verify-email.ts, consumeRecoveryCode).
THEOREM ProofsAccounted == Spec => []ProofsAreAccounted
BY Accounted, Invariance, PTL


\* What the rows of an invitation and an assignment hold is their authority.
LEMMA Authorities ==
  ASSUME AccessInv
  PROVE  AuthorityWasHeld
<1>1. TablesInv /\ CountersInv
  BY DEF AccessInv
<1>2. \A i \in Ids(db.invitations) :
        InvitationHolds(db.invitations[i]) /\ db.invitations[i] \in InvitationRow
  BY <1>1, RowsTyped DEF TablesInv, InvitationsInv
<1>3. InvitersHadAuthority
  BY <1>2 DEF InvitersHadAuthority, InvitationHolds, MemberHeld, TenantRoleHeld, ActiveOrEnded
<1>4. GrantersHadAuthority
  BY <1>1 DEF TablesInv, RolesInv
<1>5. RedemptionsAreUnique
  <2>1. ASSUME NEW i \in Ids(db.invitations), db.invitations[i].redeemed # Open
        PROVE  /\ db.invitations[i].redeemedBy = db.invitations[i].email
               /\ IsMember(db.invitations[i].tenant, db.invitations[i].email)
               /\ db.invitations[i].revoked = Open
    BY <1>2, <2>1 DEF InvitationHolds
  <2>2. ASSUME NEW i \in Ids(db.invitations), NEW j \in Ids(db.invitations) \ {i},
               db.invitations[i].redeemed # Open, db.invitations[j].redeemed # Open
        PROVE  <<db.invitations[j].tenant, db.invitations[j].redeemedBy>>
                 # <<db.invitations[i].tenant, db.invitations[i].email>>
    <3>1. db.invitations[j].redeemedBy = db.invitations[j].email
      BY <2>1, <2>2
    <3>2. Distinct(db.invitations)
      BY <1>1 DEF TablesInv, InvitationsInv
    <3> QED
      BY <2>2, <3>1, <3>2 DEF Distinct
  <2> QED
    BY <2>1, <2>2 DEF RedemptionsAreUnique
<1>6. AttemptsAreBounded
  <2>1. ASSUME NEW i \in Ids(db.invitations)
        PROVE  db.invitations[i].attempts < MaxAttempts + Cardinality(Requests)
    <3>1. db.invitations[i].attempts \in Nat
      BY <1>2 DEF InvitationRow
    <3>2. Guessing(i) \in SUBSET Requests
      BY DEF Guessing
    <3>3. Within(db.invitations[i].attempts, Guessing(i), MaxAttempts)
      BY <1>1 DEF CountersInv, GuessesCounted
    <3> QED
      BY <3>1, <3>2, <3>3, WithinMeans, Thresholds
  <2> QED
    BY <2>1 DEF AttemptsAreBounded
<1> QED
  BY <1>3, <1>4, <1>5, <1>6 DEF AuthorityWasHeld

\* Whoever invited or granted was entitled to at some instant of the call,
\* and a redemption made its addressee a member, once, whatever was revoked
\* between the decision and the write (create-invitation.ts, assign-role.ts,
\* redeem-invitation.ts).
THEOREM AuthorityHeld == Spec => []AuthorityWasHeld
BY Authorities, Invariance, PTL

\* What the trail and the sessions hold is what a binding promises.
LEMMA Settled ==
  ASSUME AccessInv
  PROVE  SettledBindings
<1>1. SessionsInv /\ TrailInv
  BY DEF AccessInv, TablesInv
<1>2. \A entry \in db.trail : RecordIsSo(entry)
  BY <1>1 DEF TrailInv, EntrySound
<1>3. /\ \A s, t \in Ids(db.sessions) :
           db.sessions[s].replaces = db.sessions[t].replaces /\ db.sessions[s].replaces # 0 => s = t
      /\ \A s \in Ids(db.sessions) :
           db.sessions[s].replaces # 0 => db.sessions[db.sessions[s].replaces].revoked
  BY <1>1 DEF SessionsInv
<1> QED
  BY <1>2, <1>3 DEF SettledBindings

\* Every session that is bound, also by a call that stopped half way, stood
\* on a membership and a tenant that were active since that call had begun
\* (set-tenant-binding.ts, get-bootstrap.ts, switch-tenant.ts).
THEOREM BoundOnAMembership == Spec => []BoundOnMembership
<1>1. AccessInv => BoundOnMembership
  BY DEF AccessInv, TablesInv, SessionsInv
<1> QED
  BY <1>1, Invariance, PTL

\* A binding that the trail records as made was made, of the session that is
\* named or of the one it was switched to, and was backed by a membership and
\* a tenant once it was; one recorded as denied left its session revoked; and
\* a session is switched at most once (switch-tenant.ts).
THEOREM BindingsSettled == Spec => []SettledBindings
BY Settled, Invariance, PTL

\* The history of an account is the chain of its transitions, however
\* requests to disable it and what acts on them overlap
\* (request-account-disable.ts).
THEOREM HistoryIsStatus == Spec => []StatusIsHistory
<1>1. AccessInv => StatusIsHistory
  BY DEF AccessInv, TablesInv
<1> QED
  BY <1>1, Invariance, PTL
=============================================================================
