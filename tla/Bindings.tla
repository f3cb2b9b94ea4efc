------------------------------- MODULE Bindings -------------------------------
(***************************************************************************)
(* The tenant binding of a session: bootstrap binds a session of its own   *)
(* accord when one tenant is usable, POST /platform/tenant-binding binds   *)
(* it to a choice or switches it.  Identity, tenancy and bootstrap each do *)
(* their part, statement by statement: the choice is verified, the session *)
(* claimed, and the choice verified again, for the membership or the       *)
(* tenant may have ended in between.  A binding that does not stand, or    *)
(* that cannot be recorded, is undone by revoking the session.             *)
(*                                                                         *)
(* req[q].in says which session a call came with and what it wants;        *)
(* req[q].read carries the tenant it is after, the session that is to      *)
(* carry it and the tenants still to be read.  Sessions expire in module   *)
(* Sessions, not here.                                                     *)
(***************************************************************************)
EXTENDS Tenancy

ASSUME BindingsAssumption == Unbound \notin Tenant

Live(s) == ~db.sessions[s].revoked

\* A record about session s and tenant t, and one of tenancy about the
\* caller's membership in t, which names no session.
About(s, t) == [resource |-> "identity_session", session |-> s, tenant |-> t]

AboutMembership(t) == [resource |-> "tenant_membership", tenant |-> t]

-----------------------------------------------------------------------------
\* ResolveTenantContext: the caller's active memberships are listed, then
\* each of their tenants is read.

OwnActiveTenants(user) ==
  {t \in Tenant : MembershipActiveAt(db.members[<<t, user>>], now)}

Resolving(session, tenant, user) ==
  [session |-> session, tenant |-> tenant, pending |-> OwnActiveTenants(user), choices |-> {}]

\* What is known once tenant t was read too.
ReadTenant(q, t) ==
  [req[q].read EXCEPT !.pending = @ \ {t},
                      !.choices = @ \cup {u \in {t} : UsableTenant(u, req[q].in.by)}]

-----------------------------------------------------------------------------
\* The calls: a session that is unbound boots, or picks a tenant; a bound
\* one switches.  Without an active membership none of them does anything.

BeginBinding(q, kind, s, tenant) ==
  LET user == db.sessions[s].user
  IN /\ Live(s)
     /\ OwnActiveTenants(user) # {}
     /\ Begins(q, "bindings", "resolve", [kind |-> kind, by |-> user, session |-> s],
               Resolving(s, tenant, user))

BeginBootstrap(q, s) ==
  db.sessions[s].tenant = Unbound /\ BeginBinding(q, "auto", s, Unbound)

BeginSetBinding(q, s, tenant) ==
  BeginBinding(q, IF db.sessions[s].tenant = Unbound THEN "bind" ELSE "switch", s, tenant)

\* MUTANT of Choose: a tenant that the caller names is not looked for among
\* the choices.
ChooseAsTold(q, choices) ==
  LET in == req[q].in
      read == req[q].read
  IN CASE in.kind = "auto" /\ Cardinality(choices) = 1 ->
            Reads(q, "find", Resolving(in.session, CHOOSE t \in choices : TRUE, in.by))
       [] in.kind # "auto" -> Reads(q, IF in.kind = "bind" THEN "find" ELSE "verify", read)
       [] OTHER -> Ends(q)

\* A bootstrap binds to the only choice; a caller names one of the choices.
Choose(q, choices) ==
  LET in == req[q].in
      read == req[q].read
  IN CASE in.kind = "auto" /\ Cardinality(choices) = 1 ->
            Reads(q, "find", Resolving(in.session, CHOOSE t \in choices : TRUE, in.by))
       [] in.kind # "auto" /\ read.tenant \in choices ->
            Reads(q, IF in.kind = "bind" THEN "find" ELSE "verify", read)
       [] OTHER -> Ends(q)

Resolve(q) ==
  /\ At(q, "resolve")
  /\ \E t \in req[q].read.pending :
       LET known == ReadTenant(q, t)
       IN IF known.pending = {} THEN Choose(q, known.choices) ELSE Reads(q, "resolve", known)

-----------------------------------------------------------------------------
\* First bind: BindSessionTenant, and the choice resolved again

\* A bind that could not be made: only a bootstrap records it.
Conflict(q) ==
  LET in == req[q].in
  IN IF in.kind = "auto"
     THEN Reads(q, "audit", Denial(in.by, "bind_conflict",
                                   About(in.session, req[q].read.tenant)))
     ELSE Ends(q)

FindSession(q) ==
  LET s == req[q].in.session
  IN /\ At(q, "find")
     /\ IF Live(s) /\ db.sessions[s].tenant = Unbound THEN Reads(q, "bind", req[q].read)
                                                      ELSE Conflict(q)

\* The claim: WHERE revoked_at IS NULL AND tenant_binding IS NULL.
SetTenantBinding(q) ==
  LET s == req[q].in.session
  IN /\ At(q, "bind")
     /\ IF Live(s) /\ db.sessions[s].tenant = Unbound
        THEN Writes(q, [db EXCEPT !.sessions[s].tenant = req[q].read.tenant,
                                  !.sessions[s].bound = now,
                                  !.sessions[s].since = req[q].now], "bound", req[q].read)
        ELSE Conflict(q)

\* auditOrFail: identity's own record; when it cannot be written the call
\* fails here, and what was bound stays bound.
AuditBound(q, at, action, next) ==
  LET read == req[q].read
  IN /\ At(q, at)
     /\ Writes(q, Recorded(Success(req[q].in.by, action, About(read.session, read.tenant))),
               next, read)

\* MUTANT of Relist: the choice is not resolved again.
TrustsTheFirst(q) == At(q, "relist") /\ Reads(q, "settle", req[q].read)

Relist(q) ==
  LET again == Resolving(req[q].read.session, req[q].read.tenant, req[q].in.by)
  IN /\ At(q, "relist")
     /\ Reads(q, IF again.pending = {} THEN "compensate" ELSE "recheck", again)

Recheck(q) ==
  /\ At(q, "recheck")
  /\ \E t \in req[q].read.pending :
       LET known == ReadTenant(q, t)
       IN IF known.pending # {} THEN Reads(q, "recheck", known)
          ELSE Reads(q, IF known.tenant \in known.choices THEN "settle" ELSE "compensate",
                     req[q].read)

-----------------------------------------------------------------------------
\* Switch: verify, rebind, verify again (switch-tenant.ts)

\* verifyTarget: the caller's own membership, then the tenant.
VerifyMember(q, at, next) ==
  LET read == req[q].read
      member == MembershipActiveAt(db.members[<<read.tenant, req[q].in.by>>], now)
  IN /\ At(q, at)
     /\ IF member THEN Reads(q, next, read)
        ELSE IF at = "verify" THEN Ends(q) ELSE Reads(q, "compensate", read)

VerifyTenant(q, at, next) ==
  LET read == req[q].read
  IN /\ At(q, at)
     /\ IF UsableTenant(read.tenant, req[q].in.by) THEN Reads(q, next, read)
        ELSE IF at = "verify.tenant" THEN Ends(q) ELSE Reads(q, "compensate", read)

\* RebindSessionTenant reads the account, then the session.
FindAccountById(q) ==
  /\ At(q, "account")
  /\ IF db.accounts[req[q].in.by].status = "active" THEN Reads(q, "old", req[q].read)
                                                    ELSE Ends(q)

FindBoundSession(q) ==
  LET s == req[q].in.session
  IN /\ At(q, "old")
     /\ IF Live(s) /\ db.sessions[s].tenant # Unbound THEN Reads(q, "rebind", req[q].read)
                                                      ELSE Ends(q)

\* One transaction: the old session is revoked, if it is not by now, and its
\* replacement inserted, on the proof the old one was issued on.
RebindSession(q) ==
  LET s == req[q].in.session
      tenant == req[q].read.tenant
      old == db.sessions[s]
      new == Session(old.user, old.proof, old.asked, tenant, s, req[q].now)
      tables == [db EXCEPT !.sessions = Append([@ EXCEPT ![s].revoked = TRUE], new)]
  IN /\ At(q, "rebind")
     /\ Room(db.sessions)
     /\ IF Live(s)
        THEN Writes(q, tables, "rebound", [req[q].read EXCEPT !.session = Len(db.sessions) + 1])
        ELSE Ends(q)

-----------------------------------------------------------------------------
\* How a binding ends: it stands and is recorded, or is undone

\* What a record of the call is about: bootstrap names the session that the
\* call came with, tenancy none.
BindingRecord(in, tenant) ==
  IF in.kind = "switch" THEN AboutMembership(tenant) ELSE About(in.session, tenant)

Compensate(q) ==
  LET in == req[q].in
      read == req[q].read
      denied == Denial(in.by, "membership_revoked_concurrently", BindingRecord(in, read.tenant))
  IN /\ At(q, "compensate")
     /\ WritesAudited(q, [db EXCEPT !.sessions[read.session].revoked = TRUE], denied)

BindingAction(kind) ==
  CASE kind = "auto" -> "platform.bootstrap.auto_bind"
    [] kind = "bind" -> "platform.tenant_binding.bound"
    [] kind = "switch" -> "tenancy.tenant.switch"

\* The record of a binding is written or refused; a switch is recorded by
\* tenancy and then by bootstrap.
Settle(q) ==
  LET in == req[q].in
      read == req[q].read
      entry == Success(in.by, BindingAction(in.kind), BindingRecord(in, read.tenant))
  IN /\ At(q, "settle")
     /\ \/ Writes(q, Recorded(entry), IF in.kind = "switch" THEN "settle.surface" ELSE "done", read)
        \/ Reads(q, "reverse", read)

\* The session that is named was switched from, and is revoked.
SettleSurface(q) ==
  LET in == req[q].in
      read == req[q].read
      entry == Success(in.by, "platform.tenant_binding.switched", About(in.session, read.tenant))
  IN /\ At(q, "settle.surface")
     /\ Writes(q, Recorded(entry), "done", read) \/ Reads(q, "reverse", read)

Reverse(q) ==
  /\ At(q, "reverse")
  /\ Writes(q, [db EXCEPT !.sessions[req[q].read.session].revoked = TRUE], "done", <<>>)

\* The steps of a call that has begun.
BindingStep(q) ==
  \/ Resolve(q) \/ FindSession(q) \/ SetTenantBinding(q)
  \/ AuditBound(q, "bound", "identity.session.tenant_bound", "relist")
  \/ Relist(q) \/ Recheck(q)
  \/ VerifyMember(q, "verify", "verify.tenant") \/ VerifyTenant(q, "verify.tenant", "account")
  \/ FindAccountById(q) \/ FindBoundSession(q) \/ RebindSession(q)
  \/ AuditBound(q, "rebound", "identity.session.tenant_rebound", "verify.again")
  \/ VerifyMember(q, "verify.again", "verify.tenant.again")
  \/ VerifyTenant(q, "verify.tenant.again", "settle")
  \/ Compensate(q) \/ Settle(q) \/ SettleSurface(q) \/ Reverse(q)

-----------------------------------------------------------------------------
\* Properties

FirstBindActions == {"platform.bootstrap.auto_bind", "platform.tenant_binding.bound"}

\* A membership and its tenant, each active or ended no earlier than that.
BackedSince(tenant, user, at) ==
  LET member == db.members[<<tenant, user>>]
      row == db.tenants[tenant]
  IN /\ member.state = "ACTIVE" \/ member.ended >= at
     /\ member.to = Open \/ member.to > at
     /\ row.status = "ACTIVE" \/ row.ended >= at

BackedWhenBound(s) ==
  LET session == db.sessions[s] IN BackedSince(session.tenant, session.user, session.bound)

\* A session is bound only to a tenant that was active, and that its account
\* was an active member of, at some instant since the call that bound it had
\* begun: also where that call stopped before it could look again
\* (set-tenant-binding.ts, get-bootstrap.ts, switch-tenant.ts).
BoundOnMembership ==
  \A s \in Ids(db.sessions) :
    LET session == db.sessions[s]
    IN session.tenant # Unbound => BackedSince(session.tenant, session.user, session.since)

\* Session s is bound to the tenant, and was backed once it was.
BoundAs(s, tenant) == db.sessions[s].tenant = tenant /\ BackedWhenBound(s)

\* The sessions of the account that it was given in a switch.
SwitchedTo(user) ==
  {s \in Ids(db.sessions) : db.sessions[s].user = user /\ db.sessions[s].replaces # 0}

\* What one entry of the trail says of a binding is so.  A first binding
\* names its session, the surface's record of a switch the session that was
\* replaced, and tenancy's record only the account and the tenant.
RecordIsSo(entry) ==
  LET about == entry.about
      denied == entry.action = "membership_revoked_concurrently"
  IN /\ entry.action \in FirstBindActions => BoundAs(about.session, about.tenant)
     /\ entry.action = "tenancy.tenant.switch" =>
          \E s \in SwitchedTo(entry.by) : BoundAs(s, about.tenant)
     /\ entry.action = "platform.tenant_binding.switched" =>
          \E s \in SwitchedTo(entry.by) :
            db.sessions[s].replaces = about.session /\ BoundAs(s, about.tenant)
     /\ denied /\ about.resource = "identity_session" => db.sessions[about.session].revoked
     /\ denied /\ about.resource = "tenant_membership" =>
          \E s \in SwitchedTo(entry.by) :
            db.sessions[s].tenant = about.tenant /\ db.sessions[s].revoked

\* What the trail says of a binding is so: a binding recorded as made was
\* made, and backed by a membership and a tenant that were active once it
\* was; one recorded as denied because they ended left its session revoked.
\* Nothing rebinds a session in place, and a session is switched at most
\* once, whatever overlaps (rules 1 to 4 of switch-tenant.ts).
SettledBindings ==
  /\ \A entry \in db.trail : RecordIsSo(entry)
  /\ \A s, t \in Ids(db.sessions) :
       db.sessions[s].replaces = db.sessions[t].replaces /\ db.sessions[s].replaces # 0 => s = t
  /\ \A s \in Ids(db.sessions) :
       db.sessions[s].replaces # 0 => db.sessions[db.sessions[s].replaces].revoked
=============================================================================
