------------------------------- MODULE MCAccess -------------------------------
(***************************************************************************)
(* Instances of the modules of access: two accounts and two tenants, two   *)
(* requests at a time and the mixes of calls in Mixes.                     *)
(***************************************************************************)
EXTENDS AccessStore, TLC

CONSTANTS u1, u2, t1, t2

Groups == {"registrations", "verifications", "logins", "factors", "challenges", "roles",
           "invitations", "redemptions", "bindings", "profiles", "outcomes", "operators"}

Mix(some) == [g \in Groups |-> IF g \in DOMAIN some THEN some[g] ELSE 0]

Mixes == {Mix([registrations |-> 3]),
          Mix([registrations |-> 1, verifications |-> 3]),
          Mix([logins |-> 3]),
          Mix([logins |-> 2, operators |-> 1]),
          Mix([logins |-> 1, factors |-> 2]),
          Mix([logins |-> 1, challenges |-> 1]),
          Mix([factors |-> 3, challenges |-> 1]),
          Mix([challenges |-> 3]),
          Mix([roles |-> 3]),
          Mix([roles |-> 1, invitations |-> 1]),
          Mix([redemptions |-> 3]),
          Mix([invitations |-> 1, redemptions |-> 2]),
          Mix([invitations |-> 1, redemptions |-> 1, operators |-> 1]),
          Mix([bindings |-> 2, operators |-> 1]),
          Mix([profiles |-> 3, outcomes |-> 2])}

Limits == [login_account |-> 3, login_ip |-> 3, verification_send |-> 2, mfa_verify |-> 3]

-----------------------------------------------------------------------------
\* The seeded accounts: u1 administers the platform and tenant t2 and is a
\* member of both tenants, until instant 1 of t2; u2 is invited twice.

Assignment(user, role, tenant) ==
  [user |-> user, role |-> role, tenant |-> tenant, status |-> "ACTIVE", by |-> "seed",
   asked |-> 0, from |-> 0, to |-> Open]

Invitation(tenant, email) ==
  [tenant |-> tenant, email |-> email, expires |-> 1, redeemed |-> Open, redeemedBy |-> Open,
   revoked |-> Open, attempts |-> 0, by |-> u1, asked |-> 0]

Seed ==
  LET secret == [secret |-> 1, confirmed |-> 0, disabled |-> Open]
      free == [secret |-> NoSecret, confirmed |-> Open, disabled |-> Open]
  IN [accounts |-> [u \in User |-> [status |-> IF May("registrations") THEN "none" ELSE "active",
                                    verified |-> ~May("registrations")]],
      codes |-> <<>>, events |-> <<>>, minted |-> 2, proofs |-> <<>>, trail |-> {},
      spent |-> [login_account |-> [u \in User |-> <<>>], login_ip |-> [c \in {Client} |-> <<>>],
                 verification_send |-> [u \in User |-> <<>>],
                 mfa_verify |-> [u \in User |-> <<>>]],
      mfa |-> [u \in User |-> IF u = u1 /\ May("challenges") THEN secret ELSE free],
      recovery |-> [u \in User |-> IF u = u1 /\ May("challenges")
                                   THEN {[code |-> 2, used |-> FALSE]} ELSE {}],
      challenges |-> IF May("challenges") THEN {[user |-> u1, expires |-> ChallengeLife]} ELSE {},
      sessions |-> IF May("bindings")
                   THEN <<[user |-> u1, proof |-> "totp", asked |-> 0, revoked |-> FALSE,
                           tenant |-> Unbound, bound |-> 0, replaces |-> 0, since |-> 0]>>
                   ELSE <<>>,
      roles |-> <<Assignment(u1, "PLATFORM_ADMIN", Platform), Assignment(u1, "TENANT_ADMIN", t2)>>,
      members |-> [m \in Tenant \X User |->
                     IF m[2] = u2 THEN NoMembership
                     ELSE [ActiveMembership(0) EXCEPT !.to = IF m[1] = t2 THEN 1 ELSE Open]],
      tenants |-> [t \in Tenant |-> [status |-> "ACTIVE", ended |-> Open]],
      invitations |-> IF May("redemptions") THEN <<Invitation(t2, u2), Invitation(t2, u2)>> ELSE <<>>,
      profiles |-> [u \in User |-> [status |-> "ACTIVE", fields |-> 0]],
      history |-> <<>>]

MCInit == left \in Budgets /\ db = Seed /\ Init

-----------------------------------------------------------------------------
\* The calls that may begin, group by group

Grants == {<<"PLATFORM_ADMIN", Platform>>, <<"TENANT_ADMIN", t1>>}

MCRegister(q) ==
  \/ May("registrations") /\ \E u \in User : BeginRegister(q, u) \/ BeginResend(q, u)
  \/ May("verifications") /\ \E u \in User, c \in {0} \cup Ids(db.codes) : BeginVerify(q, u, c)

MCLogin(q) ==
  \/ May("logins") /\ \E right \in BOOLEAN : BeginLogin(q, u1, right)
  \/ May("factors") /\ \E u \in User : BeginEnroll(q, u) \/ BeginConfirm(q, u, db.mfa[u].secret)
  \/ May("challenges") /\ \E code \in 0 .. db.minted :
       \/ \E u \in User : BeginDisable(q, u, code)
       \/ \E c \in db.challenges, m \in {"totp", "recovery"} : BeginChallenge(q, c, m, code)

MCRoles(q) ==
  /\ May("roles")
  /\ \E by, u \in User, grant \in Grants :
       BeginAssign(q, by, u, grant[1], grant[2]) \/ BeginRevokeRole(q, by, u, grant[1], grant[2])

MCInvitations(q) ==
  /\ May("invitations")
  /\ \E u \in User :
       \/ BeginEnrol(q, u)
       \/ \E t \in Tenant, email \in User : BeginInvite(q, u, t, email)
       \/ \E t \in Tenant, i \in Ids(db.invitations) : BeginRevokeInvitation(q, u, t, i)

MCRedemptions(q) ==
  /\ May("redemptions")
  /\ \E u \in User, i \in Ids(db.invitations) : BeginRedeem(q, u, i)

MCBindings(q) ==
  /\ May("bindings")
  /\ \E s \in Ids(db.sessions) :
       BeginBootstrap(q, s) \/ \E t \in Tenant : BeginSetBinding(q, s, t)

MCProfiles(q) ==
  /\ May("profiles")
  /\ \E u \in User : BeginDisableRequest(q, u) \/ \E f \in {0, 1} : UpdateOwnFields(q, u, f)

MCOperators ==
  \/ /\ May("operators")
     /\ \/ \E status \in {"active", "disabled"} : SetStatus(u1, status)
        \/ \E t \in Tenant, u \in User, state \in {"ACTIVE", "SUSPENDED"} : MemberChanged(t, u, state)
        \/ \E t \in Tenant, status \in {"ACTIVE", "SUSPENDED"} : TenantChanged(t, status)
  \/ /\ May("outcomes")
     /\ \E u \in User, status \in UNION Range(StatusTransitions) : StatusActedOn(u, status)

MCNext ==
  \/ \E q \in Requests :
       \/ MCRegister(q) \/ MCLogin(q) \/ MCRoles(q) \/ MCInvitations(q) \/ MCRedemptions(q)
       \/ MCBindings(q) \/ MCProfiles(q) \/ CallStep(q)
  \/ MCOperators
  \/ Tick

MCSpec == MCInit /\ [][MCNext]_vars

RequestSymmetry == Permutations(Requests)
=============================================================================
