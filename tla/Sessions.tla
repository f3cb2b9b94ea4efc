------------------------------ MODULE Sessions ------------------------------
(***************************************************************************)
(* Sessions, refresh-token families and the operations that end them, for  *)
(* one account (src/modules/identity).  Every row of the store belongs to  *)
(* one account and every statement is scoped to it, so accounts do not     *)
(* interact and one of them is the whole system.                           *)
(*                                                                         *)
(* The state of the database is in account, sessions and reset; access and *)
(* challenges are the signed tokens that clients hold.  An HTTP request is *)
(* a process: it runs a use case as a sequence of awaited statements, each *)
(* its own transaction, and keeps what it read in req[q].  Transactions    *)
(* run at READ COMMITTED, so revokeAllSessions, which selects its targets  *)
(* and then updates them, is two steps, while the claims written as        *)
(* UPDATE ... WHERE are one.                                               *)
(*                                                                         *)
(* Abstracted: a password is the number of its replacement (generation); a *)
(* request that is refused before it writes is a request that was not      *)
(* made; the ledger, the audit trail and mail have no state here but may   *)
(* fail (End); idle expiry is off, as in the default policy; the one       *)
(* registered argon2 parameter set leaves the rehash branch of login       *)
(* unreachable.  The field ended of a session row is history: how many     *)
(* tokens its family had when it was revoked.                              *)
(***************************************************************************)
EXTENDS Integers, FiniteSets

CONSTANTS
  Requests,      \* HTTP requests that may be in flight at a time
  Sessions,      \* session ids that may ever be minted
  Tenants,       \* tenants a session may be bound to
  Unbound,       \* tenant_binding = null
  NoSession,     \* the session of a request that has none
  MfaActive,     \* whether the account has an active MFA enrolment
  MaxTokens,     \* bound on the refresh tokens minted per session
  MaxBoundaries  \* bound on the token-version bumps

ASSUME SessionsAssumption ==
  /\ Unbound \notin Tenants
  /\ NoSession \notin Sessions
  /\ MfaActive \in BOOLEAN
  /\ MaxTokens \in Nat \ {0}
  /\ MaxBoundaries \in Nat

VARIABLES
  account,     \* the identity_accounts row and its credential
  sessions,    \* sessions, their family and its refresh_tokens
  access,      \* access tokens that were signed and handed out
  challenges,  \* MFA challenge tokens that were signed and handed out
  reset,       \* the password_reset_requests row
  req,         \* the requests in flight, with what each has read
  seen         \* history: what the properties compare against

vars == <<account, sessions, access, challenges, reset, req, seen>>

Boundaries == 0 .. MaxBoundaries
Bindings == Tenants \cup {Unbound}

Missing ==
  [issued |-> FALSE, revoked |-> FALSE, familyRevoked |-> FALSE, expired |-> FALSE,
   binding |-> Unbound, minted |-> 0, used |-> {}, ended |-> 0, root |-> NoSession,
   born |-> 0]

Idle ==
  [at |-> "idle", session |-> NoSession, token |-> 0, version |-> 0, epoch |-> 0,
   binding |-> Unbound, born |-> 0, kind |-> "none", targets |-> {},
   shut |-> FALSE, dead |-> FALSE]

Init ==
  /\ account = [active |-> TRUE, version |-> 0, generation |-> 0]
  /\ sessions = [s \in Sessions |-> Missing]
  /\ access = {}
  /\ challenges = {}
  /\ reset = "none"
  /\ req = [q \in Requests |-> Idle]
  /\ seen = [epoch |-> 0, shut |-> FALSE, reset |-> 0, disable |-> 0, byToken |-> 0]

-----------------------------------------------------------------------------
\* Rows and tokens

Live(row) == row.issued /\ ~row.revoked /\ ~row.expired

\* Revoking a session revokes its family in the same transaction, unless they
\* are revoked already.
Revoked(row) ==
  [row EXCEPT !.revoked = TRUE, !.familyRevoked = TRUE,
              !.ended = IF row.revoked THEN row.ended ELSE row.minted]

\* MUTANT of Claims: the row is updated by id alone.
ClaimsById(row, t) == t \in 1 .. row.minted

\* The claim of a one-time token: UPDATE ... WHERE used_at IS NULL.
Claims(row, t) == t \notin row.used

\* The bundle of a new session: one family, one unused token.
Minted(root, born, binding) ==
  [Missing EXCEPT !.issued = TRUE, !.minted = 1, !.root = root, !.born = born,
                  !.binding = binding]

Fresh(s) == ~sessions[s].issued

\* The access token signed with the account copy that request q holds.
Signed(q, s) == [session |-> s, version |-> req[q].version, epoch |-> req[q].epoch]

\* MUTANT of Bumped: the boundary is not counted.
NotBumped(version) == version

\* token_version = token_version + 1
Bumped(version) == version + 1

-----------------------------------------------------------------------------
\* Requests

At(q, at) == req[q].at = at

\* A request starts at the given step with the account copy it just read.
Begins(q, fields) ==
  /\ At(q, "idle")
  /\ req' = [req EXCEPT ![q] = fields]

Request(at) == [Idle EXCEPT !.at = at, !.shut = seen.shut]

\* One that holds the copy of the account it read.
Holding(at) == [Request(at) EXCEPT !.version = account.version, !.epoch = seen.epoch]

Goes(q, at) == req' = [req EXCEPT ![q].at = at]

\* The request is over, with an outcome the properties look at.
Answers(q, at) ==
  req' = [req EXCEPT ![q] = [Idle EXCEPT !.at = at, !.session = req[q].session,
                                         !.token = req[q].token, !.shut = req[q].shut]]

\* The request is over, and nothing is asked of it any more.
Finishes(q) == req' = [req EXCEPT ![q] = Idle]

\* A request ends wherever it is: it has replied, its process died, or a
\* statement, the ledger, the audit trail or a notification threw.
End(q) ==
  /\ ~At(q, "idle")
  /\ req' = [req EXCEPT ![q] = Idle]
  /\ UNCHANGED <<account, sessions, access, challenges, reset, seen>>

-----------------------------------------------------------------------------
\* RefreshSession

\* MUTANT of Refreshable: neither revocation is looked at.
RefreshableUntilExpiry(row) == row.issued /\ ~row.expired

\* The family and the session, as read with the token, still stand.
Refreshable(row) == ~row.familyRevoked /\ Live(row)

\* findByTokenHash, then the reuse branch or the checks on what it returned.
BeginRefresh(q, s, t) ==
  /\ t \in 1 .. sessions[s].minted
  /\ \/ /\ t \in sessions[s].used
        /\ Begins(q, [Request("reuse") EXCEPT !.session = s, !.token = t])
     \/ /\ t \notin sessions[s].used
        /\ Refreshable(sessions[s])
        /\ Begins(q, [Request("account") EXCEPT !.session = s, !.token = t])
  /\ UNCHANGED <<account, sessions, access, challenges, reset, seen>>

\* MUTANT of StatusAllows: the status check is dropped.
StatusIgnored == TRUE

StatusAllows == account.active

RefreshReadsAccount(q) ==
  /\ At(q, "account")
  /\ StatusAllows
  /\ req' = [req EXCEPT ![q].at = "rotate", ![q].version = account.version,
                        ![q].epoch = seen.epoch]
  /\ UNCHANGED <<account, sessions, access, challenges, reset, seen>>

\* rotateToken: the claim, the successor and the link, in one transaction.
RotateToken(q) ==
  LET s == req[q].session
      t == req[q].token
  IN /\ At(q, "rotate")
     /\ \/ /\ Claims(sessions[s], t)
           /\ sessions[s].minted < MaxTokens
           /\ sessions' = [sessions EXCEPT ![s].used = @ \cup {t}, ![s].minted = @ + 1]
           /\ access' = access \cup {Signed(q, s)}
           /\ Answers(q, "refreshed")
        \/ /\ ~Claims(sessions[s], t)
           /\ Goes(q, "reuse")
           /\ UNCHANGED <<sessions, access>>
     /\ UNCHANGED <<account, challenges, reset, seen>>

\* onReuseDetected: revokeFamilyAndSession.
RevokeReused(q) ==
  /\ At(q, "reuse")
  /\ sessions' = [sessions EXCEPT ![req[q].session] = Revoked(@)]
  /\ Answers(q, "reused")
  /\ UNCHANGED <<account, access, challenges, reset, seen>>

-----------------------------------------------------------------------------
\* AuthenticateRequest

\* verifyAccessToken, then the account's status and token version.
BeginAuthenticate(q, a) ==
  /\ StatusAllows
  /\ account.version = a.version
  /\ Begins(q, [Holding("session") EXCEPT
                  !.session = a.session, !.born = a.epoch,
                  !.dead = sessions[a.session].revoked])
  /\ UNCHANGED <<account, sessions, access, challenges, reset, seen>>

\* MUTANT of AuthenticateSession: the session row is not consulted.
AuthenticateByToken(q) ==
  /\ At(q, "session")
  /\ Goes(q, "accepted")
  /\ UNCHANGED <<account, sessions, access, challenges, reset, seen>>

\* findSession: is the session live?
AuthenticateSession(q) ==
  /\ At(q, "session")
  /\ Live(sessions[req[q].session])
  /\ Goes(q, "accepted")
  /\ UNCHANGED <<account, sessions, access, challenges, reset, seen>>

-----------------------------------------------------------------------------
\* Login and MFA completion

\* findByEmail; the status of this copy is what login goes by.
BeginLogin(q) ==
  /\ StatusAllows
  /\ Begins(q, Holding("verify"))
  /\ UNCHANGED <<account, sessions, access, challenges, reset, seen>>

\* getCredential and verify, then the MFA fork.
LoginVerifies(q) ==
  /\ At(q, "verify")
  /\ \/ /\ ~MfaActive
        /\ req' = [req EXCEPT ![q].at = "issue", ![q].born = seen.epoch]
        /\ UNCHANGED challenges
     \/ /\ MfaActive
        /\ challenges' = challenges \cup {seen.epoch}
        /\ Finishes(q)
  /\ UNCHANGED <<account, sessions, access, reset, seen>>

\* openChallenge: the challenge names the account, whose status is checked.
OpenChallenge(q, c) ==
  /\ StatusAllows
  /\ Begins(q, [Request("complete") EXCEPT !.born = c])
  /\ UNCHANGED <<account, sessions, access, challenges, reset, seen>>

\* completeLogin reads the account again.
CompleteLogin(q) ==
  /\ At(q, "complete")
  /\ req' = [req EXCEPT ![q].at = "issue", ![q].version = account.version,
                        ![q].epoch = seen.epoch]
  /\ UNCHANGED <<account, sessions, access, challenges, reset, seen>>

\* SessionIssuer.issue: createSession, then the access token.
Issue(q, s) ==
  /\ At(q, "issue")
  /\ Fresh(s)
  /\ sessions' = [sessions EXCEPT ![s] = Minted(s, req[q].born, Unbound)]
  /\ access' = access \cup {Signed(q, s)}
  /\ Answers(q, "issued")
  /\ UNCHANGED <<account, challenges, reset, seen>>

-----------------------------------------------------------------------------
\* Tenant binding

\* BindSessionTenant reads a live, unbound session.
BeginBind(q, s, b) ==
  /\ Live(sessions[s])
  /\ sessions[s].binding = Unbound
  /\ Begins(q, [Request("bind") EXCEPT !.session = s, !.binding = b])
  /\ UNCHANGED <<account, sessions, access, challenges, reset, seen>>

\* MUTANT of Bindable: tenantBinding: null is missing from the WHERE.
BindableAgain(row) == ~row.revoked

Bindable(row) == ~row.revoked /\ row.binding = Unbound

\* setTenantBinding: one guarded update.
ClaimBinding(q) ==
  /\ At(q, "bind")
  /\ Bindable(sessions[req[q].session])
  /\ sessions' = [sessions EXCEPT ![req[q].session].binding = req[q].binding]
  /\ Finishes(q)
  /\ UNCHANGED <<account, access, challenges, reset, seen>>

\* RebindSessionTenant reads an active account and a live, bound session.
BeginRebind(q, s, b) ==
  /\ StatusAllows
  /\ Live(sessions[s])
  /\ sessions[s].binding # Unbound
  /\ Begins(q, [Holding("rebind") EXCEPT !.session = s, !.binding = b])
  /\ UNCHANGED <<account, sessions, access, challenges, reset, seen>>

\* MUTANT of Rebindable: the revocation count is not looked at.
RebindableAlways(row) == row.issued

Rebindable(row) == ~row.revoked

\* rebindSession: the old session goes and its successor comes in one
\* transaction.
RebindSession(q, s) ==
  LET old == req[q].session
  IN /\ At(q, "rebind")
     /\ Rebindable(sessions[old])
     /\ Fresh(s)
     /\ sessions' = [sessions EXCEPT
                       ![old] = Revoked(@),
                       ![s] = Minted(sessions[old].root, sessions[old].born,
                                     req[q].binding)]
     /\ access' = access \cup {Signed(q, s)}
     /\ Answers(q, "rebound")
     /\ UNCHANGED <<account, challenges, reset, seen>>

-----------------------------------------------------------------------------
\* Password recovery and change, disable and enable, revocation

\* ForgotPassword.  One reset token is enough for the questions asked here.
ForgotPassword ==
  /\ account.active
  /\ reset = "none"
  /\ reset' = "open"
  /\ UNCHANGED <<account, sessions, access, challenges, req, seen>>

ResetExpires ==
  /\ reset = "open"
  /\ reset' = "dead"
  /\ UNCHANGED <<account, sessions, access, challenges, req, seen>>

\* ResetPassword: findByCodeHash and the dead check, then the hash.
BeginReset(q) ==
  /\ reset = "open"
  /\ Begins(q, [Request("consume") EXCEPT !.kind = "reset"])
  /\ UNCHANGED <<account, sessions, access, challenges, reset, seen>>

\* consume: an update by id.
ConsumeReset(q) ==
  /\ At(q, "consume")
  /\ reset' = "dead"
  /\ Goes(q, "replace")
  /\ UNCHANGED <<account, sessions, access, challenges, seen>>

\* ChangePassword of an authenticated session that proved the password.
BeginChange(q, s) ==
  /\ account.active
  /\ Live(sessions[s])
  /\ Begins(q, [Request("replace") EXCEPT !.kind = "change", !.session = s])
  /\ UNCHANGED <<account, sessions, access, challenges, reset, seen>>

\* replacePassword: the credential and the token version together.
ReplacePassword(q) ==
  /\ At(q, "replace")
  /\ seen.epoch < MaxBoundaries
  /\ account' = [account EXCEPT !.generation = @ + 1, !.version = Bumped(@)]
  /\ seen' = [seen EXCEPT !.epoch = @ + 1,
                          !.byToken = @ + (IF req[q].kind = "reset" THEN 1 ELSE 0)]
  /\ req' = [req EXCEPT ![q].at = "find", ![q].epoch = seen.epoch + 1]
  /\ UNCHANGED <<sessions, access, challenges, reset>>

\* DisableAccount: setStatus with the bump.
Disable(q) ==
  /\ seen.epoch < MaxBoundaries
  /\ account' = [account EXCEPT !.active = FALSE, !.version = Bumped(@)]
  /\ seen' = [seen EXCEPT !.epoch = @ + 1]
  /\ Begins(q, [Idle EXCEPT !.at = "find", !.kind = "disable", !.epoch = seen.epoch + 1])
  /\ UNCHANGED <<sessions, access, challenges, reset>>

\* EnableAccount, with its own bump.
Enable ==
  /\ ~account.active
  /\ seen.epoch < MaxBoundaries
  /\ account' = [account EXCEPT !.active = TRUE, !.version = Bumped(@)]
  /\ seen' = [seen EXCEPT !.epoch = @ + 1, !.shut = FALSE]
  /\ req' = [q \in Requests |-> [req[q] EXCEPT !.shut = FALSE]]
  /\ UNCHANGED <<sessions, access, challenges, reset>>

\* RevokeOtherSessions of an authenticated session.
BeginRevokeOthers(q, s) ==
  /\ account.active
  /\ Live(sessions[s])
  /\ Begins(q, [Request("find") EXCEPT !.kind = "others", !.session = s])
  /\ UNCHANGED <<account, sessions, access, challenges, reset, seen>>

\* The sessions revokeAllSessions selects: all that are not revoked, but the
\* excepted one.
Targets(q) == {s \in Sessions : sessions[s].issued /\ ~sessions[s].revoked} \ {req[q].session}

\* revokeAllSessions: findMany.
FindTargets(q) ==
  /\ At(q, "find")
  /\ req' = [req EXCEPT ![q].at = "sweep", ![q].targets = Targets(q)]
  /\ UNCHANGED <<account, sessions, access, challenges, reset, seen>>

\* What the completion of a sweep leaves for the properties to compare with.
Completed(q) ==
  CASE req[q].kind = "reset"   -> [seen EXCEPT !.reset = req[q].epoch]
    [] req[q].kind = "disable" -> [seen EXCEPT !.disable = req[q].epoch,
                                               !.shut = ~account.active]
    [] OTHER                   -> seen

\* revokeAllSessions: updateMany of the ids found, and their families.
Sweep(q) ==
  /\ At(q, "sweep")
  /\ sessions' = [s \in Sessions |-> IF s \in req[q].targets THEN Revoked(sessions[s])
                                                             ELSE sessions[s]]
  /\ seen' = Completed(q)
  /\ Finishes(q)
  /\ UNCHANGED <<account, access, challenges, reset>>

\* RevokeSession and Logout: one guarded update.
RevokeSession(s) ==
  /\ sessions[s].issued
  /\ ~sessions[s].revoked
  /\ sessions' = [sessions EXCEPT ![s] = Revoked(@)]
  /\ UNCHANGED <<account, access, challenges, reset, req, seen>>

\* The absolute lifetime of a session runs out.
SessionExpires(s) ==
  /\ Live(sessions[s])
  /\ sessions' = [sessions EXCEPT ![s].expired = TRUE]
  /\ UNCHANGED <<account, access, challenges, reset, req, seen>>

-----------------------------------------------------------------------------

Refresh(q) ==
  \/ \E s \in Sessions, t \in 1 .. MaxTokens : BeginRefresh(q, s, t)
  \/ RefreshReadsAccount(q)
  \/ RotateToken(q)
  \/ RevokeReused(q)

Authenticate(q) ==
  \/ \E a \in access : BeginAuthenticate(q, a)
  \/ AuthenticateSession(q)

Login(q) ==
  \/ BeginLogin(q)
  \/ LoginVerifies(q)
  \/ \E c \in challenges : OpenChallenge(q, c)
  \/ CompleteLogin(q)
  \/ \E s \in Sessions : Issue(q, s)

Bind(q) ==
  \/ \E s \in Sessions, b \in Tenants : BeginBind(q, s, b)
  \/ ClaimBinding(q)
  \/ \E s \in Sessions, b \in Bindings : BeginRebind(q, s, b)
  \/ \E s \in Sessions : RebindSession(q, s)

Boundary(q) ==
  \/ BeginReset(q)
  \/ ConsumeReset(q)
  \/ \E s \in Sessions : BeginChange(q, s)
  \/ ReplacePassword(q)
  \/ Disable(q)
  \/ \E s \in Sessions : BeginRevokeOthers(q, s)
  \/ FindTargets(q)
  \/ Sweep(q)

Next ==
  \/ \E q \in Requests : Refresh(q) \/ Authenticate(q) \/ Login(q) \/ Bind(q)
                           \/ Boundary(q) \/ End(q)
  \/ \E s \in Sessions : RevokeSession(s) \/ SessionExpires(s)
  \/ ForgotPassword
  \/ ResetExpires
  \/ Enable

Spec == Init /\ [][Next]_vars

-----------------------------------------------------------------------------
\* Types

Points ==
  {"idle", "reuse", "account", "rotate", "refreshed", "reused", "session", "accepted",
   "verify", "complete", "issue", "issued", "bind", "rebind", "rebound", "consume", "replace", "find", "sweep"}

Rows ==
  [issued: BOOLEAN, revoked: BOOLEAN, familyRevoked: BOOLEAN, expired: BOOLEAN,
   binding: Bindings, minted: 0 .. MaxTokens, used: SUBSET (1 .. MaxTokens),
   ended: 0 .. MaxTokens, root: Sessions \cup {NoSession}, born: Boundaries]

RequestStates ==
  [at: Points, session: Sessions \cup {NoSession}, token: 0 .. MaxTokens,
   version: Boundaries, epoch: Boundaries, binding: Bindings, born: Boundaries,
   kind: {"none", "reset", "change", "disable", "others"}, targets: SUBSET Sessions,
   shut: BOOLEAN, dead: BOOLEAN]

\* Every variable is well typed, a session that was not minted is blank, only
\* minted tokens are used, and a request names an issued session wherever its
\* next statement needs one.
TypeOK ==
  /\ account \in [active: BOOLEAN, version: Boundaries, generation: Boundaries]
  /\ sessions \in [Sessions -> Rows]
  /\ access \subseteq [session: Sessions, version: Boundaries, epoch: Boundaries]
  /\ challenges \subseteq Boundaries
  /\ reset \in {"none", "open", "dead"}
  /\ req \in [Requests -> RequestStates]
  /\ seen \in [epoch: Boundaries, shut: BOOLEAN, reset: Boundaries, disable: Boundaries,
               byToken: Boundaries]
  /\ \A s \in Sessions :
       /\ ~sessions[s].issued => sessions[s] = Missing
       /\ sessions[s].used \subseteq 1 .. sessions[s].minted
  /\ \A q \in Requests :
       req[q].at \in {"reuse", "account", "rotate", "refreshed", "reused", "bind", "rebind"}
         => req[q].session \in {s \in Sessions : sessions[s].issued}

-----------------------------------------------------------------------------
\* Properties

\* refresh-session.ts:8-10, 0031:12-16.  Of the tokens of a family exactly one
\* is unused, however many requests present which tokens at the same time: a
\* family never forks into two lines that could both be refreshed.
OneUnusedToken ==
  \A s \in Sessions : sessions[s].issued =>
    \E t \in 1 .. sessions[s].minted : (1 .. sessions[s].minted) \ sessions[s].used = {t}

\* refresh-session.ts:8-10.  When two requests presented the same token and
\* both were carried through, at most one got a successor, and whatever the
\* order of their statements the session and its family end revoked.
PresentedTwiceIsRevoked ==
  \A q, r \in Requests :
    /\ q # r
    /\ req[q].at \in {"refreshed", "reused"}
    /\ req[r].at \in {"refreshed", "reused"}
    /\ req[q].session = req[r].session
    /\ req[q].token = req[r].token
    => /\ ~(At(q, "refreshed") /\ At(r, "refreshed"))
       /\ sessions[req[q].session].revoked
       /\ sessions[req[q].session].familyRevoked

\* refresh-session.ts:81-83, :99.  rotateToken claims a token without looking at
\* its family again, so rotations under way when a session ends (logout, sweep,
\* reuse, switch) may still leave a successor in the dead family.  However many
\* are under way and however they go on, they leave one at most, and no token
\* minted after the end is ever rotated: the dead family grows no further.
DeadFamilyIsSpent ==
  \A s \in Sessions : sessions[s].revoked =>
    /\ sessions[s].minted <= sessions[s].ended + 1
    /\ sessions[s].used \subseteq 1 .. sessions[s].ended

\* session-tenant-binding.ts:21-22.  Of the sessions that one login grew into
\* by switching tenants, at most one is not revoked, however the switches of
\* several requests interleave with each other and with sweeps.
OneSessionPerLogin ==
  \A s, u \in Sessions :
    /\ s # u
    /\ sessions[s].issued /\ ~sessions[s].revoked
    /\ sessions[u].issued /\ ~sessions[u].revoked
    => sessions[s].root # sessions[u].root

\* session-tenant-binding.ts:8-13.  A session is bound once: two concurrent
\* first binds cannot overwrite each other, and a switch never rebinds in place.
BoundOnce ==
  [][\A s \in Sessions :
       sessions[s].binding # Unbound => sessions'[s].binding = sessions[s].binding]_vars

\* authenticate-request.ts:5-6.  A request that began after an access token
\* was overtaken by a boundary (change, reset, disable, enable) or after its
\* session was revoked is never accepted, although the account and the session
\* are read at different moments and boundaries come in any order.
RevocationIsImmediate ==
  \A q \in Requests : At(q, "accepted") => ~req[q].dead /\ req[q].born >= req[q].epoch

\* account-administration.ts:4-6.  After a disable has completed, and until an
\* enable, no request that begins gets in by any door: not by an access token,
\* a refresh, a login, a second factor or a switch.  Sessions that raced the
\* disable are left in the table, so this rests on more than their revocation.
DisabledShutsEveryDoor ==
  \A q \in Requests :
    req[q].at \in {"accepted", "refreshed", "issued", "rebound"} => ~req[q].shut

-----------------------------------------------------------------------------
\* Claims of the repository that the code does not keep

\* password-recovery.ts:7-9: "a completed reset revokes EVERY session and
\* family ... so nothing issued under it survives".  Read as: after a reset has
\* completed no session is minted from the proof of the replaced credential.
NothingIssuedAfterReset ==
  [][\A s \in Sessions :
       ~sessions[s].issued /\ sessions'[s].issued /\ sessions'[s].root = s
         => sessions'[s].born >= seen.reset]_vars

\* account-administration.ts:4-9: disable "revokes EVERYTHING", "prior sessions
\* stay revoked".  Read as: once enabled again, no session stands that was
\* proved before the disable that completed.
NothingRevivedByEnable ==
  account.active => \A s \in Sessions : Live(sessions[s]) => sessions[s].born >= seen.disable

\* password-recovery.ts:2-4: a "one-time reset token", which ResetPassword
\* consumes.  Read as: one token replaces the password at most once.
ResetTokenIsOneTime == seen.byToken <= 1

=============================================================================
