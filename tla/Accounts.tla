------------------------------- MODULE Accounts -------------------------------
(***************************************************************************)
(* The identity module before a session exists: registration, e-mail       *)
(* verification, login with its lockout, second factors and recovery       *)
(* codes, and the rate limits in front of them.  What a session may do     *)
(* afterwards is module Sessions.                                          *)
(*                                                                         *)
(* An account is named by its e-mail address, which is unique.  A secret,  *)
(* a recovery code or a verification code is a number; what a caller       *)
(* presents is the number of the one it knows, or 0 for a wrong guess.     *)
(* Of the security events only those that a decision counts are kept.      *)
(***************************************************************************)
EXTENDS Requests, FiniteSetsExt

CONSTANTS
  User,                \* e-mail addresses, one account each
  LockoutThreshold,    \* failed logins of an account in a window
  RecoveryThreshold,   \* failed recovery codes of an account in a window
  LedgerWindow,        \* lockoutWindowMs and recoveryLockWindowMs
  CodeAttempts,        \* verificationMaxAttempts
  CodeLife,            \* verificationCodeTtlMs
  ResendCooldown,      \* verificationResendCooldownMs
  ChallengeLife,       \* challengeTokenTtlMs
  RateLimit,           \* the limit of each rate-limit policy
  RateWindow,          \* windowMs of the policies
  Unbound              \* the tenant binding of a session that has none

ASSUME AccountsAssumption ==
  /\ IsFiniteSet(Requests)
  /\ Open \notin User
  /\ {LockoutThreshold, RecoveryThreshold, CodeAttempts} \subseteq Nat \ {0}
  /\ {LedgerWindow, CodeLife} \subseteq Nat
  /\ {ResendCooldown, ChallengeLife, RateWindow} \subseteq Nat
  /\ RateLimit \in [{"login_account", "login_ip", "verification_send", "mfa_verify"} -> Nat]

Client == "client"   \* the one IP digest the calls come from
NoSecret == 0

-----------------------------------------------------------------------------
\* Rate limits: a sliding log of the attempts that were let through.  The
\* limiter prunes, counts and records in one step of the store.

LiveAttempts(log, at, window) == SelectSeq(log, LAMBDA t : t > at - window)

SlideWindow(log, at, limit, window) ==
  LET live == LiveAttempts(log, at, window)
  IN IF Len(live) < limit THEN [allowed |-> TRUE, log |-> Append(live, at)]
                          ELSE [allowed |-> FALSE, log |-> live]

\* assertWithinLimit: a refused call ends; so does one whose store is down,
\* for each of these policies fails closed.
Spend(q, policy, key, next) ==
  LET window == SlideWindow(db.spent[policy][key], now, RateLimit[policy], RateWindow)
      tables == [db EXCEPT !.spent[policy][key] = window.log]
  IN Writes(q, tables, IF window.allowed THEN next ELSE "refused", req[q].read)

Refused(q) == At(q, "refused") /\ Ends(q)

-----------------------------------------------------------------------------
\* The ledger of security events

Failure(type, user) == [type |-> type, user |-> user, at |-> now]

RecentFailures(type, user) ==
  Cardinality({i \in Ids(db.events) : /\ db.events[i].type = type
                                      /\ db.events[i].user = user
                                      /\ db.events[i].at > now - LedgerWindow})

\* MUTANT of LockedOut: the ledger is not consulted.
NeverLockedOut(type, user, threshold) == FALSE

LockedOut(type, user, threshold) == RecentFailures(type, user) >= threshold

\* A failed proof is recorded after it was judged.
RecordFailure(q, at, type) ==
  /\ At(q, at)
  /\ db' = [db EXCEPT !.events = Append(@, Failure(type, req[q].in.user))]
  /\ req' = [req EXCEPT ![q] = Idle]
  /\ UNCHANGED <<now, left>>

-----------------------------------------------------------------------------
\* Registration and e-mail verification

Registered(user) == db.accounts[user].status # "none"

BeginRegister(q, user) ==
  Begins(q, "registrations", "register.spend", [user |-> user, kind |-> "register"], <<>>)

BeginResend(q, user) ==
  Begins(q, "registrations", "register.spend", [user |-> user, kind |-> "resend"], <<>>)

SpendSend(q) ==
  /\ At(q, "register.spend")
  /\ Spend(q, "verification_send", req[q].in.user, req[q].in.kind)

\* The unique e-mail decides; a duplicate is answered like a success.
CreateAccount(q) ==
  LET user == req[q].in.user
  IN /\ At(q, "register")
     /\ IF Registered(user) THEN Ends(q)
        ELSE Writes(q, [db EXCEPT !.accounts[user].status = "active"], "issue", <<>>)

FindForResend(q) ==
  LET account == db.accounts[req[q].in.user]
  IN /\ At(q, "resend")
     /\ IF account.status = "active" /\ ~account.verified THEN Reads(q, "cooldown", <<>>)
                                                          ELSE Ends(q)

CodesOf(user) == {i \in Ids(db.codes) : db.codes[i].user = user}

CoolDown(q) ==
  LET sent == {db.codes[i].created : i \in CodesOf(req[q].in.user)}
  IN /\ At(q, "cooldown")
     /\ IF sent # {} /\ now - Max(sent) < ResendCooldown THEN Ends(q)
                                                         ELSE Reads(q, "issue", <<>>)

IssueVerification(q) ==
  LET code == [user |-> req[q].in.user, created |-> now, expires |-> now + CodeLife,
               attempts |-> 0, consumed |-> FALSE]
  IN /\ At(q, "issue")
     /\ Room(db.codes)
     /\ Writes(q, [db EXCEPT !.codes = Append(@, code)], "done", <<>>)

\* The rest of a call records and answers; no later decision reads it.
Done(q) == At(q, "done") /\ Ends(q)

BeginVerify(q, user, code) ==
  /\ Registered(user) /\ ~db.accounts[user].verified
  /\ Begins(q, "verifications", "code", [user |-> user, code |-> code], <<>>)

LiveCodes(user) ==
  {i \in CodesOf(user) : ~db.codes[i].consumed /\ db.codes[i].expires > now}

\* Only the latest live code is compared; its attempts are counted by the
\* statement after the comparison.
LatestActive(q) ==
  LET live == LiveCodes(req[q].in.user)
      latest == Max(live)
  IN /\ At(q, "code")
     /\ IF live = {} \/ db.codes[latest].attempts >= CodeAttempts THEN Ends(q)
        ELSE Reads(q, IF req[q].in.code = latest THEN "consume" ELSE "mismatch", latest)

CodeMismatch(q) ==
  /\ At(q, "mismatch")
  /\ Writes(q, [db EXCEPT !.codes[req[q].read].attempts = @ + 1], "done", <<>>)

ConsumeCode(q) ==
  /\ At(q, "consume")
  /\ Writes(q, [db EXCEPT !.codes[req[q].read].consumed = TRUE], "mark", <<>>)

MarkEmailVerified(q) ==
  /\ At(q, "mark")
  /\ Writes(q, [db EXCEPT !.accounts[req[q].in.user].verified = TRUE], "done", <<>>)

VerifiedEmailOf(user) == Registered(user) /\ db.accounts[user].verified

-----------------------------------------------------------------------------
\* Login

MfaActive(row) == row.confirmed # Open /\ row.disabled = Open

BeginLogin(q, user, right) ==
  Begins(q, "logins", "login.spend", [user |-> user, right |-> right], <<>>)

SpendLogin(q) ==
  \/ At(q, "login.spend") /\ Spend(q, "login_account", req[q].in.user, "login.ip")
  \/ At(q, "login.ip") /\ Spend(q, "login_ip", Client, "login.find")

FindAccount(q) ==
  LET user == req[q].in.user
  IN /\ At(q, "login.find")
     /\ IF Registered(user) THEN Reads(q, "lockout", db.accounts[user].status)
                            ELSE Ends(q)

CheckLockout(q) ==
  /\ At(q, "lockout")
  /\ IF LockedOut("login_failed", req[q].in.user, LockoutThreshold) THEN Ends(q)
     ELSE Reads(q, IF req[q].in.right THEN "verified" ELSE "failed", req[q].read)

\* A signed token of its own; challenges holds those issued so far.
Challenge(user) == [user |-> user, expires |-> now + ChallengeLife]

\* The status was read with the account, before the password was verified.
CheckSecondFactor(q) ==
  LET user == req[q].in.user
  IN /\ At(q, "verified")
     /\ IF req[q].read # "active" THEN Ends(q)
        ELSE IF MfaActive(db.mfa[user])
        THEN Writes(q, [db EXCEPT !.challenges = @ \cup {Challenge(user)}], "done", <<>>)
        ELSE Reads(q, "session", "password")

\* proof and asked say what a session was issued on; bound is the instant of
\* its tenant binding, since that at which the call that bound it had begun,
\* and replaces the session it was switched from.
Session(user, proof, asked, tenant, replaces, since) ==
  [user |-> user, proof |-> proof, asked |-> asked, revoked |-> FALSE, tenant |-> tenant,
   bound |-> now, replaces |-> replaces, since |-> since]

IssueSession(q) ==
  LET session == Session(req[q].in.user, req[q].read, req[q].now, Unbound, 0, req[q].now)
  IN /\ At(q, "session")
     /\ Room(db.sessions)
     /\ Writes(q, [db EXCEPT !.sessions = Append(@, session)], "done", <<>>)

-----------------------------------------------------------------------------
\* Second factor: enrol, confirm, challenge, disable

BeginEnroll(q, user) ==
  /\ ~MfaActive(db.mfa[user])
  /\ Begins(q, "factors", "enroll", [user |-> user], <<>>)

\* saveEnrolment replaces whatever the row holds by now, and its codes.
SaveEnrolment(q) ==
  LET user == req[q].in.user
      secret == db.minted + 1
  IN /\ At(q, "enroll")
     /\ Writes(q, [db EXCEPT !.minted = secret, !.recovery[user] = {},
                             !.mfa[user] = [secret |-> secret, confirmed |-> Open,
                                            disabled |-> Open]], "done", <<>>)

\* The code is verified against the secret that was read.
BeginConfirm(q, user, secret) ==
  LET row == db.mfa[user]
  IN /\ row.secret = secret /\ secret # NoSecret
     /\ row.confirmed = Open /\ row.disabled = Open
     /\ Begins(q, "factors", "confirm", [user |-> user], <<>>)

\* confirmEnrolment updates the row by account: another transaction than the
\* one that replaces the codes.
ConfirmEnrolment(q) ==
  LET user == req[q].in.user
  IN /\ At(q, "confirm")
     /\ Writes(q, [db EXCEPT !.mfa[user].confirmed = now, !.mfa[user].disabled = Open],
               "codes", <<>>)

ReplaceRecoveryCodes(q) ==
  LET user == req[q].in.user
      code == [code |-> db.minted + 1, used |-> FALSE]
  IN /\ At(q, "codes")
     /\ Writes(q, [db EXCEPT !.minted = code.code, !.recovery[user] = {code}], "done", <<>>)

\* Both ways to answer a challenge, and the way to disable the factor, spend
\* from one budget.
BeginChallenge(q, challenge, method, presented) ==
  /\ challenge \in db.challenges /\ challenge.expires > now
  /\ Begins(q, "challenges", "challenge.spend",
            [user |-> challenge.user, code |-> presented, next |-> method], <<>>)

SpendChallenge(q) ==
  /\ At(q, "challenge.spend")
  /\ Spend(q, "mfa_verify", req[q].in.user,
           IF req[q].in.next = "disable" THEN "disable" ELSE "open")

OpenChallenge(q) ==
  /\ At(q, "open")
  /\ IF db.accounts[req[q].in.user].status = "active" THEN Reads(q, req[q].in.next, <<>>)
                                                      ELSE Ends(q)

VerifyTotp(q) ==
  LET row == db.mfa[req[q].in.user]
  IN /\ At(q, "totp")
     /\ IF MfaActive(row) /\ req[q].in.code = row.secret THEN Reads(q, "session", "totp")
                                                         ELSE Ends(q)

CheckRecoveryLock(q) ==
  /\ At(q, "recovery")
  /\ IF LockedOut("recovery_code_failed", req[q].in.user, RecoveryThreshold) THEN Ends(q)
     ELSE Reads(q, "claim", <<>>)

\* MUTANT of Claimable: used_at IS NULL is missing from the WHERE.
ClaimableAgain(row, code) == row.code = code

Claimable(row, code) == row.code = code /\ ~row.used

\* proofs counts what each code has proved.
Claimed(user, code) ==
  LET rows == {[row EXCEPT !.used = row.used \/ row.code = code] : row \in db.recovery[user]}
  IN [db EXCEPT !.recovery[user] = rows, !.proofs = Append(@, code)]

\* consumeRecoveryCode: one conditional UPDATE.
ClaimRecoveryCode(q) ==
  LET in == req[q].in
      row == {r \in db.recovery[in.user] : Claimable(r, in.code)}
      proven == IF in.next = "disable" THEN "off" ELSE "session"
  IN /\ At(q, "claim")
     /\ IF row # {} THEN Writes(q, Claimed(in.user, in.code), proven, "recovery")
        ELSE IF in.next = "disable" THEN Ends(q)
        ELSE Reads(q, "unproven", <<>>)

BeginDisable(q, user, presented) ==
  /\ MfaActive(db.mfa[user])
  /\ Begins(q, "challenges", "challenge.spend",
            [user |-> user, code |-> presented, next |-> "disable"], db.mfa[user].secret)

\* The code is tried as a one-time password first, then as a recovery code.
ProveDisable(q) ==
  /\ At(q, "disable")
  /\ Reads(q, IF req[q].in.code = req[q].read THEN "off" ELSE "claim", <<>>)

DisableEnrolment(q) ==
  LET user == req[q].in.user
  IN /\ At(q, "off")
     /\ Writes(q, [db EXCEPT !.mfa[user].disabled = now, !.recovery[user] = {}], "done", <<>>)

\* An administrator changes the status: module Sessions models what follows.
SetStatus(user, status) ==
  /\ Registered(user) /\ db.accounts[user].status # status
  /\ db' = [db EXCEPT !.accounts[user].status = status]
  /\ left["operators"] > 0
  /\ left' = [left EXCEPT !["operators"] = @ - 1]
  /\ UNCHANGED <<now, req>>

-----------------------------------------------------------------------------
\* The steps of a call that has begun.
AccountsStep(q) ==
  \/ SpendSend(q) \/ SpendLogin(q) \/ SpendChallenge(q) \/ Refused(q) \/ Done(q)
  \/ CreateAccount(q) \/ FindForResend(q) \/ CoolDown(q) \/ IssueVerification(q)
  \/ LatestActive(q) \/ CodeMismatch(q) \/ ConsumeCode(q) \/ MarkEmailVerified(q)
  \/ FindAccount(q) \/ CheckLockout(q) \/ CheckSecondFactor(q) \/ IssueSession(q)
  \/ RecordFailure(q, "failed", "login_failed")
  \/ SaveEnrolment(q) \/ ConfirmEnrolment(q) \/ ReplaceRecoveryCodes(q)
  \/ OpenChallenge(q) \/ VerifyTotp(q) \/ CheckRecoveryLock(q) \/ ClaimRecoveryCode(q)
  \/ RecordFailure(q, "unproven", "recovery_code_failed")
  \/ ProveDisable(q) \/ DisableEnrolment(q)

-----------------------------------------------------------------------------
\* Properties

\* Login, recovery and verification count failures before the proof and
\* record their own after it, so calls that overlap may pass together: never
\* by more than one failure for each call that may be in flight.
LedgerIsBounded ==
  \A u \in User :
    /\ RecentFailures("login_failed", u) < LockoutThreshold + Cardinality(Requests)
    /\ RecentFailures("recovery_code_failed", u) < RecoveryThreshold + Cardinality(Requests)

CodeAttemptsAreBounded ==
  \A i \in Ids(db.codes) : db.codes[i].attempts < CodeAttempts + Cardinality(Requests)

\* A recovery code proves one thing, whatever overlaps: consumeRecoveryCode.
RecoveryCodesProveOnce ==
  \A i, j \in DOMAIN db.proofs : db.proofs[i] = db.proofs[j] => i = j

\* A second factor that was active before a login began, and still is, is
\* never passed over by a session on the password alone.
PasswordIsNotEnough ==
  \A i \in Ids(db.sessions) :
    LET s == db.sessions[i]
    IN s.proof = "password" /\ MfaActive(db.mfa[s.user])
         => db.mfa[s.user].confirmed >= s.asked

\* What the doors of an account let through, however calls overlap.
ProofsAreAccounted ==
  /\ LedgerIsBounded
  /\ CodeAttemptsAreBounded
  /\ RecoveryCodesProveOnce
  /\ PasswordIsNotEnough
=============================================================================
