----------------------------- MODULE MobileClient -----------------------------
(***************************************************************************)
(* The session of the mobile client: the credential on disk with its       *)
(* abandonment marker, the session manager, the single flight of token     *)
(* refresh, the application lock and the startup sequence                  *)
(* (src/apps/mobile/lib).                                                  *)
(*                                                                         *)
(* One process runs the asynchronous functions of the client; between two  *)
(* awaits nothing else runs, at an await anything may.  A task is one such *)
(* function with the await it stands at; its continuation is the same      *)
(* step as the platform's answer, except for a read, whose value is in     *)
(* hand (restored) before anybody looks at it.  A generation is current    *)
(* until a later one begins.  held, behind and past are history.           *)
(***************************************************************************)
EXTENDS Integers, FiniteSets

CONSTANTS
  Tasks,        \* asynchronous functions that may be under way
  Credentials,  \* what the server may issue, one after the other
  MaxCalls      \* bound on what the user and the requests begin

\* A credential is none of the answers that stand for its absence.
ASSUME ClientAssumption ==
  Credentials # {} /\ {"none", "failed"} \cap Credentials = {}

VARIABLES
  keystore,   \* the credential in platform secure storage
  flags,      \* local security state: the marker and the lock
  app,        \* the memory of the process
  task,       \* per task: what it is and where it waits
  past        \* issued, written in this launch, abandoned; calls begun; let in

clientVars == <<keystore, flags, app, task, past>>

NoCredential == "none"

IdleTask == [op |-> "none", at |-> "idle", cred |-> NoCredential, got |-> NoCredential,
             current |-> FALSE, raised |-> FALSE, behind |-> "open", held |-> NoCredential]

NoProcess == [memory |-> NoCredential, latch |-> FALSE, inFlight |-> "none",
              terminated |-> FALSE, choice |-> "unloaded", unlocked |-> FALSE, screen |-> "off"]

ClientInit ==
  /\ keystore \in {NoCredential, CHOOSE c \in Credentials : TRUE}
  /\ flags \in [marker : {FALSE}, lock : BOOLEAN]
  /\ app = NoProcess
  /\ task = [k \in Tasks |-> IdleTask]
  /\ past = [issued |-> {keystore} \cap Credentials, own |-> {}, abandoned |-> {}, calls |-> 0, let |-> FALSE]

-----------------------------------------------------------------------------
(* The process *)

\* isLocked: not unlocked in this process, and the lock not durably off.
IsLocked(a) == ~a.unlocked /\ a.choice # "off"

\* Mutant: readBool(key) ?? false.
AbsentWhenUnavailable(answer) == IF answer = "failed" THEN "off" ELSE answer

\* What load() makes of the answer; a failed or damaged read is no answer.
ChoiceOf(answer) == IF answer = "failed" THEN "unavailable" ELSE answer

\* The operations that stand between a task and the credential.
AtTheStore == {"marker", "stored", "erase", "lowerRead", "restored", "write", "lowerWrite",
               "raise", "delete", "lowerClear"}

IsFree(k) == task[k].at = "idle" /\ app.screen # "off" /\ past.calls < MaxCalls

OneMoreCall == [past EXCEPT !.calls = @ + 1]

Waits(k, at) == task[k].at = at

\* ++_generation by k, or by the listener of ended sessions (nobody).
Generation(k, r) == [j \in Tasks |-> IF j = k THEN [r EXCEPT !.current = TRUE]
                                     ELSE [task[j] EXCEPT !.current = FALSE]]

Superseded(k, r) == [j \in Tasks |-> [(IF j = k THEN r ELSE task[j]) EXCEPT !.current = FALSE]]

Continues(k, r) == task' = [task EXCEPT ![k] = r]

Returns(k) == Continues(k, IdleTask)

\* A credential the server issues is a new one.
Unissued == Credentials \ past.issued

NextIssued == CHOOSE c \in Unissued : TRUE

-----------------------------------------------------------------------------
(* SecureTokenStore.clear: the latch, the marker, the erase *)

\* The task and the process on entering it; what is held counts as given up
\* only when no other operation on the store is under way.
Clearing(k, r) ==
  [r EXCEPT !.at = "raise",
            !.held = IF \E j \in Tasks \ {k} : task[j].at \in AtTheStore
                       THEN NoCredential ELSE keystore]

Forgets(a) == [a EXCEPT !.memory = NoCredential, !.latch = TRUE]

\* SessionManager.end: nothing to end without a session.
Ends(k, r, a, gone) ==
  IF a.memory = NoCredential THEN gone
  ELSE /\ app' = Forgets(a)
       /\ Continues(k, Clearing(k, r))

Given(k) == [past EXCEPT !.abandoned = @ \cup ({task[k].held} \cap Credentials)]

RaiseMarker(k) ==
  /\ Waits(k, "raise")
  /\ \E written \in BOOLEAN :
       /\ flags' = [flags EXCEPT !.marker = @ \/ written]
       /\ past' = IF written THEN Given(k) ELSE past
       /\ Continues(k, [task[k] EXCEPT !.at = "delete", !.raised = written])
  /\ UNCHANGED <<keystore, app>>

\* _stateForAbandonment.
ForAbandonment(outcome) == IF outcome = "lost" THEN "blocked" ELSE "signedOut"

\* What follows the answer of clear.
Cleared(k, outcome, a) ==
  CASE task[k].op \in {"start", "ending", "refresh"} ->
         /\ app' = [a EXCEPT !.screen = "expired",
                             !.inFlight = IF task[k].op = "refresh" THEN "none" ELSE @]
         /\ task' = Superseded(k, IdleTask)
    [] task[k].op = "signIn" ->
         /\ app' = [a EXCEPT !.screen = ForAbandonment(outcome)]
         /\ task' = Superseded(k, IdleTask)
    [] task[k].op = "switch" ->
         /\ app' = [a EXCEPT !.screen = "expired", !.memory = task[k].cred]
         /\ task' = Superseded(k, [task[k] EXCEPT !.at = "write", !.held = NoCredential,
                                                  !.raised = FALSE])
    [] task[k].op = "abandon" ->
         /\ app' = IF task[k].current THEN [a EXCEPT !.screen = ForAbandonment(outcome)] ELSE a
         /\ Returns(k)
    [] OTHER ->
         /\ app' = a
         /\ Continues(k, [task[k] EXCEPT !.at = "wipe", !.held = NoCredential, !.raised = FALSE])

DeleteCredential(k) ==
  /\ Waits(k, "delete")
  /\ \/ /\ keystore' = NoCredential
        /\ app' = [app EXCEPT !.latch = FALSE]
        /\ past' = Given(k)
        /\ Continues(k, [task[k] EXCEPT !.at = "lowerClear"])
     \/ /\ Cleared(k, IF task[k].raised THEN "invalidated" ELSE "lost", app)
        /\ UNCHANGED <<keystore, past>>
  /\ UNCHANGED flags

\* PersistedSessionInvalidation.clear: a removal or else a write of false.
Lowered(done) == [flags EXCEPT !.marker = @ /\ ~done]

ClearanceAnswered(k) ==
  /\ Waits(k, "lowerClear")
  /\ \E done \in BOOLEAN : flags' = Lowered(done)
  /\ Cleared(k, "gone", app)
  /\ UNCHANGED <<keystore, past>>

\* clearLocalCredentials goes on with deleteAll, and sign-out locks again;
\* a wipe that fails may have removed the credential.
Wipe(k) ==
  /\ Waits(k, "wipe")
  /\ keystore' \in {keystore, NoCredential}
  /\ app' = [app EXCEPT !.unlocked = @ /\ task[k].op # "signOut"]
  /\ Returns(k)
  /\ UNCHANGED <<flags, past>>

-----------------------------------------------------------------------------
(* SecureTokenStore.read and SessionManager.restore *)

\* What a restore goes past: nothing, the lock of a process that was let in
\* before, or that of one that never was.
Behind(a) ==
  IF ~flags.lock \/ a.unlocked THEN "open" ELSE IF past.let THEN "relocked" ELSE "locked"

\* _restoreAndBootstrap, in its own generation.
Restoring(k, r, a) ==
  [r EXCEPT !.op = "start", !.at = "marker", !.cred = NoCredential, !.behind = Behind(a)]

Restores(k, r, a) ==
  /\ app' = [a EXCEPT !.screen = "restoring"]
  /\ task' = Generation(k, Restoring(k, r, a))

InHand(k, got) == Continues(k, [task[k] EXCEPT !.at = "restored", !.got = got])

\* Mutant: only the latch of this process is asked.
UnlessLatched == ~app.latch

MayRead == ~flags.marker /\ ~app.latch

ReadMarker(k) ==
  /\ Waits(k, "marker")
  /\ \/ InHand(k, "failed")
     \/ Continues(k, [task[k] EXCEPT !.at = IF MayRead THEN "stored" ELSE "erase"])
  /\ UNCHANGED <<keystore, flags, app, past>>

ReadStored(k) ==
  /\ Waits(k, "stored")
  /\ \E got \in {keystore, "failed"} : InHand(k, got)
  /\ UNCHANGED <<keystore, flags, app, past>>

\* A credential that was given up is erased again, never handed back.
RetryErase(k) ==
  /\ Waits(k, "erase")
  /\ \/ /\ keystore' = NoCredential
        /\ app' = [app EXCEPT !.latch = FALSE]
        /\ Continues(k, [task[k] EXCEPT !.at = "lowerRead"])
     \/ /\ InHand(k, "failed")
        /\ UNCHANGED <<keystore, app>>
  /\ UNCHANGED <<flags, past>>

RetryAnswered(k) ==
  /\ Waits(k, "lowerRead")
  /\ \E done \in BOOLEAN : flags' = Lowered(done)
  /\ InHand(k, NoCredential)
  /\ UNCHANGED <<keystore, app, past>>

\* The session is what was read, also for a generation that is over; a
\* refresh token that has aged out ends it at once.
Restored(k) ==
  /\ Waits(k, "restored")
  /\ LET found == task[k].got \in Credentials
         a     == [app EXCEPT !.memory = IF found THEN task[k].got ELSE NoCredential]
     IN \/ /\ ~task[k].current \/ ~found
           /\ app' = IF task[k].current THEN [a EXCEPT !.screen = "signedOut"] ELSE a
           /\ Returns(k)
        \/ /\ task[k].current /\ found
           /\ \/ /\ app' = [a EXCEPT !.screen = "bootstrap"]
                 /\ Continues(k, [task[k] EXCEPT !.at = "bootstrap", !.got = NoCredential,
                                                 !.behind = "open"])
              \/ Ends(k, [task[k] EXCEPT !.got = NoCredential, !.behind = "open"], a, FALSE)
  /\ UNCHANGED <<keystore, flags, past>>

BootstrapAnswers(k) ==
  /\ Waits(k, "bootstrap")
  /\ \E screen \in {"inside", "unavailable", "expired"} :
       app' = IF task[k].current THEN [app EXCEPT !.screen = screen] ELSE app
  /\ Returns(k)
  /\ UNCHANGED <<keystore, flags, past>>

-----------------------------------------------------------------------------
(* SecureTokenStore.write and SessionManager.adopt: memory first *)

Adopting(k, r, c) == [r EXCEPT !.at = "write", !.cred = c]

\* What follows adopt: a switch ignores whether it was persisted, a sign-in
\* that was not is ended again.
Adopted(k, persisted, a) ==
  CASE task[k].op = "refresh" -> app' = [a EXCEPT !.inFlight = "none"] /\ Returns(k)
    [] task[k].op = "switch" \/ (task[k].op = "signIn" /\ persisted) -> Restores(k, task[k], a)
    [] OTHER -> Ends(k, task[k], a, app' = a /\ Returns(k))

WriteCredential(k) ==
  /\ Waits(k, "write")
  /\ \/ /\ keystore' = task[k].cred
        /\ app' = [app EXCEPT !.latch = FALSE]
        /\ past' = [past EXCEPT !.own = @ \cup {task[k].cred}, !.abandoned = @ \ {task[k].cred}]
        /\ Continues(k, [task[k] EXCEPT !.at = "lowerWrite"])
     \/ /\ Adopted(k, FALSE, app)
        /\ UNCHANGED <<keystore, past>>
  /\ UNCHANGED flags

ReplacementAnswered(k) ==
  /\ Waits(k, "lowerWrite")
  /\ \E done \in BOOLEAN :
       /\ flags' = Lowered(done)
       /\ Adopted(k, ~flags'.marker, app)
  /\ UNCHANGED <<keystore, past>>

-----------------------------------------------------------------------------
(* What the user and the requests begin *)

\* start(): the lock is asked before anything opens the keystore.
Starts(k, a) ==
  /\ app' = [a EXCEPT !.screen = "loading"]
  /\ task' = Generation(k, [IdleTask EXCEPT !.op = "start", !.at = "load"])
  /\ UNCHANGED <<keystore, flags>>

Launch(k) ==
  /\ app.screen = "off"
  /\ Starts(k, NoProcess)
  /\ UNCHANGED past

Restart(k) ==
  /\ IsFree(k)
  /\ app.screen \in {"securityUnavailable", "expired", "unavailable"}
  /\ Starts(k, app)
  /\ past' = OneMoreCall

\* handleResume after the grace period.
ComesBack(k) ==
  /\ IsFree(k)
  /\ app.choice # "off"
  /\ Starts(k, [app EXCEPT !.unlocked = FALSE])
  /\ past' = OneMoreCall

LoadLock(k) ==
  /\ Waits(k, "load")
  /\ \E answer \in {IF flags.lock THEN "on" ELSE "off", "failed"} :
       LET a == [app EXCEPT !.choice = ChoiceOf(answer)]
           stops(screen) == app' = [a EXCEPT !.screen = screen] /\ Returns(k)
       IN IF ~task[k].current THEN app' = a /\ Returns(k)
          ELSE IF a.choice = "unavailable" THEN stops("securityUnavailable")
          ELSE IF IsLocked(a) THEN stops("locked")
          ELSE Restores(k, task[k], a)
  /\ past' = [past EXCEPT !.let = @ \/ ~flags.lock]
  /\ UNCHANGED <<keystore, flags>>

\* The platform authenticated the user against the lock.
Unlock(k) ==
  /\ IsFree(k)
  /\ app.screen = "locked"
  /\ LET a == [app EXCEPT !.unlocked = TRUE]
     IN IF app.choice = "unavailable" THEN Starts(k, a)
        ELSE Restores(k, IdleTask, a) /\ UNCHANGED <<keystore, flags>>
  /\ past' = [OneMoreCall EXCEPT !.let = TRUE]

RetryBootstrap(k) ==
  /\ IsFree(k)
  /\ app.screen = "unavailable"
  /\ Restores(k, IdleTask, app)
  /\ UNCHANGED <<keystore, flags>>
  /\ past' = OneMoreCall

\* abandonLockedSession, which is also the retry of a blocked recovery.
Abandon(k) ==
  /\ IsFree(k)
  /\ app.screen \in {"locked", "blocked"}
  /\ app' = Forgets(app)
  /\ task' = Generation(k, Clearing(k, [IdleTask EXCEPT !.op = "abandon"]))
  /\ UNCHANGED <<keystore, flags>>
  /\ past' = OneMoreCall

\* The lock is set in a session, or stood down by a device that cannot
\* satisfy it; this launch stays open.
SetLock ==
  /\ app.screen # "off" /\ past.calls < MaxCalls
  /\ \E enabled, written \in BOOLEAN :
       /\ app.memory # NoCredential \/ (app.choice = "on" /\ ~enabled)
       /\ flags' = IF written THEN [flags EXCEPT !.lock = enabled] ELSE flags
       /\ app' = [app EXCEPT !.unlocked = TRUE,
                             !.choice = IF ~written THEN @ ELSE IF enabled THEN "on" ELSE "off"]
  /\ past' = [OneMoreCall EXCEPT !.let = TRUE]
  /\ UNCHANGED <<keystore, task>>

\* A request to the server that will change the session; verify is a change
\* that leaves the credential as it is: an address verified, a tenant bound.
AskServer(k, op) == Continues(k, [IdleTask EXCEPT !.op = op, !.at = "asked"])

Asks(k) ==
  /\ IsFree(k)
  /\ \/ app.screen = "signedOut" /\ AskServer(k, "signIn")
     \/ app.screen = "signedOut" /\ AskServer(k, "reset")
     \/ app.screen = "inside" /\ app.memory # NoCredential /\ AskServer(k, "signOut")
     \/ app.screen = "inside" /\ app.memory # NoCredential /\ AskServer(k, "switch")
     \/ app.screen = "inside" /\ app.memory # NoCredential /\ AskServer(k, "verify")
  /\ UNCHANGED <<keystore, flags, app>>
  /\ past' = OneMoreCall

\* ensureUsable and refreshAfterRejection: one flight, whoever asks.
Refresh(k) ==
  /\ IsFree(k)
  /\ app.memory # NoCredential /\ ~app.terminated /\ app.inFlight = "none"
  /\ app' = [app EXCEPT !.inFlight = "one"]
  /\ AskServer(k, "refresh")
  /\ UNCHANGED <<keystore, flags>>
  /\ past' = OneMoreCall

\* ensureUsable of a chain that has aged out: _terminate.
AgedOut(k) ==
  /\ IsFree(k)
  /\ app.memory # NoCredential /\ ~app.terminated
  /\ Ends(k, [IdleTask EXCEPT !.op = "ending"], [app EXCEPT !.terminated = TRUE], FALSE)
  /\ UNCHANGED <<keystore, flags>>
  /\ past' = OneMoreCall

-----------------------------------------------------------------------------
(* What the server answers *)

\* A sign-in resets the coordinator and adopts; a refresh adopts whatever
\* happened to the session since; a switch ends the old session first.
Issued(k) ==
  /\ Waits(k, "asked")
  /\ task[k].op \in {"signIn", "refresh", "switch"}
  /\ Unissued # {}
  /\ past' = [past EXCEPT !.issued = @ \cup {NextIssued}]
  /\ LET r == Adopting(k, task[k], NextIssued)
         adopts(a) == app' = [a EXCEPT !.memory = NextIssued] /\ Continues(k, r)
     IN CASE task[k].op = "signIn"  -> adopts([app EXCEPT !.terminated = FALSE, !.inFlight = "none"])
          [] task[k].op = "refresh" -> adopts(app)
          [] OTHER                  -> Ends(k, r, app, adopts(app))
  /\ UNCHANGED <<keystore, flags>>

\* onEmailVerified, onTenantSelected: startup goes on from the restore.
Verified(k) ==
  /\ Waits(k, "asked")
  /\ task[k].op = "verify"
  /\ Restores(k, IdleTask, app)
  /\ UNCHANGED <<keystore, flags, past>>

\* No answer or one that may be retried leaves everything as it is; a
\* refresh that is rejected terminates.
Unanswered(k) ==
  /\ Waits(k, "asked")
  /\ task[k].op \in {"signIn", "refresh", "switch", "verify"}
  /\ app' = IF task[k].op = "refresh" THEN [app EXCEPT !.inFlight = "none"] ELSE app
  /\ Returns(k)
  /\ UNCHANGED <<keystore, flags, past>>

Refused(k) ==
  /\ Waits(k, "asked")
  /\ \/ task[k].op = "refresh" /\ LET a == [app EXCEPT !.terminated = TRUE]
                                  IN Ends(k, task[k], a,
                                          app' = [a EXCEPT !.inFlight = "none"] /\ Returns(k))
     \/ task[k].op = "switch" /\ Ends(k, [task[k] EXCEPT !.op = "ending"], app,
                                      UNCHANGED app /\ Returns(k))
  /\ UNCHANGED <<keystore, flags, past>>

\* Whatever the server said of a sign-out, the local wipe runs.
WipeBegins(k) ==
  /\ Waits(k, "asked")
  /\ task[k].op \in {"signOut", "reset"}
  /\ app' = Forgets(app)
  /\ Continues(k, Clearing(k, task[k]))
  /\ UNCHANGED <<keystore, flags, past>>

\* The process dies with everything it had in memory.
ProcessDies ==
  /\ app.screen # "off"
  /\ app' = NoProcess
  /\ task' = [k \in Tasks |-> IdleTask]
  /\ past' = [past EXCEPT !.own = {}, !.let = FALSE]
  /\ UNCHANGED <<keystore, flags>>

ClientNext ==
  \/ \E k \in Tasks :
       \/ Launch(k) \/ Restart(k) \/ ComesBack(k) \/ LoadLock(k) \/ Unlock(k)
       \/ RetryBootstrap(k) \/ Abandon(k) \/ Asks(k) \/ Refresh(k) \/ AgedOut(k)
       \/ Issued(k) \/ Verified(k) \/ Unanswered(k) \/ Refused(k) \/ WipeBegins(k)
       \/ ReadMarker(k) \/ ReadStored(k) \/ RetryErase(k) \/ RetryAnswered(k)
       \/ Restored(k) \/ BootstrapAnswers(k)
       \/ WriteCredential(k) \/ ReplacementAnswered(k)
       \/ RaiseMarker(k) \/ DeleteCredential(k) \/ ClearanceAnswered(k) \/ Wipe(k)
  \/ SetLock \/ ProcessDies

ClientSpec == ClientInit /\ [][ClientNext]_clientVars

-----------------------------------------------------------------------------
(* Properties *)

\* isDurablyResolved (token_store.dart:94): once a credential that was given
\* up is recorded as abandoned or erased, no read hands it back, in this
\* process or a later one, whatever the platform refuses, unless it is written again.
\* It is said of abandonments that found no other operation on the store under way.
AbandonedStaysAbandoned ==
  \A k \in Tasks : Waits(k, "restored") => task[k].got \notin past.abandoned

\* A read that went past the lock yields nothing an earlier process left.
Opens(lock) ==
  \E k \in Tasks : /\ Waits(k, "restored")
                   /\ task[k].behind = lock
                   /\ task[k].got \in Credentials \ past.own

\* The lock is asked before the keystore is opened (app_lock.dart,
\* startup_coordinator.dart:12-28): a process that was never let in opens
\* nothing an earlier one left on the disk, however its lock is read.
LockedOpensNothing == ~Opens("locked")

\* There are exactly two ways past the lock (startup_coordinator.dart:30-34).
\* Not so of a process that is locked again while a request is under way:
\* onTenantSelected, onEmailVerified and onAuthenticated restore without
\* asking the lock and supersede the start that would have shown it.
OnlyWaysPastTheLock == ~Opens("locked") /\ ~Opens("relocked")
=============================================================================
