# Karar: a TLA+ verification project

Karar is a TypeScript monorepo (an API, a worker, the modules they compose, and
the platform package under them) with a Flutter client and a PostgreSQL
database. This directory holds TLA+ specifications of the parts of it whose
correctness depends on the order in which things happen, the TLC configurations
that check them on small instances, and TLAPS proofs that hold for every
instance. Line numbers are those of `src/`.

Contents: 1 inventory, 2 plan, 3 the modules and the code, 4 the runs,
5 fairness, 6 what is proved, 7 what the code does not keep, 8 what is left out.

## 1. Inventory

| Part | State it keeps | Operations | Hard behaviour | What makes it correct |
|---|---|---|---|---|
| Transactional outbox (`packages/platform/src/outbox`) | `platform.outbox_events`: attempts, claim, available_at, published_at, dead_lettered_at | enqueue in the producer's transaction; claim a batch; publish; mark; retry or dead-letter; release; start, stop | several relays with expiring claims, a crash between publish and mark, statements that fail mid-batch | only committed events are delivered; outcomes are earned, final and reached |
| Outbox consumers (`outbox/receipts.ts`, `events/bus.ts`) | `platform.consumer_receipts` and each consumer's own tables | `withIdempotency`, `InMemoryEventBus.publish` | repeated delivery, a consumer that fails half-way | one effect per consumer and event |
| Job queue and poller (`platform/src/jobs`) | `platform.jobs`: status, attempts, lease; the claimed batch, the handler in flight | enqueue, claim, heartbeat, complete, fail, dead-letter, release, recover; runOnce, start, stop | leases that expire under a running handler, late reports, a worker name that is the same in its next claim | a live lease ends only by its own claim; bounded executions; terminal states are final and reached |
| Identity: sessions (`modules/identity`) | `sessions`, `refresh_token_families`, `refresh_tokens` | refresh, authenticate, list, revoke, log out, bind, rebind; login, reset, change, disable, enable | concurrent presentation of one token, revocation racing refresh, login or switch | rotation never forks; a replay ends the session; a dead family grows no further; one live session per login; revocation is immediate |
| Identity: accounts | accounts, verification codes, security ledger, rate windows, second factors, challenges, recovery codes | register, resend, verify, log in, enrol, confirm, disable, challenge, recover | check, hash for a while, then write | nobody is let in without what the account asks for; each proof is used once |
| Authorization (`modules/authorization`) | role assignments | assign, revoke, authorize | authorize, then write | who decides held the authority when asked |
| Tenancy and bootstrap (`modules/tenancy`, `modules/bootstrap`) | tenants, members, invitations, a session's tenant | create, invite, redeem, switch, bind, list | verify, rebind, verify again, compensate | one membership per redemption; every binding rests on a membership; what is on record of it is so |
| Users (`modules/users`) | profiles with their status history | update, request disable, what follows | guarded update | the history is a chain of legal transitions |
| Consent (`modules/consent`) | documents, versions, grants, re-consent evaluations, processing bases | accept, withdraw, publish, classify, evaluate, check | two acceptances, withdrawal racing re-grant, publication racing a check | evidence is never rewritten; processing only on a live consent |
| Operating entities (`modules/operating-entity`) | entities, bindings, roles, licences, permissions, migrations | register, assign, plan and advance a migration | check, then update by id | what is recorded as final stays |
| Jurisdiction (`modules/jurisdiction`, `packages/jurisdiction-policy`) | user and tenant assignments, the activation ledger; packs are code | assign, declare, verify, activate, retire, resolve | end and insert in two transactions, an append decided on a stale read | windows bind forward; a ceiling rests on what was activated |
| Subject policy (`modules/subject-policy`) | selections | elect, withdraw, view, replay | recheck, then insert | a replay of a settled instant is stable |
| Control plane (`modules/control-plane`) | kill switches with versions and history | operate, check | versioned updates, expiry, store outage | a restriction is obeyed; outage closes |
| Capability (`modules/capability`) | availability, entitlements, their histories | set, grant, revoke, resolve | eight gates over several statements and ports | what is allowed was allowed by every gate while it was resolved |
| Database CLI (`platform/src/db`) | the cluster's roles, the database, the migration ledger | create, migrate, verify, reset-local | two operators, a lost COMMIT answer | the ledger is the history of the files |
| Entrypoints (`apps/api`, `apps/worker`) | where boot or shutdown is; the loops' heartbeats | boot, listen, ready, shut down | readiness that awaits between its facts, shutdown with work in flight | readiness is earned; shutdown drains |
| Connection pool (`db/adapter.ts`, `db/principal-context.ts`) | per session its transaction and settings | query, withTransaction, withPrincipalContext | lost connections, failed rollbacks, timeouts | no principal reaches another's statement |
| Mobile client (`apps/mobile/lib`) | the persisted credential and its marker, the lock, the refresh in flight, the startup generation | start, unlock, restore, abandon, sign in, refresh, switch, sign out, set the lock | every storage call may be refused, continuations overlap, the process dies anywhere | a credential that was given up stays so; the lock is asked first |
| Configuration, money, client address, classification | none | pure functions | boundaries, rounding, spoofed headers | as the bounded assumptions state |
| Audit trail | append-only rows | append | it follows the change and may be lost | what it says is so |

How the parts interact. A use case of a module writes its rows and, where the
module has events, enqueues them in the same transaction; the worker's relay
claims an event and calls the bus, which calls the consumers, each of which
records a receipt in the transaction of its effect. The poller claims jobs. An
HTTP request is authenticated against the identity tables on every call; its
session's tenant is set by tenancy or bootstrap through identity's bind and
rebind; authorization is asked per request. A consent check asks the register of
entities whose document it is and jurisdiction which pack is in force; a
capability's resolution asks the ceiling, the entitlements and, through ports,
consent, licences and providers. The client holds the refresh token that identity
rotates. Processes share nothing but the database, at READ COMMITTED (no
transaction sets another level), and a Redis store for the rate limits.

The hazards of this code, each at its line, are in `PROJECT.json`. A hazard no property
covers says why: mostly that the code is exposed to it and section 7 tells how.

## 2. Plan

Built, in the order of what relies on what: the outbox with its contract and
proofs, the job queue with its proofs, sessions with their proofs; the requests
of the API and over them consent and entities with their proofs, jurisdiction,
packs, selections, kill switches and capabilities with theirs, accounts, roles,
tenancy, bindings and profiles with their proofs; the platform: configuration,
migrations, entrypoints and the pool with their proofs, money, addresses,
classification; the mobile client with its proofs.

Worth doing next:

1. An abstract contract of consent (a subject's decision per purpose, changed only
   by the subject) that `Consent` implements, as `OutboxContract` is for the relay.
2. The client against the server's rotation: `MobileClient` with `Sessions` instead
   of a server that answers anything, where the reuse of a consumed token (7)
   would show as a session that ends.

## 3. The modules and the code

**`OutboxContract`**: what producers and consumers rely on. A transaction commits
or not; a committed event reaches consumers any number of times; its outcome,
published or dead, comes once.

**`Outbox`**: one row per event with its columns; `effects` and `receipts` are the
consumers' tables; a relay has a phase (idle, publishing, reporting, ...), a
batch, the row it works on and the copy of `attempts` its claim returned. Each
statement of `relay.ts` is one action, guarded by its WHERE clause: `Claim`
(207), `PublisherResolves`/`PublisherRejects` (230), `MarkPublished` (236),
`MarkFailed` (247, unguarded as in the code), `NextRow`, `ReleaseRest`,
`FinishRun`, `Stop`, `Start`. `RefusedByCheck` is the table's CHECK that a row
has one terminal state: the statement fails and the run is abandoned. Time is
two nondeterministic steps: `ClaimExpires` and `BackoffElapses`. `Crash` loses a
relay's memory and keeps the rows; `QueryFails` ends a run. The publisher is a
port that may resolve after reaching every subscription or reject after reaching
any of them; `InMemoryEventBus` rejects only for an event it does not know or when
its error hook throws, other publishers may always. `delivered`, `failures` and
the like are history and guard nothing.

**`JobQueue`**: the `platform.jobs` rows and the pollers over them. A worker keeps the
claimed copies, the job in its handler and what it will report. Reports are
fenced by `HoldsLease`, the code's `lease_owner = $2 AND status = 'leased'`; a
report that matches nothing is `LostLease`. A lease expires (`LeaseExpires`) at any
time, heartbeats only delay it. `claims`, `ticket` and the execution counts are
history.

**`Sessions`**: one account, its sessions, families and refresh tokens; the access
and challenge tokens that clients hold; and requests, which are processes that
run a use case statement by statement with the copies they read. A use case that
is one guarded statement is one action (`RevokeSession`); one that reads and then
writes is several, and any number of requests interleave. `FindTargets` and
`Sweep` are the two statements of `revokeAllSessions`. `End` is a reply, a crash,
or a failure of the store, the ledger or the audit trail, at any point. A refused
request writes nothing but ledger rows and is left out. `seen` and the fields
`born`, `epoch`, `shut`, `dead` and `ended` (how many tokens a session's family had when it
ended) are history. A refresh token's own expiry only
refuses a presentation, which is the same as not presenting it. Idle expiry is
off in the default policy, so `touchSession` writes only `last_seen_at`. The rehash
branch of login is unreachable while one argon2 parameter set is registered; the
day a second one is, that branch will write back the password it verified over
one that was reset in the meantime, and will sign the access token with the
version from before its own bump, so it belongs in the model from then on.

**`Requests`** is the base of every module of the API's tables. `db` is the database,
one field per table, a table a sequence whose positions are its ids; `req[q]` is a
call in flight: the statement it stands before, its input, the instant it began
and what its statements returned. `Begins`, `Reads`, `Writes` and `Ends` are the
shapes of a statement, `AppendAudit` the event appended after the change, and
`Abandon` an end at any statement. A use case is one action per statement, guarded
by the use case's conditions on what it read and, where a trigger or a constraint
of a migration decides at commit, by that. `left` bounds how many calls of each
group may begin.

- **`Entities`**, **`Consent`**: the register of entities with bindings, roles, licences,
  permissions and migrations; documents, versions, grants and evaluations. The
  guards of migrations 0062 to 0065 are operators (`MigrationMayChange`,
  `GrantMayBecome`, ...), applied when an UPDATE commits. `recordAcceptance` is three
  statements: the active grants are selected, superseded, and the new one inserted.
  The initial documents are those of `seed-local-consent.mjs`. An evaluation's id is
  never null and no tenant is the platform (`EntitiesAssumption`).
- **`PolicyPack`** (pure): lifecycle, structural validation and the resolution of the
  policy that governs an instant. **`Jurisdiction`**: assignments and the activation
  ledger, up to the ceiling and the consent pin the API composes. **`SubjectPolicy`**:
  elections, with the option source asked twice, and `resolveSelectionAt`.
  `FirstPack` is the registry's `find`: the first match in the order of the packs.
- **`KillSwitches`**: `Operate` reads a version and updates where it still holds; the
  history is the trigger's. **`Capability`**: two tables with versions, the eight
  gates of `resolution.ts` as operators on one snapshot, each part of which is read
  by a statement of its own; ports answer anything their adapters may. What the
  ceiling port answers is of one of four kinds (`CeilingKinds`, the union `CeilingFacts` of
  `resolution.ts:77-90`).
- **`PolicyStore`** composes these over one database: `Init` has one
  assignment per subject, one activation, and any rows operators may have left (rows of
  a first version that no descriptor forbids, one entitlement per capability, with
  the history the triggers wrote of them); `Next` is the
  disjunction of the components'. `MCPolicy` is an instance of it that fixes the inputs
  and starts from a few of those databases.
- **`Accounts`**: what happens before a session exists; secrets and codes are numbers,
  a wrong guess is 0; `proofs` is the history of what let somebody in. **`Roles`**: the
  catalogue's scopes and grants, and the decision. **`Tenancy`**, **`Bindings`**:
  invitations with attempts, redemption, membership; the first bind, the switch and
  the relisting of `get-bootstrap.ts` with their verification before and after and
  their compensation; a replacement stands on the proof of the session it replaces.
  Three writers record a binding, each about something else: identity the session that
  carries the tenant, bootstrap the session the call came with (after a switch the
  replaced one, `set-tenant-binding.ts:271`), tenancy the caller's membership and no session
  (`switch-tenant.ts:155-166`). `BindingRecord` says which; the tenant before the switch is
  left out of all of them. `since`, when the call that bound a session began, is history.
  **`Profiles`**: the status with its history.
- **`AccessStore`** composes these over one database: `Init` is any accounts, factors,
  sessions, memberships and roles of instant 0, with open invitations of administrators
  (rows of the types the schemas declare, and nothing yet of what the calls leave
  behind); `Next` is every call with any input, every statement of one that has begun, what operators
  change from outside, and the clock. `MCAccess` is an instance with one such database
  per mix and few inputs.

**`Settings`** gives each field of the configuration what its raw value is to a parser;
`LoadsConfig`, `LoadsWorkerSettings` and `ProfileFromEnv` say which environments boot.
**`Database`** runs the CLI's four commands statement by statement over one cluster, two
operators with different checkouts; a run holds the files it has still to apply, as a
set of which the `Lowest` comes next, since a directory names a number once; an applied
row remembers the directory, the database and the ledger its run read. **`Processes`** boots the API and the worker on
those settings, compares their build with that ledger for readiness, and shuts
them down; `held` is what was true since a process was asked. **`Pool`** is the adapter's
connection pool: a session with its transaction, its local and its lasting
settings, and calls that take, use and return it.

**`MobileClient`** is the client on one device. `keystore` and `flags` survive the
process; `app` is its memory. A task is one asynchronous function at the await it
stands at; the answer of the platform and the continuation are one step, since
Dart runs nothing in between, except for a read, whose result is in hand
(`Restored`) before it is looked at. Every storage call may be refused, by a choice
in its action; a raise, delete or stand-down that is refused is not done. `start`,
`unlock`, `onAuthenticated` and the listener of ended sessions begin a new generation;
a task of an older one still writes the session but no longer the screen, as in
the code. The prompts of the lock setting are one step (`SetLock`). `past` is history: what
was written in this launch and what was given up for good.

**`Money`**, **`ClientAddress`** and **`Governance`** are pure: exact amounts and their wire
forms, trusted-proxy resolution, and the classification rules at the sinks. What
they promise are assumptions over bounded inputs that TLC evaluates with the run
`platform`: allocation conserves the total, rounding is by mode, decimals and wire
forms are exact; a prefix match is a match of bits, an address a client sends is
never taken for its own; no payload above its class leaves in an event, no content
in an audit row. They and `PolicyPack` use no RECURSIVE operator; what recursion there
is, is a fold.

`MCOutbox`, `MCJobQueue`, `MCSessions`, `MCConsent`, `MCPolicy`, `MCAccess` and `MCPlatform` are the
instances. `MCPlatform` puts the parts that share no state under one next-state
relation, with `part` saying which of them acts.

## 4. The runs and their bounds

| Run | Instance | Shows |
|---|---|---|
| `outbox_one_row` | 1 event, 2 relays, 2 consumers, 2 attempts, 2 faults | the safety of the row, refinement of the contract, and that every committed event settles |
| `outbox_batch` | 2 events, batches of 2, 1 attempt, 1 fault | the batch loop: release on stop, abandoned batches; nothing uncommitted is delivered |
| `outbox_order` | as above, no faults | a disagreement, section 7 |
| `jobs_batch` | 2 jobs, 2 workers, batches of 2, 2 attempts, 1 fault | lease fencing, the execution bound, terminal states |
| `jobs_liveness` | 2 jobs, 1 worker, 2 faults | every job finishes |
| `sessions_tokens` | 1 session, 3 refresh tokens, 2 boundaries, 2 tenants, 2 requests | rotation, replay, dead families, immediate revocation, disable, first bind |
| `sessions_binding` | 3 session ids, MFA, 1 tenant, 2 requests | switches: one live session per login |
| `sessions_issued_after_reset` | 1 session, 1 request | a disagreement, section 7 |
| `consent` | 2 requests, 2 entities, 1 tenant, 1 purpose, clock 0 to 1, 3 rows, 8 mixes | evidence is history; processing only on a live consent; the trail is true |
| `policy` | 2 requests, 3 jurisdictions (one retired, one declarable from 2), 4 packs, 2 capabilities, clock 0 to 2, 4 rows, 9 mixes | ceilings, switches, elections and exposure are what was committed |
| `access` | 2 requests, 2 accounts, 2 tenants, thresholds of 1, clock 0 to 1, 15 mixes | proofs, authority, bindings and their records, status |
| `platform` | 2 operators over 5 directories and 2 databases; one API or worker beside an operator; 3 calls on 2 connections; a client with 2 tasks, 2 credentials, 3 calls | the ledger, readiness, shutdown, the pool's principals, the credential and the lock; the pure assumptions |

Why the bounds are enough. Rows meet only in a batch and two rows fill one; two
relays (workers, requests) are the smallest number that race, and a third one
reads and writes the same rows under the same guards. Two attempts
separate retry from dead letter. Two consumers let one be reached without the
other. Three tokens are a token, its successor and a fork beside it; three
session ids are a session and the two that concurrent switches mint from it; two
boundaries are a disable with its enable, or two that complete out of order.
`MaxFaults` bounds crashes and failed statements outside handlers and publishes; a
crash inside one is bounded only by the attempts.

In `consent`, `policy` and `access` a behaviour picks a mix: how many calls of each group
begin. The mixes are the groups that touch the same tables, three or four calls
together (an acceptance, its replacement, a withdrawal and a check; two
operators and an expiry under a guarded call; an invitation, two redemptions).
Groups that share no table are not multiplied. Clock values
are as many as the windows compared: before, at and after an edge. Thresholds of 1
put every counter at its limit.

In `platform`, five directories are two branches, their merge, an edited file and a number
used twice; two incarnations are a database and the one a reset puts in its place.
Two connections under three calls make one wait. Two client tasks are every
overlap the lock and the store can tell apart; two credentials are the one on the
disk and one issued since; a launch is not counted among the three calls, so
that crashes and relaunches are unbounded.

Deadlock checking is off where the system rests: rows are settled, ids or budgets
used up. It is on in `platform`, whose processes can always be restarted.

Symmetry is used over interchangeable identities (relays; jobs and workers;
requests, sessions and tenants; client tasks) and never with liveness.

Every property of a passing run has a mutant in `PROJECT.json`: a definition of the
model changed the way a plausible defect would change the code, under which the
same run fails. The mutated definitions stand beside the originals and are marked so.

The type invariants are proved (section 6): `TypeOK` of `Outbox`, `JobQueue`, `Sessions` and
`Consent`, `PolicyTypeOK` of `PolicyStore`, `AccessTypeOK` of `AccessStore`, `ClientTypeOK`, and
`PoolTypeOK`, `DatabaseTypeOK` and `ProcessesTypeOK` of the platform. They also hold in the
instances of the runs when added to a configuration; the configurations leave them
to the properties that say more.

## 5. Fairness

`FairSpec` of `Outbox` and `JobQueue` asks weak fairness of: a poll loop's own next
step (Node runs what is ready; the loop reschedules itself after a failed run,
`relay.ts:173-184`, `poller.ts:163-181`); the start of a stopped or crashed worker (the
orchestrator restarts it); and the clock, so that claims, leases and backoffs
run out. It thereby assumes that publishes and handlers settle: neither loop has
a timeout, so with one that never does, nothing is promised (listed as a hazard).
Nothing is assumed of the producers, of failures, or of which way a publish or a
handler goes. No other module has fairness: no use case, operator or device
promises that a call ends.

## 6. What is proved

Eight modules hold theorems, and between them every safety property of the passing
runs is a theorem. A component has one inductive invariant (`IInv`, or one named after the
component), from which the properties follow; the assumptions are those of the module
proved about, that sentinels lie outside the sets they complete, that bounds are
natural numbers and that inputs are of their types.

`OutboxProofs`, for any number of events, relays and consumers and any `MaxAttempts`,
`BatchSize` and `MaxFaults`: type correctness; that published rows were
delivered, that nothing uncommitted is, that an effect runs once with its
receipt, that dead letters are earned, that settled rows are unclaimed, that
outcomes are final; and `Refinement`, that `Outbox` implements `OutboxContract`. The
properties alone are not inductive: a relay may hold a stale row, so what it holds
must be described. The strengthening says that whatever a relay has claimed is committed
(`WorkIsCommitted`); that a relay about to mark a row published has reached every
consumer (`PublishReached`); that no copy of `attempts`, in the row or in a relay's
hands, exceeds the failures that really happened (`AttemptsAreFailures`, which is
why dead letters are earned though the counter loses updates); and that a
settled row has no claim and one outcome (`Settled`).

`JobQueueProofs`, for any jobs, workers, attempts, batch size and faults: type
correctness; that success is the latest claim's; that death is earned; that no job
starts more often than `MaxAttempts`; that finished jobs stay finished; that a live
lease ends only by its own claim. A report is fenced by the worker's name alone,
so what makes it right is what a worker still holds: `BatchIsWork` (a worker between
runs holds nothing), `CopyIsClaim` (a lease in the name of a worker that holds the job
is the lease of that very claim, with the row's count), `ReturnSeen` (who reports
success saw this claim's handler return). The bound on executions is a counting
argument: `StartsPaid` says that the starts of a job and the batches it still waits in
were each paid for by an attempt, and a release, which gives one back, also takes the
job out of a batch. `AttemptLeft` says that what may be claimed has one left. The steps
of single rows are named once in `RowSteps` and used by every part.

`SessionsProofs` proves every property of the passing session runs, for any
number of requests, sessions, tenants, refresh tokens and boundaries, with and
without MFA. Its `IInv` has three layers, each inductive given the one before:

- `TypeInv`: the types, and that what a request holds is in the table
  (`RequestsName`: its session was minted, its token belongs to it, the targets of
  its sweep exist) and that `token_version` counts the boundaries
  (`VersionCounts`). Without the first a claim could be for a token nobody minted;
  without the second two versions could be compared that mean different things.
- `TableInv`: the invariants of the table. What a step can do to one row is one of the
  six things `RowSteps` lists. `DeadFamilyIsSpent` needs `LastIsUnused`, that the one unused
  token of a family is the last that was minted: a rotation mints one more, and may
  do so in a dead family only with a token from before its end. The lineage needs `RootsIssued`, that the ancestor of a session was minted, so that a new
  login is no relative of an old one.
- `RequestInv`: what a request has read is still worth something when it acts. Its
  copy of the version names the boundary it was read at (`CopyHonest`), one that
  waits for its session row will find a dead session dead (`AuthenticationFresh`),
  one that passed the status check did not begin behind a completed disable
  (`ShutOut`), and a refresh holds no token that was minted after its session ended, and when
  answered left its mark in the table (`AnswerHolds`).
  `HonestKept` carries these through the steps of others, since rows only move
  forward; `Enable`, the one step that takes something back, is treated by itself.

`PlatformProofs` has three parts. Of the pool, for any sessions, calls, principals and
requirements: that no statement runs under another call's principal. `Leased` says that a session in use has one call;
`NothingLasts` that nothing is ever set beyond a transaction and that a session at rest
is in none; `FoundAsLeft` what a call finds in its session at each of its steps;
`OwnPrincipal` that a call without a principal binds nothing. That a failed rollback
destroys the session is what carries `NothingLasts` through the faults.

Of `Database`, for any operators, directories and databases, `LedgerIsHistory`. A row is
committed long after its run read the ledger, so `RunSound` says what a run still
knows of the ledger as it is now: while its database stands the ledger only grows, every
file of the run's directory is in it as the directory has it or still to come, and none to
come is numbered below what the run read. The primary key of the ledger does the rest: of two runs that race, one
aborts. That files to come have a lowest one is again the well-foundedness of the naturals.

Of `Processes`, for any number of processes over such a database, `ShutdownDrains` and the
action property `ReadinessIsEarned`. `ProcSound` says what the place of a process in its
boot or shutdown says of the rest of it (from the signal on every running loop is
stopping, behind that none has work in flight unless a release was refused, and only then
the listener and the checks end and the pool closes), `CheckSound` that what a readiness
check has collected was observed since it was asked.

Consent and policy have the same shape of proof. A use case is a sequence of
statements between which anything may commit, so the invariant has two parts: what
holds of the tables (`TablesInv`), and, for the statement a request stands before, what
is true of what it has read (`Sound`). What was read may be out of date. It is worth
something all the same because the tables only move forward (`Advances`): a row that
was there is still there, and changed at most as its trigger allows. Each action is
shown to make a step that keeps `TablesInv` and `Advances` and to leave its own request
sound; that the other requests stay sound follows from `Advances` once, for all of them.

`ConsentProofs`, for any requests, entities, tenants, documents, versions and
grants: type correctness with the references between the tables;
`GrantsPinPublished`, `TrailAgrees`, `PermittedOnLiveConsent`; and the action
properties `EvidenceIsHistory` and `RegisterIsHistory`, the latter without a run: what the guards
of 0062 and 0063 keep is all of it. `TablesInv` says that rows
are as the CHECKs and guards leave them and refer to rows that exist (`References`),
and that each audit entry is still true of the row it names (`TrailStands`); that
stays so because what the trail speaks of is final. The check of a consent reads
document, version and grant in three statements. `DocumentStands` and
`VersionStands` say what the first two are worth later: when the check began no
other document covered what is asked, and the version read was in force then unless
something was published since. `NewestIsFound` says that among some grants there is
a newest; it needs a greatest date, taken from the well-foundedness of the naturals.

`PolicyProofs`, for any requests, packs, switches, capabilities and rows: type
correctness; `RestrictionIsObeyed`, `CeilingStands`, `AllowedByLedger`,
`ExposureIsAccounted`; and the action properties `WindowsAreHistory` and
`ReplayIsStable`. The properties speak of the moment a request began and of what
stood since; a request holds copies read in between. What carries them is that
ledger and histories are only appended to (`Extends`), so the last version before an
instant stays the last before it (`LastOf`, `WrittenLast`), together with the
agreement of each table with its history: every row is the last version the triggers
recorded of it (`SwitchesInv`, `Accounted`). `Sound` then says of each copy that it
stood when the request began or was written since (`SeenSince`, `WrittenSince`), and
of each gate that was passed, that what it was passed on is in the history
(`ExposedSince`, `GrantedSince`, `ScopedThen`). `ReplayIsStable` is about
`SelectionsMove`: an election starts, and a withdrawal takes effect, at the instant
its request began, hence no instant already settled sees its versions change
(`ReplayStays`).

`AccessProofs`, for any requests, accounts, tenants, sessions and rows, over every database
of `AccessStore`: type correctness; `ProofsAreAccounted`, `AuthorityWasHeld`, `BoundOnMembership`,
`SettledBindings` and `StatusIsHistory`. `AccessInv` has the two parts above, `TablesInv` and `Sound`, and a third:

- `Sound` says what a request's own copies are worth. Who may invite was a member and
  an administrator at some instant since the request began (`MemberHeld`,
  `TenantRoleHeld`), and who may grant a role held the delegating one (`RoleHeld`); rows of
  roles and memberships end with their date, so that this stays true. A login that
  passes on the password alone passed over no factor that was active when it began
  (`NotPassedOver`): a later confirmation is dated later. A tenant a binding has chosen, or
  may choose, was usable at some instant since its call began (`BackedSince`), which is why
  `BoundOnMembership` holds also of a session whose call crashed before it looked again.
  A binding that has been made is of the session the call came with, or of the one that
  replaces it, and one that is to be recorded was backed (`BackedWhenBound`) by the rows as
  they were once it was made, each read by a statement of its own; an entry of the audit that is still to be appended is already so
  (`EntrySound`).
- The counters are judged in one statement and counted in another, after a hash. No bound
  on the rows alone is inductive. `CountersInv` bounds the rows together with the
  requests that were judged and have not yet counted (`Within`): below the limit plus the
  number of requests. A judgement happens only below the limit, when there can be no more
  pending than requests; a count moves one from the requests to the rows. The failures of a
  window are counted by cardinalities, hence the lemmas on `RecentFailures`.
- `TablesInv` adds to the properties what they rest on: codes are minted once and one not
  yet used has proved nothing (`RecoveryInv`); what the trail says is so and stays so,
  since a session's tenant is set once and a membership's end is recorded (`TrailInv`).

`MobileClientProofs`, for any tasks and credentials: type correctness;
`AbandonedStaysAbandoned`; `LockedOpensNothing`; and `PendingFresh`, that no
credential still to be written is on a disk or given up. `StoreInv` is about the
credential: what was given up is off the disk, or barred by the marker or by the
latch of this process (`GivenUpIsBarred`), no task that would trust the keystore
finds such a one there (`TrustIsDue`), and none holds it in hand (`InHandStands`).
That works only because credentials are fresh (`AllIssued`, `PendingFresh`): if the
server could repeat one, a refresh under way would bring it back. `LockInv` is about
a process that was never let in: it is not past the lock nor on a screen behind it
(`ShutOut`), and what it stands the marker down for, or sees, it wrote itself
(`WrittenIsOwn`, `SeesOwn`). Both invariants are kept by any step of the shape
`StoreMove` and `LockMove`, and each action is shown to be of that shape (the
`Moves` lemmas).

Only model-checked: liveness (`FairSpec` of the outbox and of the job queue), and anything
with ENABLED; the pure modules, which are evaluated on bounded inputs. Facts by induction over data, and so
what a recursive definition computes for all inputs, stay with TLC; the proofs need
only least and greatest elements of sets of numbers and the finiteness of sets.

## 7. What the code does not keep

Two disagreements are runs that TLC refutes, quoted in `PROJECT.json`:

- `OrderedPerAggregate`: a retry is overtaken by later events of its aggregate.
- `NothingIssuedAfterReset`: an MFA challenge survives the password it was issued
  under.

Others are definitions beside the model that TLC refutes when they are added to a
configuration; the passing properties are stated so as not to promise them:

- `ExclusiveClaims` (`Outbox`): two relays may hold one row, since a late failure report
  clears the claim of the relay that took it over (`relay.ts:268` against `:17-18`).
- `OneExecutor` (`JobQueue`): a job may run in two workers when its batch outlives its
  lease (`poller.ts:137` against `queue.ts:7-8`).
- `NothingRevivedByEnable` (`Sessions`): a login that overlaps a disable leaves a session
  that an enable brings to life (`login.ts:115`). The same window lets a login with
  the old password leave a session behind a completed reset, and a tenant switch
  carry an old session past it, since `revokeAllSessions` selects and then updates.
- `ResetTokenIsOneTime` (`Sessions`): two concurrent resets with one token both go
  through (`prisma-identity-store.ts:278` against `password-recovery.ts:2`).
- `SingleActivePerTriple` (`Consent`): two acceptances leave two ACTIVE grants (the
  comment of migration 0065 leaves it to the transaction, which does not lock).
- `OnlyWaysPastTheLock` (`MobileClient`): `startup_coordinator.dart:30` knows exactly two
  ways past the lock. A process locked again in the background with a request under
  way restores without asking: `onEmailVerified`, `onTenantSelected` and `onAuthenticated`
  supersede the `start` that would have shown the lock.

Met while modelling, and kept in the models as the code has them:

*Outbox and jobs.* A lost update of `attempts` lets a row see more than `max_attempts` failed
publishes (`relay.ts:248`, against `0020_outbox.sql:10`). A run that failed before `stop()`
leaves its batch leased by the stopped worker (`poller.ts:187`, against `:9-10`). A crash in a
consumer counts no attempt, so an event that kills its worker is retried for ever.

*Access.* When the audit of a first bind fails, the session keeps a live tenant that
no record names and nothing reverses (`session-tenant-binding.ts:98`;
`set-tenant-binding.ts:112` returns the promise without awaiting it, past its own
`catch`). A call that dies after the binding leaves the session on a membership that may have
ended while it was made. A stale enrolment upsert wipes a confirmed second factor, and a confirmation
activates a newer secret nobody proved; a crash after the confirmation leaves no recovery
codes. Concurrent guesses pass the attempts bound of an invitation.

*Consent and entities.* A MATERIAL version followed by a NOTICE leaves old grants ACTIVE
(`consent-status.ts:68`). A re-consent evaluation may not match a draft that is reclassified
afterwards (`reconsent-evaluation.ts:8-9`). Permissions have no guard although
`jurisdiction-permissions.ts:2-5` says they are never edited. `entity-migration.ts:10` says that MIGRATED
rebinds; nothing does; and an unguarded update can take a migration back a step or past one
(`entity-migration.ts:240`). Concurrent assignments of a user's entity overlap, and one that
fails half-way leaves none (`entity-assignments.ts:98`).
`findActiveAt` for a contracting user ignores the tenant (`entity-assignments.ts:203`). A licence
update can erase newer evidence (`licence-records.ts:165`). A new binding that starts at the
instant of the old one is refused by a CHECK after the old one has ended.

*Policy.* A declaration that overlaps an assignment supersedes a verified row
(`self-declaration.ts:24-25`); overlapping windows and a second retirement, or the retirement of a
pack another activation has replaced, follow from the same shape (`domain/assignment.ts:87-92`,
`pack-activation.ts:9-11`). `endOpen` commits before the insert, so that a failed insert leaves a
subject without an assignment (`user-assignments.ts:140`). Rows with a null scope, and two ACTIVE
selections, are not kept apart by an index (0076, 0083). Withdrawing the latest election
revives the superseded one before it.

*Platform.* If the relay's release fails at shutdown, `Promise.all` rejects and the pool closes
under the poller's job in flight (`runtime.ts:138`, against `shutdown.ts:19-21`). `loadConfig`
validates `POSTGRES_HOST`, while the connection profile reads only `KARAR_DB_HOST` and `PGHOST`; an empty
string is absent to the one and a value to the other. "Strict ascending filename order"
holds of the ledger a run read, without a lock: two directories can invert it. A
lost COMMIT answer is reported as rolled back. After a newer migration every old build's
readiness turns `behind`. `parseEventCatalogue` promises to name every problem at once
(`catalogue.ts:203-206`) and stops before duplicates after a first one.

*Mobile client.* An abandonment recorded as durable (`token_store.dart:94`) is undone when
another operation on the store was under way: a refresh's write, or an earlier clear,
stands the marker down after it was raised. `AbandonedStaysAbandoned` is therefore said
of abandonments that found the store at rest. A read already under way hands the
credential back after `clear()` was entered (against `:14-17`). `reset()` forgets the refresh in
flight, whose completion then clears the newer one, and a refresh that answers after sign-out
adopts its session again (`token_refresh_coordinator.dart:72`, `:161`). A restore that
overlaps a refresh puts the consumed token back in memory. After a sign-out from the
sessions screen nobody moves the startup state, although `session_manager.dart:152-155` leaves it
to the caller.

## 8. What is left out

Not modelled: HTTP controllers and dependency composition, logging, metrics and
telemetry, the generated API client and the client's screens, documentation-only
modules, infrastructure placeholders and the admin stub, and the repository's
build-time checks (`architecture.mjs`, `docs-check.mjs`), which read source text and have no
state. The option source of subject policy and the ports of capability resolution have
no adapter, or one of several; they answer anything.

Within modelled parts: payloads and wording; exact times (an expiry is a step, a
window a few instants); lists that decide nothing, as of what a subject may declare; row-level security itself (each statement is scoped to its
account or tenant; `Pool` is about what the policies see); refused calls that write
nothing; in `MobileClient`, key-value preferences, the multi-factor challenge kept in
memory (it delays a sign-in and changes no credential) and the await inside the lock
setting.

Groups of the same module that share no table, and modules that share no state,
run in one instance without being multiplied by each other; what a capability
resolution sees of consent is therefore a port and not `Consent` itself.
