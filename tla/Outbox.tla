------------------------------- MODULE Outbox -------------------------------
(***************************************************************************)
(* The transactional outbox of packages/platform: producers insert an      *)
(* envelope in the transaction of their state change, any number of relays *)
(* claim rows under a lease, publish them, and mark the outcome; consumers *)
(* keep a receipt per (consumer, event) in their own transaction.          *)
(*                                                                         *)
(* One action is one statement of PostgreSQL (plus the local step that     *)
(* depends on its result) or one await of the relay.  Time is abstracted   *)
(* to two facts the WHERE clauses read: whether a row's available_at has   *)
(* passed (due) and whether a claim's claim_expires_at still lies ahead    *)
(* (lease); both may change between any two steps of a relay.              *)
(***************************************************************************)
EXTENDS Naturals, FiniteSets

CONSTANTS
  Events,       \* outbox rows, numbered in created_at order
  Relays,       \* relay identities (workerId)
  Consumers,    \* subscriptions of the bus for these events
  NoRelay, NoEvent,
  MaxAttempts,  \* max_attempts of a row
  BatchSize,    \* rows claimed per run
  MaxFaults     \* bound on crashes, graceful stops and failed queries

ASSUME OutboxAssumption ==
  /\ Events \subseteq Nat
  /\ NoRelay \notin Relays
  /\ NoEvent \notin Events
  /\ MaxAttempts \in Nat \ {0}
  /\ BatchSize \in Nat \ {0}
  /\ MaxFaults \in Nat

VARIABLES
  txn,          \* the producer's transaction: state change and envelope
  publishedAt,  \* published_at IS NOT NULL
  deadAt,       \* dead_lettered_at IS NOT NULL
  owner,        \* claimed_by
  due,          \* available_at <= now()
  attempts,     \* attempts
  phase,        \* where a relay's run stands
  current,      \* the row a relay is publishing
  batch,        \* the rest of its claimed rows
  seen,         \* attempts as RETURNED by the claim
  lease,        \* rows a relay claimed and whose claim_expires_at it set lies ahead
  stopping,     \* the relay's stopping flag
  todo,         \* subscriptions the publish in flight has not reached
  delivered,    \* <<consumer, event>> pairs whose handler was called
  receipts,     \* platform.event_consumer_receipts
  effects,      \* committed runs of a consumer's effect
  failures,     \* publishes that were rejected (history)
  faults        \* faults so far (bound)

rowVars      == <<publishedAt, deadAt, owner, due, attempts>>
relayVars    == <<phase, current, batch, seen, lease, stopping, todo>>
consumerVars == <<delivered, receipts, effects>>
vars == <<txn, rowVars, relayVars, consumerVars, failures, faults>>

Handling == {"publishing", "resolved", "rejected"}
Phases   == {"down", "idle", "next"} \cup Handling

TypeOK ==
  /\ txn \in [Events -> {"none", "open", "committed", "rolledback"}]
  /\ publishedAt \in [Events -> BOOLEAN]
  /\ deadAt \in [Events -> BOOLEAN]
  /\ owner \in [Events -> Relays \cup {NoRelay}]
  /\ due \in [Events -> BOOLEAN]
  /\ attempts \in [Events -> Nat]
  /\ phase \in [Relays -> Phases]
  /\ current \in [Relays -> Events \cup {NoEvent}]
  /\ \A r \in Relays : phase[r] \in Handling <=> current[r] \in Events
  /\ batch \in [Relays -> SUBSET Events]
  /\ seen \in [Relays -> [Events -> Nat]]
  /\ lease \in [Relays -> SUBSET Events]
  /\ stopping \in [Relays -> BOOLEAN]
  /\ todo \in [Relays -> SUBSET Consumers]
  /\ delivered \subseteq Consumers \X Events
  /\ receipts \subseteq Consumers \X Events
  /\ effects \in [Consumers \X Events -> Nat]
  /\ failures \in [Events -> Nat]
  /\ faults \in Nat

Init ==
  /\ txn = [e \in Events |-> "none"]
  /\ publishedAt = [e \in Events |-> FALSE]
  /\ deadAt = [e \in Events |-> FALSE]
  /\ owner = [e \in Events |-> NoRelay]
  /\ due = [e \in Events |-> TRUE]
  /\ attempts = [e \in Events |-> 0]
  /\ phase = [r \in Relays |-> "down"]
  /\ current = [r \in Relays |-> NoEvent]
  /\ batch = [r \in Relays |-> {}]
  /\ seen = [r \in Relays |-> [e \in Events |-> 0]]
  /\ lease = [r \in Relays |-> {}]
  /\ stopping = [r \in Relays |-> FALSE]
  /\ todo = [r \in Relays |-> {}]
  /\ delivered = {}
  /\ receipts = {}
  /\ effects = [p \in Consumers \X Events |-> 0]
  /\ failures = [e \in Events |-> 0]
  /\ faults = 0

-----------------------------------------------------------------------------
(* Producers.  The row exists for other transactions once its own commits. *)

\* Mutant: the envelope is written outside the caller's transaction.
StoredEarly(e) == txn[e] \in {"open", "committed"}

Stored(e)  == txn[e] = "committed"
Pending(e) == Stored(e) /\ ~publishedAt[e] /\ ~deadAt[e]

\* A use case writes its state and enqueues on the same transaction client;
\* created_at is that transaction's start, so rows start in created_at order.
EnqueueInTransaction(e) ==
  /\ txn[e] = "none"
  /\ \A f \in Events : f < e => txn[f] # "none"
  /\ txn' = [txn EXCEPT ![e] = "open"]
  /\ UNCHANGED <<rowVars, relayVars, consumerVars, failures, faults>>

EndTransaction(e) ==
  /\ txn[e] = "open"
  /\ \E outcome \in {"committed", "rolledback"} : txn' = [txn EXCEPT ![e] = outcome]
  /\ UNCHANGED <<rowVars, relayVars, consumerVars, failures, faults>>

-----------------------------------------------------------------------------
(* The relay's claim.                                                      *)

\* Mutant: a claim never expires.
ClaimForever(e) == owner[e] # NoRelay

ClaimLive(e) == owner[e] # NoRelay /\ e \in lease[owner[e]]
Claimable(e) == Pending(e) /\ due[e] /\ ~ClaimLive(e)

\* ORDER BY created_at, id LIMIT batchSize over the rows left unlocked.
OldestBatch(S, rows) ==
  /\ S \subseteq rows
  /\ S # {}
  /\ Cardinality(S) <= BatchSize
  /\ S = rows \/ Cardinality(S) = BatchSize
  /\ \A e \in S, f \in rows \ S : e < f

StartPublish(r, e, rest) ==
  /\ current' = [current EXCEPT ![r] = e]
  /\ batch' = [batch EXCEPT ![r] = rest]
  /\ todo' = [todo EXCEPT ![r] = Consumers]
  /\ phase' = [phase EXCEPT ![r] = "publishing"]

\* SKIP LOCKED: a row with an expired claim may be locked at this instant by
\* the statement of the relay that still works on it.  RETURNING has no order.
Claim(r) ==
  /\ phase[r] = "idle"
  /\ ~stopping[r]
  /\ \E locked \in SUBSET {e \in Events : owner[e] # NoRelay} :
     \E S \in SUBSET {e \in Events : Claimable(e)} :
       /\ OldestBatch(S, {e \in Events : Claimable(e)} \ locked)
       /\ owner' = [e \in Events |-> IF e \in S THEN r ELSE owner[e]]
       /\ lease' = [lease EXCEPT ![r] = @ \cup S]
       /\ seen' = [seen EXCEPT ![r] =
                     [e \in Events |-> IF e \in S THEN attempts[e] ELSE @[e]]]
       /\ \E first \in S : StartPublish(r, first, S \ {first})
  /\ UNCHANGED <<txn, publishedAt, deadAt, due, attempts, stopping,
                 consumerVars, failures, faults>>

-----------------------------------------------------------------------------
(* One publish: the bus awaits each subscription; a consumer that throws   *)
(* is isolated, its transaction (receipt and effect) rolled back.          *)

\* Mutant: the effect runs without asking for the receipt first.
ConsumeAlways(c, e) ==
  /\ receipts' = receipts \cup {<<c, e>>}
  /\ effects' = [effects EXCEPT ![<<c, e>>] = @ + 1]

ConsumeOnce(c, e) ==
  /\ <<c, e>> \notin receipts
  /\ receipts' = receipts \cup {<<c, e>>}
  /\ effects' = [effects EXCEPT ![<<c, e>>] = @ + 1]

Deliver(r, c) ==
  /\ phase[r] = "publishing"
  /\ c \in todo[r]
  /\ todo' = [todo EXCEPT ![r] = @ \ {c}]
  /\ delivered' = delivered \cup {<<c, current[r]>>}
  /\ \/ ConsumeOnce(c, current[r])
     \/ UNCHANGED <<receipts, effects>>   \* a duplicate, or the handler threw
  /\ UNCHANGED <<txn, rowVars, phase, current, batch, seen, lease, stopping,
                 failures, faults>>

\* Mutant: publish does not await the subscriptions.
PublisherResolvesEarly(r) ==
  /\ phase[r] = "publishing"
  /\ phase' = [phase EXCEPT ![r] = "resolved"]
  /\ UNCHANGED <<txn, rowVars, current, batch, seen, lease, stopping, todo,
                 consumerVars, failures, faults>>

PublisherResolves(r) ==
  /\ phase[r] = "publishing"
  /\ todo[r] = {}
  /\ phase' = [phase EXCEPT ![r] = "resolved"]
  /\ UNCHANGED <<txn, rowVars, current, batch, seen, lease, stopping, todo,
                 consumerVars, failures, faults>>

\* The publisher is a port: it may reject before, between or after deliveries.
PublisherRejects(r) ==
  /\ phase[r] = "publishing"
  /\ phase' = [phase EXCEPT ![r] = "rejected"]
  /\ failures' = [failures EXCEPT ![current[r]] = @ + 1]
  /\ UNCHANGED <<txn, rowVars, current, batch, seen, lease, stopping, todo,
                 consumerVars, faults>>

-----------------------------------------------------------------------------
(* Marking the outcome.  CHECK outbox_events_one_terminal_state refuses an *)
(* UPDATE that would leave both timestamps set; the rejection leaves the   *)
(* run, whose other rows stay claimed until the claim expires.             *)

\* Mutant: no constraint; the row takes both timestamps.
NeverRefused(published, dead) == FALSE

RefusedByCheck(published, dead) == published /\ dead

\* Mutant: an attempt is counted by the claim and again by its failure.
AttemptCountedTwice(r) == seen[r][current[r]] + 2

AttemptsAfter(r) == seen[r][current[r]] + 1

EndRun(r, where) ==
  /\ phase' = [phase EXCEPT ![r] = where]
  /\ current' = [current EXCEPT ![r] = NoEvent]
  /\ batch' = [batch EXCEPT ![r] = {}]
  /\ seen' = [seen EXCEPT ![r] = [e \in Events |-> 0]]
  /\ todo' = [todo EXCEPT ![r] = {}]

RowHandled(r) ==
  /\ phase' = [phase EXCEPT ![r] = "next"]
  /\ current' = [current EXCEPT ![r] = NoEvent]
  /\ seen' = [seen EXCEPT ![r][current[r]] = 0]
  /\ todo' = [todo EXCEPT ![r] = {}]
  /\ lease' = [lease EXCEPT ![r] = @ \ {current[r]}]
  /\ UNCHANGED batch

\* Mutant: the outcome leaves the claim in place.
ClearClaimForgotten(e) == owner' = owner

ClearClaim(e) == owner' = [owner EXCEPT ![e] = NoRelay]

MarkPublished(r) ==
  LET e == current[r] IN
  /\ phase[r] = "resolved"
  /\ \/ /\ publishedAt[e]                      \* WHERE matches no row
        /\ RowHandled(r)
        /\ UNCHANGED <<publishedAt, owner>>
     \/ /\ ~publishedAt[e] /\ RefusedByCheck(TRUE, deadAt[e])
        /\ EndRun(r, "idle")
        /\ UNCHANGED <<publishedAt, owner, lease>>
     \/ /\ ~publishedAt[e] /\ ~RefusedByCheck(TRUE, deadAt[e])
        /\ publishedAt' = [publishedAt EXCEPT ![e] = TRUE]
        /\ ClearClaim(e)
        /\ RowHandled(r)
  /\ UNCHANGED <<txn, deadAt, due, attempts, stopping, consumerVars, failures, faults>>

\* The UPDATE names the row only: neither the claim nor the status is tested.
\* A run below the limit leaves dead_lettered_at as it is, so that a late
\* report on a settled row changes only attempts and available_at.
MarkFailed(r) ==
  LET e == current[r]
      exhausted == AttemptsAfter(r) >= MaxAttempts
      refused == RefusedByCheck(publishedAt[e], exhausted)
  IN
  /\ phase[r] = "rejected"
  /\ \/ /\ refused
        /\ EndRun(r, "idle")
        /\ UNCHANGED <<attempts, deadAt, due, owner, lease>>
     \/ /\ ~refused
        /\ attempts' = [attempts EXCEPT ![e] = AttemptsAfter(r)]
        /\ deadAt' = [deadAt EXCEPT ![e] = @ \/ exhausted]
        /\ due' = [due EXCEPT ![e] = @ /\ exhausted]
        /\ ClearClaim(e)
        /\ RowHandled(r)
  /\ UNCHANGED <<txn, publishedAt, stopping, consumerVars, failures, faults>>

-----------------------------------------------------------------------------
(* The rest of a run, shutdown, crashes and time.                          *)

\* Mutant: the loop runs one index past the claimed rows.
NextRowPastEnd(r) ==
  /\ phase[r] = "next"
  /\ ~stopping[r]
  /\ \/ \E e \in batch[r] : StartPublish(r, e, batch[r] \ {e})
     \/ batch[r] = {} /\ StartPublish(r, NoEvent, {})
  /\ UNCHANGED <<txn, rowVars, seen, lease, stopping, consumerVars, failures, faults>>

NextRow(r) ==
  /\ phase[r] = "next"
  /\ ~stopping[r]
  /\ \E e \in batch[r] : StartPublish(r, e, batch[r] \ {e})
  /\ UNCHANGED <<txn, rowVars, seen, lease, stopping, consumerVars, failures, faults>>

FinishRun(r) ==
  /\ phase[r] = "next"
  /\ batch[r] = {}
  /\ EndRun(r, "idle")
  /\ UNCHANGED <<txn, rowVars, lease, stopping, consumerVars, failures, faults>>

ReleaseOwnClaims(r) ==
  /\ owner' = [e \in Events |->
                 IF owner[e] = r /\ Pending(e) THEN NoRelay ELSE owner[e]]
  /\ lease' = [lease EXCEPT ![r] = {}]

\* A run that sees the stop flag with rows left gives them back.
ReleaseRest(r) ==
  /\ phase[r] = "next"
  /\ stopping[r]
  /\ batch[r] # {}
  /\ ReleaseOwnClaims(r)
  /\ EndRun(r, "idle")
  /\ UNCHANGED <<txn, publishedAt, deadAt, due, attempts, stopping,
                 consumerVars, failures, faults>>

Fault == faults < MaxFaults /\ faults' = faults + 1

Stop(r) ==
  /\ Fault
  /\ phase[r] # "down"
  /\ ~stopping[r]
  /\ stopping' = [stopping EXCEPT ![r] = TRUE]
  /\ UNCHANGED <<txn, rowVars, phase, current, batch, seen, lease, todo,
                 consumerVars, failures>>

\* stop() waits for the run in flight, then releases what is still held.
StopCompletes(r) ==
  /\ stopping[r]
  /\ phase[r] = "idle"
  /\ ReleaseOwnClaims(r)
  /\ EndRun(r, "down")
  /\ stopping' = [stopping EXCEPT ![r] = FALSE]
  /\ UNCHANGED <<txn, publishedAt, deadAt, due, attempts, consumerVars, failures, faults>>

Start(r) ==
  /\ phase[r] = "down"
  /\ phase' = [phase EXCEPT ![r] = "idle"]
  /\ UNCHANGED <<txn, rowVars, current, batch, seen, lease, stopping, todo,
                 consumerVars, failures, faults>>

\* The process dies; its claims stay in the table until they expire.  A crash
\* right after Claim also stands for a claim whose answer was lost.
Crash(r) ==
  /\ Fault
  /\ phase[r] # "down"
  /\ EndRun(r, "down")
  /\ stopping' = [stopping EXCEPT ![r] = FALSE]
  /\ UNCHANGED <<txn, rowVars, lease, consumerVars, failures>>

\* A statement of the run fails, before it took effect ("resolved",
\* "rejected") or after ("next"): the loop logs it and polls again.
QueryFails(r) ==
  /\ Fault
  /\ phase[r] \in {"resolved", "rejected", "next"}
  /\ EndRun(r, "idle")
  /\ UNCHANGED <<txn, rowVars, lease, stopping, consumerVars, failures>>

ClaimExpires(r, e) ==
  /\ e \in lease[r]
  /\ lease' = [lease EXCEPT ![r] = @ \ {e}]
  /\ UNCHANGED <<txn, rowVars, phase, current, batch, seen, stopping, todo,
                 consumerVars, failures, faults>>

BackoffElapses(e) ==
  /\ ~due[e]
  /\ due' = [due EXCEPT ![e] = TRUE]
  /\ UNCHANGED <<txn, publishedAt, deadAt, owner, attempts, relayVars,
                 consumerVars, failures, faults>>

-----------------------------------------------------------------------------
RunStep(r) ==
  \/ Claim(r) \/ PublisherResolves(r) \/ PublisherRejects(r)
  \/ MarkPublished(r) \/ MarkFailed(r)
  \/ NextRow(r) \/ FinishRun(r) \/ ReleaseRest(r) \/ StopCompletes(r) \/ Start(r)
  \/ \E c \in Consumers : Deliver(r, c)

Next ==
  \/ \E e \in Events : EnqueueInTransaction(e) \/ EndTransaction(e) \/ BackoffElapses(e)
  \/ \E r \in Relays : RunStep(r) \/ Stop(r) \/ Crash(r) \/ QueryFails(r)
  \/ \E r \in Relays, e \in Events : ClaimExpires(r, e)

Spec == Init /\ [][Next]_vars

\* A running relay keeps stepping (its loop never gives up), the orchestrator
\* restarts a stopped worker, and the database clock advances.
Fairness ==
  /\ \A r \in Relays : WF_vars(RunStep(r))
  /\ \A e \in Events : WF_vars(BackoffElapses(e))
  /\ \A r \in Relays, e \in Events : WF_vars(ClaimExpires(r, e))

FairSpec == Spec /\ Fairness

-----------------------------------------------------------------------------
(* Properties.                                                             *)

\* relay.ts sets published_at only after the publisher resolved, whatever
\* relay marks the row: every subscription's handler was called for it.
PublishedWasDelivered ==
  \A e \in Events : publishedAt[e] => \A c \in Consumers : <<c, e>> \in delivered

\* No event reaches a consumer for a state change that did not commit
\* (enqueue.ts shares the caller's transaction).
OnlyCommittedDelivered ==
  \A p \in delivered : txn[p[2]] = "committed"

\* receipts.ts: duplicate deliveries (expired claims, crashes, ambiguous
\* rejections) never run a consumer's effect twice, and a receipt without its
\* effect never exists.
EffectOncePerReceipt ==
  \A p \in Consumers \X Events : effects[p] = IF p \in receipts THEN 1 ELSE 0

\* A row is dead-lettered only after max_attempts publishes really failed,
\* although several relays may count from stale copies of attempts.
DeadOnlyAfterMaxFailures ==
  \A e \in Events : deadAt[e] => failures[e] >= MaxAttempts

\* A terminal row carries no claim: nothing stays claimed after its outcome.
TerminalRowUnclaimed ==
  \A e \in Events : publishedAt[e] \/ deadAt[e] => owner[e] = NoRelay

\* Published and dead-lettered exclude each other and are both final, even
\* when a relay whose claim expired reports after another settled the row.
SettledForever ==
  [][\A e \in Events :
       /\ publishedAt[e] => publishedAt'[e] /\ ~deadAt'[e]
       /\ deadAt[e] => deadAt'[e] /\ ~publishedAt'[e]]_vars

\* No committed event is lost or stuck: each is published or dead-lettered.
EveryEventSettles ==
  \A e \in Events : txn[e] = "committed" ~> publishedAt[e] \/ deadAt[e]

-----------------------------------------------------------------------------
(* Refinement: the outbox implements its contract.                         *)

Fate(e) ==
  CASE publishedAt[e]    -> "published"
    [] deadAt[e]         -> "dead"
    [] txn[e] = "open"   -> "none"
    [] OTHER             -> txn[e]

Contract == INSTANCE OutboxContract WITH
              fate <- [e \in Events |-> Fate(e)], reached <- delivered

\* enqueue.ts, relay.ts and receipts.ts together keep the contract: whatever
\* relays, crashes and expiries do, an event's fate changes at most twice and
\* in the right order, and no effect runs for an undecided one.
ImplementsContract == Contract!Spec

-----------------------------------------------------------------------------
(* Statements of the repository's documents that this code does not keep.  *)

\* relay.ts: two relays never claim the same row (while both claims last).
ExclusiveClaims ==
  \A r, s \in Relays : r # s => lease[r] \cap lease[s] = {}

\* event-governance.md section 4: ordering per aggregate.  All rows of the run
\* belong to one aggregate; even an earlier event that was already tried once
\* and waits for its retry is overtaken.
OrderedPerAggregate ==
  [][\A c \in Consumers : \A e, f \in Events :
       /\ e < f
       /\ failures[e] > 0
       /\ <<c, f>> \in delivered' \ delivered
       => <<c, e>> \in delivered \/ deadAt[e]]_vars
=============================================================================
