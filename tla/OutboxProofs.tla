---------------------------- MODULE OutboxProofs ----------------------------
(***************************************************************************)
(* Theorems of Outbox for every number of events, relays, consumers,       *)
(* attempts, batch size and faults.                                        *)
(***************************************************************************)
EXTENDS Outbox, TLAPS

\* What a relay works on was claimed from the table, so its producer committed.
WorkIsCommitted ==
  /\ \A r \in Relays : \A e \in batch[r] : txn[e] = "committed"
  /\ \A r \in Relays : current[r] \in Events => txn[current[r]] = "committed"

\* The subscriptions a publish has passed were called, and it resolves last.
PublishReached ==
  \A r \in Relays :
    /\ phase[r] = "publishing" =>
         \A c \in Consumers \ todo[r] : <<c, current[r]>> \in delivered
    /\ phase[r] = "resolved" =>
         \A c \in Consumers : <<c, current[r]>> \in delivered

\* No copy of attempts, however stale, runs ahead of the failures so far.
AttemptsAreFailures ==
  /\ \A e \in Events : attempts[e] <= failures[e]
  /\ \A r \in Relays, e \in Events : seen[r][e] <= failures[e]
  /\ \A r \in Relays : phase[r] = "rejected" =>
       seen[r][current[r]] + 1 <= failures[current[r]]

\* The outcomes are final, exclusive and about committed rows.
Settled ==
  \A e \in Events :
    /\ publishedAt[e] => txn[e] = "committed" /\ ~deadAt[e]
    /\ deadAt[e] => txn[e] = "committed"

CommittedWork == WorkIsCommitted /\ OnlyCommittedDelivered
HonestPublish == PublishReached /\ PublishedWasDelivered
HonestCount   == AttemptsAreFailures /\ DeadOnlyAfterMaxFailures
FinalOutcome  == Settled /\ TerminalRowUnclaimed

IInv ==
  /\ TypeOK
  /\ WorkIsCommitted
  /\ PublishReached
  /\ AttemptsAreFailures
  /\ Settled
  /\ OnlyCommittedDelivered
  /\ PublishedWasDelivered
  /\ EffectOncePerReceipt
  /\ DeadOnlyAfterMaxFailures
  /\ TerminalRowUnclaimed

-----------------------------------------------------------------------------
\* Counting up one entry of a function of counters keeps its type.
LEMMA CountUp ==
  ASSUME NEW S, NEW f \in [S -> Nat], NEW x \in S
  PROVE  [f EXCEPT ![x] = @ + 1] \in [S -> Nat]
OBVIOUS

\* A relay's copy of a row's attempts is a number.
LEMMA LookUp ==
  ASSUME NEW S, NEW T, NEW f \in [S -> [T -> Nat]], NEW x \in S, NEW y \in T
  PROVE  f[x][y] \in Nat
OBVIOUS

\* The empty table and the relays that are down have their types.
LEMMA TypeInit == Init => TypeOK
BY OutboxAssumption DEF Init, TypeOK, Phases, Handling

\* Every statement of a producer, a relay or the clock keeps the types.
LEMMA TypeStep == TypeOK /\ [Next]_vars => TypeOK'
<1> SUFFICES ASSUME TypeOK, [Next]_vars PROVE TypeOK'
  OBVIOUS
<1> USE OutboxAssumption DEF TypeOK, Phases, Handling, rowVars, relayVars, consumerVars
<1>1. ASSUME NEW e \in Events, EnqueueInTransaction(e) PROVE TypeOK'
  BY <1>1 DEF EnqueueInTransaction
<1>2. ASSUME NEW e \in Events, EndTransaction(e) PROVE TypeOK'
  BY <1>2 DEF EndTransaction
<1>3. ASSUME NEW e \in Events, BackoffElapses(e) PROVE TypeOK'
  BY <1>3 DEF BackoffElapses
<1>4. ASSUME NEW r \in Relays, Claim(r) PROVE TypeOK'
  <2>0. PICK S \in SUBSET Events :
          /\ owner' = [e \in Events |-> IF e \in S THEN r ELSE owner[e]]
          /\ lease' = [lease EXCEPT ![r] = @ \cup S]
          /\ seen' = [seen EXCEPT ![r] =
                         [e \in Events |-> IF e \in S THEN attempts[e] ELSE @[e]]]
          /\ \E first \in S : StartPublish(r, first, S \ {first})
    BY <1>4 DEF Claim
  <2>1. PICK first \in S : StartPublish(r, first, S \ {first})
    BY <2>0
  <2>2. seen' \in [Relays -> [Events -> Nat]]
    BY <2>0
  <2>3. /\ current' \in [Relays -> Events \cup {NoEvent}]
        /\ phase' \in [Relays -> Phases]
        /\ \A s \in Relays : phase'[s] \in Handling <=> current'[s] \in Events
    BY <2>1 DEF StartPublish
  <2>4. /\ batch' \in [Relays -> SUBSET Events]
        /\ todo' \in [Relays -> SUBSET Consumers]
        /\ lease' \in [Relays -> SUBSET Events]
        /\ owner' \in [Events -> Relays \cup {NoRelay}]
    BY <2>0, <2>1 DEF StartPublish
  <2>5. QED
    BY <1>4, <2>2, <2>3, <2>4 DEF Claim
<1>5. ASSUME NEW r \in Relays, PublisherResolves(r) PROVE TypeOK'
  BY <1>5 DEF PublisherResolves
<1>6. ASSUME NEW r \in Relays, PublisherRejects(r) PROVE TypeOK'
  <2>1. current[r] \in Events
    BY <1>6 DEF PublisherRejects
  <2>2. failures' \in [Events -> Nat]
    <3>1. failures' = [failures EXCEPT ![current[r]] = @ + 1]
      BY <1>6 DEF PublisherRejects
    <3>2. QED
      BY <2>1, <3>1, CountUp
  <2>3. QED
    BY <1>6, <2>2 DEF PublisherRejects
<1>7. ASSUME NEW r \in Relays, MarkPublished(r) PROVE TypeOK'
  <2>1. current[r] \in Events
    BY <1>7 DEF MarkPublished
  <2>2. CASE EndRun(r, "idle")
    <3>1. UNCHANGED <<publishedAt, deadAt, due, attempts, owner, lease>>
      BY <1>7, <2>1, <2>2 DEF MarkPublished, EndRun, RowHandled, ClearClaim
    <3>2. QED
      BY <1>7, <2>2, <3>1 DEF MarkPublished, EndRun
  <2>3. CASE RowHandled(r)
    <3>1. seen' \in [Relays -> [Events -> Nat]]
      BY <2>1, <2>3 DEF RowHandled
    <3>2. QED
      BY <1>7, <2>1, <2>3, <3>1 DEF MarkPublished, RowHandled, ClearClaim
  <2>4. QED
    BY <1>7, <2>2, <2>3 DEF MarkPublished
<1>8. ASSUME NEW r \in Relays, MarkFailed(r) PROVE TypeOK'
  <2>1. current[r] \in Events
    BY <1>8 DEF MarkFailed
  <2>2. CASE EndRun(r, "idle")
    <3>1. UNCHANGED <<publishedAt, deadAt, due, attempts, owner, lease>>
      BY <1>8, <2>1, <2>2 DEF MarkFailed, EndRun, RowHandled, ClearClaim
    <3>2. QED
      BY <1>8, <2>2, <3>1 DEF MarkFailed, EndRun
  <2>3. CASE RowHandled(r)
    <3>1. seen' \in [Relays -> [Events -> Nat]]
      BY <2>1, <2>3 DEF RowHandled
    <3>2. attempts' \in [Events -> Nat]
      <4>1. AttemptsAfter(r) \in Nat
        <5>1. seen[r][current[r]] \in Nat
          BY <2>1, LookUp
        <5>2. QED
          BY <5>1 DEF AttemptsAfter
      <4>2. QED
        BY <1>8, <2>1, <2>3, <4>1 DEF MarkFailed, RowHandled, EndRun
    <3>3. deadAt' \in [Events -> BOOLEAN]
      BY <1>8, <2>1, <2>3 DEF MarkFailed, RowHandled, EndRun
    <3>4. due' \in [Events -> BOOLEAN] /\ owner' \in [Events -> Relays \cup {NoRelay}]
      BY <1>8, <2>1, <2>3 DEF MarkFailed, RowHandled, EndRun, ClearClaim
    <3>5. QED
      BY <1>8, <2>1, <2>3, <3>1, <3>2, <3>3, <3>4 DEF MarkFailed, RowHandled
  <2>4. QED
    BY <1>8, <2>2, <2>3 DEF MarkFailed, RefusedByCheck
<1>9. ASSUME NEW r \in Relays, NextRow(r) PROVE TypeOK'
  BY <1>9 DEF NextRow, StartPublish
<1>10. ASSUME NEW r \in Relays, FinishRun(r) PROVE TypeOK'
  BY <1>10 DEF FinishRun, EndRun
<1>11. ASSUME NEW r \in Relays, ReleaseRest(r) PROVE TypeOK'
  BY <1>11 DEF ReleaseRest, EndRun, ReleaseOwnClaims, Pending, Stored
<1>12. ASSUME NEW r \in Relays, StopCompletes(r) PROVE TypeOK'
  BY <1>12 DEF StopCompletes, EndRun, ReleaseOwnClaims, Pending, Stored
<1>13. ASSUME NEW r \in Relays, Start(r) PROVE TypeOK'
  BY <1>13 DEF Start
<1>14. ASSUME NEW r \in Relays, NEW c \in Consumers, Deliver(r, c) PROVE TypeOK'
  <2>1. <<c, current[r]>> \in Consumers \X Events
    BY <1>14 DEF Deliver
  <2>2. /\ receipts' \subseteq Consumers \X Events
        /\ effects' \in [Consumers \X Events -> Nat]
    <3>1. CASE ConsumeOnce(c, current[r])
      <4>1. effects' = [effects EXCEPT ![<<c, current[r]>>] = @ + 1]
        BY <3>1 DEF ConsumeOnce
      <4>2. QED
        BY <2>1, <3>1, <4>1, CountUp DEF ConsumeOnce
    <3>2. CASE UNCHANGED <<receipts, effects>>
      BY <3>2
    <3>3. QED
      BY <1>14, <3>1, <3>2 DEF Deliver
  <2>3. QED
    BY <1>14, <2>1, <2>2 DEF Deliver
<1>15. ASSUME NEW r \in Relays, Stop(r) PROVE TypeOK'
  BY <1>15 DEF Stop, Fault
<1>16. ASSUME NEW r \in Relays, Crash(r) PROVE TypeOK'
  BY <1>16 DEF Crash, EndRun, Fault
<1>17. ASSUME NEW r \in Relays, QueryFails(r) PROVE TypeOK'
  BY <1>17 DEF QueryFails, EndRun, Fault
<1>18. ASSUME NEW r \in Relays, NEW e \in Events, ClaimExpires(r, e) PROVE TypeOK'
  BY <1>18 DEF ClaimExpires
<1>19. CASE UNCHANGED vars
  BY <1>19 DEF vars
<1>20. QED
  BY <1>1, <1>2, <1>3, <1>4, <1>5, <1>6, <1>7, <1>8, <1>9, <1>10, <1>11, <1>12,
     <1>13, <1>14, <1>15, <1>16, <1>17, <1>18, <1>19
     DEF Next, RunStep

\* After an outcome, marked or refused, the relay holds the row no longer and
\* has forgotten its copy of attempts; the rest of its batch may be dropped.
LetsGo(r) ==
  /\ current[r] \in Events
  /\ current'[r] = NoEvent
  /\ phase'[r] \notin Handling
  /\ \A s \in Relays : /\ batch'[s] \subseteq batch[s]
                       /\ s # r => UNCHANGED <<current[s], phase[s], todo[s]>>
  /\ \A s \in Relays, e \in Events : seen'[s][e] \in {seen[s][e], 0}
  /\ UNCHANGED <<txn, consumerVars, failures>>

\* markFailed and the published UPDATE both end the relay's hold on its row.
LEMMA OutcomeLetsGo ==
  ASSUME TypeOK, NEW r \in Relays, MarkPublished(r) \/ MarkFailed(r)
  PROVE  LetsGo(r)
<1> USE DEF TypeOK, Handling, Phases
<1>1. current[r] \in Events
  BY DEF MarkPublished, MarkFailed
<1>2. UNCHANGED <<txn, consumerVars, failures>>
  BY DEF MarkPublished, MarkFailed
<1>3. CASE EndRun(r, "idle")
  <2>1. \A s \in Relays, e \in Events : seen'[s][e] \in {seen[s][e], 0}
    BY <1>3 DEF EndRun
  <2>2. QED
    BY <1>1, <1>2, <1>3, <2>1 DEF EndRun, LetsGo
<1>4. CASE RowHandled(r)
  <2>1. \A s \in Relays, e \in Events : seen'[s][e] \in {seen[s][e], 0}
    BY <1>1, <1>4 DEF RowHandled
  <2>2. QED
    BY <1>1, <1>2, <1>4, <2>1 DEF RowHandled, LetsGo
<1>5. QED
  BY <1>3, <1>4 DEF MarkPublished, MarkFailed, RefusedByCheck

\* Letting go of a row disturbs no other relay's work or publish.
LEMMA LetsGoSafe ==
  ASSUME TypeOK', NEW r \in Relays, LetsGo(r),
         WorkIsCommitted, OnlyCommittedDelivered, PublishReached
  PROVE  WorkIsCommitted' /\ OnlyCommittedDelivered' /\ PublishReached'
<1>1. WorkIsCommitted'
  BY OutboxAssumption DEF LetsGo, WorkIsCommitted, OutboxAssumption
<1>2. OnlyCommittedDelivered'
  BY DEF LetsGo, OnlyCommittedDelivered, consumerVars
<1>3. PublishReached'
  BY DEF LetsGo, PublishReached, consumerVars, Handling
<1>4. QED
  BY <1>1, <1>2, <1>3

\* The row marked by relay.ts after publish resolved had reached everyone.
LEMMA PublishedNow ==
  ASSUME TypeOK, NEW r \in Relays, MarkPublished(r), LetsGo(r),
         PublishReached, PublishedWasDelivered
  PROVE  PublishedWasDelivered'
<1>1. \A c \in Consumers : <<c, current[r]>> \in delivered
  BY DEF MarkPublished, PublishReached
<1>2. \A e \in Events : publishedAt'[e] => publishedAt[e] \/ e = current[r]
  BY DEF MarkPublished, TypeOK
<1>3. QED
  BY <1>1, <1>2 DEF LetsGo, consumerVars, PublishedWasDelivered

\* A rejected publish is counted before the relay writes attempts + 1.
LEMMA RejectionCounts ==
  ASSUME TypeOK, NEW r \in Relays, PublisherRejects(r),
         AttemptsAreFailures, DeadOnlyAfterMaxFailures
  PROVE  AttemptsAreFailures' /\ DeadOnlyAfterMaxFailures'
<1>1. /\ current[r] \in Events
      /\ failures' = [failures EXCEPT ![current[r]] = @ + 1]
      /\ phase' = [phase EXCEPT ![r] = "rejected"]
      /\ UNCHANGED <<attempts, deadAt, seen, current>>
  BY DEF PublisherRejects, rowVars, TypeOK, Handling
<1>2. \A e \in Events :
        /\ failures[e] \in Nat
        /\ attempts[e] \in Nat
        /\ \A s \in Relays : seen[s][e] \in Nat
        /\ failures'[e] = IF e = current[r] THEN failures[e] + 1 ELSE failures[e]
  BY <1>1 DEF TypeOK
<1>3. \A e \in Events : attempts'[e] <= failures'[e]
  BY <1>1, <1>2 DEF AttemptsAreFailures
<1>4. \A s \in Relays, e \in Events : seen'[s][e] <= failures'[e]
  BY <1>1, <1>2 DEF AttemptsAreFailures
<1>5. \A s \in Relays : phase'[s] = "rejected" =>
        seen'[s][current'[s]] + 1 <= failures'[current'[s]]
  <2>1. SUFFICES ASSUME NEW s \in Relays, phase'[s] = "rejected"
                 PROVE  seen'[s][current'[s]] + 1 <= failures'[current'[s]]
    OBVIOUS
  <2>2. CASE s = r
    BY <1>1, <1>2, <2>2 DEF AttemptsAreFailures
  <2>3. CASE s # r
    <3>1. phase[s] = "rejected"
      BY <1>1, <2>1, <2>3 DEF TypeOK
    <3>2. current[s] \in Events
      BY <3>1 DEF TypeOK, Handling
    <3>3. QED
      BY <1>1, <1>2, <3>1, <3>2 DEF AttemptsAreFailures
  <2>4. QED
    BY <2>2, <2>3
<1>6. DeadOnlyAfterMaxFailures'
  BY <1>1, <1>2, OutboxAssumption DEF DeadOnlyAfterMaxFailures, OutboxAssumption
<1>7. QED
  BY <1>3, <1>4, <1>5, <1>6 DEF AttemptsAreFailures

\* markFailed, from a copy however stale, writes no more than the failures.
LEMMA OutcomeCounts ==
  ASSUME TypeOK, TypeOK', NEW r \in Relays, MarkPublished(r) \/ MarkFailed(r), LetsGo(r),
         AttemptsAreFailures, DeadOnlyAfterMaxFailures
  PROVE  AttemptsAreFailures' /\ DeadOnlyAfterMaxFailures'
<1>1. \A e \in Events :
        /\ failures[e] \in Nat
        /\ \A s \in Relays : seen[s][e] \in Nat
  BY DEF TypeOK
<1>2. /\ failures' = failures
      /\ \A s \in Relays, e \in Events : seen'[s][e] \in {seen[s][e], 0}
      /\ \A s \in Relays : phase'[s] = "rejected" =>
           /\ phase[s] = "rejected"
           /\ current'[s] = current[s]
           /\ current[s] \in Events
  BY DEF LetsGo, Handling, TypeOK
<1>3. CASE MarkPublished(r)
  <2>1. UNCHANGED <<attempts, deadAt>>
    BY <1>3 DEF MarkPublished
  <2>2. QED
    BY <1>1, <1>2, <2>1 DEF AttemptsAreFailures, DeadOnlyAfterMaxFailures
<1>4. CASE MarkFailed(r)
  <2>1. AttemptsAfter(r) \in Nat /\ AttemptsAfter(r) <= failures[current[r]]
    BY <1>1, <1>4 DEF MarkFailed, AttemptsAfter, AttemptsAreFailures, LetsGo
  <2>2. \A e \in Events :
          attempts'[e] = attempts[e] \/ (e = current[r] /\ attempts'[e] = AttemptsAfter(r))
    BY <1>4 DEF MarkFailed, TypeOK
  <2>3. \A e \in Events : deadAt'[e] =>
          deadAt[e] \/ (e = current[r] /\ AttemptsAfter(r) >= MaxAttempts)
    BY <1>4 DEF MarkFailed, TypeOK
  <2>4. AttemptsAreFailures'
    BY <1>1, <1>2, <2>1, <2>2 DEF AttemptsAreFailures
  <2>5. DeadOnlyAfterMaxFailures'
    BY <1>1, <1>2, <2>1, <2>3, OutboxAssumption DEF DeadOnlyAfterMaxFailures, OutboxAssumption
  <2>6. QED
    BY <2>4, <2>5
<1>5. QED
  BY <1>3, <1>4

\* A relay only ever works on, and delivers, rows it found committed.
LEMMA WorkStep == IInv /\ TypeOK' /\ [Next]_vars => CommittedWork'
<1> SUFFICES ASSUME IInv, TypeOK', [Next]_vars PROVE CommittedWork'
  OBVIOUS
<1> USE OutboxAssumption DEF IInv, TypeOK, Phases, Handling, rowVars, relayVars, consumerVars,
            CommittedWork, WorkIsCommitted, OnlyCommittedDelivered
<1>1. ASSUME NEW e \in Events, EnqueueInTransaction(e) PROVE CommittedWork'
  BY <1>1 DEF EnqueueInTransaction
<1>2. ASSUME NEW e \in Events, EndTransaction(e) PROVE CommittedWork'
  BY <1>2 DEF EndTransaction
<1>3. ASSUME NEW e \in Events, BackoffElapses(e) PROVE CommittedWork'
  BY <1>3 DEF BackoffElapses
<1>4. ASSUME NEW r \in Relays, Claim(r) PROVE CommittedWork'
  BY <1>4 DEF Claim, StartPublish, OldestBatch, Claimable, Pending, Stored
<1>5. ASSUME NEW r \in Relays, PublisherResolves(r) PROVE CommittedWork'
  BY <1>5 DEF PublisherResolves
<1>6. ASSUME NEW r \in Relays, PublisherRejects(r) PROVE CommittedWork'
  BY <1>6 DEF PublisherRejects
<1>7. ASSUME NEW r \in Relays, MarkPublished(r) PROVE CommittedWork'
  BY <1>7, OutcomeLetsGo, LetsGoSafe
<1>8. ASSUME NEW r \in Relays, MarkFailed(r) PROVE CommittedWork'
  BY <1>8, OutcomeLetsGo, LetsGoSafe
<1>9. ASSUME NEW r \in Relays, NextRow(r) PROVE CommittedWork'
  BY <1>9 DEF NextRow, StartPublish
<1>10. ASSUME NEW r \in Relays, FinishRun(r) PROVE CommittedWork'
  BY <1>10 DEF FinishRun, EndRun
<1>11. ASSUME NEW r \in Relays, ReleaseRest(r) PROVE CommittedWork'
  BY <1>11 DEF ReleaseRest, EndRun, ReleaseOwnClaims, Pending, Stored
<1>12. ASSUME NEW r \in Relays, StopCompletes(r) PROVE CommittedWork'
  BY <1>12 DEF StopCompletes, EndRun, ReleaseOwnClaims, Pending, Stored
<1>13. ASSUME NEW r \in Relays, Start(r) PROVE CommittedWork'
  BY <1>13 DEF Start
<1>14. ASSUME NEW r \in Relays, NEW c \in Consumers, Deliver(r, c) PROVE CommittedWork'
  BY <1>14 DEF Deliver, ConsumeOnce
<1>15. ASSUME NEW r \in Relays, Stop(r) PROVE CommittedWork'
  BY <1>15 DEF Stop, Fault
<1>16. ASSUME NEW r \in Relays, Crash(r) PROVE CommittedWork'
  BY <1>16 DEF Crash, EndRun, Fault
<1>17. ASSUME NEW r \in Relays, QueryFails(r) PROVE CommittedWork'
  BY <1>17 DEF QueryFails, EndRun, Fault
<1>18. ASSUME NEW r \in Relays, NEW e \in Events, ClaimExpires(r, e) PROVE CommittedWork'
  BY <1>18 DEF ClaimExpires
<1>19. CASE UNCHANGED vars
  BY <1>19 DEF vars
<1>20. QED
  BY <1>1, <1>2, <1>3, <1>4, <1>5, <1>6, <1>7, <1>8, <1>9, <1>10, <1>11, <1>12,
     <1>13, <1>14, <1>15, <1>16, <1>17, <1>18, <1>19
     DEF Next, RunStep


\* Passing a subscription calls its handler, and published comes after all.
LEMMA PublishStep == IInv /\ TypeOK' /\ [Next]_vars => HonestPublish'
<1> SUFFICES ASSUME IInv, TypeOK', [Next]_vars PROVE HonestPublish'
  OBVIOUS
<1> USE OutboxAssumption DEF IInv, TypeOK, Phases, Handling, rowVars, relayVars, consumerVars,
            HonestPublish, PublishReached, PublishedWasDelivered
<1>1. ASSUME NEW e \in Events, EnqueueInTransaction(e) PROVE HonestPublish'
  BY <1>1 DEF EnqueueInTransaction
<1>2. ASSUME NEW e \in Events, EndTransaction(e) PROVE HonestPublish'
  BY <1>2 DEF EndTransaction
<1>3. ASSUME NEW e \in Events, BackoffElapses(e) PROVE HonestPublish'
  BY <1>3 DEF BackoffElapses
<1>4. ASSUME NEW r \in Relays, Claim(r) PROVE HonestPublish'
  BY <1>4 DEF Claim, StartPublish, OldestBatch, Claimable, Pending, Stored
<1>5. ASSUME NEW r \in Relays, PublisherResolves(r) PROVE HonestPublish'
  BY <1>5 DEF PublisherResolves
<1>6. ASSUME NEW r \in Relays, PublisherRejects(r) PROVE HonestPublish'
  BY <1>6 DEF PublisherRejects
<1>7. ASSUME NEW r \in Relays, MarkPublished(r) PROVE HonestPublish'
  BY <1>7, OutcomeLetsGo, LetsGoSafe, PublishedNow
<1>8. ASSUME NEW r \in Relays, MarkFailed(r) PROVE HonestPublish'
  <2>1. LetsGo(r)
    BY <1>8, OutcomeLetsGo
  <2>2. UNCHANGED <<publishedAt, delivered>>
    BY <1>8 DEF MarkFailed
  <2>3. QED
    BY <2>1, <2>2, LetsGoSafe
<1>9. ASSUME NEW r \in Relays, NextRow(r) PROVE HonestPublish'
  BY <1>9 DEF NextRow, StartPublish
<1>10. ASSUME NEW r \in Relays, FinishRun(r) PROVE HonestPublish'
  BY <1>10 DEF FinishRun, EndRun
<1>11. ASSUME NEW r \in Relays, ReleaseRest(r) PROVE HonestPublish'
  BY <1>11 DEF ReleaseRest, EndRun, ReleaseOwnClaims, Pending, Stored
<1>12. ASSUME NEW r \in Relays, StopCompletes(r) PROVE HonestPublish'
  BY <1>12 DEF StopCompletes, EndRun, ReleaseOwnClaims, Pending, Stored
<1>13. ASSUME NEW r \in Relays, Start(r) PROVE HonestPublish'
  BY <1>13 DEF Start
<1>14. ASSUME NEW r \in Relays, NEW c \in Consumers, Deliver(r, c) PROVE HonestPublish'
  BY <1>14 DEF Deliver, ConsumeOnce
<1>15. ASSUME NEW r \in Relays, Stop(r) PROVE HonestPublish'
  BY <1>15 DEF Stop, Fault
<1>16. ASSUME NEW r \in Relays, Crash(r) PROVE HonestPublish'
  BY <1>16 DEF Crash, EndRun, Fault
<1>17. ASSUME NEW r \in Relays, QueryFails(r) PROVE HonestPublish'
  BY <1>17 DEF QueryFails, EndRun, Fault
<1>18. ASSUME NEW r \in Relays, NEW e \in Events, ClaimExpires(r, e) PROVE HonestPublish'
  BY <1>18 DEF ClaimExpires
<1>19. CASE UNCHANGED vars
  BY <1>19 DEF vars
<1>20. QED
  BY <1>1, <1>2, <1>3, <1>4, <1>5, <1>6, <1>7, <1>8, <1>9, <1>10, <1>11, <1>12,
     <1>13, <1>14, <1>15, <1>16, <1>17, <1>18, <1>19
     DEF Next, RunStep


\* attempts and its copies stay behind the failures; dead-letters are earned.
LEMMA AttemptsStep == IInv /\ TypeOK' /\ [Next]_vars => HonestCount'
<1> SUFFICES ASSUME IInv, TypeOK', [Next]_vars PROVE HonestCount'
  OBVIOUS
<1> USE OutboxAssumption DEF IInv, TypeOK, Phases, Handling, rowVars, relayVars, consumerVars,
            HonestCount, AttemptsAreFailures, DeadOnlyAfterMaxFailures
<1>1. ASSUME NEW e \in Events, EnqueueInTransaction(e) PROVE HonestCount'
  BY <1>1 DEF EnqueueInTransaction
<1>2. ASSUME NEW e \in Events, EndTransaction(e) PROVE HonestCount'
  BY <1>2 DEF EndTransaction
<1>3. ASSUME NEW e \in Events, BackoffElapses(e) PROVE HonestCount'
  BY <1>3 DEF BackoffElapses
<1>4. ASSUME NEW r \in Relays, Claim(r) PROVE HonestCount'
  BY <1>4 DEF Claim, StartPublish, OldestBatch, Claimable, Pending, Stored
<1>5. ASSUME NEW r \in Relays, PublisherResolves(r) PROVE HonestCount'
  BY <1>5 DEF PublisherResolves
<1>6. ASSUME NEW r \in Relays, PublisherRejects(r) PROVE HonestCount'
  BY <1>6, RejectionCounts
<1>7. ASSUME NEW r \in Relays, MarkPublished(r) PROVE HonestCount'
  BY <1>7, OutcomeLetsGo, OutcomeCounts
<1>8. ASSUME NEW r \in Relays, MarkFailed(r) PROVE HonestCount'
  BY <1>8, OutcomeLetsGo, OutcomeCounts
<1>9. ASSUME NEW r \in Relays, NextRow(r) PROVE HonestCount'
  BY <1>9 DEF NextRow, StartPublish
<1>10. ASSUME NEW r \in Relays, FinishRun(r) PROVE HonestCount'
  BY <1>10 DEF FinishRun, EndRun
<1>11. ASSUME NEW r \in Relays, ReleaseRest(r) PROVE HonestCount'
  BY <1>11 DEF ReleaseRest, EndRun, ReleaseOwnClaims, Pending, Stored
<1>12. ASSUME NEW r \in Relays, StopCompletes(r) PROVE HonestCount'
  BY <1>12 DEF StopCompletes, EndRun, ReleaseOwnClaims, Pending, Stored
<1>13. ASSUME NEW r \in Relays, Start(r) PROVE HonestCount'
  BY <1>13 DEF Start
<1>14. ASSUME NEW r \in Relays, NEW c \in Consumers, Deliver(r, c) PROVE HonestCount'
  BY <1>14 DEF Deliver, ConsumeOnce
<1>15. ASSUME NEW r \in Relays, Stop(r) PROVE HonestCount'
  BY <1>15 DEF Stop, Fault
<1>16. ASSUME NEW r \in Relays, Crash(r) PROVE HonestCount'
  BY <1>16 DEF Crash, EndRun, Fault
<1>17. ASSUME NEW r \in Relays, QueryFails(r) PROVE HonestCount'
  BY <1>17 DEF QueryFails, EndRun, Fault
<1>18. ASSUME NEW r \in Relays, NEW e \in Events, ClaimExpires(r, e) PROVE HonestCount'
  BY <1>18 DEF ClaimExpires
<1>19. CASE UNCHANGED vars
  BY <1>19 DEF vars
<1>20. QED
  BY <1>1, <1>2, <1>3, <1>4, <1>5, <1>6, <1>7, <1>8, <1>9, <1>10, <1>11, <1>12,
     <1>13, <1>14, <1>15, <1>16, <1>17, <1>18, <1>19
     DEF Next, RunStep


\* Outcomes stay exclusive, and a settled row is never claimed.
LEMMA SettleStep == IInv /\ TypeOK' /\ [Next]_vars => FinalOutcome'
<1> SUFFICES ASSUME IInv, TypeOK', [Next]_vars PROVE FinalOutcome'
  OBVIOUS
<1> USE OutboxAssumption DEF IInv, TypeOK, Phases, Handling, rowVars, relayVars, consumerVars,
            FinalOutcome, Settled, TerminalRowUnclaimed
<1> USE DEF WorkIsCommitted
<1>1. ASSUME NEW e \in Events, EnqueueInTransaction(e) PROVE FinalOutcome'
  BY <1>1 DEF EnqueueInTransaction
<1>2. ASSUME NEW e \in Events, EndTransaction(e) PROVE FinalOutcome'
  BY <1>2 DEF EndTransaction
<1>3. ASSUME NEW e \in Events, BackoffElapses(e) PROVE FinalOutcome'
  BY <1>3 DEF BackoffElapses
<1>4. ASSUME NEW r \in Relays, Claim(r) PROVE FinalOutcome'
  BY <1>4 DEF Claim, StartPublish, OldestBatch, Claimable, Pending, Stored
<1>5. ASSUME NEW r \in Relays, PublisherResolves(r) PROVE FinalOutcome'
  BY <1>5 DEF PublisherResolves
<1>6. ASSUME NEW r \in Relays, PublisherRejects(r) PROVE FinalOutcome'
  BY <1>6 DEF PublisherRejects
<1>7. ASSUME NEW r \in Relays, MarkPublished(r) PROVE FinalOutcome'
  BY <1>7 DEF MarkPublished, RefusedByCheck, ClearClaim, RowHandled, EndRun
<1>8. ASSUME NEW r \in Relays, MarkFailed(r) PROVE FinalOutcome'
  BY <1>8 DEF MarkFailed, RefusedByCheck, ClearClaim, RowHandled, EndRun, AttemptsAfter
<1>9. ASSUME NEW r \in Relays, NextRow(r) PROVE FinalOutcome'
  BY <1>9 DEF NextRow, StartPublish
<1>10. ASSUME NEW r \in Relays, FinishRun(r) PROVE FinalOutcome'
  BY <1>10 DEF FinishRun, EndRun
<1>11. ASSUME NEW r \in Relays, ReleaseRest(r) PROVE FinalOutcome'
  BY <1>11 DEF ReleaseRest, EndRun, ReleaseOwnClaims, Pending, Stored
<1>12. ASSUME NEW r \in Relays, StopCompletes(r) PROVE FinalOutcome'
  BY <1>12 DEF StopCompletes, EndRun, ReleaseOwnClaims, Pending, Stored
<1>13. ASSUME NEW r \in Relays, Start(r) PROVE FinalOutcome'
  BY <1>13 DEF Start
<1>14. ASSUME NEW r \in Relays, NEW c \in Consumers, Deliver(r, c) PROVE FinalOutcome'
  BY <1>14 DEF Deliver, ConsumeOnce
<1>15. ASSUME NEW r \in Relays, Stop(r) PROVE FinalOutcome'
  BY <1>15 DEF Stop, Fault
<1>16. ASSUME NEW r \in Relays, Crash(r) PROVE FinalOutcome'
  BY <1>16 DEF Crash, EndRun, Fault
<1>17. ASSUME NEW r \in Relays, QueryFails(r) PROVE FinalOutcome'
  BY <1>17 DEF QueryFails, EndRun, Fault
<1>18. ASSUME NEW r \in Relays, NEW e \in Events, ClaimExpires(r, e) PROVE FinalOutcome'
  BY <1>18 DEF ClaimExpires
<1>19. CASE UNCHANGED vars
  BY <1>19 DEF vars
<1>20. QED
  BY <1>1, <1>2, <1>3, <1>4, <1>5, <1>6, <1>7, <1>8, <1>9, <1>10, <1>11, <1>12,
     <1>13, <1>14, <1>15, <1>16, <1>17, <1>18, <1>19
     DEF Next, RunStep


\* Receipt and effect commit together and only once.
LEMMA EffectStep == IInv /\ TypeOK' /\ [Next]_vars => (EffectOncePerReceipt)'
<1> SUFFICES ASSUME IInv, TypeOK', [Next]_vars PROVE (EffectOncePerReceipt)'
  OBVIOUS
<1> USE OutboxAssumption DEF IInv, TypeOK, Phases, Handling, rowVars, relayVars, consumerVars,
            EffectOncePerReceipt
<1>1. ASSUME NEW e \in Events, EnqueueInTransaction(e) PROVE (EffectOncePerReceipt)'
  BY <1>1 DEF EnqueueInTransaction
<1>2. ASSUME NEW e \in Events, EndTransaction(e) PROVE (EffectOncePerReceipt)'
  BY <1>2 DEF EndTransaction
<1>3. ASSUME NEW e \in Events, BackoffElapses(e) PROVE (EffectOncePerReceipt)'
  BY <1>3 DEF BackoffElapses
<1>4. ASSUME NEW r \in Relays, Claim(r) PROVE (EffectOncePerReceipt)'
  BY <1>4 DEF Claim, StartPublish, OldestBatch, Claimable, Pending, Stored
<1>5. ASSUME NEW r \in Relays, PublisherResolves(r) PROVE (EffectOncePerReceipt)'
  BY <1>5 DEF PublisherResolves
<1>6. ASSUME NEW r \in Relays, PublisherRejects(r) PROVE (EffectOncePerReceipt)'
  BY <1>6 DEF PublisherRejects
<1>7. ASSUME NEW r \in Relays, MarkPublished(r) PROVE (EffectOncePerReceipt)'
  BY <1>7 DEF MarkPublished, RefusedByCheck, ClearClaim, RowHandled, EndRun
<1>8. ASSUME NEW r \in Relays, MarkFailed(r) PROVE (EffectOncePerReceipt)'
  BY <1>8 DEF MarkFailed, RefusedByCheck, ClearClaim, RowHandled, EndRun, AttemptsAfter
<1>9. ASSUME NEW r \in Relays, NextRow(r) PROVE (EffectOncePerReceipt)'
  BY <1>9 DEF NextRow, StartPublish
<1>10. ASSUME NEW r \in Relays, FinishRun(r) PROVE (EffectOncePerReceipt)'
  BY <1>10 DEF FinishRun, EndRun
<1>11. ASSUME NEW r \in Relays, ReleaseRest(r) PROVE (EffectOncePerReceipt)'
  BY <1>11 DEF ReleaseRest, EndRun, ReleaseOwnClaims, Pending, Stored
<1>12. ASSUME NEW r \in Relays, StopCompletes(r) PROVE (EffectOncePerReceipt)'
  BY <1>12 DEF StopCompletes, EndRun, ReleaseOwnClaims, Pending, Stored
<1>13. ASSUME NEW r \in Relays, Start(r) PROVE (EffectOncePerReceipt)'
  BY <1>13 DEF Start
<1>14. ASSUME NEW r \in Relays, NEW c \in Consumers, Deliver(r, c) PROVE (EffectOncePerReceipt)'
  <2>1. <<c, current[r]>> \in Consumers \X Events
    BY <1>14 DEF Deliver
  <2>2. CASE ConsumeOnce(c, current[r])
    <3>1. effects[<<c, current[r]>>] = 0
      BY <2>1, <2>2 DEF ConsumeOnce
    <3>2. QED
      BY <2>1, <2>2, <3>1 DEF ConsumeOnce
  <2>3. CASE UNCHANGED <<receipts, effects>>
    BY <2>3
  <2>4. QED
    BY <1>14, <2>2, <2>3 DEF Deliver
<1>15. ASSUME NEW r \in Relays, Stop(r) PROVE (EffectOncePerReceipt)'
  BY <1>15 DEF Stop, Fault
<1>16. ASSUME NEW r \in Relays, Crash(r) PROVE (EffectOncePerReceipt)'
  BY <1>16 DEF Crash, EndRun, Fault
<1>17. ASSUME NEW r \in Relays, QueryFails(r) PROVE (EffectOncePerReceipt)'
  BY <1>17 DEF QueryFails, EndRun, Fault
<1>18. ASSUME NEW r \in Relays, NEW e \in Events, ClaimExpires(r, e) PROVE (EffectOncePerReceipt)'
  BY <1>18 DEF ClaimExpires
<1>19. CASE UNCHANGED vars
  BY <1>19 DEF vars
<1>20. QED
  BY <1>1, <1>2, <1>3, <1>4, <1>5, <1>6, <1>7, <1>8, <1>9, <1>10, <1>11, <1>12,
     <1>13, <1>14, <1>15, <1>16, <1>17, <1>18, <1>19
     DEF Next, RunStep

-----------------------------------------------------------------------------
(* The theorems.                                                           *)

\* The inductive invariant holds before anything is enqueued.
LEMMA InitInv == Init => IInv
<1> SUFFICES ASSUME Init PROVE IInv
  OBVIOUS
<1>1. TypeOK
  BY TypeInit
<1>2. /\ WorkIsCommitted
      /\ PublishReached
      /\ Settled
      /\ OnlyCommittedDelivered
      /\ PublishedWasDelivered
      /\ EffectOncePerReceipt
      /\ DeadOnlyAfterMaxFailures
      /\ TerminalRowUnclaimed
  BY OutboxAssumption
     DEF OutboxAssumption, Init, WorkIsCommitted, PublishReached, Settled,
         OnlyCommittedDelivered, PublishedWasDelivered, EffectOncePerReceipt,
         DeadOnlyAfterMaxFailures, TerminalRowUnclaimed
<1>3. AttemptsAreFailures
  BY DEF Init, AttemptsAreFailures
<1>4. QED
  BY <1>1, <1>2, <1>3 DEF IInv

\* Every step preserves the inductive invariant.
LEMMA StepInv == IInv /\ [Next]_vars => IInv'
<1> SUFFICES ASSUME IInv, [Next]_vars PROVE IInv'
  OBVIOUS
<1>1. TypeOK'
  BY TypeStep DEF IInv
<1>2. QED
  BY <1>1, WorkStep, PublishStep, AttemptsStep, SettleStep, EffectStep
     DEF IInv, CommittedWork, HonestPublish, HonestCount, FinalOutcome

\* Everything below holds in every reachable state.
THEOREM Invariance == Spec => []IInv
<1>1. QED
  BY InitInv, StepInv, PTL DEF Spec

\* Every variable keeps its type, and a relay has a current row exactly while
\* it publishes one or reports its outcome (relay.ts, runOnce).
THEOREM TypeCorrect == Spec => []TypeOK
<1>1. IInv => TypeOK
  BY DEF IInv
<1>2. QED
  BY <1>1, Invariance, PTL

\* published_at is set only after every subscription's handler was called.
THEOREM PublishedOnlyWhenDelivered == Spec => []PublishedWasDelivered
<1>1. IInv => PublishedWasDelivered
  BY DEF IInv
<1>2. QED
  BY <1>1, Invariance, PTL

\* No consumer sees an event whose producer did not commit.
THEOREM NothingUncommittedDelivered == Spec => []OnlyCommittedDelivered
<1>1. IInv => OnlyCommittedDelivered
  BY DEF IInv
<1>2. QED
  BY <1>1, Invariance, PTL

\* withIdempotency runs an effect once however often the event is delivered.
THEOREM EffectsRunOnce == Spec => []EffectOncePerReceipt
<1>1. IInv => EffectOncePerReceipt
  BY DEF IInv
<1>2. QED
  BY <1>1, Invariance, PTL

\* markFailed dead-letters no event before max_attempts publishes failed, for
\* any number of relays counting from stale copies.
THEOREM DeadLettersAreEarned == Spec => []DeadOnlyAfterMaxFailures
<1>1. IInv => DeadOnlyAfterMaxFailures
  BY DEF IInv
<1>2. QED
  BY <1>1, Invariance, PTL

\* A settled row is not claimed by any relay.
THEOREM SettledRowsAreFree == Spec => []TerminalRowUnclaimed
<1>1. IInv => TerminalRowUnclaimed
  BY DEF IInv
<1>2. QED
  BY <1>1, Invariance, PTL

\* Published and dead-lettered are final and exclusive in every step.
THEOREM OutcomesAreFinal == Spec => SettledForever
<1> DEFINE Final ==
      \A e \in Events :
        /\ publishedAt[e] => publishedAt'[e] /\ ~deadAt'[e]
        /\ deadAt[e] => deadAt'[e] /\ ~publishedAt'[e]
<1>1. ASSUME IInv, IInv', [Next]_vars PROVE [Final]_vars
  <2> SUFFICES ASSUME Next PROVE Final
    BY <1>1
  <2>1. \A e \in Events : publishedAt[e] => publishedAt'[e]
    <3> USE OutboxAssumption DEF IInv, TypeOK
    <3>1. ASSUME NEW r \in Relays, MarkPublished(r)
          PROVE  \A e \in Events : publishedAt[e] => publishedAt'[e]
      BY <1>1, <3>1 DEF MarkPublished, RefusedByCheck
    <3>2. QED
      BY <1>1, <3>1 DEF Next, RunStep, rowVars, relayVars, EnqueueInTransaction,
         EndTransaction, BackoffElapses, Claim, PublisherResolves, PublisherRejects,
         MarkFailed, NextRow, FinishRun, ReleaseRest, StopCompletes, Start, Deliver,
         Stop, Crash, QueryFails, ClaimExpires
  <2>2. \A e \in Events : deadAt[e] => deadAt'[e]
    <3> USE OutboxAssumption DEF IInv, TypeOK
    <3>1. ASSUME NEW r \in Relays, MarkFailed(r)
          PROVE  \A e \in Events : deadAt[e] => deadAt'[e]
      BY <1>1, <3>1 DEF MarkFailed
    <3>2. QED
      BY <1>1, <3>1 DEF Next, RunStep, rowVars, relayVars, EnqueueInTransaction,
         EndTransaction, BackoffElapses, Claim, PublisherResolves, PublisherRejects,
         MarkPublished, NextRow, FinishRun, ReleaseRest, StopCompletes, Start, Deliver,
         Stop, Crash, QueryFails, ClaimExpires
  <2>3. \A e \in Events : publishedAt'[e] => ~deadAt'[e]
    BY <1>1 DEF IInv, Settled
  <2>4. QED
    BY <2>1, <2>2, <2>3
<1>2. QED
  BY <1>1, Invariance, PTL DEF Spec, SettledForever

-----------------------------------------------------------------------------
(* Refinement: every step of the outbox is a step of the contract or       *)
(* leaves what the contract sees unchanged.                                *)

fateBar == [e \in Events |-> Fate(e)]
contractBar == <<fateBar, delivered, effects>>

\* An empty outbox is the contract's initial state.
LEMMA ContractInit == Init => Contract!Init
BY DEF Init, Contract!Init, Fate

\* Only three actions change a fate; the others leave the contract's view alone.
LEMMA FateFrame ==
  ASSUME UNCHANGED <<txn, publishedAt, deadAt>>
  PROVE  fateBar' = fateBar
BY DEF fateBar, Fate

\* EndTransaction, Deliver, MarkPublished and MarkFailed are the contract's
\* steps; every other action is invisible to it.
LEMMA ContractStep == IInv /\ IInv' /\ [Next]_vars => [Contract!Next]_contractBar
<1> SUFFICES ASSUME IInv, IInv', [Next]_vars PROVE [Contract!Next]_contractBar
  OBVIOUS
<1>1. ASSUME NEW e \in Events, EndTransaction(e) PROVE Contract!Next
  <2>1. fateBar[e] = "none"
    BY <1>1 DEF EndTransaction, fateBar, Fate, IInv, Settled
  <2>2. PICK outcome \in {"committed", "rolledback"} : txn' = [txn EXCEPT ![e] = outcome]
    BY <1>1 DEF EndTransaction
  <2>3. UNCHANGED <<publishedAt, deadAt, delivered, effects>>
    BY <1>1 DEF EndTransaction, rowVars, consumerVars
  <2>4. fateBar' = [fateBar EXCEPT ![e] = outcome]
    BY <1>1, <2>2, <2>3 DEF EndTransaction, fateBar, Fate, IInv, TypeOK, Settled
  <2>5. Contract!Decide(e)
    BY <2>1, <2>2, <2>3, <2>4 DEF Contract!Decide, fateBar
  <2>6. QED
    BY <2>5 DEF Contract!Next
<1>2. ASSUME NEW r \in Relays, NEW c \in Consumers, Deliver(r, c) PROVE Contract!Next
  <2> DEFINE e == current[r]
  <2>1. e \in Events /\ txn[e] = "committed"
    BY <1>2 DEF Deliver, IInv, TypeOK, Handling, WorkIsCommitted
  <2>2. fateBar[e] \in {"committed", "published", "dead"}
    BY <2>1 DEF fateBar, Fate
  <2>3. fateBar' = fateBar
    BY <1>2, FateFrame DEF Deliver, rowVars
  <2>4. delivered' = delivered \cup {<<c, e>>}
    BY <1>2 DEF Deliver
  <2>5. \/ effects[<<c, e>>] = 0 /\ effects' = [effects EXCEPT ![<<c, e>>] = 1]
        \/ UNCHANGED effects
    <3>1. CASE ConsumeOnce(c, e)
      <4>1. effects[<<c, e>>] = 0
        BY <2>1, <3>1 DEF ConsumeOnce, IInv, EffectOncePerReceipt
      <4>2. QED
        BY <3>1, <4>1 DEF ConsumeOnce
    <3>2. QED
      BY <1>2, <3>1 DEF Deliver
  <2>6. Contract!Reach(c, e)
    BY <2>2, <2>3, <2>4, <2>5 DEF Contract!Reach, fateBar
  <2>7. QED
    BY <2>1, <2>6 DEF Contract!Next
<1>3. ASSUME NEW r \in Relays, MarkPublished(r) PROVE [Contract!Next]_contractBar
  <2> DEFINE e == current[r]
  <2>1. /\ e \in Events /\ txn[e] = "committed"
        /\ \A c \in Consumers : <<c, e>> \in delivered
    BY <1>3 DEF MarkPublished, IInv, TypeOK, Handling, WorkIsCommitted, PublishReached
  <2>2. UNCHANGED <<txn, deadAt, delivered, effects>>
    BY <1>3 DEF MarkPublished, consumerVars
  <2>3. CASE UNCHANGED publishedAt
    BY <2>2, <2>3, FateFrame DEF contractBar
  <2>4. CASE publishedAt' # publishedAt
    <3>1. /\ ~publishedAt[e] /\ ~deadAt[e]
          /\ publishedAt' = [publishedAt EXCEPT ![e] = TRUE]
      BY <1>3, <2>4 DEF MarkPublished, RefusedByCheck
    <3>2. fateBar[e] = "committed"
      BY <2>1, <3>1 DEF fateBar, Fate
    <3>3. fateBar' = [fateBar EXCEPT ![e] = "published"]
      BY <2>1, <2>2, <3>1 DEF fateBar, Fate, IInv, TypeOK, Settled
    <3>4. Contract!Publish(e)
      BY <2>1, <2>2, <3>2, <3>3 DEF Contract!Publish, fateBar
    <3>5. QED
      BY <2>1, <3>4 DEF Contract!Next
  <2>5. QED
    BY <2>3, <2>4
<1>4. ASSUME NEW r \in Relays, MarkFailed(r) PROVE [Contract!Next]_contractBar
  <2> DEFINE e == current[r]
  <2>1. e \in Events /\ txn[e] = "committed"
    BY <1>4 DEF MarkFailed, IInv, TypeOK, Handling, WorkIsCommitted
  <2>2. UNCHANGED <<txn, publishedAt, delivered, effects>>
    BY <1>4 DEF MarkFailed, consumerVars
  <2>3. CASE UNCHANGED deadAt
    BY <2>2, <2>3, FateFrame DEF contractBar
  <2>4. CASE deadAt' # deadAt
    <3>1. /\ ~publishedAt[e] /\ ~deadAt[e]
          /\ deadAt' = [deadAt EXCEPT ![e] = TRUE]
      BY <1>4, <2>1, <2>4 DEF MarkFailed, RefusedByCheck, IInv, TypeOK
    <3>2. fateBar[e] = "committed"
      BY <2>1, <3>1 DEF fateBar, Fate
    <3>3. fateBar' = [fateBar EXCEPT ![e] = "dead"]
      BY <2>1, <2>2, <3>1 DEF fateBar, Fate, IInv, TypeOK, Settled
    <3>4. Contract!DeadLetter(e)
      BY <2>2, <3>2, <3>3 DEF Contract!DeadLetter, fateBar
    <3>5. QED
      BY <2>1, <3>4 DEF Contract!Next
  <2>5. QED
    BY <2>3, <2>4
<1>5. ASSUME NEW e \in Events, EnqueueInTransaction(e) PROVE contractBar' = contractBar
  <2>1. UNCHANGED <<publishedAt, deadAt, delivered, effects>>
    BY <1>5 DEF EnqueueInTransaction, rowVars, consumerVars
  <2>2. fateBar' = fateBar
    BY <1>5, <2>1 DEF EnqueueInTransaction, fateBar, Fate, IInv, TypeOK, Settled
  <2>3. QED
    BY <2>1, <2>2 DEF contractBar
<1>6. ASSUME UNCHANGED <<txn, publishedAt, deadAt, delivered, effects>>
      PROVE  contractBar' = contractBar
  BY <1>6, FateFrame DEF contractBar
<1>7. QED
  BY <1>1, <1>2, <1>3, <1>4, <1>5, <1>6
     DEF vars, rowVars, consumerVars, Next, RunStep, BackoffElapses, Claim,
         PublisherResolves, PublisherRejects, NextRow, FinishRun, ReleaseRest,
         StopCompletes, Start, Stop, Crash, QueryFails, ClaimExpires

\* The relays, the table, the bus and the receipts together implement the
\* contract: each step is one of its steps or invisible to it.
THEOREM Refinement == Spec => ImplementsContract
<1>1. Init => Contract!Init
  BY ContractInit
<1>2. IInv /\ IInv' /\ [Next]_vars => [Contract!Next]_(Contract!contractVars)
  BY ContractStep DEF contractBar, fateBar, Contract!contractVars
<1>3. QED
  BY <1>1, <1>2, Invariance, PTL DEF Spec, ImplementsContract, Contract!Spec
=============================================================================
