--------------------------- MODULE JobQueueProofs ---------------------------
(***************************************************************************)
(* Theorems of JobQueue for every number of jobs, workers, attempts, batch *)
(* size and faults.                                                        *)
(***************************************************************************)
EXTENDS JobQueue, FiniteSetTheorems, TLAPS

\* What worker w has claimed and not reported.
Holds(w, j) == j \in batch[w] \/ current[w] = j

\* The workers that have claimed the job and may still start it.
Pending(j) == {w \in Workers : j \in batch[w]}

\* A worker between runs has no batch, and a job it started is not in it.
BatchIsWork ==
  /\ \A w \in Workers : phase[w] \in {"down", "stopped", "idle"} => batch[w] = {}
  /\ \A w \in Workers : current[w] \notin batch[w]

\* A lease in the name of a worker that holds the job is the lease of the very
\* claim it holds the job by, and its copy of attempts is the row's.
CopyIsClaim ==
  \A w \in Workers, j \in Jobs :
    HoldsLease(w, j) /\ Holds(w, j) => ticket[w][j] = claims[j] /\ copy[w][j] = attempts[j]

\* A worker about to report success saw its handler return under this claim.
ReturnSeen ==
  \A w \in Workers :
    phase[w] = "returned" => ticket[w][current[w]] \in returned[current[w]]

\* Every start was paid for by a claim, and so is every start still to come;
\* what may be claimed has an attempt left.
StartsPaid ==
  \A j \in Jobs :
    /\ IsFiniteSet(Pending(j))
    /\ starts[j] + Cardinality(Pending(j)) <= attempts[j]

AttemptLeft ==
  \A j \in Jobs :
    /\ attempts[j] <= MaxAttempts
    /\ status[j] \in Claimable \cup {"absent"} => attempts[j] < MaxAttempts

IInv ==
  /\ TypeOK
  /\ BatchIsWork
  /\ CopyIsClaim
  /\ ReturnSeen
  /\ AttemptLeft
  /\ StartsPaid
  /\ SucceededByLatestClaim
  /\ DeadIsExhausted

-----------------------------------------------------------------------------
\* Lowering a counter that stops at zero, or raising it, keeps its type.
LEMMA CountTypes ==
  ASSUME NEW S, NEW f \in [S -> Nat], NEW x \in S
  PROVE  /\ [f EXCEPT ![x] = @ + 1] \in [S -> Nat]
         /\ [f EXCEPT ![x] = IF @ = 0 THEN 0 ELSE @ - 1] \in [S -> Nat]
OBVIOUS

\* Forgetting one entry of a table of counters keeps its type.
LEMMA ForgetType ==
  ASSUME NEW S, NEW T, NEW f \in [S -> [T -> Nat]], NEW x \in S, NEW y \in T
  PROVE  [f EXCEPT ![x][y] = 0] \in [S -> [T -> Nat]]
OBVIOUS

\* Forgetting one entry leaves every other entry as it was.
LEMMA ForgetOne ==
  ASSUME NEW S, NEW T, NEW f \in [S -> [T -> Nat]], NEW x \in S, NEW y \in T,
         NEW u \in S, NEW v \in T
  PROVE  [f EXCEPT ![x][y] = 0][u][v] = IF u = x /\ v = y THEN 0 ELSE f[u][v]
OBVIOUS

\* A run that ends leaves its worker with nothing, and others with what they had.
LEMMA EndRunType ==
  ASSUME TypeOK, NEW w \in Workers, NEW p \in {"idle", "down"}, EndRun(w, p)
  PROVE  /\ phase' \in [Workers -> Phases]
         /\ current' \in [Workers -> Jobs \cup {NoJob}]
         /\ \A v \in Workers : phase'[v] \in OnJob <=> current'[v] \in Jobs
         /\ batch' \in [Workers -> SUBSET Jobs]
         /\ copy' \in [Workers -> [Jobs -> Nat]]
         /\ ticket' \in [Workers -> [Jobs -> Nat]]
BY JobAssumption DEF TypeOK, EndRun, Phases, OnJob

\* A lease that ends takes its owner with it.
LEMMA UnleaseType ==
  ASSUME TypeOK, NEW j \in Jobs, NEW s \in Statuses \ {"leased"}, Unlease(j, s)
  PROVE  /\ status' \in [Jobs -> Statuses]
         /\ owner' \in [Jobs -> Workers \cup {NoWorker}]
         /\ live' \in [Jobs -> BOOLEAN]
         /\ \A k \in Jobs : status'[k] = "leased" <=> owner'[k] # NoWorker
BY JobAssumption DEF TypeOK, Unlease, Statuses, Claimable, Terminal

\* No job exists, no worker runs.
LEMMA TypeInit == Init => TypeOK
BY JobAssumption DEF Init, TypeOK, Phases, OnJob, Statuses

\* Every statement of the queue, every step of a poller and the clock keep the types.
LEMMA TypeStep == TypeOK /\ [Next]_vars => TypeOK'
<1> SUFFICES ASSUME TypeOK, [Next]_vars PROVE TypeOK'
  OBVIOUS
<1> USE JobAssumption DEF TypeOK, rowVars, runVars, pastVars
<1>1. ASSUME NEW j \in Jobs, EnqueueWith(j) PROVE TypeOK'
  BY <1>1 DEF EnqueueWith, Statuses, Claimable
<1>2. ASSUME NEW j \in Jobs, LeaseExpires(j) PROVE TypeOK'
  BY <1>2 DEF LeaseExpires
<1>3. ASSUME NEW j \in Jobs, BecomesDue(j) PROVE TypeOK'
  BY <1>3 DEF BecomesDue
<1>4. ASSUME NEW w \in Workers, Claim(w) PROVE TypeOK'
  <2>1. PICK S \in SUBSET Jobs :
          /\ status' = [j \in Jobs |-> IF j \in S THEN "leased" ELSE status[j]]
          /\ owner' = [j \in Jobs |-> IF j \in S THEN w ELSE owner[j]]
          /\ live' = [j \in Jobs |-> live[j] \/ j \in S]
          /\ attempts' = [j \in Jobs |-> IF j \in S THEN attempts[j] + 1 ELSE attempts[j]]
          /\ claims' = [j \in Jobs |-> IF j \in S THEN claims[j] + 1 ELSE claims[j]]
          /\ batch' = [batch EXCEPT ![w] = S]
          /\ copy' = [copy EXCEPT ![w] = [j \in Jobs |-> IF j \in S THEN attempts'[j] ELSE 0]]
          /\ ticket' = [ticket EXCEPT ![w] = [j \in Jobs |-> IF j \in S THEN claims'[j] ELSE 0]]
    BY <1>4 DEF Claim
  <2>2. attempts' \in [Jobs -> Nat] /\ claims' \in [Jobs -> Nat]
    BY <2>1
  <2>3. copy' \in [Workers -> [Jobs -> Nat]] /\ ticket' \in [Workers -> [Jobs -> Nat]]
    BY <2>1, <2>2
  <2>4. /\ status' \in [Jobs -> Statuses]
        /\ owner' \in [Jobs -> Workers \cup {NoWorker}]
        /\ \A j \in Jobs : status'[j] = "leased" <=> owner'[j] # NoWorker
    BY <2>1 DEF Statuses
  <2>5. live' \in [Jobs -> BOOLEAN]
    BY <2>1, Zenon
  <2>6. batch' \in [Workers -> SUBSET Jobs]
    BY <2>1
  <2>7. /\ phase' = [phase EXCEPT ![w] = "next"]
        /\ phase[w] = "idle"
        /\ UNCHANGED <<due, current, stopping, returned, starts, faults>>
    BY <1>4 DEF Claim
  <2>8. /\ phase' \in [Workers -> Phases]
        /\ \A v \in Workers : phase'[v] \in OnJob <=> current'[v] \in Jobs
    BY <2>7 DEF Phases, OnJob
  <2> QED
    BY <2>2, <2>3, <2>4, <2>5, <2>6, <2>7, <2>8
<1>5. ASSUME NEW w \in Workers, StartJob(w) PROVE TypeOK'
  <2>1. PICK j \in batch[w] :
          /\ current' = [current EXCEPT ![w] = j]
          /\ batch' = [batch EXCEPT ![w] = @ \ {j}]
          /\ \/ /\ phase' = [phase EXCEPT ![w] = "running"]
                /\ starts' = [starts EXCEPT ![j] = @ + 1]
             \/ /\ phase' = [phase EXCEPT ![w] = "threw"]
                /\ UNCHANGED starts
    BY <1>5 DEF StartJob
  <2>2. j \in Jobs
    OBVIOUS
  <2>3. starts' \in [Jobs -> Nat]
    <3>1. CASE starts' = [starts EXCEPT ![j] = @ + 1]
      BY <2>2, <3>1, CountTypes
    <3> QED
      BY <2>1, <3>1
  <2>4. /\ phase' \in [Workers -> Phases]
        /\ current' \in [Workers -> Jobs \cup {NoJob}]
        /\ \A v \in Workers : phase'[v] \in OnJob <=> current'[v] \in Jobs
    BY <2>1, <2>2 DEF Phases, OnJob
  <2>5. batch' \in [Workers -> SUBSET Jobs]
    BY <2>1
  <2> QED
    BY <1>5, <2>3, <2>4, <2>5 DEF StartJob
<1>6. ASSUME NEW w \in Workers, HandlerReturns(w) PROVE TypeOK'
  <2>1. current[w] \in Jobs
    BY <1>6 DEF HandlerReturns, OnJob
  <2>2. returned' \in [Jobs -> SUBSET Nat]
    <3>1. ticket[w][current[w]] \in Nat
      BY <2>1
    <3> QED
      BY <1>6, <2>1, <3>1 DEF HandlerReturns
  <2> QED
    BY <1>6, <2>2 DEF HandlerReturns, Phases, OnJob
<1>7. ASSUME NEW w \in Workers, HandlerThrows(w) PROVE TypeOK'
  BY <1>7 DEF HandlerThrows, Phases, OnJob
<1>8. ASSUME NEW w \in Workers, Report(w) PROVE TypeOK'
  <2>1. current[w] \in Jobs
    BY <1>8 DEF Report, OnJob
  <2>2. /\ status' \in [Jobs -> Statuses]
        /\ owner' \in [Jobs -> Workers \cup {NoWorker}]
        /\ live' \in [Jobs -> BOOLEAN]
        /\ due' \in [Jobs -> BOOLEAN]
        /\ attempts' \in [Jobs -> Nat]
        /\ \A j \in Jobs : status'[j] = "leased" <=> owner'[j] # NoWorker
    <3>1. CASE Complete(w)
      BY <2>1, <3>1, UnleaseType DEF Complete, LostLease, Statuses, Terminal
    <3>2. CASE FailRetryable(w)
      BY <2>1, <3>2, UnleaseType DEF FailRetryable, LostLease, Statuses, Terminal, Claimable
    <3> QED
      BY <1>8, <3>1, <3>2 DEF Report
  <2>3. /\ phase' \in [Workers -> Phases]
        /\ current' \in [Workers -> Jobs \cup {NoJob}]
        /\ \A v \in Workers : phase'[v] \in OnJob <=> current'[v] \in Jobs
    BY <1>8 DEF Report, Phases, OnJob
  <2>4. copy' \in [Workers -> [Jobs -> Nat]] /\ ticket' \in [Workers -> [Jobs -> Nat]]
    <3>1. Drop(w, current[w])
      BY <1>8 DEF Report
    <3> QED
      BY <2>1, <3>1, ForgetType DEF Drop
  <2> QED
    BY <1>8, <2>2, <2>3, <2>4 DEF Report
<1>9. ASSUME NEW w \in Workers, ReleaseUnstarted(w) PROVE TypeOK'
  <2>1. PICK j \in batch[w] :
          /\ Release(w, j)
          /\ batch' = [batch EXCEPT ![w] = @ \ {j}]
          /\ Drop(w, j)
    BY <1>9 DEF ReleaseUnstarted
  <2>2. j \in Jobs
    OBVIOUS
  <2>3. /\ status' \in [Jobs -> Statuses]
        /\ owner' \in [Jobs -> Workers \cup {NoWorker}]
        /\ live' \in [Jobs -> BOOLEAN]
        /\ due' \in [Jobs -> BOOLEAN]
        /\ attempts' \in [Jobs -> Nat]
        /\ \A k \in Jobs : status'[k] = "leased" <=> owner'[k] # NoWorker
    <3>1. CASE HoldsLease(w, j) /\ Unlease(j, "queued")
      <4>1. /\ attempts' = [attempts EXCEPT ![j] = IF @ = 0 THEN 0 ELSE @ - 1]
            /\ due' = due
        BY <2>1, <3>1 DEF Release
      <4>2. attempts' \in [Jobs -> Nat]
        BY <2>2, <4>1, CountTypes
      <4> QED
        BY <2>2, <3>1, <4>1, <4>2, UnleaseType DEF Statuses, Claimable
    <3>2. CASE LostLease
      BY <3>2 DEF LostLease
    <3> QED
      BY <2>1, <3>1, <3>2 DEF Release
  <2>4. copy' \in [Workers -> [Jobs -> Nat]] /\ ticket' \in [Workers -> [Jobs -> Nat]]
    BY <2>1, <2>2, ForgetType DEF Drop
  <2>5. batch' \in [Workers -> SUBSET Jobs]
    BY <2>1
  <2> QED
    BY <1>9, <2>3, <2>4, <2>5 DEF ReleaseUnstarted
<1>10. ASSUME NEW w \in Workers, FinishRun(w) PROVE TypeOK'
  <2>1. EndRun(w, "idle") /\ UNCHANGED <<rowVars, stopping, pastVars, faults>>
    BY <1>10 DEF FinishRun
  <2> QED
    BY <2>1, EndRunType
<1>11. ASSUME NEW w \in Workers, Start(w) PROVE TypeOK'
  BY <1>11 DEF Start, Phases, OnJob
<1>12. ASSUME NEW w \in Workers, StopCompletes(w) PROVE TypeOK'
  BY <1>12 DEF StopCompletes, Phases, OnJob
<1>13. ASSUME NEW w \in Workers, RecoverStaleLeases(w) PROVE TypeOK'
  <2> DEFINE stale == {j \in Jobs : Stale(j)}
  <2>1. /\ status' = [j \in Jobs |->
              IF j \notin stale THEN status[j]
              ELSE IF Exhausted(attempts[j]) THEN "dead" ELSE "failed_retryable"]
        /\ owner' = [j \in Jobs |-> IF j \in stale THEN NoWorker ELSE owner[j]]
        /\ due' = [j \in Jobs |-> due[j] \/ j \in stale]
        /\ UNCHANGED <<live, attempts, runVars, stopping, pastVars, faults>>
    BY <1>13 DEF RecoverStaleLeases
  <2>2. due' \in [Jobs -> BOOLEAN]
    BY <2>1, Zenon
  <2>3. /\ status' \in [Jobs -> Statuses]
        /\ owner' \in [Jobs -> Workers \cup {NoWorker}]
        /\ \A j \in Jobs : status'[j] = "leased" <=> owner'[j] # NoWorker
    <3> HIDE DEF stale
    <3> QED
      BY <2>1 DEF Statuses, Claimable, Terminal
  <2> QED
    BY <2>1, <2>2, <2>3
<1>14. ASSUME NEW w \in Workers, Heartbeat(w) PROVE TypeOK'
  BY <1>14 DEF Heartbeat
<1>15. ASSUME NEW w \in Workers, Stop(w) PROVE TypeOK'
  BY <1>15 DEF Stop, Fault
<1>16. ASSUME NEW w \in Workers, Crash(w) PROVE TypeOK'
  <2>1. /\ EndRun(w, "down")
        /\ stopping' = [stopping EXCEPT ![w] = FALSE]
        /\ UNCHANGED <<rowVars, pastVars>>
        /\ faults' \in Nat
    BY <1>16 DEF Crash, Fault
  <2> QED
    BY <2>1, EndRunType
<1>17. ASSUME NEW w \in Workers, QueryFails(w) PROVE TypeOK'
  <2>1. EndRun(w, "idle") /\ UNCHANGED <<rowVars, stopping, pastVars>> /\ faults' \in Nat
    BY <1>17 DEF QueryFails, Fault
  <2> QED
    BY <2>1, EndRunType
<1>18. CASE UNCHANGED vars
  BY <1>18 DEF vars
<1> QED
  BY <1>1, <1>2, <1>3, <1>4, <1>5, <1>6, <1>7, <1>8, <1>9, <1>10, <1>11, <1>12, <1>13, <1>14,
     <1>15, <1>16, <1>17, <1>18 DEF Next, PollStep

-----------------------------------------------------------------------------
\* Workers between runs hold nothing, through every step.
LEMMA BatchStep == TypeOK /\ BatchIsWork /\ [Next]_vars => BatchIsWork'
<1> SUFFICES ASSUME TypeOK, BatchIsWork, [Next]_vars PROVE BatchIsWork'
  OBVIOUS
<1> USE JobAssumption DEF TypeOK, BatchIsWork, runVars
<1>1. ASSUME UNCHANGED <<phase, current, batch>> PROVE BatchIsWork'
  BY <1>1
<1>2. ASSUME NEW w \in Workers, \E p \in {"idle", "down"} : EndRun(w, p) PROVE BatchIsWork'
  BY <1>2 DEF EndRun
<1>3. ASSUME NEW w \in Workers, Claim(w) PROVE BatchIsWork'
  <2>1. current[w] = NoJob
    BY <1>3 DEF Claim, OnJob
  <2>2. PICK S \in SUBSET Jobs : batch' = [batch EXCEPT ![w] = S]
    BY <1>3 DEF Claim
  <2>3. phase' = [phase EXCEPT ![w] = "next"] /\ current' = current
    BY <1>3 DEF Claim
  <2> QED
    BY <2>1, <2>2, <2>3
<1>4. ASSUME NEW w \in Workers, StartJob(w) PROVE BatchIsWork'
  BY <1>4 DEF StartJob
<1>5. ASSUME NEW w \in Workers, HandlerReturns(w) \/ HandlerThrows(w) PROVE BatchIsWork'
  BY <1>5 DEF HandlerReturns, HandlerThrows
<1>6. ASSUME NEW w \in Workers, Report(w) PROVE BatchIsWork'
  BY <1>6 DEF Report
<1>7. ASSUME NEW w \in Workers, ReleaseUnstarted(w) PROVE BatchIsWork'
  BY <1>7 DEF ReleaseUnstarted
<1>8. ASSUME NEW w \in Workers, Start(w) \/ StopCompletes(w) PROVE BatchIsWork'
  BY <1>8 DEF Start, StopCompletes
<1> QED
  BY <1>1, <1>2, <1>3, <1>4, <1>5, <1>6, <1>7, <1>8
     DEF Next, PollStep, EnqueueWith, LeaseExpires, BecomesDue, FinishRun, RecoverStaleLeases,
         Heartbeat, Stop, Crash, QueryFails, vars

-----------------------------------------------------------------------------
\* Worker w holds job j after the step by the claim and the lease it had before.
SameClaim(w, j) ==
  /\ HoldsLease(w, j) /\ Holds(w, j)
  /\ ticket'[w][j] = ticket[w][j] /\ copy'[w][j] = copy[w][j]
  /\ claims'[j] = claims[j] /\ attempts'[j] = attempts[j]

\* A step that lets every worker only keep what it held keeps the copies true.
LEMMA CopyKept ==
  ASSUME CopyIsClaim,
         \A w \in Workers, j \in Jobs : HoldsLease(w, j)' /\ Holds(w, j)' => SameClaim(w, j)
  PROVE  CopyIsClaim'
BY DEF CopyIsClaim, SameClaim

\* What a statement returned to a worker agrees with the row while its lease lasts.
LEMMA CopyStep == TypeOK /\ BatchIsWork /\ CopyIsClaim /\ [Next]_vars => CopyIsClaim'
<1> SUFFICES ASSUME TypeOK, BatchIsWork, CopyIsClaim, [Next]_vars PROVE CopyIsClaim'
  OBVIOUS
<1> USE JobAssumption DEF TypeOK, rowVars, runVars, pastVars
<1>1. ASSUME UNCHANGED <<status, owner, attempts, claims, batch, current, ticket, copy>>
      PROVE  CopyIsClaim'
  BY <1>1 DEF CopyIsClaim, HoldsLease, Holds
<1>2. ASSUME NEW w \in Workers, NEW p \in {"idle", "down"}, EndRun(w, p), UNCHANGED <<rowVars, pastVars>>
      PROVE  CopyIsClaim'
  <2> SUFFICES ASSUME NEW v \in Workers, NEW j \in Jobs, HoldsLease(v, j)', Holds(v, j)'
               PROVE  SameClaim(v, j)
    BY CopyKept
  <2>1. v # w
    BY <1>2 DEF EndRun, Holds
  <2> QED
    BY <1>2, <2>1 DEF EndRun, Holds, HoldsLease, SameClaim
<1>3. ASSUME NEW j \in Jobs, EnqueueWith(j) PROVE CopyIsClaim'
  BY <1>3, CopyKept DEF EnqueueWith, HoldsLease, Holds, SameClaim
<1>4. ASSUME NEW w \in Workers, Claim(w) PROVE CopyIsClaim'
  <2>1. PICK S \in SUBSET Jobs :
          /\ S \subseteq {j \in Jobs : MayClaim(j)}
          /\ status' = [j \in Jobs |-> IF j \in S THEN "leased" ELSE status[j]]
          /\ owner' = [j \in Jobs |-> IF j \in S THEN w ELSE owner[j]]
          /\ attempts' = [j \in Jobs |-> IF j \in S THEN attempts[j] + 1 ELSE attempts[j]]
          /\ claims' = [j \in Jobs |-> IF j \in S THEN claims[j] + 1 ELSE claims[j]]
          /\ batch' = [batch EXCEPT ![w] = S]
          /\ copy' = [copy EXCEPT ![w] = [j \in Jobs |-> IF j \in S THEN attempts'[j] ELSE 0]]
          /\ ticket' = [ticket EXCEPT ![w] = [j \in Jobs |-> IF j \in S THEN claims'[j] ELSE 0]]
    BY <1>4 DEF Claim
  <2>2. current[w] = NoJob /\ current' = current
    BY <1>4 DEF Claim, OnJob
  <2> SUFFICES ASSUME NEW v \in Workers, NEW j \in Jobs, HoldsLease(v, j)', Holds(v, j)'
               PROVE  ticket'[v][j] = claims'[j] /\ copy'[v][j] = attempts'[j]
    BY DEF CopyIsClaim
  <2>3. CASE v = w
    <3>1. j \in S
      BY <2>1, <2>2, <2>3 DEF Holds
    <3> QED
      BY <2>1, <2>3, <3>1
  <2>4. CASE v # w
    <3>1. j \notin S
      BY <2>1, <2>4 DEF HoldsLease
    <3>2. HoldsLease(v, j) /\ Holds(v, j)
      BY <2>1, <2>2, <2>4, <3>1 DEF HoldsLease, Holds
    <3> QED
      BY <2>1, <2>4, <3>1, <3>2 DEF CopyIsClaim
  <2> QED
    BY <2>3, <2>4
<1>5. ASSUME NEW w \in Workers, StartJob(w) PROVE CopyIsClaim'
  BY <1>5, CopyKept DEF StartJob, HoldsLease, Holds, SameClaim
<1>6. ASSUME NEW w \in Workers, NEW j \in Jobs, Drop(w, j),
             \/ LostLease
             \/ \E s \in Statuses \ {"leased"} : Unlease(j, s),
             \A k \in Jobs \ {j} : attempts'[k] = attempts[k],
             ~Holds(w, j)',
             \A v \in Workers, k \in Jobs : Holds(v, k)' => Holds(v, k),
             UNCHANGED claims
      PROVE  CopyIsClaim'
  <2> SUFFICES ASSUME NEW v \in Workers, NEW k \in Jobs, HoldsLease(v, k)', Holds(v, k)'
               PROVE  SameClaim(v, k)
    BY CopyKept
  <2>1. v # w \/ k # j
    BY <1>6
  <2>2. ticket'[v][k] = ticket[v][k] /\ copy'[v][k] = copy[v][k]
    BY <1>6, <2>1, ForgetOne DEF Drop
  <2>3. CASE LostLease
    BY <1>6, <2>2, <2>3 DEF LostLease, SameClaim, HoldsLease
  <2>4. CASE \E s \in Statuses \ {"leased"} : Unlease(j, s)
    BY <1>6, <2>2, <2>4 DEF Unlease, SameClaim, HoldsLease
  <2> QED
    BY <1>6, <2>3, <2>4
<1>7. ASSUME NEW w \in Workers, Report(w) PROVE CopyIsClaim'
  <2>1. PICK j \in Jobs : j = current[w]
    BY <1>7 DEF Report, OnJob
  <2>2. /\ \/ LostLease
           \/ \E s \in Statuses \ {"leased"} : Unlease(j, s)
        /\ UNCHANGED attempts
    <3>1. CASE Complete(w)
      BY <2>1, <3>1 DEF Complete, LostLease, Statuses, Terminal
    <3>2. CASE FailRetryable(w)
      BY <2>1, <3>2 DEF FailRetryable, LostLease, Statuses, Terminal, Claimable
    <3> QED
      BY <1>7, <3>1, <3>2 DEF Report
  <2>3. /\ ~Holds(w, j)'
        /\ \A v \in Workers, k \in Jobs : Holds(v, k)' => Holds(v, k)
    BY <1>7, <2>1 DEF Report, Holds, BatchIsWork
  <2>4. Drop(w, j) /\ UNCHANGED claims
    BY <1>7, <2>1 DEF Report
  <2> QED
    BY <1>6, <2>2, <2>3, <2>4
<1>8. ASSUME NEW w \in Workers, ReleaseUnstarted(w) PROVE CopyIsClaim'
  <2>1. PICK j \in batch[w] :
          /\ Release(w, j)
          /\ batch' = [batch EXCEPT ![w] = @ \ {j}]
          /\ Drop(w, j)
    BY <1>8 DEF ReleaseUnstarted
  <2>2. j \in Jobs /\ j # current[w]
    BY DEF BatchIsWork
  <2>3. /\ \/ LostLease
           \/ \E s \in Statuses \ {"leased"} : Unlease(j, s)
        /\ \A k \in Jobs \ {j} : attempts'[k] = attempts[k]
    BY <2>1, <2>2 DEF Release, LostLease, Statuses, Claimable
  <2>4. /\ ~Holds(w, j)'
        /\ \A v \in Workers, k \in Jobs : Holds(v, k)' => Holds(v, k)
    BY <1>8, <2>1, <2>2 DEF ReleaseUnstarted, Holds
  <2> QED
    BY <1>6, <1>8, <2>1, <2>2, <2>3, <2>4 DEF ReleaseUnstarted
<1>9. ASSUME NEW w \in Workers, RecoverStaleLeases(w) PROVE CopyIsClaim'
  <2> SUFFICES ASSUME NEW v \in Workers, NEW k \in Jobs, HoldsLease(v, k)', Holds(v, k)'
               PROVE  SameClaim(v, k)
    BY CopyKept
  <2>1. status'[k] = status[k] /\ owner'[k] = owner[k]
    BY <1>9 DEF RecoverStaleLeases, HoldsLease
  <2> QED
    BY <1>9, <2>1 DEF RecoverStaleLeases, HoldsLease, Holds, SameClaim
<1> QED
  BY <1>1, <1>2, <1>3, <1>4, <1>5, <1>7, <1>8, <1>9
     DEF Next, PollStep, LeaseExpires, BecomesDue, HandlerReturns, HandlerThrows, FinishRun,
         Start, StopCompletes, Heartbeat, Stop, Crash, QueryFails, vars

-----------------------------------------------------------------------------
\* A worker's memory that its handler returned is the record of that return.
LEMMA ReturnStep == TypeOK /\ ReturnSeen /\ [Next]_vars => ReturnSeen'
<1> SUFFICES ASSUME TypeOK, ReturnSeen, [Next]_vars PROVE ReturnSeen'
  OBVIOUS
<1> USE JobAssumption DEF TypeOK, ReturnSeen, rowVars, runVars, pastVars
<1>1. ASSUME UNCHANGED <<phase, current, ticket, returned>> PROVE ReturnSeen'
  BY <1>1
<1>2. ASSUME NEW w \in Workers, \E p \in {"idle", "down"} : EndRun(w, p), UNCHANGED returned
      PROVE  ReturnSeen'
  BY <1>2 DEF EndRun
<1>3. ASSUME NEW w \in Workers, Claim(w) PROVE ReturnSeen'
  <2>1. /\ phase' = [phase EXCEPT ![w] = "next"]
        /\ UNCHANGED <<current, returned>>
        /\ \A v \in Workers \ {w} : ticket'[v] = ticket[v]
    BY <1>3 DEF Claim
  <2> QED
    BY <2>1
<1>4. ASSUME NEW w \in Workers, StartJob(w) PROVE ReturnSeen'
  BY <1>4 DEF StartJob
<1>5. ASSUME NEW w \in Workers, HandlerReturns(w) PROVE ReturnSeen'
  <2> SUFFICES ASSUME NEW v \in Workers, phase'[v] = "returned"
               PROVE  ticket[v][current[v]] \in returned'[current[v]]
    BY <1>5 DEF HandlerReturns
  <2>1. current[v] \in Jobs /\ current[w] \in Jobs
    BY <1>5 DEF HandlerReturns, OnJob
  <2>2. returned[current[v]] \subseteq returned'[current[v]]
    BY <1>5, <2>1 DEF HandlerReturns
  <2>3. CASE v = w
    BY <1>5, <2>1, <2>3 DEF HandlerReturns
  <2>4. CASE v # w
    BY <1>5, <2>2, <2>4 DEF HandlerReturns
  <2> QED
    BY <2>3, <2>4
<1>6. ASSUME NEW w \in Workers, HandlerThrows(w) PROVE ReturnSeen'
  BY <1>6 DEF HandlerThrows
<1>7. ASSUME NEW w \in Workers, Report(w) PROVE ReturnSeen'
  <2>1. /\ phase' = [phase EXCEPT ![w] = "next"]
        /\ current' = [current EXCEPT ![w] = NoJob]
        /\ returned' = returned
        /\ \A v \in Workers \ {w} : ticket'[v] = ticket[v]
    BY <1>7 DEF Report, Drop
  <2> QED
    BY <2>1
<1>8. ASSUME NEW w \in Workers, ReleaseUnstarted(w) PROVE ReturnSeen'
  <2>1. /\ phase' = phase /\ phase[w] = "next"
        /\ UNCHANGED <<current, returned>>
        /\ \A v \in Workers \ {w} : ticket'[v] = ticket[v]
    BY <1>8 DEF ReleaseUnstarted, Drop
  <2> QED
    BY <2>1
<1>9. ASSUME NEW w \in Workers, Start(w) \/ StopCompletes(w) PROVE ReturnSeen'
  BY <1>9 DEF Start, StopCompletes
<1> QED
  BY <1>1, <1>2, <1>3, <1>4, <1>5, <1>6, <1>7, <1>8, <1>9
     DEF Next, PollStep, EnqueueWith, LeaseExpires, BecomesDue, FinishRun, RecoverStaleLeases,
         Heartbeat, Stop, Crash, QueryFails, vars

-----------------------------------------------------------------------------
(* What one step may do to the row of one job.                             *)

\* The row keeps its status and its counts, or is enqueued.
RowRests(j) ==
  /\ status'[j] = status[j] \/ (status[j] = "absent" /\ status'[j] = "queued")
  /\ attempts'[j] = attempts[j] /\ claims'[j] = claims[j]

RowClaimed(j) ==
  /\ status[j] \in Claimable /\ status'[j] = "leased"
  /\ attempts'[j] = attempts[j] + 1 /\ claims'[j] = claims[j] + 1

\* The outcome that a report of its own claim gives it.
RowReported(j) ==
  /\ status[j] = "leased" /\ attempts'[j] = attempts[j] /\ claims'[j] = claims[j]
  /\ \/ status'[j] = "succeeded" /\ claims[j] \in returned[j]
     \/ status'[j] = "dead" /\ attempts[j] >= MaxAttempts
     \/ status'[j] = "failed_retryable" /\ attempts[j] < MaxAttempts

RowReleased(j) ==
  /\ status[j] = "leased" /\ status'[j] = "queued"
  /\ attempts'[j] = IF attempts[j] = 0 THEN 0 ELSE attempts[j] - 1
  /\ claims'[j] = claims[j]

RowSwept(j) ==
  /\ status[j] = "leased" /\ ~live[j]
  /\ attempts'[j] = attempts[j] /\ claims'[j] = claims[j]
  /\ \/ status'[j] = "dead" /\ attempts[j] >= MaxAttempts
     \/ status'[j] = "failed_retryable" /\ attempts[j] < MaxAttempts

RowStep(j) ==
  \/ RowRests(j) \/ RowClaimed(j) \/ RowReported(j) \/ RowReleased(j) \/ RowSwept(j)

\* These are all: a report decides on what the row itself says.
LEMMA RowSteps ==
  ASSUME TypeOK, BatchIsWork, CopyIsClaim, ReturnSeen, [Next]_vars
  PROVE  \A j \in Jobs : RowStep(j)
<1> USE JobAssumption DEF TypeOK, rowVars, runVars, pastVars
<1>1. ASSUME UNCHANGED <<status, attempts, claims>> PROVE \A j \in Jobs : RowStep(j)
  BY <1>1 DEF RowStep, RowRests
<1>2. ASSUME NEW k \in Jobs, EnqueueWith(k) PROVE \A j \in Jobs : RowStep(j)
  BY <1>2 DEF EnqueueWith, RowStep, RowRests
<1>3. ASSUME NEW w \in Workers, Claim(w) PROVE \A j \in Jobs : RowStep(j)
  <2>1. PICK S \in SUBSET Jobs :
          /\ S \subseteq {j \in Jobs : MayClaim(j)}
          /\ status' = [j \in Jobs |-> IF j \in S THEN "leased" ELSE status[j]]
          /\ attempts' = [j \in Jobs |-> IF j \in S THEN attempts[j] + 1 ELSE attempts[j]]
          /\ claims' = [j \in Jobs |-> IF j \in S THEN claims[j] + 1 ELSE claims[j]]
    BY <1>3 DEF Claim
  <2> QED
    BY <2>1 DEF MayClaim, RowStep, RowRests, RowClaimed
<1>4. ASSUME NEW w \in Workers, Report(w) PROVE \A j \in Jobs : RowStep(j)
  <2>1. PICK k \in Jobs : k = current[w]
    BY <1>4 DEF Report, OnJob
  <2>2. UNCHANGED claims
    BY <1>4 DEF Report
  <2>3. CASE LostLease
    BY <2>2, <2>3 DEF LostLease, RowStep, RowRests
  <2>4. CASE ~LostLease
    <3>1. HoldsLease(w, k)
      BY <1>4, <2>1, <2>4 DEF Report, Complete, FailRetryable
    <3>2. ticket[w][k] = claims[k] /\ copy[w][k] = attempts[k]
      BY <2>1, <3>1 DEF CopyIsClaim, Holds
    <3>3. /\ \A j \in Jobs \ {k} : status'[j] = status[j]
          /\ UNCHANGED attempts
      BY <1>4, <2>1, <2>4 DEF Report, Complete, FailRetryable, Unlease
    <3>4. RowReported(k)
      <4>1. CASE phase[w] = "returned" /\ Complete(w)
        BY <2>1, <2>2, <2>4, <3>1, <3>2, <3>3, <4>1
           DEF Complete, Unlease, ReturnSeen, RowReported, HoldsLease
      <4>2. CASE FailRetryable(w)
        BY <2>1, <2>2, <2>4, <3>1, <3>2, <3>3, <4>2
           DEF FailRetryable, Unlease, Exhausted, RowReported, HoldsLease
      <4> QED
        BY <1>4, <4>1, <4>2 DEF Report
    <3> QED
      BY <2>2, <3>3, <3>4 DEF RowStep, RowRests
  <2> QED
    BY <2>3, <2>4
<1>5. ASSUME NEW w \in Workers, ReleaseUnstarted(w) PROVE \A j \in Jobs : RowStep(j)
  <2>1. PICK k \in batch[w] : Release(w, k)
    BY <1>5 DEF ReleaseUnstarted
  <2>2. UNCHANGED claims
    BY <1>5 DEF ReleaseUnstarted
  <2>3. CASE LostLease
    BY <2>2, <2>3 DEF LostLease, RowStep, RowRests
  <2>4. CASE HoldsLease(w, k) /\ Unlease(k, "queued")
    <3>1. attempts' = [attempts EXCEPT ![k] = IF @ = 0 THEN 0 ELSE @ - 1]
      BY <2>1, <2>4 DEF Release, Unlease, HoldsLease, LostLease
    <3>2. RowReleased(k)
      BY <2>2, <2>4, <3>1 DEF Unlease, HoldsLease, RowReleased
    <3> QED
      BY <2>2, <2>4, <3>1, <3>2 DEF Unlease, RowStep, RowRests
  <2> QED
    BY <2>1, <2>3, <2>4 DEF Release
<1>6. ASSUME NEW w \in Workers, RecoverStaleLeases(w) PROVE \A j \in Jobs : RowStep(j)
  BY <1>6 DEF RecoverStaleLeases, Stale, Exhausted, RowStep, RowRests, RowSwept
<1> QED
  BY <1>1, <1>2, <1>3, <1>4, <1>5, <1>6
     DEF Next, PollStep, LeaseExpires, BecomesDue, StartJob, HandlerReturns, HandlerThrows,
         FinishRun, Start, StopCompletes, Heartbeat, Stop, Crash, QueryFails, vars

\* What the handlers returned is never forgotten.
LEMMA ReturnsKept ==
  ASSUME TypeOK, [Next]_vars
  PROVE  \A j \in Jobs : returned[j] \subseteq returned'[j]
<1>1. ASSUME NEW w \in Workers, HandlerReturns(w) PROVE \A j \in Jobs : returned[j] \subseteq returned'[j]
  BY <1>1 DEF HandlerReturns, TypeOK
<1> QED
  BY <1>1 DEF Next, PollStep, EnqueueWith, LeaseExpires, BecomesDue, Claim, StartJob,
     HandlerThrows, Report, ReleaseUnstarted, FinishRun, Start, StopCompletes,
     RecoverStaleLeases, Heartbeat, Stop, Crash, QueryFails, vars, pastVars

-----------------------------------------------------------------------------
\* What may still be claimed has an attempt left, and nothing has more than all.
LEMMA AttemptStep ==
  ASSUME TypeOK, AttemptLeft, \A j \in Jobs : RowStep(j)
  PROVE  AttemptLeft'
BY JobAssumption
   DEF TypeOK, AttemptLeft, RowStep, RowRests, RowClaimed, RowReported, RowReleased, RowSwept,
       Claimable

\* Only the report of its latest claim makes a job succeed.
LEMMA SucceededStep ==
  ASSUME TypeOK, SucceededByLatestClaim, [Next]_vars, \A j \in Jobs : RowStep(j)
  PROVE  SucceededByLatestClaim'
<1> SUFFICES ASSUME NEW j \in Jobs, status'[j] = "succeeded" PROVE claims'[j] \in returned'[j]
  BY DEF SucceededByLatestClaim
<1>1. claims'[j] = claims[j] /\ claims[j] \in returned[j]
  BY DEF SucceededByLatestClaim, RowStep, RowRests, RowClaimed, RowReported, RowReleased, RowSwept
<1> QED
  BY <1>1, ReturnsKept

\* Only an exhausted job dies.
LEMMA DeadStep ==
  ASSUME TypeOK, AttemptLeft, DeadIsExhausted, \A j \in Jobs : RowStep(j)
  PROVE  DeadIsExhausted'
<1> SUFFICES ASSUME NEW j \in Jobs, status'[j] = "dead" PROVE attempts'[j] = MaxAttempts
  BY DEF DeadIsExhausted
<1>1. attempts[j] \in Nat /\ attempts[j] <= MaxAttempts /\ MaxAttempts \in Nat
  BY JobAssumption DEF TypeOK, AttemptLeft
<1>2. attempts'[j] = attempts[j] /\ (status[j] = "dead" \/ attempts[j] >= MaxAttempts)
  BY DEF RowStep, RowRests, RowClaimed, RowReported, RowReleased, RowSwept
<1> QED
  BY <1>1, <1>2 DEF DeadIsExhausted

-----------------------------------------------------------------------------
\* The arithmetic of a claim, a start and a release, for one job.
PaidFor(j) ==
  /\ IsFiniteSet(Pending(j))
  /\ starts[j] + Cardinality(Pending(j)) <= attempts[j]

\* A worker that loses what it claimed loses starts that were paid for.
LEMMA PaidByFewer ==
  ASSUME TypeOK, TypeOK', NEW j \in Jobs, PaidFor(j), Pending(j)' \subseteq Pending(j),
         starts'[j] = starts[j], attempts'[j] = attempts[j]
  PROVE  PaidFor(j)'
<1>1. /\ IsFiniteSet(Pending(j)')
      /\ Cardinality(Pending(j)') <= Cardinality(Pending(j))
  BY FS_Subset DEF PaidFor
<1>2. Cardinality(Pending(j)') \in Nat /\ Cardinality(Pending(j)) \in Nat
  BY <1>1, FS_CardinalityType DEF PaidFor
<1>3. starts[j] \in Nat /\ attempts[j] \in Nat
  BY DEF TypeOK
<1> QED
  BY <1>1, <1>2, <1>3 DEF PaidFor

\* A worker that takes a job off its batch may start it, or give it back.
LEMMA PaidByOne ==
  ASSUME TypeOK, TypeOK', NEW j \in Jobs, NEW w \in Pending(j), PaidFor(j),
         Pending(j)' = Pending(j) \ {w},
         \/ starts'[j] \in {starts[j], starts[j] + 1} /\ attempts'[j] = attempts[j]
         \/ starts'[j] = starts[j]
            /\ attempts'[j] = IF attempts[j] = 0 THEN 0 ELSE attempts[j] - 1
  PROVE  PaidFor(j)'
<1>1. /\ IsFiniteSet(Pending(j)')
      /\ Cardinality(Pending(j)') = Cardinality(Pending(j)) - 1
  BY FS_RemoveElement DEF PaidFor
<1>2. Cardinality(Pending(j)') \in Nat /\ Cardinality(Pending(j)) \in Nat
  BY <1>1, FS_CardinalityType DEF PaidFor
<1>3. starts[j] \in Nat /\ attempts[j] \in Nat
  BY DEF TypeOK
<1> QED
  BY <1>1, <1>2, <1>3 DEF PaidFor

\* A claim pays for one more start.
LEMMA PaidByClaim ==
  ASSUME TypeOK, TypeOK', NEW j \in Jobs, NEW w, w \notin Pending(j), PaidFor(j),
         Pending(j)' = Pending(j) \cup {w},
         starts'[j] = starts[j], attempts'[j] = attempts[j] + 1
  PROVE  PaidFor(j)'
<1>1. /\ IsFiniteSet(Pending(j)')
      /\ Cardinality(Pending(j)') = Cardinality(Pending(j)) + 1
  BY FS_AddElement DEF PaidFor
<1>2. Cardinality(Pending(j)) \in Nat
  BY FS_CardinalityType DEF PaidFor
<1>3. starts[j] \in Nat /\ attempts[j] \in Nat
  BY DEF TypeOK
<1> QED
  BY <1>1, <1>2, <1>3 DEF PaidFor

\* No step starts a job that its claims have not paid for.
LEMMA PaidStep == TypeOK /\ TypeOK' /\ BatchIsWork /\ StartsPaid /\ [Next]_vars => StartsPaid'
<1> SUFFICES ASSUME TypeOK, TypeOK', BatchIsWork, StartsPaid, [Next]_vars, NEW j \in Jobs
             PROVE  PaidFor(j)'
  BY DEF StartsPaid, PaidFor
<1>0. PaidFor(j)
  BY DEF StartsPaid, PaidFor
<1>1. ASSUME UNCHANGED <<attempts, batch, starts>> PROVE PaidFor(j)'
  BY <1>0, <1>1 DEF PaidFor, Pending
<1>2. ASSUME NEW w \in Workers, \E p \in {"idle", "down"} : EndRun(w, p),
             UNCHANGED <<attempts, starts>>
      PROVE  PaidFor(j)'
  <2>1. Pending(j)' \subseteq Pending(j)
    BY <1>2 DEF EndRun, Pending, TypeOK
  <2> QED
    BY <1>0, <1>2, <2>1, PaidByFewer
<1>3. ASSUME NEW w \in Workers, Claim(w) PROVE PaidFor(j)'
  <2>1. PICK S \in SUBSET Jobs :
          /\ attempts' = [k \in Jobs |-> IF k \in S THEN attempts[k] + 1 ELSE attempts[k]]
          /\ batch' = [batch EXCEPT ![w] = S]
    BY <1>3 DEF Claim
  <2>2. batch[w] = {} /\ starts' = starts
    BY <1>3 DEF Claim, BatchIsWork
  <2>3. CASE j \in S
    <3>1. w \notin Pending(j) /\ Pending(j)' = Pending(j) \cup {w}
      BY <2>1, <2>2, <2>3 DEF Pending, TypeOK
    <3> QED
      BY <1>0, <2>1, <2>2, <2>3, <3>1, PaidByClaim
  <2>4. CASE j \notin S
    <3>1. Pending(j)' \subseteq Pending(j)
      BY <2>1, <2>4 DEF Pending, TypeOK
    <3> QED
      BY <1>0, <2>1, <2>2, <2>4, <3>1, PaidByFewer
  <2> QED
    BY <2>3, <2>4
<1>4. ASSUME NEW w \in Workers, StartJob(w) PROVE PaidFor(j)'
  <2>1. PICK k \in batch[w] :
          /\ batch' = [batch EXCEPT ![w] = @ \ {k}]
          /\ starts' = [starts EXCEPT ![k] = @ + 1] \/ UNCHANGED starts
    BY <1>4 DEF StartJob
  <2>2. attempts' = attempts
    BY <1>4 DEF StartJob, rowVars
  <2>3. CASE j = k
    <3>1. w \in Pending(j) /\ Pending(j)' = Pending(j) \ {w}
      BY <2>1, <2>3 DEF Pending, TypeOK
    <3>2. starts'[j] \in {starts[j], starts[j] + 1}
      BY <2>1, <2>3 DEF TypeOK
    <3> QED
      BY <1>0, <2>2, <3>1, <3>2, PaidByOne
  <2>4. CASE j # k
    <3>1. Pending(j)' \subseteq Pending(j) /\ starts'[j] = starts[j]
      BY <2>1, <2>4 DEF Pending, TypeOK
    <3> QED
      BY <1>0, <2>2, <3>1, PaidByFewer
  <2> QED
    BY <2>3, <2>4
<1>5. ASSUME NEW w \in Workers, Report(w) PROVE PaidFor(j)'
  BY <1>1, <1>5 DEF Report, Complete, FailRetryable, LostLease, rowVars, pastVars
<1>6. ASSUME NEW w \in Workers, ReleaseUnstarted(w) PROVE PaidFor(j)'
  <2>1. PICK k \in batch[w] : Release(w, k) /\ batch' = [batch EXCEPT ![w] = @ \ {k}]
    BY <1>6 DEF ReleaseUnstarted
  <2>2. starts' = starts
    BY <1>6 DEF ReleaseUnstarted, pastVars
  <2>3. CASE j = k
    <3>1. w \in Pending(j) /\ Pending(j)' = Pending(j) \ {w}
      BY <2>1, <2>3 DEF Pending, TypeOK
    <3>2. \/ attempts'[j] = attempts[j]
          \/ attempts'[j] = IF attempts[j] = 0 THEN 0 ELSE attempts[j] - 1
      BY <2>1, <2>3 DEF Release, LostLease, rowVars, TypeOK
    <3>3. starts'[j] \in {starts[j], starts[j] + 1}
      BY <2>2
    <3> QED
      BY <1>0, <2>2, <3>1, <3>2, <3>3, PaidByOne
  <2>4. CASE j # k
    <3>1. Pending(j)' \subseteq Pending(j) /\ attempts'[j] = attempts[j]
      BY <2>1, <2>4 DEF Pending, Release, LostLease, rowVars, TypeOK
    <3> QED
      BY <1>0, <2>2, <3>1, PaidByFewer
  <2> QED
    BY <2>3, <2>4
<1> QED
  BY <1>1, <1>2, <1>3, <1>4, <1>5, <1>6
     DEF Next, PollStep, EnqueueWith, LeaseExpires, BecomesDue, HandlerReturns, HandlerThrows,
         FinishRun, Start, StopCompletes, RecoverStaleLeases, Heartbeat, Stop, Crash,
         QueryFails, vars, rowVars, runVars, pastVars

-----------------------------------------------------------------------------
\* The empty table satisfies the invariant.
LEMMA InitInv == Init => IInv
<1> SUFFICES ASSUME Init PROVE IInv
  OBVIOUS
<1>1. TypeOK
  BY TypeInit
<1>2. BatchIsWork /\ CopyIsClaim /\ ReturnSeen /\ SucceededByLatestClaim /\ DeadIsExhausted
  BY JobAssumption
     DEF Init, BatchIsWork, CopyIsClaim, HoldsLease, ReturnSeen, SucceededByLatestClaim,
         DeadIsExhausted
<1>3. AttemptLeft
  BY JobAssumption DEF Init, AttemptLeft
<1>4. StartsPaid
  <2> SUFFICES ASSUME NEW j \in Jobs
               PROVE  IsFiniteSet(Pending(j)) /\ starts[j] + Cardinality(Pending(j)) <= attempts[j]
    BY DEF StartsPaid
  <2>1. Pending(j) = {}
    BY DEF Init, Pending
  <2>2. IsFiniteSet(Pending(j)) /\ Cardinality(Pending(j)) = 0
    BY <2>1, FS_EmptySet
  <2>3. starts[j] = 0 /\ attempts[j] = 0
    BY DEF Init
  <2> QED
    BY <2>2, <2>3
<1> QED
  BY <1>1, <1>2, <1>3, <1>4 DEF IInv

\* Every step preserves it, each part with the help of those before it.
LEMMA StepInv == IInv /\ [Next]_vars => IInv'
<1> SUFFICES ASSUME IInv, [Next]_vars PROVE IInv'
  OBVIOUS
<1>1. TypeOK'
  BY TypeStep DEF IInv
<1>2. BatchIsWork' /\ CopyIsClaim' /\ ReturnSeen'
  BY BatchStep, CopyStep, ReturnStep DEF IInv
<1>3. \A j \in Jobs : RowStep(j)
  BY RowSteps DEF IInv
<1>4. AttemptLeft' /\ SucceededByLatestClaim' /\ DeadIsExhausted'
  BY <1>3, AttemptStep, SucceededStep, DeadStep DEF IInv
<1>5. StartsPaid'
  BY <1>1, PaidStep DEF IInv
<1> QED
  BY <1>1, <1>2, <1>4, <1>5 DEF IInv

\* The invariant of the queue and its pollers.
THEOREM Invariance == Spec => []IInv
<1> QED
  BY InitInv, StepInv, PTL DEF Spec

\* Every column and every poller's memory keeps its type, and a row names a
\* lease owner exactly while it is leased (CHECK jobs_lease_shape).
THEOREM TypeCorrect == Spec => []TypeOK
<1>1. IInv => TypeOK
  BY DEF IInv
<1> QED
  BY <1>1, Invariance, PTL

\* complete() marks succeeded only a job whose latest claim's handler returned.
THEOREM SuccessIsTheLatestClaims == Spec => []SucceededByLatestClaim
<1>1. IInv => SucceededByLatestClaim
  BY DEF IInv
<1> QED
  BY <1>1, Invariance, PTL

\* A job is dead only when its attempts are used up, whoever decides it.
THEOREM DeathIsEarned == Spec => []DeadIsExhausted
<1>1. IInv => DeadIsExhausted
  BY DEF IInv
<1> QED
  BY <1>1, Invariance, PTL

\* max_attempts bounds the handler calls of a job, however many workers start it
\* from leases they lost and however often a shutdown refunds an attempt.
THEOREM ExecutionsAreBounded == Spec => []ExecutionsBounded
<1>1. ASSUME IInv, NEW j \in Jobs PROVE starts[j] <= attempts[j] /\ attempts[j] <= MaxAttempts
  <2>1. /\ IsFiniteSet(Pending(j))
        /\ starts[j] + Cardinality(Pending(j)) <= attempts[j]
        /\ starts[j] \in Nat /\ attempts[j] \in Nat /\ attempts[j] <= MaxAttempts
    BY <1>1 DEF IInv, StartsPaid, AttemptLeft, TypeOK
  <2>2. Cardinality(Pending(j)) \in Nat
    BY <2>1, FS_CardinalityType
  <2> QED
    BY <2>1, <2>2
<1>2. IInv => ExecutionsBounded
  BY <1>1 DEF ExecutionsBounded
<1> QED
  BY <1>2, Invariance, PTL

\* A finished job is never claimed, refunded, recovered or rerun.
THEOREM FinishedForGood == Spec => TerminalForever
<1> DEFINE Kept == \A j \in Jobs :
             status[j] \in Terminal => status'[j] = status[j] /\ attempts'[j] = attempts[j]
<1>1. ASSUME IInv, [Next]_vars PROVE Kept
  <2>1. \A j \in Jobs : RowStep(j)
    BY <1>1, RowSteps DEF IInv
  <2> QED
    BY <2>1
       DEF Terminal, Claimable, RowStep, RowRests, RowClaimed, RowReported, RowReleased, RowSwept
<1>2. IInv /\ [Next]_vars => [Kept]_vars
  BY <1>1
<1> QED
  BY <1>2, Invariance, PTL DEF Spec, TerminalForever

\* A live lease ends only by the report or the release of its own claim: the
\* WHERE clause names the worker alone, and that is enough, because a worker
\* that claims again holds nothing of what it claimed before.
THEOREM LeasesAreFenced == Spec => LiveLeaseEndsByItsClaim
<1> DEFINE ByItsClaim(j) ==
             \E w \in Workers :
               /\ owner[j] = w
               /\ ticket[w][j] = claims[j]
               /\ ticket'[w][j] = 0
           Fenced ==
             \A j \in Jobs :
               status[j] = "leased" /\ live[j] /\ status'[j] # "leased" => ByItsClaim(j)
<1>1. ASSUME IInv, [Next]_vars, NEW j \in Jobs,
             status[j] = "leased", live[j], status'[j] # "leased"
      PROVE  ByItsClaim(j)
  <2> USE DEF TypeOK
  <2>0. TypeOK /\ BatchIsWork /\ CopyIsClaim
    BY <1>1 DEF IInv
  <2>1. ASSUME NEW w \in Workers, NEW k \in Jobs, Holds(w, k), Drop(w, k),
               \/ LostLease
               \/ HoldsLease(w, k) /\ \E s \in Statuses : Unlease(k, s)
        PROVE  ByItsClaim(j)
    <3>1. j = k /\ HoldsLease(w, j)
      BY <1>1, <2>0, <2>1 DEF LostLease, rowVars, Unlease
    <3>2. ticket[w][j] = claims[j]
      BY <2>0, <2>1, <3>1 DEF CopyIsClaim
    <3>3. ticket'[w][j] = 0
      BY <2>0, <2>1, <3>1 DEF Drop
    <3> QED
      BY <3>1, <3>2, <3>3 DEF HoldsLease
  <2>2. ASSUME NEW w \in Workers, Report(w) PROVE ByItsClaim(j)
    <3>1. PICK k \in Jobs : k = current[w]
      BY <2>0, <2>2 DEF Report, OnJob
    <3>2. \/ LostLease
          \/ HoldsLease(w, k) /\ \E s \in Statuses : Unlease(k, s)
      BY <2>2, <3>1 DEF Report, Complete, FailRetryable, LostLease, Statuses, Terminal, Claimable
    <3>3. Holds(w, k) /\ Drop(w, k)
      BY <2>2, <3>1 DEF Report, Holds
    <3> QED
      BY <2>1, <3>2, <3>3
  <2>3. ASSUME NEW w \in Workers, ReleaseUnstarted(w) PROVE ByItsClaim(j)
    <3>1. PICK k \in batch[w] : Release(w, k) /\ Drop(w, k)
      BY <2>3 DEF ReleaseUnstarted
    <3>2. k \in Jobs /\ Holds(w, k)
      BY <2>0 DEF Holds
    <3>3. \/ LostLease
          \/ HoldsLease(w, k) /\ \E s \in Statuses : Unlease(k, s)
      BY <3>1 DEF Release, Statuses, Claimable
    <3> QED
      BY <2>1, <3>1, <3>2, <3>3
  <2>4. ASSUME NEW w \in Workers, Claim(w) PROVE FALSE
    BY <1>1, <2>0, <2>4 DEF Claim
  <2>5. ASSUME NEW w \in Workers, RecoverStaleLeases(w) PROVE FALSE
    BY <1>1, <2>0, <2>5 DEF RecoverStaleLeases, Stale
  <2>6. ASSUME NEW k \in Jobs, EnqueueWith(k) PROVE FALSE
    BY <1>1, <2>0, <2>6 DEF EnqueueWith
  <2> QED
    BY <1>1, <2>2, <2>3, <2>4, <2>5, <2>6
       DEF Next, PollStep, LeaseExpires, BecomesDue, StartJob, HandlerReturns, HandlerThrows,
           FinishRun, Start, StopCompletes, Heartbeat, Stop, Crash, QueryFails, vars, rowVars
<1>2. IInv /\ [Next]_vars => [Fenced]_vars
  BY <1>1
<1> QED
  BY <1>2, Invariance, PTL DEF Spec, LiveLeaseEndsByItsClaim
=============================================================================
