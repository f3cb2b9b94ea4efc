------------------------------ MODULE JobQueue ------------------------------
(***************************************************************************)
(* The background job queue of packages/platform and the poller loops of   *)
(* apps/worker.  A claim leases rows to a worker and counts the attempt; a *)
(* worker works through its batch one handler at a time and reports each   *)
(* outcome in a statement guarded by its name on the lease; any worker     *)
(* sweeps expired leases back to claimable or dead.                        *)
(*                                                                         *)
(* One action is one statement of PostgreSQL or one await of the poller.   *)
(* Time is what the WHERE clauses read: due (available_at has passed) and  *)
(* live (lease_expires_at lies ahead); both may flip between any two steps.*)
(***************************************************************************)
EXTENDS Naturals, FiniteSets

CONSTANTS
  Jobs,         \* rows of platform.jobs, one per (job_type, idempotency_key)
  Workers,      \* workerId of each poller
  NoWorker, NoJob,
  MaxAttempts,  \* max_attempts of a job
  BatchSize,    \* jobs claimed per run
  MaxFaults     \* bound on stops, failed statements, and crashes between jobs

ASSUME JobAssumption ==
  /\ NoWorker \notin Workers
  /\ NoJob \notin Jobs
  /\ MaxAttempts \in Nat \ {0}
  /\ BatchSize \in Nat \ {0}
  /\ MaxFaults \in Nat

VARIABLES
  status,    \* status, or "absent" before the enqueue
  due,       \* available_at <= now()
  owner,     \* lease_owner
  live,      \* lease_expires_at > now()
  attempts,  \* attempts
  phase,     \* where a poller stands
  current,   \* the job whose handler it runs or reports
  batch,     \* claimed jobs it has not started
  copy,      \* job.attempts of its claimed jobs
  stopping,  \* the poller's stopping flag
  claims,    \* claims of a job so far (history)
  ticket,    \* which of those claims a worker holds a job by (history)
  returned,  \* the claims whose handler call returned (history)
  starts,    \* handler calls for a job (history)
  faults     \* faults so far (bound)

rowVars   == <<status, due, owner, live, attempts>>
runVars   == <<phase, current, batch, copy, ticket>>
pastVars  == <<claims, returned, starts>>
vars == <<rowVars, runVars, stopping, pastVars, faults>>

Claimable == {"queued", "failed_retryable"}
Terminal  == {"succeeded", "dead"}
Statuses  == {"absent", "leased"} \cup Claimable \cup Terminal
OnJob     == {"running", "returned", "threw"}
Phases    == {"down", "stopped", "idle", "next"} \cup OnJob

\* The second line is CHECK jobs_lease_shape.
TypeOK ==
  /\ status \in [Jobs -> Statuses]
  /\ \A j \in Jobs : status[j] = "leased" <=> owner[j] # NoWorker
  /\ due \in [Jobs -> BOOLEAN]
  /\ owner \in [Jobs -> Workers \cup {NoWorker}]
  /\ live \in [Jobs -> BOOLEAN]
  /\ attempts \in [Jobs -> Nat]
  /\ phase \in [Workers -> Phases]
  /\ current \in [Workers -> Jobs \cup {NoJob}]
  /\ \A w \in Workers : phase[w] \in OnJob <=> current[w] \in Jobs
  /\ batch \in [Workers -> SUBSET Jobs]
  /\ copy \in [Workers -> [Jobs -> Nat]]
  /\ stopping \in [Workers -> BOOLEAN]
  /\ claims \in [Jobs -> Nat]
  /\ ticket \in [Workers -> [Jobs -> Nat]]
  /\ returned \in [Jobs -> SUBSET Nat]
  /\ starts \in [Jobs -> Nat]
  /\ faults \in Nat

Init ==
  /\ status = [j \in Jobs |-> "absent"]
  /\ due = [j \in Jobs |-> FALSE]
  /\ owner = [j \in Jobs |-> NoWorker]
  /\ live = [j \in Jobs |-> FALSE]
  /\ attempts = [j \in Jobs |-> 0]
  /\ phase = [w \in Workers |-> "down"]
  /\ current = [w \in Workers |-> NoJob]
  /\ batch = [w \in Workers |-> {}]
  /\ copy = [w \in Workers |-> [j \in Jobs |-> 0]]
  /\ stopping = [w \in Workers |-> FALSE]
  /\ claims = [j \in Jobs |-> 0]
  /\ ticket = [w \in Workers |-> [j \in Jobs |-> 0]]
  /\ returned = [j \in Jobs |-> {}]
  /\ starts = [j \in Jobs |-> 0]
  /\ faults = 0

-----------------------------------------------------------------------------
(* The queue's statements.                                                 *)

\* ON CONFLICT DO NOTHING: a second enqueue of the key finds the first row and
\* changes nothing.  delayMs may postpone the job.
EnqueueWith(j) ==
  /\ status[j] = "absent"
  /\ status' = [status EXCEPT ![j] = "queued"]
  /\ \E now \in BOOLEAN : due' = [due EXCEPT ![j] = now]
  /\ UNCHANGED <<owner, live, attempts, runVars, stopping, pastVars, faults>>

\* The row leaves its lease for the given status.
Unlease(j, to) ==
  /\ status' = [status EXCEPT ![j] = to]
  /\ owner' = [owner EXCEPT ![j] = NoWorker]
  /\ live' = [live EXCEPT ![j] = FALSE]

\* Mutant: the WHERE clause does not name the lease owner.
HoldsSomeLease(w, j) == status[j] = "leased"

\* WHERE id = ? AND lease_owner = ? AND status = 'leased'; otherwise the
\* statement matches nothing and the report is answered lost_lease.
HoldsLease(w, j) == status[j] = "leased" /\ owner[j] = w

LostLease == UNCHANGED rowVars

Complete(w) ==
  LET j == current[w] IN
  \/ HoldsLease(w, j) /\ Unlease(j, "succeeded") /\ UNCHANGED <<due, attempts>>
  \/ ~HoldsLease(w, j) /\ LostLease

\* Mutant: one attempt too many.
ExhaustedLate(n) == n > MaxAttempts

Exhausted(n) == n >= MaxAttempts

\* failRetryable decides from the attempts of the claim, not of the row.
FailRetryable(w) ==
  LET j == current[w] IN
  \/ /\ HoldsLease(w, j)
     /\ Exhausted(copy[w][j])
     /\ Unlease(j, "dead")
     /\ UNCHANGED <<due, attempts>>
  \/ /\ HoldsLease(w, j)
     /\ ~Exhausted(copy[w][j])
     /\ Unlease(j, "failed_retryable")
     /\ due' = [due EXCEPT ![j] = FALSE]
     /\ UNCHANGED attempts
  \/ ~HoldsLease(w, j) /\ LostLease

\* release undoes the claim: the attempt is uncounted.
Release(w, j) ==
  \/ /\ HoldsLease(w, j)
     /\ Unlease(j, "queued")
     /\ attempts' = [attempts EXCEPT ![j] = IF @ = 0 THEN 0 ELSE @ - 1]
     /\ UNCHANGED due
  \/ ~HoldsLease(w, j) /\ LostLease

\* Mutant: the sweep only looks for jobs it can still hand out.
StaleAndRetryable(j) == status[j] = "leased" /\ ~live[j] /\ attempts[j] < MaxAttempts

Stale(j) == status[j] = "leased" /\ ~live[j]

\* Every expired lease at once: exhausted jobs go dead, the others are due now.
RecoverStaleLeases(w) ==
  LET stale == {j \in Jobs : Stale(j)} IN
  /\ phase[w] = "idle"
  /\ ~stopping[w]
  /\ stale # {}
  /\ status' = [j \in Jobs |->
        IF j \notin stale THEN status[j]
        ELSE IF Exhausted(attempts[j]) THEN "dead" ELSE "failed_retryable"]
  /\ owner' = [j \in Jobs |-> IF j \in stale THEN NoWorker ELSE owner[j]]
  /\ due' = [j \in Jobs |-> due[j] \/ j \in stale]
  /\ UNCHANGED <<live, attempts, runVars, stopping, pastVars, faults>>

-----------------------------------------------------------------------------
(* The poller.                                                             *)

\* Mutant: whatever nobody leases is claimable.
MayClaimUnleased(j) == status[j] \notin {"absent", "leased"} /\ due[j]

MayClaim(j) == status[j] \in Claimable /\ due[j]

\* ORDER BY priority DESC, available_at ... LIMIT ... SKIP LOCKED: which of the
\* claimable rows a claim takes is left open.
Claim(w) ==
  /\ phase[w] = "idle"
  /\ ~stopping[w]
  /\ \E S \in SUBSET {j \in Jobs : MayClaim(j)} :
       /\ S # {}
       /\ Cardinality(S) <= BatchSize
       /\ status' = [j \in Jobs |-> IF j \in S THEN "leased" ELSE status[j]]
       /\ owner' = [j \in Jobs |-> IF j \in S THEN w ELSE owner[j]]
       /\ live' = [j \in Jobs |-> live[j] \/ j \in S]
       /\ attempts' = [j \in Jobs |-> IF j \in S THEN attempts[j] + 1 ELSE attempts[j]]
       /\ claims' = [j \in Jobs |-> IF j \in S THEN claims[j] + 1 ELSE claims[j]]
       /\ batch' = [batch EXCEPT ![w] = S]
       /\ copy' = [copy EXCEPT ![w] = [j \in Jobs |-> IF j \in S THEN attempts'[j] ELSE 0]]
       /\ ticket' = [ticket EXCEPT ![w] = [j \in Jobs |-> IF j \in S THEN claims'[j] ELSE 0]]
  /\ phase' = [phase EXCEPT ![w] = "next"]
  /\ UNCHANGED <<due, current, stopping, returned, starts, faults>>

\* A job without a registered handler fails at once; the lease is not re-read.
StartJob(w) ==
  /\ phase[w] = "next"
  /\ ~stopping[w]
  /\ \E j \in batch[w] :
       /\ current' = [current EXCEPT ![w] = j]
       /\ batch' = [batch EXCEPT ![w] = @ \ {j}]
       /\ \/ /\ phase' = [phase EXCEPT ![w] = "running"]
             /\ starts' = [starts EXCEPT ![j] = @ + 1]
          \/ /\ phase' = [phase EXCEPT ![w] = "threw"]
             /\ UNCHANGED starts
  /\ UNCHANGED <<rowVars, copy, ticket, stopping, claims, returned, faults>>

Heartbeat(w) ==
  /\ phase[w] = "running"
  /\ HoldsLease(w, current[w])
  /\ live' = [live EXCEPT ![current[w]] = TRUE]
  /\ UNCHANGED <<status, due, owner, attempts, runVars, stopping, pastVars, faults>>

HandlerReturns(w) ==
  /\ phase[w] = "running"
  /\ phase' = [phase EXCEPT ![w] = "returned"]
  /\ returned' = [returned EXCEPT ![current[w]] = @ \cup {ticket[w][current[w]]}]
  /\ UNCHANGED <<rowVars, current, batch, copy, ticket, stopping, claims, starts, faults>>

HandlerThrows(w) ==
  /\ phase[w] = "running"
  /\ phase' = [phase EXCEPT ![w] = "threw"]
  /\ UNCHANGED <<rowVars, current, batch, copy, ticket, stopping, pastVars, faults>>

EndRun(w, where) ==
  /\ phase' = [phase EXCEPT ![w] = where]
  /\ current' = [current EXCEPT ![w] = NoJob]
  /\ batch' = [batch EXCEPT ![w] = {}]
  /\ copy' = [copy EXCEPT ![w] = [j \in Jobs |-> 0]]
  /\ ticket' = [ticket EXCEPT ![w] = [j \in Jobs |-> 0]]

\* The claimed copy of a job goes out of scope with its report.
Drop(w, j) ==
  /\ copy' = [copy EXCEPT ![w][j] = 0]
  /\ ticket' = [ticket EXCEPT ![w][j] = 0]

Report(w) ==
  /\ \/ phase[w] = "returned" /\ Complete(w)
     \/ phase[w] = "threw" /\ FailRetryable(w)
  /\ phase' = [phase EXCEPT ![w] = "next"]
  /\ current' = [current EXCEPT ![w] = NoJob]
  /\ Drop(w, current[w])
  /\ UNCHANGED <<batch, stopping, pastVars, faults>>

\* Graceful shutdown: unstarted jobs go back without spending attempts.
ReleaseUnstarted(w) ==
  /\ phase[w] = "next"
  /\ stopping[w]
  /\ \E j \in batch[w] :
       /\ Release(w, j)
       /\ batch' = [batch EXCEPT ![w] = @ \ {j}]
       /\ Drop(w, j)
  /\ UNCHANGED <<phase, current, stopping, pastVars, faults>>

FinishRun(w) ==
  /\ phase[w] = "next"
  /\ batch[w] = {}
  /\ EndRun(w, "idle")
  /\ UNCHANGED <<rowVars, stopping, pastVars, faults>>

-----------------------------------------------------------------------------
(* Starts, stops, crashes, failed statements and time.                     *)

Fault == faults < MaxFaults /\ faults' = faults + 1

Start(w) ==
  /\ phase[w] \in {"down", "stopped"}
  /\ phase' = [phase EXCEPT ![w] = "idle"]
  /\ UNCHANGED <<rowVars, current, batch, copy, ticket, stopping, pastVars, faults>>

Stop(w) ==
  /\ Fault
  /\ phase[w] \notin {"down", "stopped"}
  /\ ~stopping[w]
  /\ stopping' = [stopping EXCEPT ![w] = TRUE]
  /\ UNCHANGED <<rowVars, runVars, pastVars>>

\* stop() awaits the run in flight and touches no row itself.
StopCompletes(w) ==
  /\ stopping[w]
  /\ phase[w] = "idle"
  /\ phase' = [phase EXCEPT ![w] = "stopped"]
  /\ stopping' = [stopping EXCEPT ![w] = FALSE]
  /\ UNCHANGED <<rowVars, current, batch, copy, ticket, pastVars, faults>>

\* A handler may kill its process every time it runs; other crashes are bounded.
Crash(w) ==
  /\ phase[w] \notin {"down", "stopped"}
  /\ \/ phase[w] = "running" /\ UNCHANGED faults
     \/ phase[w] # "running" /\ Fault
  /\ EndRun(w, "down")
  /\ stopping' = [stopping EXCEPT ![w] = FALSE]
  /\ UNCHANGED <<rowVars, pastVars>>

\* A report or release throws, before its effect or (from "next") after it:
\* the loop logs it and the rest of the batch is forgotten.
QueryFails(w) ==
  /\ Fault
  /\ phase[w] \in {"returned", "threw", "next"}
  /\ EndRun(w, "idle")
  /\ UNCHANGED <<rowVars, stopping, pastVars>>

LeaseExpires(j) ==
  /\ live[j]
  /\ live' = [live EXCEPT ![j] = FALSE]
  /\ UNCHANGED <<status, due, owner, attempts, runVars, stopping, pastVars, faults>>

BecomesDue(j) ==
  /\ ~due[j]
  /\ status[j] \in Claimable
  /\ due' = [due EXCEPT ![j] = TRUE]
  /\ UNCHANGED <<status, owner, live, attempts, runVars, stopping, pastVars, faults>>

-----------------------------------------------------------------------------
\* What the poller's loop does of its own accord.
PollStep(w) ==
  \/ Claim(w) \/ StartJob(w) \/ HandlerReturns(w) \/ HandlerThrows(w)
  \/ Report(w) \/ ReleaseUnstarted(w) \/ FinishRun(w)
  \/ Start(w) \/ StopCompletes(w)

Next ==
  \/ \E j \in Jobs : EnqueueWith(j) \/ LeaseExpires(j) \/ BecomesDue(j)
  \/ \E w \in Workers :
       \/ PollStep(w) \/ RecoverStaleLeases(w) \/ Heartbeat(w)
       \/ Stop(w) \/ Crash(w) \/ QueryFails(w)

Spec == Init /\ [][Next]_vars

\* The loop keeps polling, handlers settle, the orchestrator restarts workers,
\* the sweep interval elapses, and so does every lease and every backoff.
Fairness ==
  /\ \A w \in Workers : WF_vars(PollStep(w)) /\ WF_vars(RecoverStaleLeases(w))
  /\ \A j \in Jobs : WF_vars(LeaseExpires(j)) /\ WF_vars(BecomesDue(j))

FairSpec == Spec /\ Fairness

-----------------------------------------------------------------------------
(* Properties.                                                             *)

\* A live lease ends only by the report of the very claim that took it: no late
\* report of an earlier claim, of this worker or another, reaches the row.
LiveLeaseEndsByItsClaim ==
  [][\A j \in Jobs :
       status[j] = "leased" /\ live[j] /\ status'[j] # "leased"
       => \E w \in Workers :
            /\ owner[j] = w
            /\ ticket[w][j] = claims[j]
            /\ ticket'[w][j] = 0]_vars

\* A job succeeds only when the handler call of its latest claim returned,
\* never on the word of a worker whose lease was recovered meanwhile.
SucceededByLatestClaim ==
  \A j \in Jobs : status[j] = "succeeded" => claims[j] \in returned[j]

\* max_attempts bounds the handler calls of a job over all workers, although a
\* stale worker starts jobs it no longer holds and releases refund attempts.
ExecutionsBounded ==
  \A j \in Jobs : starts[j] <= attempts[j] /\ attempts[j] <= MaxAttempts

\* Only an exhausted job is dead, whether a failure or the sweep decided it.
DeadIsExhausted ==
  \A j \in Jobs : status[j] = "dead" => attempts[j] = MaxAttempts

\* A finished job is never claimed, refunded, recovered or rerun by a report.
TerminalForever ==
  [][\A j \in Jobs :
       status[j] \in Terminal => status'[j] = status[j] /\ attempts'[j] = attempts[j]]_vars

\* Every enqueued job ends succeeded or dead, even one that kills its worker
\* each time it runs.
EveryJobFinishes ==
  \A j \in Jobs : status[j] # "absent" ~> status[j] \in Terminal

-----------------------------------------------------------------------------
(* Statements of the source's own comments that this code does not keep.   *)

\* queue.ts: a job has exactly one executor at a time (a lease).
OneExecutor ==
  \A v, w \in Workers :
    phase[v] = "running" /\ phase[w] = "running" /\ current[v] = current[w] => v = w
=============================================================================
