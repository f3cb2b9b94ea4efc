------------------------------ MODULE Processes ------------------------------
(***************************************************************************)
(* The two entrypoints over one database: src/apps/api and                 *)
(* src/apps/worker, from their boot to their graceful shutdown, with the   *)
(* checks behind /readyz.  A process ships the migrations of its build     *)
(* (dir) and compares them with the ledger that the operators of Database  *)
(* write.  held is history: what was true of the dependencies at some      *)
(* moment since a process was asked.                                       *)
(***************************************************************************)
EXTENDS Database

CONSTANTS
  Apis,         \* API processes
  Workers,      \* worker processes
  BuildOf,      \* the migrations directory a process ships
  StaleAfter,   \* loopStaleAfterMs, in ticks of the clock
  MaxTime       \* bound on the clock

ASSUME ProcessesAssumption ==
  /\ StaleAfter \in Nat /\ MaxTime \in Nat
  /\ Apis \cap Workers = {}

VARIABLES
  proc,    \* per process: where its boot or shutdown is
  loops,   \* per worker: the outbox relay and the job poller
  check,   \* per process: the readiness check in flight
  store,   \* the rate-limit store answers
  time,    \* the clock that Date.now() reads
  held     \* per process: facts that held since it was asked

processVars == <<proc, loops, check, store, time, held>>

Processes == Apis \cup Workers
Loops == {"relay", "poller"}
NoTick == -1

Exited == [at |-> "down", pool |-> "none", listening |-> FALSE, started |-> NoTick,
           rejected |-> FALSE, answer |-> "none"]
LoopOff == [running |-> FALSE, stopping |-> FALSE, busy |-> FALSE, tick |-> NoTick]
NoCheck == [on |-> FALSE, postgres |-> "waiting", migrations |-> "waiting", redis |-> "waiting"]

ProcAt(p, at) == proc[p].at = at

\* The process is gone, with everything it held open.
Gone(p) ==
  /\ proc' = [proc EXCEPT ![p] = Exited]
  /\ loops' = [loops EXCEPT ![p] = [l \in Loops |-> LoopOff]]
  /\ check' = [check EXCEPT ![p] = NoCheck]
  /\ UNCHANGED <<store, time>>

Moves(p, row) ==
  /\ proc' = [proc EXCEPT ![p] = row]
  /\ UNCHANGED <<loops, check, store, time>>

-----------------------------------------------------------------------------
(* Boot *)

\* The environment is read once, before anything is opened.
BootApi(p, env) ==
  /\ p \in Apis /\ ProcAt(p, "down")
  /\ LoadsConfig(env) /\ ProfileFromEnv("app", env) /\ ComposesModules(env)
  /\ Moves(p, [proc[p] EXCEPT !.at = "connecting", !.pool = "open"])

\* The limiter is connected before the server listens; a store that is down
\* does not stop the boot.
ConnectStore(p) == ProcAt(p, "connecting") /\ Moves(p, [proc[p] EXCEPT !.at = "listen"])

Listen(p) == ProcAt(p, "listen") /\ Moves(p, [proc[p] EXCEPT !.at = "up", !.listening = TRUE])

BootWorker(p, env) ==
  /\ p \in Workers /\ ProcAt(p, "down")
  /\ LoadsConfig(env) /\ LoadsWorkerSettings(env) /\ ProfileFromEnv("app", env)
  /\ Moves(p, [proc[p] EXCEPT !.at = "health", !.pool = "open"])

\* Health before loops.
OpenHealth(p) == ProcAt(p, "health") /\ Moves(p, [proc[p] EXCEPT !.at = "context", !.listening = TRUE])

\* The context was created; both loops start, each with a run.
StartLoops(p) ==
  /\ ProcAt(p, "context")
  /\ proc' = [proc EXCEPT ![p].at = "up", ![p].started = time]
  /\ loops' = [loops EXCEPT ![p] =
                 [l \in Loops |-> [LoopOff EXCEPT !.running = TRUE, !.busy = TRUE]]]
  /\ UNCHANGED <<check, store, time>>

\* A step of the boot failed, or the process died, at any moment.
Dies(p) == ~ProcAt(p, "down") /\ Gone(p)

-----------------------------------------------------------------------------
(* The loops *)

IsRunning(p, l) == loops[p][l].running /\ ~loops[p][l].stopping

RunBegins(p, l) ==
  /\ IsRunning(p, l) /\ ~loops[p][l].busy
  /\ loops' = [loops EXCEPT ![p][l].busy = TRUE]
  /\ UNCHANGED <<proc, check, store, time>>

\* Only a run that did not throw is a heartbeat.
RunEnds(p, l, threw) ==
  /\ loops[p][l].busy
  /\ LET tick == IF threw THEN loops[p][l].tick ELSE time
     IN  loops' = [loops EXCEPT ![p][l] = [@ EXCEPT !.busy = FALSE, !.tick = tick]]
  /\ UNCHANGED <<proc, check, store, time>>

\* Mutant: a loop that is being stopped still counts as alive.
HeartbeatOnly(p, l) ==
  LET tick == loops[p][l].tick
      heartbeat == IF tick = NoTick THEN proc[p].started ELSE tick
  IN  loops[p][l].running /\ time - heartbeat <= StaleAfter

\* loopState: before the first heartbeat, the start counts as one.
LoopAlive(p, l) ==
  LET tick == loops[p][l].tick
      heartbeat == IF tick = NoTick THEN proc[p].started ELSE tick
  IN  IsRunning(p, l) /\ proc[p].started # NoTick /\ time - heartbeat <= StaleAfter

-----------------------------------------------------------------------------
(* /readyz *)

Ask(p) ==
  /\ proc[p].listening /\ ~check[p].on
  /\ check' = [check EXCEPT ![p] = [NoCheck EXCEPT !.on = TRUE,
                                                   !.redis = IF p \in Apis THEN @ ELSE "up"]]
  /\ UNCHANGED <<proc, loops, store, time>>

Found(p, probe, result) ==
  /\ check[p].on /\ check[p][probe] = "waiting"
  /\ check' = [check EXCEPT ![p][probe] = result]
  /\ UNCHANGED <<proc, loops, store, time>>

Queries(p) == proc[p].pool = "open" /\ Exists /\ cluster.roles

ProbePostgres(p) == Queries(p) /\ Found(p, "postgres", "up")

\* verifyMigrations as the application role: a table that is not there is an
\* empty ledger, and the first migration brings the right to read it.
ProbeMigrations(p) ==
  /\ Queries(p) /\ LoadsFiles(BuildOf[p])
  /\ cluster.metadata => 1 \in Versions(cluster.ledger)
  /\ Found(p, "migrations", IF Report(cluster.ledger, BuildOf[p]) = "clean" THEN "ok" ELSE "behind")

ProbeRedis(p) == store /\ Found(p, "redis", "up")

\* A probe failed, or overran its budget while the dependency was fine.
ProbeFails(p, probe) == Found(p, probe, IF probe = "migrations" THEN "unknown" ELSE "down")

Settled(p) == \A probe \in {"postgres", "migrations", "redis"} : check[p][probe] # "waiting"

\* The states of the loops are taken after the probes were awaited.
Answer(p) ==
  /\ check[p].on /\ Settled(p)
  /\ LET ready == /\ check[p].postgres = "up" /\ check[p].migrations = "ok"
                  /\ check[p].redis = "up"
                  /\ p \in Workers => \A l \in Loops : LoopAlive(p, l)
     IN  proc' = [proc EXCEPT ![p].answer = IF ready THEN "ok" ELSE "unavailable"]
  /\ check' = [check EXCEPT ![p] = NoCheck]
  /\ UNCHANGED <<loops, store, time>>

-----------------------------------------------------------------------------
(* Graceful shutdown *)

\* Nest closes the HTTP server of the API first; the worker stops its loops.
SignalApi(p) ==
  p \in Apis /\ ProcAt(p, "up") /\ Moves(p, [proc[p] EXCEPT !.at = "closing"])

SignalWorker(p) ==
  /\ p \in Workers /\ ProcAt(p, "up")
  /\ proc' = [proc EXCEPT ![p].at = "stopping"]
  /\ loops' = [loops EXCEPT ![p] = [l \in Loops |-> [@[l] EXCEPT !.stopping = TRUE]]]
  /\ UNCHANGED <<check, store, time>>

\* stop() of a loop awaits the run in flight; the relay then releases its
\* claims, and if that statement fails its stop() rejects.
StopLoop(p, l) ==
  /\ ProcAt(p, "stopping")
  /\ loops[p][l].running /\ ~loops[p][l].busy
  /\ loops' = [loops EXCEPT ![p][l].running = FALSE]
  /\ UNCHANGED <<proc, check, store, time>>

ReleaseFails(p) ==
  /\ ProcAt(p, "stopping")
  /\ loops[p]["relay"].running /\ ~loops[p]["relay"].busy
  /\ Moves(p, [proc[p] EXCEPT !.at = "closing", !.rejected = TRUE])

\* Mutant: the first loop that has stopped is enough.
OneStopped(p) == \E l \in Loops : ~loops[p][l].running

AllStopped(p) == \A l \in Loops : ~loops[p][l].running

LoopsStopped(p) == ProcAt(p, "stopping") /\ AllStopped(p) /\ Moves(p, [proc[p] EXCEPT !.at = "closing"])

\* The server stops accepting and waits for the answers in flight.
CloseServer(p) ==
  /\ ProcAt(p, "closing")
  /\ ~check[p].on
  /\ Moves(p, [proc[p] EXCEPT !.at = "draining", !.listening = FALSE])

\* Failures to close are logged and do not stop the shutdown.
EndPool(p) == ProcAt(p, "draining") /\ Moves(p, [proc[p] EXCEPT !.at = "flushing", !.pool = "closed"])

\* Telemetry is flushed and nothing holds the process any more: a job in
\* flight does.
FlushAndExit(p) ==
  /\ ProcAt(p, "flushing")
  /\ \A l \in Loops : ~loops[p][l].busy
  /\ Gone(p)

-----------------------------------------------------------------------------
(* The environment *)

StoreFlips == store' = ~store /\ UNCHANGED <<proc, loops, check, time>>

TimePasses == time < MaxTime /\ time' = time + 1 /\ UNCHANGED <<proc, loops, check, store>>

\* What holds now, stated without the code that probes it.
Facts(p) ==
  LET built == {[version |-> f.version, name |-> f.name, checksum |-> f.checksum] : f \in BuildOf[p]}
      rows  == {[version |-> cluster.ledger[i].version, name |-> cluster.ledger[i].name,
                 checksum |-> cluster.ledger[i].checksum] : i \in DOMAIN cluster.ledger}
  IN  (IF Exists /\ proc[p].pool = "open" THEN {"reachable"} ELSE {})
        \cup (IF rows = built THEN {"current"} ELSE {})
        \cup (IF store THEN {"store"} ELSE {})

Observes ==
  held' = [p \in Processes |->
             IF ~check'[p].on THEN held[p]
             ELSE (IF check[p].on THEN held[p] ELSE {}) \cup Facts(p)']

ProcessesInit ==
  /\ proc = [p \in Processes |-> Exited]
  /\ loops = [p \in Processes |-> [l \in Loops |-> LoopOff]]
  /\ check = [p \in Processes |-> NoCheck]
  /\ store \in BOOLEAN
  /\ time = 0
  /\ held = [p \in Processes |-> {}]

ProcessStep(p) ==
  \/ \E env \in Envs : BootApi(p, env) \/ BootWorker(p, env)
  \/ ConnectStore(p)
  \/ Listen(p)
  \/ OpenHealth(p)
  \/ StartLoops(p)
  \/ Dies(p)
  \/ \E l \in Loops : RunBegins(p, l) \/ StopLoop(p, l)
  \/ \E l \in Loops, threw \in BOOLEAN : RunEnds(p, l, threw)
  \/ Ask(p)
  \/ ProbePostgres(p)
  \/ ProbeMigrations(p)
  \/ ProbeRedis(p)
  \/ \E probe \in {"postgres", "migrations", "redis"} : ProbeFails(p, probe)
  \/ Answer(p)
  \/ SignalApi(p)
  \/ SignalWorker(p)
  \/ ReleaseFails(p)
  \/ LoopsStopped(p)
  \/ CloseServer(p)
  \/ EndPool(p)
  \/ FlushAndExit(p)

\* A process steps, its surroundings change, or the database does.
ProcessMoves(p) == ProcessStep(p) /\ UNCHANGED databaseVars /\ Observes
WorldMoves      == (StoreFlips \/ TimePasses) /\ UNCHANGED databaseVars /\ Observes
Watched(step)   == step /\ UNCHANGED <<proc, loops, check, store, time>> /\ Observes

ProcessesNext ==
  \/ \E p \in Processes : ProcessMoves(p)
  \/ WorldMoves
  \/ Watched(DatabaseNext)

\* The processes over a database that operators write at any time.
ProcessesSpec ==
  DatabaseInit /\ ProcessesInit /\ [][ProcessesNext]_<<databaseVars, processVars>>

-----------------------------------------------------------------------------
(* Properties *)

\* A ready answer is earned while it is being given: since it was asked for,
\* the database was reachable, its ledger was exactly the migrations of this
\* build and, for the API, the limiter answered; and when a worker says it,
\* both of its loops are running, neither is being stopped and each started
\* or ended a run no longer than StaleAfter ago.
ReadinessIsEarned ==
  [][\A p \in Processes :
       (check[p].on /\ ~check'[p].on /\ proc'[p].answer = "ok") =>
         /\ {"reachable", "current"} \subseteq held[p]
         /\ p \in Apis => "store" \in held[p]
         /\ p \in Workers => \A l \in Loops :
              /\ loops[p][l].running /\ ~loops[p][l].stopping
              /\ \E t \in {proc[p].started, loops[p][l].tick} : t # NoTick /\ time <= t + StaleAfter]_<<proc, check>>

\* A graceful shutdown drains before it closes: the pool is open as long as
\* the server may be asked, and a run that is still in flight when the pool
\* is closed means that the relay could not release its claims.
ShutdownDrains ==
  \A p \in Processes : proc[p].pool = "closed" =>
    /\ ~proc[p].listening /\ ~check[p].on
    /\ (\E l \in Loops : loops[p][l].busy) => proc[p].rejected
=============================================================================
