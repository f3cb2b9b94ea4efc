------------------------------ MODULE MCPlatform ------------------------------
(***************************************************************************)
(* Instances of the platform modules.  part says what acts: two operators  *)
(* over one ledger, a process of either kind beside one operator, the      *)
(* callers of one pool, or the mobile client on its own device.            *)
(***************************************************************************)
EXTENDS Processes, Pool, MobileClient, ClientAddress, Governance, Money, TLC

CONSTANTS o1, o2, api, worker, c1, c2, c3, s1, s2, k1, k2, x1, x2

VARIABLE part

platformVars == <<databaseVars, processVars, poolVars, clientVars, part>>

-----------------------------------------------------------------------------
\* Environments: a local one, one that forgot a credential, a remote one.

Environment(some) == [f \in Fields |-> IF f \in DOMAIN some THEN some[f] ELSE "unset"]

LocalEnvironment == Environment([KARAR_ENV |-> "local"])

MCEnvs == {LocalEnvironment,
           Environment([KARAR_ENV |-> "staging", POSTGRES_PASSWORD |-> "valid",
                        KARAR_DB_MIGRATOR_PASSWORD |-> "valid"]),
           Environment([KARAR_ENV |-> "local", KARAR_DB_HOST |-> "valid"])}

\* Directories: two branches of a release, their merge, an edited file
\* and a number used twice.

File(version, name, checksum) ==
  [version |-> version, name |-> name, checksum |-> checksum, named |-> TRUE, rollback |-> TRUE]

One   == File(1, "platform", "a")
Two   == File(2, "hygiene", "b")
Three == File(3, "outbox", "c")

Merged == {One, Two, Three}

MCDirectories ==
  {{One, Two}, {One, Three}, Merged, {File(1, "platform", "z"), Two},
   {One, Two, File(2, "other", "b")}}

\* The build between two migrations.
MCBuildOf == [p \in Processes |-> {One}]

-----------------------------------------------------------------------------
\* Principals: a member of a tenant, a user without one, and what is refused.

Context(t, u, s, r) == [tenantId |-> t, userId |-> u, sessionId |-> s, requestId |-> r]

MCContexts ==
  {Context("t1", "u1", "s1", "r1"), Context("absent", "u2", "absent", "empty"),
   Context("empty", "u1", "s1", "r1"), Context("t1", "u1", "malformed", "r1")}

MCRequirements == {{"tenantId", "userId"}, {"userId"}}

-----------------------------------------------------------------------------
\* In a part with a process the database is bootstrapped; one operator
\* migrates it or, beside the API, resets it.  Beside the worker the build's
\* own migration is applied already.

Bootstrapped(ledger) ==
  [roles |-> TRUE, created |-> MaxIncarnations, incarnation |-> MaxIncarnations, granted |-> TRUE,
   metadata |-> ledger # <<>>, ledger |-> ledger]

AppliedOne == [version |-> 1, name |-> "platform", checksum |-> "a", dir |-> {One},
               since |-> MaxIncarnations, saw |-> 0]

Init ==
  /\ part \in {"ledger", "api", "worker", "pool", "client"}
  /\ op = [p \in Operators |-> IdleOp]
  /\ CASE part = "api"    -> cluster = Bootstrapped(<<>>)
       [] part = "worker" -> cluster = Bootstrapped(<<AppliedOne>>)
       [] OTHER           -> DatabaseInit
  /\ ProcessesInit
  /\ part # "api" => store
  /\ PoolInit
  /\ ClientInit
  /\ part # "client" => keystore = NoCredential /\ ~flags.lock

ApiNext ==
  \/ ProcessMoves(api)
  \/ WorldMoves /\ time' = time
  \/ \E cmd \in {"migrate", "reset_local"}, dir \in {{One}, {One, Two}} :
       Watched(Run(o1, cmd, LocalEnvironment, dir))
  \/ Watched(OperatorStep(o1))

WorkerNext ==
  \/ ProcessMoves(worker)
  \/ WorldMoves /\ store' = store
  \/ Watched(Run(o1, "migrate", LocalEnvironment, {One, Two}))
  \/ Watched(OperatorStep(o1))

PlatformNext ==
  \/ part = "ledger" /\ DatabaseNext /\ UNCHANGED <<processVars, poolVars>>
  \/ part = "api" /\ ApiNext /\ UNCHANGED poolVars
  \/ part = "worker" /\ WorkerNext /\ UNCHANGED poolVars
  \/ part = "pool" /\ PoolNext /\ UNCHANGED <<databaseVars, processVars>>

Next ==
  \/ PlatformNext /\ UNCHANGED <<clientVars, part>>
  \/ /\ part = "client" /\ ClientNext
     /\ UNCHANGED <<databaseVars, processVars, poolVars, part>>

\* The tasks of the client are interchangeable.
TaskSymmetry == Permutations(Tasks)

Spec == Init /\ [][Next]_platformVars
=============================================================================
