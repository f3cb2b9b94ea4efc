------------------------------ MODULE Database ------------------------------
(***************************************************************************)
(* The database CLI (src/packages/platform/src/db): create, migrate,       *)
(* verify and reset-local, run by several operators over one cluster,      *)
(* statement by statement.                                                 *)
(*                                                                         *)
(* A migrations directory is a set of files; two operators may hold        *)
(* different checkouts.  The ledger is platform.schema_migrations in the   *)
(* order its rows were committed; dir, since and saw of a row (the         *)
(* directory of its run, the incarnation of the database the run read and  *)
(* the length of the ledger then) are history, read by no action.  A pool  *)
(* reconnects by name, so a run may outlive the database it read.          *)
(***************************************************************************)
EXTENDS Settings, Sequences

CONSTANTS
  Operators,        \* runs of the CLI that may be in flight
  Envs,             \* environments an operator runs in
  Directories,      \* migrations directories
  MaxIncarnations   \* bound on the databases created under the one name

ASSUME DatabaseAssumption ==
  /\ MaxIncarnations \in Nat
  /\ \A dir \in Directories : \A f \in dir : f.version \in Nat

VARIABLES
  cluster,   \* [roles, created, incarnation, granted, metadata, ledger]
  op         \* per operator: its step and what it has read

databaseVars == <<cluster, op>>

Dropped == 0   \* the incarnation while there is no database

IdleOp == [at |-> "idle", cmd |-> "none", env |-> <<>>, dir |-> {}, pending |-> {},
           since |-> Dropped, saw |-> 0]

EmptyDatabase(incarnation) ==
  [cluster EXCEPT !.incarnation = incarnation, !.granted = FALSE, !.metadata = FALSE,
                  !.ledger = <<>>]

-----------------------------------------------------------------------------
(* Files and rows *)

\* loadMigrationFiles: the names match, every file documents its rollback
\* and no number is used twice.
LoadsFiles(dir) ==
  /\ \A f \in dir : f.named /\ f.rollback
  /\ \A f, g \in dir : f.version = g.version => f = g

Versions(ledger) == {ledger[i].version : i \in DOMAIN ledger}

\* Mutant: an applied file may be edited.
IgnoresChecksums(row, dir) ==
  IF \E f \in dir : f.version = row.version /\ f.name = row.name THEN "ok" ELSE "missing_file"

ClassifyApplied(row, dir) ==
  LET same == {f \in dir : f.version = row.version}
  IN  IF same = {} THEN "missing_file"
      ELSE IF \A f \in same : f.name # row.name THEN "name_mismatch"
      ELSE IF \A f \in same : f.checksum # row.checksum THEN "checksum_drift"
      ELSE "ok"

NoDrift(ledger, dir) == \A i \in DOMAIN ledger : ClassifyApplied(ledger[i], dir) = "ok"

Pending(ledger, dir) == {f \in dir : f.version \notin Versions(ledger)}

InOrder(ledger, dir) ==
  \A f \in Pending(ledger, dir), v \in Versions(ledger) : v <= f.version

\* reconcile throws on any drift, and on a pending file that is numbered
\* below an applied one.
Reconciles(ledger, dir) == NoDrift(ledger, dir) /\ InOrder(ledger, dir)

\* The files are sorted once, and applied in that order.
Lowest(files) == CHOOSE f \in files : \A g \in files : f.version <= g.version

\* verifyMigrations
Report(ledger, dir) ==
  IF ~NoDrift(ledger, dir) THEN "drift"
  ELSE IF Pending(ledger, dir) # {} THEN "pending" ELSE "clean"

-----------------------------------------------------------------------------
Exists == cluster.incarnation # Dropped

At(p, at) == op[p].at = at

Goes(p, at) == op' = [op EXCEPT ![p].at = at]

\* The process ends; its exit code is left out.
Exits(p) == op' = [op EXCEPT ![p] = IdleOp]

\* bootstrapRolesAndDatabase reads the profile of every role first.
ReadsProfiles(env) == \A role \in {"superuser", "migrator", "app"} : ProfileFromEnv(role, env)

Admits(cmd, env) ==
  CASE cmd = "create"      -> ReadsProfiles(env)
    [] cmd = "reset_local" -> IsLocal(env) /\ LoopbackHost(env) /\ ProfileFromEnv("superuser", env)
    [] OTHER               -> ProfileFromEnv("migrator", env)

FirstStep ==
  [create |-> "roles", reset_local |-> "drop", migrate |-> "metadata", verify |-> "report"]

\* create has no use for the directory.
Useful(cmd, dir) == cmd = "create" => dir = CHOOSE d \in Directories : TRUE

\* main: the command, its guards and the settings; the files are read before
\* the first statement of migrate and of verify.
Run(p, cmd, env, dir) ==
  /\ At(p, "idle")
  /\ Useful(cmd, dir)
  /\ IF Admits(cmd, env) /\ (FirstStep[cmd] \in {"metadata", "report"} => LoadsFiles(dir))
     THEN op' = [op EXCEPT ![p] = [IdleOp EXCEPT !.at = FirstStep[cmd], !.cmd = cmd, !.dir = dir,
                                                 !.env = IF cmd = "reset_local" THEN env ELSE @]]
     ELSE Exits(p)
  /\ UNCHANGED cluster

\* Any statement may fail and any process may die: the run is over and what
\* it has committed stays.
Fail(p) == ~At(p, "idle") /\ Exits(p) /\ UNCHANGED cluster

-----------------------------------------------------------------------------
(* create and reset-local *)

\* DROP DATABASE IF EXISTS ... WITH (FORCE), then the whole of create.
DropDatabase(p) ==
  /\ At(p, "drop")
  /\ cluster' = EmptyDatabase(Dropped)
  /\ IF ReadsProfiles(op[p].env) THEN Goes(p, "roles") ELSE Exits(p)

\* One transaction under the advisory lock of the bootstrappers.
EnsureRoles(p) ==
  /\ At(p, "roles")
  /\ cluster' = [cluster EXCEPT !.roles = TRUE]
  /\ Goes(p, "find")

FindDatabase(p) ==
  /\ At(p, "find")
  /\ Goes(p, IF Exists THEN "grants" ELSE "createdb")
  /\ UNCHANGED cluster

\* Without a lock: another operator may have created it meanwhile.
CreateDatabase(p) ==
  /\ At(p, "createdb")
  /\ IF Exists
     THEN Exits(p) /\ UNCHANGED cluster
     ELSE /\ cluster.created < MaxIncarnations
          /\ cluster' = [EmptyDatabase(cluster.created + 1) EXCEPT !.created = @ + 1]
          /\ Goes(p, "grants")

\* reset-local goes on to migrate, whose files are read only now.
ApplyGrants(p) ==
  /\ At(p, "grants")
  /\ Exists
  /\ cluster' = [cluster EXCEPT !.granted = TRUE]
  /\ IF op[p].cmd # "create" /\ LoadsFiles(op[p].dir) THEN Goes(p, "metadata") ELSE Exits(p)

-----------------------------------------------------------------------------
(* migrate and verify *)

\* Without the grants of the bootstrap this is not_bootstrapped.
EnsureMetadata(p) ==
  /\ At(p, "metadata")
  /\ Exists /\ cluster.roles
  /\ IF cluster.granted
     THEN cluster' = [cluster EXCEPT !.metadata = TRUE] /\ Goes(p, "read")
     ELSE Exits(p) /\ UNCHANGED cluster

\* A ledger that is not there has no rows.
ReadApplied(p) ==
  /\ At(p, "read")
  /\ Exists
  /\ LET dir == op[p].dir
         pending == Pending(cluster.ledger, dir)
     IN  IF ~Reconciles(cluster.ledger, dir) \/ pending = {} THEN Exits(p)
         ELSE op' = [op EXCEPT ![p].at = "apply", ![p].pending = pending,
                               ![p].since = cluster.incarnation,
                               ![p].saw = Len(cluster.ledger)]
  /\ UNCHANGED cluster

NextFile(p) == Lowest(op[p].pending)

RowOf(p) ==
  LET file == NextFile(p)
  IN  [version |-> file.version, name |-> file.name, checksum |-> file.checksum,
       dir |-> op[p].dir, since |-> op[p].since, saw |-> op[p].saw]

\* The file and its row commit together.  The number is the primary key, and
\* a first file brings the ledger's table with it.
Commits(p) ==
  /\ Exists /\ cluster.granted
  /\ cluster.metadata \/ NextFile(p).version = 1
  /\ NextFile(p).version \notin Versions(cluster.ledger)

Applied(p) ==
  [cluster EXCEPT !.metadata = TRUE, !.ledger = Append(@, RowOf(p))]

ApplyFile(p) ==
  /\ At(p, "apply")
  /\ IF Commits(p)
     THEN /\ cluster' = Applied(p)
          /\ IF op[p].pending = {NextFile(p)} THEN Exits(p)
             ELSE op' = [op EXCEPT ![p].pending = @ \ {NextFile(p)}]
     ELSE Exits(p) /\ UNCHANGED cluster

\* The server committed and the answer was lost.
ApplyFileUnanswered(p) ==
  /\ At(p, "apply")
  /\ Commits(p)
  /\ cluster' = Applied(p)
  /\ Exits(p)

\* Read-only: it prints the report.
VerifyDatabase(p) ==
  /\ At(p, "report")
  /\ Exists /\ cluster.roles
  /\ Exits(p)
  /\ UNCHANGED cluster

-----------------------------------------------------------------------------
DatabaseInit ==
  /\ cluster = [roles |-> FALSE, created |-> 0, incarnation |-> Dropped, granted |-> FALSE,
                metadata |-> FALSE, ledger |-> <<>>]
  /\ op = [p \in Operators |-> IdleOp]

OperatorStep(p) ==
  \/ Fail(p)
  \/ DropDatabase(p)
  \/ EnsureRoles(p)
  \/ FindDatabase(p)
  \/ CreateDatabase(p)
  \/ ApplyGrants(p)
  \/ EnsureMetadata(p)
  \/ ReadApplied(p)
  \/ ApplyFile(p)
  \/ ApplyFileUnanswered(p)
  \/ VerifyDatabase(p)

DatabaseNext ==
  \E p \in Operators :
    \/ \E cmd \in DOMAIN FirstStep, env \in Envs, dir \in Directories : Run(p, cmd, env, dir)
    \/ OperatorStep(p)

DatabaseSpec == DatabaseInit /\ [][DatabaseNext]_databaseVars

-----------------------------------------------------------------------------
(* Properties *)

Same(file, row) ==
  /\ file.version = row.version /\ file.name = row.name /\ file.checksum = row.checksum

\* The ledger is the history of the files.  A number is in it once.  A row
\* whose run read this database stands after every file of its directory
\* with a lower number, as that directory has it, so no run builds on a
\* history it does not hold; and a row may follow a higher number only where
\* that number was committed after its run read the ledger (reconcile works
\* on a snapshot and takes no lock).
LedgerIsHistory ==
  LET ledger == cluster.ledger
      Here(i) == ledger[i].since = cluster.incarnation
  IN  /\ \A i, k \in DOMAIN ledger : ledger[i].version = ledger[k].version => i = k
      /\ \A i \in DOMAIN ledger : Here(i) =>
           \A f \in ledger[i].dir :
             f.version < ledger[i].version => \E k \in 1 .. (i - 1) : Same(f, ledger[k])
      /\ \A k \in DOMAIN ledger : Here(k) =>
           \A i \in 1 .. (k - 1) :
             ledger[i].version > ledger[k].version => i > ledger[k].saw
=============================================================================
