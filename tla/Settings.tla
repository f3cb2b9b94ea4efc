------------------------------ MODULE Settings ------------------------------
(***************************************************************************)
(* Configuration at boot: the typed schema of the platform                 *)
(* (src/packages/platform/src/config), the worker's own settings and the   *)
(* role-scoped connection profile, the second sanctioned reader of the     *)
(* environment.                                                            *)
(*                                                                         *)
(* An environment maps a variable to what its raw value is to a parser:    *)
(* "unset", "empty" (the empty string), "malformed" (refused by the        *)
(* pattern, the digits, the enumeration or the Boolean words), "outside"   *)
(* (a number out of its bounds), or accepted: "valid", and for KARAR_ENV   *)
(* the name itself.                                                        *)
(***************************************************************************)
EXTENDS Integers, FiniteSets

Named == {"local", "dev", "staging", "production"}

-----------------------------------------------------------------------------
(* The four primitives of the schema and the secret.  `default` says that  *)
(* an absent value is replaced.                                            *)

FieldSpec(default, refuses) == [default |-> default, refuses |-> refuses]

Str(default)     == FieldSpec(default, {})
Pattern(default) == FieldSpec(default, {"malformed"})
Number(default)  == FieldSpec(default, {"malformed", "outside"})
Bool(default)    == FieldSpec(default, {"malformed"})
EnumOf(default)  == FieldSpec(default, {"malformed"})
Secret(default)  == FieldSpec(default, {})

\* For the schema the empty string is an absent value.
Absent(raw) == raw \in {"unset", "empty"}

Parses(spec, raw) == IF Absent(raw) THEN spec.default ELSE raw \notin spec.refuses

\* Every field is parsed and every problem collected.
Issues(schema, env) == {f \in DOMAIN schema : ~Parses(schema[f], env[f])}

-----------------------------------------------------------------------------
(* loadConfig: an identity that cannot be parsed is validated at the       *)
(* strictest level, which is not local.                                    *)

IdentitySchema == [KARAR_ENV |-> EnumOf(FALSE)]

IsLocal(env) == env["KARAR_ENV"] = "local"

ConfigSchema(local) ==
  [KARAR_SERVICE_NAME          |-> Pattern(TRUE),
   KARAR_SERVICE_VERSION       |-> Str(TRUE),
   PORT                        |-> Number(TRUE),
   POSTGRES_HOST               |-> Str(local),
   POSTGRES_PORT               |-> Number(local),
   POSTGRES_DB                 |-> Str(local),
   POSTGRES_USER               |-> Str(local),
   POSTGRES_PASSWORD           |-> Secret(local),
   OTEL_EXPORTER_OTLP_ENDPOINT |-> Pattern(TRUE),
   KARAR_TELEMETRY_ENABLED     |-> Bool(TRUE),
   KARAR_LOG_LEVEL             |-> EnumOf(TRUE),
   KARAR_FIRST_PARTY_TENANT_ID |-> Pattern(local)]

ConfigIssues(env) ==
  Issues(IdentitySchema, env) \cup Issues(ConfigSchema(IsLocal(env)), env)

LoadsConfig(env) == ConfigIssues(env) = {}

WorkerSchema ==
  [f \in {"KARAR_WORKER_PORT", "KARAR_OUTBOX_RELAY_INTERVAL_MS", "KARAR_OUTBOX_RELAY_BATCH_SIZE",
          "KARAR_JOBS_POLL_INTERVAL_MS", "KARAR_JOBS_POLL_BATCH_SIZE", "KARAR_JOBS_LEASE_TTL_MS",
          "KARAR_WORKER_LOOP_STALE_MS"} |-> Number(TRUE)]

LoadsWorkerSettings(env) == Issues(WorkerSchema, env) = {}

-----------------------------------------------------------------------------
(* LocalPostgresConnectionProfile: `??` takes the empty string as a value. *)

Provided(env, name) == env[name] # "unset"

\* The first variable that is set, or the fallback.
FirstSet(env, names, fallback) ==
  IF \E i \in DOMAIN names : Provided(env, names[i])
  THEN names[CHOOSE i \in DOMAIN names :
               /\ Provided(env, names[i])
               /\ \A k \in 1 .. (i - 1) : ~Provided(env, names[k])]
  ELSE fallback

\* Where the host comes from: POSTGRES_HOST, which loadConfig validates, is
\* not among the variables read.
HostFrom(env) == FirstSet(env, <<"KARAR_DB_HOST", "PGHOST">>, "127.0.0.1")

\* Only a loopback host may be reset; "loopback" is a value that names one.
LoopbackHost(env) ==
  LET host == HostFrom(env) IN IF host = "127.0.0.1" THEN TRUE ELSE env[host] = "loopback"

ParsesPort(env) ==
  LET from == FirstSet(env, <<"POSTGRES_PORT", "PGPORT">>, "5432")
  IN  IF from = "5432" THEN TRUE ELSE env[from] \notin {"empty", "malformed", "outside"}

Credential(role) ==
  CASE role = "superuser" -> "POSTGRES_PASSWORD"
    [] role = "migrator"  -> "KARAR_DB_MIGRATOR_PASSWORD"
    [] role = "app"       -> "KARAR_DB_APP_PASSWORD"

\* Development passwords are for an environment that says it is local.
ProfileFromEnv(role, env) ==
  /\ ParsesPort(env)
  /\ Provided(env, Credential(role)) \/ IsLocal(env)

-----------------------------------------------------------------------------
(* What only the API reads, when it composes its modules.                  *)

IdentitySecrets(local) ==
  [KARAR_VERIFICATION_PEPPER |-> Pattern(local), KARAR_DIGEST_PEPPER |-> Pattern(local)]

RedisEndpoint(env) == env["REDIS_PORT"] \in {"unset", "empty", "valid"}

TrustedProxySpec(env) == env["KARAR_TRUSTED_PROXIES"] \in {"unset", "empty", "valid"}

\* The mail sink, the encryption and the signing keys are development ones
\* and refuse to exist elsewhere: there are no others yet.
LocalProviders(env) == IsLocal(env)

ComposesModules(env) ==
  /\ RedisEndpoint(env)
  /\ Issues(IdentitySecrets(IsLocal(env)), env) = {}
  /\ LocalProviders(env)
  /\ TrustedProxySpec(env)

-----------------------------------------------------------------------------
Fields ==
  {"KARAR_ENV", "KARAR_DB_HOST", "PGHOST", "PGPORT", "KARAR_DB_MIGRATOR_PASSWORD",
   "KARAR_DB_APP_PASSWORD", "REDIS_PORT", "KARAR_TRUSTED_PROXIES"}
    \cup DOMAIN ConfigSchema(FALSE) \cup DOMAIN WorkerSchema \cup DOMAIN IdentitySecrets(FALSE)
=============================================================================
