------------------------------- MODULE Startup ------------------------------
(***************************************************************************)
(* The start of the application: the deployment gate, which only           *)
(* production has (security/deployment_gate.py), the zero-touch            *)
(* initialization (init.py), and the lifespan that calls them (main.py).   *)
(* A value of the configuration is a member of a small set that says what  *)
(* the checks tell apart.                                                  *)
(***************************************************************************)
EXTENDS Naturals, FiniteSets

CONSTANTS
  InTimeout, \* service to how long it is waited for
  InInterval, \* startup_poll_interval
  InStarts   \* starts of the process

InService == {"postgres", "redis", "chroma"}

ASSUME InAssumption == InTimeout \in [InService -> Nat] /\ InInterval \in Nat \ {0}

VARIABLES
  inConfig,   \* the environment variables of the process
  inAt,       \* what the lifespan does
  inBy,       \* the service that the StartupError names, "none" without one
  inElapsed,  \* the seconds a wait has counted
  inPolled,   \* how often each service was asked, in this start
  inCatalog,  \* the database exists
  inMade,     \* where the collections were made: "local", "remote"
  inSecret,   \* os.environ["SECRET_KEY"] and ["SESSION_SECRET"] are there
  inStarts    \* starts of the process so far

inVars == <<inConfig, inAt, inBy, inElapsed, inPolled, inCatalog, inMade, inSecret, inStarts>>

-----------------------------------------------------------------------------
(* The checks of the gate, on settings s.                                  *)

GtCheck(name, passed, severity) == [name |-> name, passed |-> passed, severity |-> severity]

GtSecrets(s) ==
  { GtCheck("JWT_SECRET_KEY", s.secret \in {"good", "secret"}, "critical"),
    IF s.encryption = "missing" /\ ~s.production
      THEN GtCheck("ENCRYPTION_MASTER_KEY", TRUE, "medium")
      ELSE GtCheck("ENCRYPTION_MASTER_KEY", s.encryption \in {"good", "worded"}, "critical"),
    IF s.session = "missing" /\ ~s.production
      THEN GtCheck("SESSION_SECRET", TRUE, "low")
      ELSE GtCheck("SESSION_SECRET", s.session = "good", "high") }

GtDatabase(s) ==
  { IF s.database = "local" /\ s.production
      THEN GtCheck("DATABASE_URL", TRUE, "medium")
      ELSE GtCheck("DATABASE_URL", s.database # "missing" /\ (s.database = "default" => ~s.production), "critical"),
    GtCheck("DATABASE_CONNECTIVITY", s.database \notin {"missing", "malformed", "hostless"}, "high") }

GtCache(s) ==
  { IF s.redis = "local" /\ s.production
      THEN GtCheck("REDIS_URL", TRUE, "medium")
      ELSE GtCheck("REDIS_URL", s.redis # "missing", "high") }

\* Each registry, and each part of the engine, is made once by its check.
GtRegistries(s) ==
  { GtCheck("TOOL_REGISTRY", s.raises # "tools", "critical"),
    GtCheck("PROVIDER_REGISTRY", s.raises # "providers", "critical"),
    GtCheck("MCP_REGISTRY", s.raises # "mcp", "high") }

GtEngine(s) ==
  { GtCheck("EXECUTOR_CONFIG", s.raises # "executor", "critical"),
    GtCheck("REASONING_LOOP", s.raises # "reasoning", "critical"),
    GtCheck("MEMORY_SERVICE", s.raises # "memory", "high") }

GtSandbox(s) == { GtCheck("SANDBOX_CONFIG", s.sandbox, "medium") }

GtSecurity(s) ==
  { IF s.cors = "local" /\ s.production
      THEN GtCheck("CORS_ORIGINS", TRUE, "medium")
      ELSE GtCheck("CORS_ORIGINS", s.cors \notin {"empty", "wildcard"}, "critical"),
    IF s.rate \in 1..9 THEN GtCheck("RATE_LIMITING", TRUE, "medium")
                       ELSE GtCheck("RATE_LIMITING", s.rate > 0, "high"),
    GtCheck("ALLOWED_HOSTS", s.hosts \/ ~s.production, "medium") }

GtConfiguration(s) == { GtCheck("CONFIGURATION_VALIDITY", s.named, "high") }

GtChecks(s) ==
  UNION { GtSecrets(s), GtDatabase(s), GtCache(s), GtRegistries(s), GtEngine(s), GtSandbox(s),
          GtSecurity(s), GtConfiguration(s) }

GtAllPassed(s) == ~ \E c \in GtChecks(s) : ~c.passed /\ c.severity \in {"critical", "high"}

\* The blocking checks of the validator that the gate replaced
\* (security/startup_validator.py).  It knows other words for a placeholder.  Outside
\* production it has no result: its check of HTTPS then raises, for a severity INFO
\* that there is not.
SvAllPassed(s) ==
  /\ s.production
  /\ s.secret \in {"good", "replace-me"} /\ s.encryption = "good"
  /\ s.database \notin {"missing", "default"}
  /\ s.cors # "empty"

-----------------------------------------------------------------------------
(* The start.                                                              *)

\* The settings have no field for the master key, and ignore the variable.
InSettings == [inConfig EXCEPT !.encryption = "missing"]

InAsked == [v \in InService |-> 0]

\* The secrets that the environment of a new process has.
InGiven == [key |-> inConfig.secret \notin {"missing", "default"}, session |-> inConfig.session # "missing"]

InInit(configs) ==
  /\ inConfig \in configs
  /\ inAt = "gate" /\ inBy = "none" /\ inElapsed = 0 /\ inPolled = InAsked
  /\ inSecret = InGiven
  /\ inCatalog \in BOOLEAN /\ inMade = {}
  /\ inStarts = 1

InGoTo(at) == inAt' = at /\ inElapsed' = 0 /\ inBy' = IF at = "refused" THEN inAt ELSE "none"

InGate ==
  /\ inAt = "gate"
  /\ InGoTo(IF inConfig.production /\ ~GtAllPassed(InSettings) THEN "refused" ELSE "secrets")
  /\ UNCHANGED <<inConfig, inPolled, inCatalog, inMade, inSecret, inStarts>>

\* generate_secrets, and ensure_directories, which only warns.
InSecrets ==
  /\ inAt = "secrets"
  /\ LET enough == inConfig.generates \/ (inSecret.key /\ inSecret.session) IN
     /\ InGoTo(IF enough THEN "postgres" ELSE "refused")
     /\ inSecret' = IF inConfig.generates THEN [key |-> TRUE, session |-> TRUE] ELSE inSecret
  /\ UNCHANGED <<inConfig, inPolled, inCatalog, inMade, inStarts>>

InAfter(service) ==
  CASE service = "postgres" -> "migrations" [] service = "redis" -> "chroma" [] service = "chroma" -> "collections"

\* A service without a URL, or with one that cannot be parsed, is not waited for: that
\* is an error at once.  For chroma no URL means that the data is local, and one that
\* cannot be parsed is an error of every turn.
InUnusable(service) ==
  CASE service = "postgres" -> inConfig.database \in {"missing", "malformed"}
    [] service = "redis" -> inConfig.redis \in {"missing", "malformed"}
    [] service = "chroma" -> inConfig.chroma = "missing"

InSkips(service) ==
  /\ inAt = service /\ InUnusable(service)
  /\ InGoTo(IF service = "chroma" THEN InAfter(service) ELSE "refused")
  /\ UNCHANGED <<inConfig, inPolled, inCatalog, inMade, inSecret, inStarts>>

\* One turn of wait_for_postgres, wait_for_redis, wait_for_chromadb.  A database that
\* is not there is created, which may fail as well.  The loop ends with the timeout.
InAsks(service, answers) ==
  /\ inAt = service /\ ~InUnusable(service)
  /\ inElapsed < InTimeout[service]
  /\ inPolled' = [inPolled EXCEPT ![service] = @ + 1]
  /\ inCatalog' = (inCatalog \/ (service = "postgres" /\ answers))
  /\ IF answers THEN InGoTo(InAfter(service))
     ELSE inElapsed' = inElapsed + InInterval /\ UNCHANGED <<inAt, inBy>>
  /\ UNCHANGED <<inConfig, inMade, inSecret, inStarts>>

InGivesUp(service) ==
  /\ inAt = service /\ ~InUnusable(service)
  /\ inElapsed >= InTimeout[service]
  /\ InGoTo("refused")
  /\ UNCHANGED <<inConfig, inPolled, inCatalog, inMade, inSecret, inStarts>>

\* run_migrations skips them, and not only with RUN_MIGRATIONS=false: it looks for
\* backend/alembic.ini, which is in backend/alembic, and returns when it is not there.
\* What it would do then, upgrade or refuse to start, is never reached.
InMigrates ==
  /\ inAt = "migrations"
  /\ InGoTo("redis")
  /\ UNCHANGED <<inConfig, inPolled, inCatalog, inMade, inSecret, inStarts>>

\* Both initialize_chromadb and the service of the memory take a URL without "http"
\* for none, although the wait before has put "http://" before it.
InPlace == IF inConfig.chroma = "http" THEN "remote" ELSE "local"

InCollects(good) ==
  /\ inAt = "collections"
  /\ InGoTo(IF good THEN "serving" ELSE "refused")
  /\ inMade' = IF good THEN inMade \cup {InPlace} ELSE inMade
  /\ UNCHANGED <<inConfig, inPolled, inCatalog, inSecret, inStarts>>

\* The process ends, or is started again, with the environment as it was.
InRestarts ==
  /\ inAt \in {"refused", "serving"} /\ inStarts < InStarts
  /\ inStarts' = inStarts + 1
  /\ inAt' = "gate" /\ inBy' = "none" /\ inElapsed' = 0 /\ inPolled' = InAsked
  /\ inSecret' = InGiven
  /\ UNCHANGED <<inConfig, inCatalog, inMade>>

InStep ==
  \/ InGate \/ InSecrets
  \/ \E v \in InService : InSkips(v) \/ InGivesUp(v) \/ \E b \in BOOLEAN : InAsks(v, b)
  \/ InMigrates \/ \E b \in BOOLEAN : InCollects(b)

InNext == InStep \/ InRestarts
-----------------------------------------------------------------------------
\* What the checks tell apart of the values that are configured.
InConfig == [production : BOOLEAN, secret : {"good", "missing", "default", "short", "replace-me", "secret"},
  encryption : {"good", "missing", "short", "worded"}, session : {"good", "missing", "short"},
  database : {"good", "missing", "malformed", "hostless", "default", "local"},
  redis : {"good", "missing", "malformed", "local"},
  chroma : {"http", "missing", "bare"}, sandbox : BOOLEAN, cors : {"good", "empty", "wildcard", "local"}, rate : Nat,
  raises : {"none", "tools", "providers", "mcp", "executor", "reasoning", "memory"}, hosts : BOOLEAN, named : BOOLEAN,
  generates : BOOLEAN]

InTypeOK ==
  /\ inConfig \in InConfig
  /\ inAt \in {"gate", "secrets", "migrations", "collections", "serving", "refused"} \cup InService
  /\ inBy \in {"none", "gate", "secrets", "migrations", "collections"} \cup InService
  /\ inElapsed \in Nat /\ inPolled \in [InService -> Nat]
  /\ inCatalog \in BOOLEAN /\ inMade \subseteq {"local", "remote"}
  /\ inSecret \in [key : BOOLEAN, session : BOOLEAN]

\* What serves was initialized in this start: both secrets are there, the database
\* exists, postgres and redis were asked, and chroma unless the data is local, and the
\* collections are where the memory looks for them.  That the database has its tables
\* is not among it: nothing here migrates.
InServesReady ==
  inAt = "serving" =>
    /\ inSecret.key /\ inSecret.session
    /\ inCatalog
    /\ \A v \in InService : inPolled[v] > 0 \/ (v = "chroma" /\ InUnusable(v))
    /\ InPlace \in inMade

\* A service is asked until its timeout is over, and not once more: one that comes up
\* in time is not refused, and one whose URL is of no use is not asked.
InWaits ==
  \A v \in InService :
    /\ inPolled[v] * InInterval < InTimeout[v] + InInterval
    /\ InUnusable(v) => inPolled[v] = 0
    /\ inBy = v /\ ~InUnusable(v) => inPolled[v] * InInterval >= InTimeout[v]

\* The gate asks no less of production than of development, and in production no less
\* than the validator that it replaced, but for the words that only that one knows.
GtStrict ==
  /\ GtAllPassed([inConfig EXCEPT !.production = TRUE]) => GtAllPassed([inConfig EXCEPT !.production = FALSE])
  /\ inConfig.production /\ GtAllPassed(inConfig) =>
       SvAllPassed(inConfig) \/ inConfig.secret = "secret" \/ inConfig.encryption = "worded"

InSound == InServesReady /\ InWaits /\ GtStrict

\* Every start ends: the application serves, or it refuses to.
InEnds == inAt = "gate" ~> inAt \in {"serving", "refused"}

\* The checklist of the gate: "ENCRYPTION_MASTER_KEY generated (64 hex chars)".  A
\* production that is configured as the checks ask is not refused by the gate.
InProductionStarts ==
  inConfig.production /\ GtAllPassed(inConfig) => inBy # "gate"
=============================================================================
