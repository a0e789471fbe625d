----------------------------- MODULE Bootstrap -----------------------------
(***************************************************************************)
(* bootstrap() of src/main.ts, for a server or a worker: the namespaces    *)
(* are loaded and validated, the modules created from them, the            *)
(* application set up, the database connected and the port opened. A start *)
(* that throws ends the process, and its container starts it again.        *)
(***************************************************************************)
EXTENDS EnvConfig

CONSTANTS EnvironmentsTried,   \* environments the process is started with
          Complete             \* those that follow .env.example

ASSUME BootstrapAssumption ==
    \A e \in EnvironmentsTried : \A n \in DOMAIN e : IsText(e[n])

VARIABLES env,        \* the environment, the same at every start
          database,   \* "up" or "away"
          phase,      \* what bootstrap does next
          loaded,     \* namespaces loaded so far
          done,       \* what has been set up on the application
          cause       \* what the last start was refused for
vars == <<env, database, phase, loaded, done, cause>>

Phases == {"loading", "creating", "cookies", "pipes", "cors", "docs", "sentry", "hooks",
           "connecting", "binding", "listening", "refused"}
IsWorker == AppConfig(env).isWorker = Bool(TRUE)

Init ==
    /\ env \in EnvironmentsTried
    /\ database \in {"up", "away"}
    /\ phase = "loading" /\ loaded = 0 /\ done = {} /\ cause = "none"

-----------------------------------------------------------------------------
GoTo(p) == phase' = p /\ UNCHANGED <<env, database, loaded, cause>>
Refuse(why) == /\ phase' = "refused" /\ cause' = why
               /\ UNCHANGED <<env, database, loaded, done>>
SetUp(what, p) == done' = done \cup {what} /\ GoTo(p)
\* ConfigService.getOrThrow: only undefined is missing; NaN and "" are not.
MissingEmpty(v) == v \in {Undefined, Empty}   \* Mutant: falsy values are missing too
Missing(v) == v = Undefined

\* main.ts reads the role and calls AppModule.main or AppModule.worker, whose
\* ConfigModule loads the namespaces one after the other.
LoadNamespace ==
    /\ phase = "loading" /\ loaded < Len(Namespaces)
    /\ IF validateConfig(env, Rules(Namespaces[loaded + 1], env))
       THEN loaded' = loaded + 1 /\ UNCHANGED <<env, database, phase, done, cause>>
       ELSE Refuse("invalid")
NamespacesLoaded ==
    /\ phase = "loading" /\ loaded = Len(Namespaces)
    /\ GoTo("creating") /\ UNCHANGED done

\* What the factories of a role's modules get with getOrThrow: the queue and
\* the cache in both roles, i18n, better-auth and the throttler in the server.
Redis == {RedisConfig(env).host, RedisConfig(env).port, RedisConfig(env).password}
ServerNeeds == {AppConfig(env).fallbackLanguage, ThrottlerConfig(env).ttl,
                ThrottlerConfig(env).limit}
Needs == Redis \cup (IF IsWorker THEN {} ELSE ServerNeeds)
\* pino, the logger of both roles, throws for a level it does not know.
LogLevels == {"trace", "debug", "info", "warn", "error", "fatal", "silent"}
KnowsLevel == HasForm(AppConfig(env).logLevel, LogLevels)
CreateModules ==
    /\ phase = "creating"
    /\ \/ (\E v \in Needs : Missing(v)) /\ Refuse("omitted")
       \/ ~KnowsLevel /\ Refuse("logger")
       \/ KnowsLevel /\ (\A v \in Needs : ~Missing(v)) /\ SetUp("modules", "cookies")

RegisterCookies ==
    /\ phase = "cookies"
    /\ IF Missing(AuthConfig(env).authSecret) THEN Refuse("omitted")
       ELSE SetUp("cookies", "pipes")
UsePipes == phase = "pipes" /\ SetUp("pipes", "cors")

NodeEnv == AppConfig(env).nodeEnv.form
IsDevelopmentOnly == NodeEnv = "development"   \* Mutant: local left out
IsDevelopment == NodeEnv \in {"local", "development"}
AnyOrigin == Bool(TRUE)
Studio == Origin("https", "studio.apollographql.com", "none")
\* The origins CORS lets in. In a list of origins "*" is an origin like any
\* other, and true lets every origin in.
CorsOrigins ==
    LET configured == AppConfig(env).corsOrigin IN
    IF IsDevelopment THEN AnyOrigin
    ELSE IF configured.type = "origins"
    THEN OriginList({Studio} \cup configured.origins)
    ELSE IF configured = AnyOrigin THEN AnyOrigin
    ELSE OriginList({Studio})
EnableCors == phase = "cors" /\ SetUp("cors", "docs")

ServesDocs == NodeEnv # "production"
SetUpDocs ==
    /\ phase = "docs"
    /\ IF ~ServesDocs THEN GoTo("sentry") /\ UNCHANGED done
       ELSE IF Missing(AppConfig(env).name) THEN Refuse("omitted")
       ELSE SetUp("docs", "sentry")

InitSentry ==
    /\ phase = "sentry"
    /\ IF Missing(SentryConfig(env).dsn) THEN Refuse("omitted") ELSE SetUp("sentry", "hooks")
\* Graceful shutdown unless local, the WebSocket adapter unless a worker, and
\* the onRequest hook.
AddHooks ==
    /\ phase = "hooks"
    /\ done' = done \cup {"hook"} \cup (IF NodeEnv # "local" THEN {"graceful"} ELSE {})
                    \cup (IF IsWorker THEN {} ELSE {"websocket"})
    /\ GoTo("connecting")

\* listen first initialises the modules, among them PrismaService, which
\* connects; then it opens the port.
\* Mutant: arguments swapped.
ConnectSwapped ==
    /\ phase = "connecting"
    /\ IF database = "up" THEN SetUp("binding", "database") ELSE Refuse("database")
Connect ==
    /\ phase = "connecting"
    /\ IF database = "up" THEN SetUp("database", "binding") ELSE Refuse("database")
ListenPort == IF IsWorker THEN AppConfig(env).workerPort ELSE AppConfig(env).port
IsPort(v) == v.type = "number" /\ v.whole /\ 0 <= v.num /\ v.num <= 65535
Bind ==
    /\ phase = "binding"
    /\ IF IsPort(ListenPort) THEN GoTo("listening") /\ UNCHANGED done ELSE Refuse("port")

ServerStep == \/ LoadNamespace \/ NamespacesLoaded \/ CreateModules \/ RegisterCookies
              \/ UsePipes \/ EnableCors \/ SetUpDocs \/ InitSentry \/ AddHooks \/ Connect \/ Bind
NoRestart == FALSE   \* Mutant: no restart policy
\* The rejected promise of bootstrap() ends the process; restart: unless-stopped.
\* Once Sentry is set up for an address, it takes the rejection: the process
\* stays, with nothing opened, and is not started again.
KeptAlive == "sentry" \in done /\ HasForm(SentryConfig(env).dsn, {"url"})
Restart ==
    /\ phase = "refused" /\ ~KeptAlive
    /\ phase' = "loading" /\ loaded' = 0 /\ done' = {} /\ cause' = "none"
    /\ UNCHANGED <<env, database>>
DatabaseTurns ==
    /\ database' = IF database = "up" THEN "away" ELSE "up"
    /\ UNCHANGED <<env, phase, loaded, done, cause>>
Next == ServerStep \/ Restart \/ DatabaseTurns
FairSpec == Init /\ [][Next]_vars /\ WF_vars(ServerStep) /\ WF_vars(Restart)

-----------------------------------------------------------------------------
\* How the parts of a running server read the environment on their own.

\* better-auth has a pool of its own, at DIRECT_URL or put together.
AuthDatabase ==
    IF ~IsFalsy(Prop(env, "DIRECT_URL")) THEN UrlAddress(Prop(env, "DIRECT_URL"))
    ELSE LET c == DatabaseConfig(env)
         IN PartsOfAddress(c.username, c.password, c.host, c.port, c.name)
\* GraphQL looks at NODE_ENV itself.
GraphqlIsDevelopment == HasForm(Prop(env, "NODE_ENV"), {"development", "local"})
I18nLogs == NodeEnv \in {"local", "development"}
-----------------------------------------------------------------------------
TypeOK ==
    /\ database \in {"up", "away"}
    /\ phase \in Phases /\ loaded \in 0 .. Len(Namespaces)
    /\ done \subseteq {"modules", "cookies", "pipes", "cors", "docs", "sentry", "hook", "graceful",
                       "websocket", "database"}
    /\ cause \in {"none", "invalid", "omitted", "logger", "database", "port"}

\* An environment every validator accepts starts, up to the database: it is
\* refused only for REDIS_PASSWORD or SENTRY_DSN, marked optional and needed all
\* the same, for a log level that is any text to its validator, or for a port
\* that was checked as another number or not at all.
EverythingValid == \A i \in DOMAIN Namespaces : validateConfig(env, Rules(Namespaces[i], env))
ValidatedIsEnough ==
    phase = "refused" /\ cause # "database" /\ EverythingValid =>
        \/ \E n \in {"REDIS_PASSWORD", "SENTRY_DSN"} : n \notin DOMAIN env
        \/ ~IsFalsy(Prop(env, "APP_LOG_LEVEL")) /\ ~HasForm(env.APP_LOG_LEVEL, LogLevels)
        \/ IsWorker /\ ~IsPort(ParseInt(Prop(env, "APP_WORKER_PORT")))
        \/ ~IsWorker /\ ParseInt(Prop(env, "APP_PORT")) # ToNumber(Prop(env, "APP_PORT"))

\* A running process computes with a number that is none only for a variable left
\* out or empty that has no default, for a text that Number reads and parseInt does
\* not, or for a variable that is not validated.
SettingsRead ==
    [REDIS_PORT |-> RedisConfig(env).port, MAIL_PORT |-> MailConfig(env).port,
     THROTTLER_LIMIT |-> ThrottlerConfig(env).limit, THROTTLER_TTL |-> ThrottlerConfig(env).ttl,
     QUEUE_FAILED_RETRY_ATTEMPTS |-> QueueConfig(env).attempts,
     DATABASE_PORT |-> DatabaseConfig(env).port]
ReadByNumberOnly(v) == ~IsFalsy(v) /\ ParseInt(v) = NaN /\ ToNumber(v) # NaN
NumbersHaveACause ==
    phase = "listening" =>
        \A n \in DOMAIN SettingsRead : SettingsRead[n] = NaN =>
            \/ IsFalsy(Prop(env, n)) /\ n \in {"REDIS_PORT", "THROTTLER_LIMIT", "THROTTLER_TTL"}
            \/ ReadByNumberOnly(Prop(env, n))
            \/ n = "QUEUE_FAILED_RETRY_ATTEMPTS"
            \/ n = "DATABASE_PORT" /\ "DATABASE_URL" \in DOMAIN env

\* Prisma and better-auth use one database when it is given by its parts and
\* the port is written in digits.
SamePort(text, number) == HasForm(text, {"numeral"}) /\ text.num = number.num
OneDatabase ==
    phase = "listening" /\ ~IsWorker
      /\ {"DATABASE_URL", "DIRECT_URL"} \cap DOMAIN env = {}
      /\ HasForm(Prop(env, "DATABASE_PORT"), {"numeral"}) =>
        LET prisma == PrismaConfig(env).url IN
        /\ SamePort(prisma.port, AuthDatabase.port)
        /\ \A p \in {"url", "username", "password", "host", "name"} : prisma[p] = AuthDatabase[p]

\* Outside development the server lets in every origin it was configured with
\* and, of any others, the studio and the aliases of those: the loopback address
\* for what begins with http://localhost, and www for https.
AliasOf(o, p) ==
    /\ o.scheme = p.scheme /\ o.rest = p.rest
    /\ o.host = p.host \/ (<<p.scheme, p.host>> = <<"http", "localhost">> /\ o.host = "127.0.0.1")
    /\ o.www => p.scheme = "https"
ConfiguredOrigins ==
    phase = "listening" /\ ~IsDevelopment
      /\ HasForm(Prop(env, "APP_CORS_ORIGIN"), {"origins"}) =>
        LET given == env.APP_CORS_ORIGIN.origins
            allowed == CorsOrigins.origins
        IN /\ given \subseteq allowed
           /\ \A o \in allowed : o = Studio \/ \E p \in given : AliasOf(o, p)
           /\ \A p \in given : p.scheme = "https" => WwwAlias(p) \in allowed

\* The parts of a running server agree on being in development, unless NODE_ENV
\* is not set: then CORS is open while GraphQL hides its errors.
ModesAgree ==
    phase = "listening" /\ ~IsWorker /\ "NODE_ENV" \in DOMAIN env =>
        /\ GraphqlIsDevelopment = IsDevelopment /\ I18nLogs = IsDevelopment
        /\ IsDevelopment => "docs" \in done

\* A process started as .env.example says comes up, however often the database
\* is away at first: every refused start is tried again.
CompleteEnvironmentBoots ==
    (env \in Complete) /\ <>[](database = "up") => <>(phase = "listening")
=============================================================================
