----------------------------- MODULE EnvConfig -----------------------------
(***************************************************************************)
(* The configuration namespaces of src/config: the validator class of each *)
(* (validateConfig converts a variable to its declared type first) and the *)
(* values its getConfig reads, with parseInt, from the same variables.     *)
(* An environment is a function from the names that are set to texts.      *)
(***************************************************************************)
EXTENDS Fields

Word(w) == Text(w, 4)
\* A text that Number and parseInt read differently, as "3e3" does.
Written(num, lead) == [type |-> "string", form |-> "odd", len |-> 3, num |-> num, lead |-> lead]
\* A text with a number in front that Number does not read, as "30s".
Measure(lead) == [type |-> "string", form |-> "odd", len |-> 3, lead |-> lead]
\* Texts that only Number reads: ".5", and " ", which it takes for 0.
PointFive == [type |-> "string", form |-> "odd", len |-> 2, half |-> 0]
Blank == [type |-> "string", form |-> "spaced", len |-> 1, num |-> 0]
\* Of an address the host is what it begins with, "localhost" wherever it does,
\* and rest what follows: nothing, a port, or more of the name.
Origin(scheme, host, rest) == [scheme |-> scheme, host |-> host, rest |-> rest, www |-> FALSE]
Origins(s) == [type |-> "string", form |-> "origins", len |-> 9, origins |-> s]
\* The texts that an environment is made of.
IsText(v) ==
    /\ v.type = "string"
    /\ \A f \in {"num", "half", "lead"} \cap DOMAIN v : v[f] \in Int
    /\ v.form = "numeral" => "num" \in DOMAIN v /\ "lead" \notin DOMAIN v
    /\ v.form = "empty" => v = Empty
    /\ v.form = "origins" => \A o \in v.origins : o = Origin(o.scheme, o.host, o.rest)

ParseInt(v) == IF "lead" \in DOMAIN v THEN Number(v.lead)
               ELSE IF HasForm(v, {"numeral"}) THEN Number(v.num) ELSE NaN
IntOrNaN(v, default) == ParseInt(v)   \* Mutant: no default
IntOr(v, default) == IF IsFalsy(v) THEN Number(default) ELSE ParseInt(v)
Seconds(v) == IF v = NaN THEN NaN ELSE [v EXCEPT !.num = 1000 * @]
KebabCase(v) == IF IsFalsy(v) \/ v = Blank THEN Empty ELSE Word("kebab")
Flag(v) == HasForm(v, {"true"})
OrElse(v, default) == IF IsFalsy(v) THEN default ELSE v

-----------------------------------------------------------------------------
\* Validator classes: a rule for each variable that is checked.
TextVar == Field("String", "none", {Check("isString", 0, FALSE)})
NonEmptyVar == And(TextVar, {Check("isNotEmpty", 0, FALSE)})
FlagVar == Field("Boolean", "none", {Check("isBoolean", 0, FALSE)})
NumberVar == Field("Number", "none", {Check("isNumber", 0, FALSE)})
PortVar == Field("Number", "none", {Check("isInt", 0, FALSE), Check("min", 0, FALSE),
                                    Check("max", 65535, FALSE)})
Vars(names, field) == [n \in names |-> field]

Environments == {"local", "development", "staging", "production", "test"}
LogServices == {"console", "google-logging", "aws-cloudwatch"}
AppRules ==
    [NODE_ENV |-> Optional(Field("none", "none", {Check("isEnum", Environments, FALSE)})),
     APP_NAME |-> NonEmptyVar,
     APP_URL  |-> Optional(Field("String", "none", {Check("isLooseUrl", 0, FALSE)})),
     APP_PORT |-> And(PortVar, {Check("isNotEmpty", 0, FALSE)}),
     PORT     |-> Optional(PortVar),
     APP_LOG_SERVICE |-> Optional(And(TextVar, {Check("isEnum", LogServices, FALSE)})),
     APP_CORS_ORIGIN |-> Optional(And(TextVar, {Check("isOrigins", 0, FALSE)}))]
    ++ Vars({"IS_HTTPS", "IS_WORKER", "APP_DEBUG", "APP_LOGGING", "APP_LOCAL_FILE_UPLOAD"},
            Optional(FlagVar))
    ++ Vars({"APP_FALLBACK_LANGUAGE", "APP_LOG_LEVEL"}, Optional(TextVar))
RedisRules ==
    [REDIS_HOST |-> NonEmptyVar, REDIS_PORT |-> Optional(PortVar)]
    ++ Vars({"REDIS_TLS", "REDIS_REJECT_UNAUTHORIZED"}, Optional(FlagVar))
    ++ Vars({"REDIS_PASSWORD", "REDIS_CA", "REDIS_KEY", "REDIS_CERT"}, Optional(TextVar))
AuthRules ==
    Vars({"AUTH_SECRET", "BASIC_AUTH_PASSWORD", "GITHUB_CLIENT_ID"}, NonEmptyVar)
    ++ Vars({"BASIC_AUTH_USERNAME", "GITHUB_CLIENT_SECRET"}, Optional(TextVar))
MailRules ==
    [MAIL_HOST |-> NonEmptyVar, MAIL_PORT |-> Optional(PortVar), MAIL_DEFAULT_NAME |-> TextVar,
     MAIL_DEFAULT_EMAIL |-> Field("String", "none", {Check("isEmail", 0, FALSE)})]
    ++ Vars({"MAIL_USER", "MAIL_PASSWORD"}, Optional(TextVar))
    ++ Vars({"MAIL_IGNORE_TLS", "MAIL_SECURE", "MAIL_REQUIRE_TLS"}, FlagVar)
QueueRules == [QUEUE_REMOVE_ON_COMPLETE |-> Optional(FlagVar),
               RETRY_ATTEMPTS_ON_FAIL |-> Optional(NumberVar)] ++ RedisRules
SentryRules == [SENTRY_DSN |-> Optional(TextVar), SENTRY_LOGGING |-> Optional(FlagVar)]
ThrottlerRules == [THROTTLER_ENABLED |-> Optional(FlagVar)]
                  ++ Vars({"THROTTLER_LIMIT", "THROTTLER_TTL"}, Optional(NumberVar))
AwsRules == Vars({"AWS_REGION", "AWS_KEY", "AWS_SECRET", "AWS_S3_BUCKET"}, Optional(TextVar))
GrafanaRules == Vars({"GRAFANA_USERNAME", "GRAFANA_PASSWORD"}, NonEmptyVar)
\* With a URL the parts of the address are not checked, without one they are.
UrlRules == [DATABASE_LOGGING |-> Optional(FlagVar), DATABASE_URL |-> TextVar]
PartsRules ==
    [DATABASE_LOGGING |-> Optional(FlagVar), DATABASE_PORT |-> PortVar]
    ++ Vars({"DATABASE_HOST", "DATABASE_PASSWORD", "DATABASE_NAME", "DATABASE_USERNAME"}, TextVar)
PrismaRules(env) == IF ~IsFalsy(Prop(env, "DATABASE_URL")) THEN UrlRules ELSE PartsRules
NoRules == [n \in {} |-> TextVar]
\* The namespaces in the order they are loaded; prisma comes with its module.
Namespaces == <<"app", "redis", "auth", "mail", "queue", "sentry", "throttler", "aws",
                "grafana", "database", "tiktok", "prisma">>
Rules(ns, env) ==
    CASE ns = "app" -> AppRules [] ns = "redis" -> RedisRules [] ns = "auth" -> AuthRules
      [] ns = "mail" -> MailRules [] ns = "queue" -> QueueRules
      [] ns = "sentry" -> SentryRules [] ns = "throttler" -> ThrottlerRules
      [] ns = "aws" -> AwsRules [] ns = "grafana" -> GrafanaRules
      [] ns = "prisma" -> PrismaRules(env) [] OTHER -> NoRules

validateConfig(env, rules) == \A n \in DOMAIN rules : Accepts(rules[n], Prop(env, n))

-----------------------------------------------------------------------------
\* getCorsOrigin: the aliases of what begins with http://localhost and, of https
\* origins, of www are added to the origins themselves. Their order tells
\* nothing apart.
LoopbackAlias(o) == [o EXCEPT !.host = "127.0.0.1"]
WwwAlias(o) == [o EXCEPT !.www = TRUE]
IsLocalhost(o) == o.scheme = "http" /\ o.host = "localhost"
IsWeb(o) == o.scheme # "none"   \* Mutant: http origins too
IsHttps(o) == o.scheme = "https"
WithLoopback(origins) == origins \cup {LoopbackAlias(o) : o \in {p \in origins : IsLocalhost(p)}}
WithWww(origins) == origins \cup {WwwAlias(o) : o \in {p \in origins : IsHttps(p)}}
OriginList(origins) == [type |-> "origins", origins |-> origins]
getCorsOrigin(v) ==
    IF Flag(v) THEN Bool(TRUE)
    ELSE IF HasForm(v, {"*"}) THEN v
    ELSE IF IsFalsy(v) \/ HasForm(v, {"false"}) THEN Bool(FALSE)
    ELSE OriginList(WithWww(WithLoopback(
           IF HasForm(v, {"origins"}) THEN v.origins ELSE {Origin("none", v.form, "none")})))

FlagOf(env, n) == Bool(Flag(Prop(env, n)))
AppConfig(env) ==
    [nodeEnv |-> OrElse(Prop(env, "NODE_ENV"), Word("development")),
     isHttps |-> FlagOf(env, "IS_HTTPS"), isWorker |-> FlagOf(env, "IS_WORKER"),
     name |-> Prop(env, "APP_NAME"), appPrefix |-> KebabCase(Prop(env, "APP_NAME")),
     url |-> OrElse(Prop(env, "APP_URL"), Word("url")),
     port |-> ParseInt(Prop(env, "APP_PORT")),
     workerPort |-> ParseInt(Prop(env, "APP_WORKER_PORT")),
     debug |-> FlagOf(env, "APP_DEBUG"),
     fallbackLanguage |-> OrElse(Prop(env, "APP_FALLBACK_LANGUAGE"), Word("en")),
     appLogging |-> FlagOf(env, "APP_LOGGING"),
     logLevel |-> OrElse(Prop(env, "APP_LOG_LEVEL"), Word("warn")),
     logService |-> OrElse(Prop(env, "APP_LOG_SERVICE"), Word("console")),
     corsOrigin |-> getCorsOrigin(Prop(env, "APP_CORS_ORIGIN")),
     localFileUpload |-> FlagOf(env, "APP_LOCAL_FILE_UPLOAD")]
RedisConfig(env) ==
    [host |-> Prop(env, "REDIS_HOST"), password |-> Prop(env, "REDIS_PASSWORD"),
     port |-> ParseInt(Prop(env, "REDIS_PORT")),
     tls |-> IF ~Flag(Prop(env, "REDIS_TLS")) THEN Undefined
             ELSE Object([ca |-> Prop(env, "REDIS_CA"), key |-> Prop(env, "REDIS_KEY"),
                          cert |-> Prop(env, "REDIS_CERT"),
                          rejectUnauthorized |-> FlagOf(env, "REDIS_REJECT_UNAUTHORIZED")])]
AuthConfig(env) ==
    [authSecret |-> Prop(env, "AUTH_SECRET"), username |-> Prop(env, "BASIC_AUTH_USERNAME"),
     password |-> Prop(env, "BASIC_AUTH_PASSWORD"), clientId |-> Prop(env, "GITHUB_CLIENT_ID"),
     clientSecret |-> Prop(env, "GITHUB_CLIENT_SECRET")]
MailConfig(env) ==
    [host |-> Prop(env, "MAIL_HOST"), port |-> IntOr(Prop(env, "MAIL_PORT"), 587),
     user |-> Prop(env, "MAIL_USER"), password |-> Prop(env, "MAIL_PASSWORD"),
     defaultEmail |-> Prop(env, "MAIL_DEFAULT_EMAIL"), defaultName |-> Prop(env, "MAIL_DEFAULT_NAME"),
     ignoreTLS |-> FlagOf(env, "MAIL_IGNORE_TLS"), secure |-> FlagOf(env, "MAIL_SECURE"),
     requireTLS |-> FlagOf(env, "MAIL_REQUIRE_TLS")]
\* The attempts are read from another variable than the one that is checked.
QueueConfig(env) ==
    [prefix |-> AppConfig(env).appPrefix, redis |-> Object(RedisConfig(env)),
     attempts |-> IntOr(Prop(env, "QUEUE_FAILED_RETRY_ATTEMPTS"), 0),
     removeOnComplete |-> FlagOf(env, "QUEUE_REMOVE_ON_COMPLETE"),
     removeOnFail |-> FlagOf(env, "QUEUE_REMOVE_ON_FAIL")]
SentryConfig(env) == [dsn |-> Prop(env, "SENTRY_DSN"), logging |-> FlagOf(env, "SENTRY_LOGGING")]
ThrottlerConfig(env) ==
    [enabled |-> FlagOf(env, "THROTTLER_ENABLED"), limit |-> ParseInt(Prop(env, "THROTTLER_LIMIT")),
     ttl |-> IF Flag(Prop(env, "THROTTLER_ENABLED"))
             THEN Seconds(ParseInt(Prop(env, "THROTTLER_TTL"))) ELSE Number(0)]
AwsConfig(env) == [region |-> Prop(env, "AWS_REGION"), accessKey |-> Prop(env, "AWS_KEY"),
                   secretKey |-> Prop(env, "AWS_SECRET"), bucket |-> Prop(env, "AWS_S3_BUCKET")]
GrafanaConfig(env) == [username |-> Prop(env, "GRAFANA_USERNAME"),
                       password |-> Prop(env, "GRAFANA_PASSWORD")]
\* Mutant: user name and database name swapped.
DatabaseConfigSwapped(env) ==
    [url |-> Prop(env, "DATABASE_URL"), logging |-> FlagOf(env, "DATABASE_LOGGING"),
     host |-> Prop(env, "DATABASE_HOST"), port |-> IntOr(Prop(env, "DATABASE_PORT"), 5432),
     name |-> Prop(env, "DATABASE_USERNAME"), username |-> Prop(env, "DATABASE_NAME"),
     password |-> Prop(env, "DATABASE_PASSWORD")]
DatabaseConfig(env) ==
    [url |-> Prop(env, "DATABASE_URL"), logging |-> FlagOf(env, "DATABASE_LOGGING"),
     host |-> Prop(env, "DATABASE_HOST"), port |-> IntOr(Prop(env, "DATABASE_PORT"), 5432),
     name |-> Prop(env, "DATABASE_NAME"), username |-> Prop(env, "DATABASE_USERNAME"),
     password |-> Prop(env, "DATABASE_PASSWORD")]
TikTokDefaults ==
    [clientId |-> "TIKTOK_CLIENT_ID", clientSecret |-> "TIKTOK_CLIENT_SECRET",
     apiBaseUrl |-> "TIKTOK_API_BASE_URL", authBaseUrl |-> "TIKTOK_AUTH_BASE_URL",
     oauthBaseUrl |-> "TIKTOK_OAUTH_BASE_URL", apiVersion |-> "TIKTOK_API_VERSION"]
TikTokConfig(env) ==
    [k \in DOMAIN TikTokDefaults |->
        OrElse(Prop(env, TikTokDefaults[k]),
               IF k \in {"clientId", "clientSecret"} THEN Empty ELSE Word("url"))]
\* An address of the database: a URL of its own, or one put together.
PartsOfAddress(username, password, host, port, name) ==
    [url |-> Undefined, username |-> username, password |-> password, host |-> host,
     port |-> port, name |-> name]
UrlAddress(url) == [PartsOfAddress(Undefined, Undefined, Undefined, Undefined, Undefined)
                    EXCEPT !.url = url]
PrismaConfig(env) ==
    [url |-> IF ~IsFalsy(Prop(env, "DATABASE_URL")) THEN UrlAddress(Prop(env, "DATABASE_URL"))
             ELSE PartsOfAddress(Prop(env, "DATABASE_USERNAME"), Prop(env, "DATABASE_PASSWORD"),
                    Prop(env, "DATABASE_HOST"), Prop(env, "DATABASE_PORT"),
                    Prop(env, "DATABASE_NAME")),
     logging |-> FlagOf(env, "DATABASE_LOGGING")]
=============================================================================
