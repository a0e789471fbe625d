-------------------------- MODULE Bootstrap_proofs --------------------------
(* Proofs about Bootstrap, for any set of environments. *)
EXTENDS Bootstrap, TLAPS

Valid(i) == validateConfig(env, Rules(Namespaces[i], env))

(* The phases in which every namespace is loaded, and those after the docs. *)
PastDocs == {"sentry", "hooks", "connecting", "binding", "listening"}
Starting == {"creating", "cookies", "pipes", "cors", "docs"} \cup PastDocs

(* What one of the steps of a start asks for is not there. *)
SomethingOmitted ==
    \/ \E v \in Needs : Missing(v)
    \/ Missing(AuthConfig(env).authSecret)
    \/ Missing(AppConfig(env).name)
    \/ Missing(SentryConfig(env).dsn)

(* A start is refused for what its cause says. *)
RefusedFor ==
    \/ cause = "invalid" /\ ~EverythingValid
    \/ cause = "omitted" /\ SomethingOmitted
    \/ cause = "logger" /\ ~KnowsLevel
    \/ cause = "database"
    \/ cause = "port" /\ ~IsPort(ListenPort)

IInv ==
    /\ TypeOK
    /\ env \in EnvironmentsTried
    /\ \A i \in 1 .. loaded : Valid(i)
    /\ phase \in Starting => loaded = Len(Namespaces)
    /\ phase \in PastDocs /\ ServesDocs => "docs" \in done
    /\ phase = "refused" => RefusedFor

-----------------------------------------------------------------------------
LEMMA Twelve == Len(Namespaces) = 12 /\ DOMAIN Namespaces = 1 .. 12
BY DEF Namespaces

(* The environment is the same at every start, and all that is read of it. *)
LEMMA SameEnvironment ==
    ASSUME env' = env
    PROVE  /\ EverythingValid' <=> EverythingValid
           /\ SomethingOmitted' <=> SomethingOmitted
           /\ KnowsLevel' <=> KnowsLevel
           /\ IsPort(ListenPort)' <=> IsPort(ListenPort)
           /\ ServesDocs' <=> ServesDocs
           /\ \A i : Valid(i)' <=> Valid(i)
<1>1. IsWorker' <=> IsWorker
  BY DEF IsWorker
<1>2. ServesDocs' <=> ServesDocs
  BY DEF ServesDocs, NodeEnv
<1>3. EverythingValid' <=> EverythingValid
  BY DEF EverythingValid
<1>4. \A i : Valid(i)' <=> Valid(i)
  BY DEF Valid
<1>5. ListenPort' = ListenPort
  BY <1>1 DEF ListenPort
<1>6. Needs' = Needs
  BY <1>1 DEF Needs, Redis, ServerNeeds
<1>7. SomethingOmitted' <=> SomethingOmitted
  BY <1>6 DEF SomethingOmitted, Missing
<1>8. KnowsLevel' <=> KnowsLevel
  BY DEF KnowsLevel
<1> QED
  BY <1>2, <1>3, <1>4, <1>5, <1>7, <1>8

(* A step that goes on to another phase. *)
LEMMA GoesOn ==
    ASSUME IInv, NEW p \in Phases \ {"loading", "refused"}, GoTo(p),
           phase \in Starting \/ loaded = Len(Namespaces),
           done \subseteq done', done' \subseteq done \cup
             {"modules", "cookies", "pipes", "cors", "docs", "sentry", "hook", "graceful",
              "websocket", "database"},
           p \in PastDocs /\ ServesDocs => phase \in PastDocs \/ "docs" \in done'
    PROVE  IInv'
<1>1. UNCHANGED <<env, database, loaded, cause>> /\ phase' = p
  BY DEF GoTo
<1>2. TypeOK'
  BY <1>1 DEF IInv, TypeOK
<1>3. \A i \in 1 .. loaded' : Valid(i)'
  BY <1>1, SameEnvironment DEF IInv
<1>4. loaded' = Len(Namespaces)
  BY <1>1 DEF IInv
<1>5. phase' \in PastDocs /\ ServesDocs' => "docs" \in done'
  BY <1>1, SameEnvironment DEF IInv
<1> QED
  BY <1>1, <1>2, <1>3, <1>4, <1>5 DEF IInv

(* A start that is refused. *)
LEMMA RefusalKeeps ==
    ASSUME IInv, NEW why \in {"invalid", "omitted", "logger", "database", "port"}, Refuse(why),
           why = "invalid" => ~EverythingValid,
           why = "omitted" => SomethingOmitted,
           why = "logger" => ~KnowsLevel,
           why = "port" => ~IsPort(ListenPort)
    PROVE  IInv'
<1>1. UNCHANGED <<env, database, loaded, done>> /\ phase' = "refused" /\ cause' = why
  BY DEF Refuse
<1>2. TypeOK'
  BY <1>1 DEF IInv, TypeOK, Phases
<1>3. \A i \in 1 .. loaded' : Valid(i)'
  BY <1>1, SameEnvironment DEF IInv
<1>4. RefusedFor'
  BY <1>1, SameEnvironment DEF RefusedFor
<1> QED
  BY <1>1, <1>2, <1>3, <1>4 DEF IInv, Starting, PastDocs

LEMMA LoadNamespaceKeeps ==
    ASSUME IInv, LoadNamespace
    PROVE  IInv'
<1>1. loaded \in 0 .. 11 /\ phase = "loading"
  BY Twelve DEF IInv, TypeOK, LoadNamespace
<1>2. CASE Valid(loaded + 1)
  <2>1. loaded' = loaded + 1 /\ UNCHANGED <<env, database, phase, done, cause>>
    BY <1>2 DEF LoadNamespace, Valid
  <2>2. TypeOK'
    BY <1>1, <2>1, Twelve DEF IInv, TypeOK
  <2>3. \A i \in 1 .. loaded' : Valid(i)
    BY <1>1, <1>2, <2>1 DEF IInv
  <2>4. \A i \in 1 .. loaded' : Valid(i)'
    BY <2>1, <2>3, SameEnvironment
  <2> QED
    BY <1>1, <2>1, <2>2, <2>4 DEF IInv, Starting, PastDocs
<1>3. CASE ~Valid(loaded + 1)
  <2>1. Refuse("invalid")
    BY <1>3 DEF LoadNamespace, Valid
  <2>2. ~EverythingValid
    BY <1>1, <1>3, Twelve DEF EverythingValid, Valid
  <2> QED
    BY <2>1, <2>2, RefusalKeeps
<1> QED
  BY <1>2, <1>3

LEMMA NamespacesLoadedKeeps ==
    ASSUME IInv, NamespacesLoaded
    PROVE  IInv'
<1>1. phase = "loading" /\ loaded = Len(Namespaces) /\ GoTo("creating") /\ done' = done
  BY DEF NamespacesLoaded
<1> QED
  BY <1>1, GoesOn DEF Phases, PastDocs

(* A step that sets one thing up on the application and goes on. *)
LEMMA OneMoreDone ==
    ASSUME IInv,
           NEW what \in {"modules", "cookies", "pipes", "cors", "docs", "sentry", "database"},
           NEW p \in Phases \ {"loading", "refused"}, SetUp(what, p), phase \in Starting,
           p \in PastDocs => phase \in PastDocs \/ what = "docs"
    PROVE  IInv'
<1>1. GoTo(p) /\ done' = done \cup {what}
  BY DEF SetUp
<1>2. p \in PastDocs /\ ServesDocs => phase \in PastDocs \/ "docs" \in done'
  BY <1>1
<1>3. done \subseteq done' /\ done' \subseteq done \cup
        {"modules", "cookies", "pipes", "cors", "docs", "sentry", "hook", "graceful",
         "websocket", "database"}
  BY <1>1
<1> HIDE DEF GoTo
<1> QED
  BY <1>1, <1>2, <1>3, GoesOn

LEMMA SetUpKeeps ==
    ASSUME IInv,
           \/ CreateModules \/ RegisterCookies \/ UsePipes \/ EnableCors \/ SetUpDocs
           \/ InitSentry \/ AddHooks
    PROVE  IInv'
<1>1. CASE CreateModules
  <2>1. CASE Refuse("omitted") /\ \E v \in Needs : Missing(v)
    BY <2>1, RefusalKeeps DEF SomethingOmitted
  <2>2. CASE Refuse("logger") /\ ~KnowsLevel
    BY <2>2, RefusalKeeps
  <2>3. CASE SetUp("modules", "cookies")
    BY <1>1, <2>3, OneMoreDone DEF CreateModules, Phases, Starting, PastDocs
  <2> QED
    BY <1>1, <2>1, <2>2, <2>3 DEF CreateModules
<1>2. CASE RegisterCookies
  <2>1. CASE Refuse("omitted") /\ Missing(AuthConfig(env).authSecret)
    BY <2>1, RefusalKeeps DEF SomethingOmitted
  <2>2. CASE SetUp("cookies", "pipes")
    BY <1>2, <2>2, OneMoreDone DEF RegisterCookies, Phases, Starting, PastDocs
  <2> QED
    BY <1>2, <2>1, <2>2 DEF RegisterCookies
<1>3. CASE UsePipes
  BY <1>3, OneMoreDone DEF UsePipes, Phases, Starting, PastDocs
<1>4. CASE EnableCors
  BY <1>4, OneMoreDone DEF EnableCors, Phases, Starting, PastDocs
<1>5. CASE SetUpDocs
  <2>1. CASE GoTo("sentry") /\ done' = done /\ ~ServesDocs
    <3>1. phase \in Starting /\ "sentry" \in Phases \ {"loading", "refused"}
      BY <1>5 DEF SetUpDocs, Starting, Phases
    <3>2. done \subseteq done' /\ done' \subseteq done \cup
            {"modules", "cookies", "pipes", "cors", "docs", "sentry", "hook", "graceful",
             "websocket", "database"}
      BY <2>1
    <3>3. "sentry" \in PastDocs /\ ServesDocs => phase \in PastDocs \/ "docs" \in done'
      BY <2>1
    <3>4. GoTo("sentry")
      BY <2>1
    <3> HIDE DEF GoTo
    <3> QED
      BY <3>1, <3>2, <3>3, <3>4, GoesOn
  <2>2. CASE Refuse("omitted") /\ Missing(AppConfig(env).name)
    BY <2>2, RefusalKeeps DEF SomethingOmitted
  <2>3. CASE SetUp("docs", "sentry")
    BY <1>5, <2>3, OneMoreDone DEF SetUpDocs, Phases, Starting, PastDocs
  <2> QED
    BY <1>5, <2>1, <2>2, <2>3 DEF SetUpDocs
<1>6. CASE InitSentry
  <2>1. CASE Refuse("omitted") /\ Missing(SentryConfig(env).dsn)
    BY <2>1, RefusalKeeps DEF SomethingOmitted
  <2>2. CASE SetUp("sentry", "hooks")
    BY <1>6, <2>2, OneMoreDone DEF InitSentry, Phases, Starting, PastDocs
  <2> QED
    BY <1>6, <2>1, <2>2 DEF InitSentry
<1>7. CASE AddHooks
  BY <1>7, GoesOn DEF AddHooks, Phases, Starting, PastDocs
<1> QED
  BY <1>1, <1>2, <1>3, <1>4, <1>5, <1>6, <1>7

LEMMA ListenKeeps ==
    ASSUME IInv, Connect \/ Bind
    PROVE  IInv'
<1>1. CASE Connect
  <2>1. CASE Refuse("database")
    BY <2>1, RefusalKeeps
  <2>2. CASE SetUp("database", "binding")
    BY <1>1, <2>2, OneMoreDone DEF Connect, Phases, Starting, PastDocs
  <2> QED
    BY <1>1, <2>1, <2>2 DEF Connect
<1>2. CASE Bind
  <2>1. CASE Refuse("port") /\ ~IsPort(ListenPort)
    BY <2>1, RefusalKeeps
  <2>2. CASE GoTo("listening") /\ done' = done
    BY <1>2, <2>2, GoesOn DEF Bind, Phases, Starting, PastDocs
  <2> QED
    BY <1>2, <2>1, <2>2 DEF Bind
<1> QED
  BY <1>1, <1>2

LEMMA RestartKeeps ==
    ASSUME IInv, Restart
    PROVE  IInv'
<1>1. /\ UNCHANGED <<env, database>> /\ phase' = "loading" /\ loaded' = 0 /\ done' = {}
      /\ cause' = "none"
  BY DEF Restart
<1>2. TypeOK'
  BY <1>1, Twelve DEF IInv, TypeOK, Phases
<1>3. 1 .. 0 = {}
  OBVIOUS
<1> QED
  BY <1>1, <1>2, <1>3 DEF IInv, Starting, PastDocs

LEMMA ElsewhereKeeps ==
    ASSUME IInv, DatabaseTurns \/ UNCHANGED vars
    PROVE  IInv'
<1>1. UNCHANGED <<env, phase, loaded, done, cause>> /\ database' \in {"up", "away"}
  BY DEF DatabaseTurns, vars, IInv, TypeOK
<1>2. TypeOK'
  BY <1>1 DEF IInv, TypeOK
<1>3. \A i \in 1 .. loaded' : Valid(i)'
  BY <1>1, SameEnvironment DEF IInv
<1>4. phase' = "refused" => RefusedFor'
  BY <1>1, SameEnvironment DEF IInv, RefusedFor
<1>5. phase' \in PastDocs /\ ServesDocs' => "docs" \in done'
  BY <1>1, SameEnvironment DEF IInv
<1> QED
  BY <1>1, <1>2, <1>3, <1>4, <1>5 DEF IInv

LEMMA InvInit == Init => IInv
<1> SUFFICES ASSUME Init PROVE IInv
  OBVIOUS
<1>1. TypeOK
  BY Twelve DEF Init, TypeOK, Phases
<1>2. 1 .. 0 = {}
  OBVIOUS
<1> QED
  BY <1>1, <1>2 DEF Init, IInv, Starting, PastDocs

LEMMA InvStep == IInv /\ [Next]_vars => IInv'
<1> SUFFICES ASSUME IInv, [Next]_vars PROVE IInv'
  OBVIOUS
<1>1. CASE LoadNamespace
  BY <1>1, LoadNamespaceKeeps
<1>2. CASE NamespacesLoaded
  BY <1>2, NamespacesLoadedKeeps
<1>3. CASE \/ CreateModules \/ RegisterCookies \/ UsePipes \/ EnableCors \/ SetUpDocs
           \/ InitSentry \/ AddHooks
  BY <1>3, SetUpKeeps
<1>4. CASE Connect \/ Bind
  BY <1>4, ListenKeeps
<1>5. CASE Restart
  BY <1>5, RestartKeeps
<1>6. CASE DatabaseTurns \/ UNCHANGED vars
  BY <1>6, ElsewhereKeeps
<1> QED
  BY <1>1, <1>2, <1>3, <1>4, <1>5, <1>6 DEF Next, ServerStep

(* Every state of a behaviour satisfies the invariant. *)
THEOREM Invariance == FairSpec => []IInv
BY InvInit, InvStep, PTL DEF FairSpec

(* Every variable keeps its type. *)
THEOREM TypeCorrect == FairSpec => []TypeOK
<1>1. IInv => TypeOK
  BY DEF IInv
<1> QED
  BY <1>1, Invariance, PTL

-----------------------------------------------------------------------------
(* A variable is not set or has a text. *)
LEMMA SetOrNot ==
    ASSUME IInv, NEW n
    PROVE  \/ n \notin DOMAIN env /\ Prop(env, n) = Undefined
           \/ n \in DOMAIN env /\ Prop(env, n) = env[n] /\ IsText(env[n])
BY BootstrapAssumption DEF IInv, Prop

LEMMA TextIsGiven ==
    ASSUME NEW v, IsText(v)
    PROVE  v.type = "string" /\ v # Undefined /\ ~IsMissing(v)
BY DEF IsText, Undefined, IsMissing

LEMMA Merged ==
    ASSUME NEW f, NEW g
    PROVE  /\ \A x \in DOMAIN f : x \in DOMAIN (f ++ g) /\ (f ++ g)[x] = f[x]
           /\ \A x \in DOMAIN g \ DOMAIN f : x \in DOMAIN (f ++ g) /\ (f ++ g)[x] = g[x]
BY DEF ++

(* What validation says of the variables the properties are about. *)
LEMMA NamespaceValid ==
    ASSUME EverythingValid, NEW i \in 1 .. 12
    PROVE  validateConfig(env, Rules(Namespaces[i], env))
BY Twelve DEF EverythingValid

LEMMA Accepted ==
    ASSUME EverythingValid
    PROVE  /\ Accepts(AppRules.NODE_ENV, Prop(env, "NODE_ENV"))
           /\ Accepts(NonEmptyVar, Prop(env, "APP_NAME"))
           /\ Accepts(And(PortVar, {Check("isNotEmpty", 0, FALSE)}), Prop(env, "APP_PORT"))
           /\ Accepts(NonEmptyVar, Prop(env, "REDIS_HOST"))
           /\ Accepts(Optional(PortVar), Prop(env, "REDIS_PORT"))
           /\ Accepts(NonEmptyVar, Prop(env, "AUTH_SECRET"))
           /\ Accepts(Optional(PortVar), Prop(env, "MAIL_PORT"))
           /\ Accepts(Optional(NumberVar), Prop(env, "THROTTLER_LIMIT"))
           /\ Accepts(Optional(NumberVar), Prop(env, "THROTTLER_TTL"))
           /\ IsFalsy(Prop(env, "DATABASE_URL")) =>
                Accepts(PortVar, Prop(env, "DATABASE_PORT"))
<1>1. /\ Namespaces[1] = "app" /\ Namespaces[2] = "redis" /\ Namespaces[3] = "auth"
      /\ Namespaces[4] = "mail" /\ Namespaces[7] = "throttler" /\ Namespaces[12] = "prisma"
  BY DEF Namespaces
<1>2. /\ Rules("app", env) = AppRules /\ Rules("redis", env) = RedisRules
      /\ Rules("auth", env) = AuthRules /\ Rules("mail", env) = MailRules
      /\ Rules("throttler", env) = ThrottlerRules /\ Rules("prisma", env) = PrismaRules(env)
  BY DEF Rules
<1>3. /\ validateConfig(env, AppRules) /\ validateConfig(env, RedisRules)
      /\ validateConfig(env, AuthRules) /\ validateConfig(env, MailRules)
      /\ validateConfig(env, ThrottlerRules) /\ validateConfig(env, PrismaRules(env))
  BY <1>1, <1>2, NamespaceValid
<1>4. /\ {"NODE_ENV", "APP_NAME", "APP_PORT"} \subseteq DOMAIN AppRules
      /\ AppRules.APP_NAME = NonEmptyVar
      /\ AppRules.APP_PORT = And(PortVar, {Check("isNotEmpty", 0, FALSE)})
  BY Merged DEF AppRules
<1>5. /\ {"REDIS_HOST", "REDIS_PORT"} \subseteq DOMAIN RedisRules
      /\ RedisRules.REDIS_HOST = NonEmptyVar /\ RedisRules.REDIS_PORT = Optional(PortVar)
  BY Merged DEF RedisRules
<1>6. "AUTH_SECRET" \in DOMAIN AuthRules /\ AuthRules.AUTH_SECRET = NonEmptyVar
  BY Merged DEF AuthRules, Vars
<1>7. "MAIL_PORT" \in DOMAIN MailRules /\ MailRules.MAIL_PORT = Optional(PortVar)
  BY Merged DEF MailRules
<1>8. /\ {"THROTTLER_LIMIT", "THROTTLER_TTL"} \subseteq DOMAIN ThrottlerRules
      /\ ThrottlerRules.THROTTLER_LIMIT = Optional(NumberVar)
      /\ ThrottlerRules.THROTTLER_TTL = Optional(NumberVar)
  BY Merged DEF ThrottlerRules, Vars
<1>9. "DATABASE_PORT" \in DOMAIN PartsRules /\ PartsRules.DATABASE_PORT = PortVar
  BY Merged DEF PartsRules
<1>10. IsFalsy(Prop(env, "DATABASE_URL")) => PrismaRules(env) = PartsRules
  BY DEF PrismaRules
<1> QED
  BY <1>3, <1>4, <1>5, <1>6, <1>7, <1>8, <1>9, <1>10 DEF validateConfig

-----------------------------------------------------------------------------
(* The numbers that validation and the program read from a text. *)
LEMMA NumbersRead ==
    ASSUME NEW v, v = Undefined \/ IsText(v)
    PROVE  /\ ParseInt(v) = NaN \/ \E n \in Int : ParseInt(v) = Number(n)
           /\ IsText(v) => \/ ToNumber(v) = NaN
                           \/ \E n \in Int : ToNumber(v) \in {Number(n), Half(n)}
<1>1. /\ "lead" \notin DOMAIN Undefined /\ ~HasForm(Undefined, {"numeral"})
  BY DEF Undefined, HasForm
<1>2. ASSUME IsText(v)
      PROVE  /\ v.type = "string" /\ v.type # "number" /\ v.type # "boolean"
             /\ "num" \in DOMAIN v => v.num \in Int
             /\ "half" \in DOMAIN v => v.half \in Int
             /\ "lead" \in DOMAIN v => v.lead \in Int
             /\ v.form = "numeral" => "num" \in DOMAIN v
  BY <1>2 DEF IsText
<1> DEFINE IsRead == ParseInt(v) = NaN \/ \E n \in Int : ParseInt(v) = Number(n)
<1>3. ASSUME "lead" \in DOMAIN v PROVE IsRead
  BY <1>1, <1>2, <1>3 DEF ParseInt
<1>4. ASSUME "lead" \notin DOMAIN v, HasForm(v, {"numeral"}) PROVE IsRead
  BY <1>1, <1>2, <1>4 DEF ParseInt, HasForm
<1>5. ASSUME "lead" \notin DOMAIN v, ~HasForm(v, {"numeral"}) PROVE IsRead
  BY <1>5 DEF ParseInt
<1>6. IsRead
  BY <1>3, <1>4, <1>5
<1>7. ASSUME IsText(v)
      PROVE  \/ ToNumber(v) = NaN \/ ToNumber(v) = Number(0)
             \/ "num" \in DOMAIN v /\ ToNumber(v) = Number(v.num)
             \/ "half" \in DOMAIN v /\ ToNumber(v) = Half(v.half)
  BY <1>2, <1>7 DEF ToNumber
<1> QED
  BY <1>2, <1>6, <1>7

(* The value of a field that is converted to a number. *)
LEMMA NumberValue ==
    ASSUME NEW v, IsText(v),
           NEW field, field.convert = "Number", field.transform = "none"
    PROVE  Value(field, v) = ToNumber(v)
<1>1. v.type = "string" /\ v.type # "array" /\ ~IsMissing(v)
  BY TextIsGiven
<1>2. Convert("Number", v) = ToNumber(v)
  BY <1>1 DEF Convert, ConvertOne
<1> QED
  BY <1>2 DEF Value, Transform

(* The value of a variable that is not set, whatever its field. *)
LEMMA UndefinedValue ==
    ASSUME NEW field, field.transform = "none"
    PROVE  Value(field, Undefined) = Undefined
<1>1. Undefined.type # "array" /\ IsMissing(Undefined)
  BY DEF IsMissing, Undefined
<1>2. Convert(field.convert, Undefined) = Undefined
  BY <1>1 DEF Convert, ConvertOne
<1> QED
  BY <1>2 DEF Value, Transform

LEMMA NonEmptyIsSet ==
    ASSUME NEW v, Accepts(NonEmptyVar, v)
    PROVE  v # Undefined
<1> SUFFICES ASSUME v = Undefined PROVE FALSE
  OBVIOUS
<1>1. /\ NonEmptyVar.transform = "none" /\ NonEmptyVar.skips = {}
      /\ Check("isString", 0, FALSE) \in NonEmptyVar.checks
  BY DEF NonEmptyVar, TextVar, And, Field
<1>2. Holds(Check("isString", 0, FALSE), Undefined)
  BY <1>1, UndefinedValue DEF Accepts
<1> QED
  BY <1>2 DEF Holds, Check, Passes, Undefined

(* A port or a number that is validated is one that Number reads. *)
LEMMA PortIsRead ==
    ASSUME NEW v, IsText(v), NEW checks, Accepts(And(PortVar, checks), v)
    PROVE  ToNumber(v) # NaN /\ IsPort(ToNumber(v))
<1> DEFINE field == And(PortVar, checks)
<1>1. /\ field.transform = "none" /\ field.convert = "Number" /\ field.skips = {}
      /\ {Check("isInt", 0, FALSE), Check("min", 0, FALSE), Check("max", 65535, FALSE)}
           \subseteq field.checks
  BY DEF PortVar, And, Field
<1> HIDE DEF field
<1>2. Value(field, v) = ToNumber(v)
  BY <1>1, NumberValue
<1>3. Accepts(field, v)
  BY DEF field
<1>4. \A c \in field.checks : Holds(c, ToNumber(v))
  BY <1>1, <1>2, <1>3 DEF Accepts
<1>5. /\ Passes("isInt", 0, ToNumber(v)) /\ Passes("min", 0, ToNumber(v))
      /\ Passes("max", 65535, ToNumber(v))
  BY <1>1, <1>4 DEF Holds, Check
<1>6. ToNumber(v).type = "number"
  BY <1>5 DEF Passes
<1>7. PICK n \in Int : ToNumber(v) = Number(n)
  <2>1. ToNumber(v).whole
    BY <1>5 DEF Passes
  <2>2. \A n : ~Half(n).whole
    BY DEF Half
  <2> QED
    BY <1>6, <2>1, <2>2, NumbersRead DEF NaN
<1>8. Number(n).num = n
  BY DEF Number
<1>9. Number(n).type = "number" /\ Number(n).whole /\ Number(n) # NaN
  BY DEF Number, NaN
<1>10. 0 <= n /\ n <= 65535
  BY <1>5, <1>7, <1>8 DEF Passes
<1>11. IsPort(Number(n))
  BY <1>8, <1>9, <1>10 DEF IsPort
<1> QED
  BY <1>7, <1>9, <1>11

(* The same of a field that must be a number, whatever else is checked. *)
LEMMA NumberIsRead ==
    ASSUME NEW v, IsText(v), NEW field, Accepts(field, v),
           field.convert = "Number", field.transform = "none",
           field.skips \subseteq {"undefined", "null"},
           \/ Check("isInt", 0, FALSE) \in field.checks
           \/ Check("isNumber", 0, FALSE) \in field.checks
    PROVE  ToNumber(v) # NaN
<1>1. Value(field, v) = ToNumber(v)
  BY NumberValue
<1>2. CASE ToNumber(v).type \in field.skips
  BY <1>2 DEF NaN
<1>3. CASE \A c \in field.checks : Holds(c, ToNumber(v))
  <2>1. Holds(Check("isInt", 0, FALSE), ToNumber(v)) \/ Holds(Check("isNumber", 0, FALSE), ToNumber(v))
    BY <1>3
  <2>2. ToNumber(v).type = "number"
    BY <2>1 DEF Holds, Check, Passes
  <2> QED
    BY <2>2 DEF NaN
<1> QED
  BY <1>1, <1>2, <1>3 DEF Accepts

LEMMA NumberVars ==
    ASSUME NEW field \in {PortVar, Optional(PortVar), Optional(NumberVar)}
    PROVE  /\ field.convert = "Number" /\ field.transform = "none"
           /\ field.skips \subseteq {"undefined", "null"}
           /\ \/ Check("isInt", 0, FALSE) \in field.checks
              \/ Check("isNumber", 0, FALSE) \in field.checks
<1>1. CASE field = PortVar
  BY <1>1 DEF PortVar, Field
<1>2. CASE field = Optional(PortVar)
  BY <1>2 DEF PortVar, Optional, Field
<1>3. CASE field = Optional(NumberVar)
  BY <1>3 DEF NumberVar, Optional, Field
<1> QED
  BY <1>1, <1>2, <1>3

(* A validated number that the program reads as none is an empty text or one that
   only Number reads. *)
LEMMA NoneHasACause ==
    ASSUME NEW v, IsText(v), NEW field \in {PortVar, Optional(PortVar), Optional(NumberVar)},
           Accepts(field, v), ParseInt(v) = NaN
    PROVE  IsFalsy(v) \/ ReadByNumberOnly(v)
<1>1. ToNumber(v) # NaN
  BY NumberIsRead, NumberVars
<1> QED
  BY <1>1 DEF ReadByNumberOnly

(* A number read from a text is there, whether it is a number or not. *)
LEMMA ReadIsThere ==
    ASSUME NEW v, v = Undefined \/ IsText(v)
    PROVE  ParseInt(v) # Undefined /\ Seconds(ParseInt(v)) # Undefined
<1>1. CASE ParseInt(v) = NaN
  BY <1>1 DEF Seconds, NaN, Undefined
<1>2. CASE \E n \in Int : ParseInt(v) = Number(n)
  <2>1. PICK n \in Int : ParseInt(v) = Number(n)
    BY <1>2
  <2>2. Number(n).type = "number" /\ Number(n) # NaN
    BY DEF Number, NaN
  <2>3. [Number(n) EXCEPT !.num = 1000 * @].type = "number"
    BY DEF Number
  <2> QED
    BY <2>1, <2>2, <2>3 DEF Seconds, Undefined
<1> QED
  BY <1>1, <1>2, NumbersRead

(* What one of the steps of a start lacks can only be one of the two variables. *)
LEMMA OmittedHasAName ==
    ASSUME IInv, EverythingValid, SomethingOmitted
    PROVE  \E n \in {"REDIS_PASSWORD", "SENTRY_DSN"} : n \notin DOMAIN env
<1>1. /\ Prop(env, "APP_NAME") # Undefined /\ Prop(env, "REDIS_HOST") # Undefined
      /\ Prop(env, "AUTH_SECRET") # Undefined
  BY Accepted, NonEmptyIsSet
<1>2. \A n : Prop(env, n) = Undefined \/ IsText(Prop(env, n))
  BY SetOrNot
<1>3. \A n : ParseInt(Prop(env, n)) # Undefined /\ Seconds(ParseInt(Prop(env, n))) # Undefined
  BY <1>2, ReadIsThere
<1>4. AppConfig(env).fallbackLanguage # Undefined
  <2>1. AppConfig(env).fallbackLanguage = OrElse(Prop(env, "APP_FALLBACK_LANGUAGE"), Word("en"))
    BY DEF AppConfig
  <2>2. Word("en") # Undefined /\ IsFalsy(Undefined)
    BY DEF Word, Text, Undefined, IsFalsy, IsMissing
  <2> QED
    BY <2>1, <2>2 DEF OrElse
<1>5. ThrottlerConfig(env).ttl # Undefined /\ ThrottlerConfig(env).limit # Undefined
  <2>1. Number(0) # Undefined
    BY DEF Number, Undefined
  <2> QED
    BY <1>3, <2>1 DEF ThrottlerConfig
<1>6. RedisConfig(env).host # Undefined /\ RedisConfig(env).port # Undefined
  BY <1>1, <1>3 DEF RedisConfig
<1>7. RedisConfig(env).password = Prop(env, "REDIS_PASSWORD") /\ AppConfig(env).name # Undefined
      /\ AuthConfig(env).authSecret # Undefined /\ SentryConfig(env).dsn = Prop(env, "SENTRY_DSN")
  BY <1>1 DEF RedisConfig, AppConfig, AuthConfig, SentryConfig
<1>8. Prop(env, "REDIS_PASSWORD") = Undefined \/ Prop(env, "SENTRY_DSN") = Undefined
  BY <1>4, <1>5, <1>6, <1>7 DEF SomethingOmitted, Needs, Redis, ServerNeeds, Missing
<1>9. \A n \in DOMAIN env : Prop(env, n) # Undefined
  BY SetOrNot, TextIsGiven
<1> QED
  BY <1>8, <1>9

(* A server has a port unless parseInt and Number read its text differently. *)
LEMMA ServerHasAPort ==
    ASSUME IInv, EverythingValid, ~IsWorker,
           ParseInt(Prop(env, "APP_PORT")) = ToNumber(Prop(env, "APP_PORT"))
    PROVE  IsPort(ListenPort)
<1>1. Accepts(And(PortVar, {Check("isNotEmpty", 0, FALSE)}), Prop(env, "APP_PORT"))
  BY Accepted
<1>2. CASE IsText(Prop(env, "APP_PORT"))
  <2>1. IsPort(ToNumber(Prop(env, "APP_PORT")))
    BY <1>1, <1>2, PortIsRead
  <2>2. ListenPort = ParseInt(Prop(env, "APP_PORT"))
    BY DEF ListenPort, AppConfig
  <2> QED
    BY <2>1, <2>2
<1>3. CASE Prop(env, "APP_PORT") = Undefined
  <2> DEFINE field == And(PortVar, {Check("isNotEmpty", 0, FALSE)})
  <2>1. /\ field.transform = "none" /\ field.skips = {}
        /\ Check("isInt", 0, FALSE) \in field.checks
    BY DEF PortVar, And, Field
  <2>2. Holds(Check("isInt", 0, FALSE), Undefined)
    <3> HIDE DEF field
    <3>1. Accepts(field, Undefined)
      BY <1>1, <1>3 DEF field
    <3> QED
      BY <2>1, <3>1, UndefinedValue DEF Accepts
  <2> QED
    BY <2>2 DEF Holds, Check, Passes, Undefined
<1> QED
  BY <1>2, <1>3, SetOrNot

(* A level pino does not know is one that was set. *)
LEMMA UnknownLevel ==
    ASSUME IInv, ~KnowsLevel
    PROVE  ~IsFalsy(Prop(env, "APP_LOG_LEVEL")) /\ ~HasForm(env.APP_LOG_LEVEL, LogLevels)
<1> DEFINE given == Prop(env, "APP_LOG_LEVEL")
<1>1. AppConfig(env).logLevel = OrElse(given, Word("warn"))
  BY DEF AppConfig
<1>2. HasForm(Word("warn"), LogLevels)
  BY DEF HasForm, Word, Text, LogLevels
<1>3. ~IsFalsy(given) /\ ~HasForm(given, LogLevels)
  BY <1>1, <1>2 DEF KnowsLevel, OrElse
<1>4. IsFalsy(Undefined)
  BY DEF IsFalsy, IsMissing, Undefined
<1>5. given = env.APP_LOG_LEVEL
  BY <1>3, <1>4, SetOrNot
<1> QED
  BY <1>3, <1>5

(* An environment every validator accepts starts, up to the database: it is
   refused only for two variables that are marked optional and needed all the
   same, for a log level that is any text to its validator, or for a port that
   was checked as another number or not at all. *)
THEOREM Enough == FairSpec => []ValidatedIsEnough
<1>1. ASSUME IInv PROVE ValidatedIsEnough
  <2> SUFFICES ASSUME phase = "refused", cause # "database", EverythingValid
               PROVE  \/ \E n \in {"REDIS_PASSWORD", "SENTRY_DSN"} : n \notin DOMAIN env
                      \/ /\ ~IsFalsy(Prop(env, "APP_LOG_LEVEL"))
                         /\ ~HasForm(env.APP_LOG_LEVEL, LogLevels)
                      \/ IsWorker /\ ~IsPort(ParseInt(Prop(env, "APP_WORKER_PORT")))
                      \/ ~IsWorker /\ ParseInt(Prop(env, "APP_PORT"))
                                        # ToNumber(Prop(env, "APP_PORT"))
    BY DEF ValidatedIsEnough
  <2>1. SomethingOmitted \/ ~KnowsLevel \/ ~IsPort(ListenPort)
    BY <1>1 DEF IInv, RefusedFor
  <2>2. CASE SomethingOmitted
    BY <1>1, <2>2, OmittedHasAName
  <2>3. CASE ~IsPort(ListenPort) /\ IsWorker
    <3>1. ListenPort = ParseInt(Prop(env, "APP_WORKER_PORT"))
      BY <2>3 DEF ListenPort, AppConfig
    <3> QED
      BY <2>3, <3>1
  <2>4. CASE ~IsPort(ListenPort) /\ ~IsWorker
    BY <1>1, <2>4, ServerHasAPort
  <2>5. CASE ~KnowsLevel
    BY <1>1, <2>5, UnknownLevel
  <2> QED
    BY <2>1, <2>2, <2>3, <2>4, <2>5
<1> QED
  BY <1>1, Invariance, PTL

-----------------------------------------------------------------------------
(* A running process has had everything validated. *)
LEMMA RunningIsValid ==
    ASSUME IInv, phase = "listening"
    PROVE  EverythingValid
BY Twelve DEF IInv, Starting, PastDocs, EverythingValid, Valid

(* A setting with a default is none only for a text that is not empty. *)
LEMMA DefaultIsANumber ==
    ASSUME NEW v, NEW default, IntOr(v, default) = NaN
    PROVE  ~IsFalsy(v) /\ v # Undefined /\ ParseInt(v) = NaN
<1>1. Number(default) # NaN /\ IsFalsy(Undefined)
  BY DEF Number, NaN, IsFalsy, IsMissing, Undefined
<1> QED
  BY <1>1 DEF IntOr

LEMMA SecondsAreNone ==
    ASSUME NEW v, v = Undefined \/ IsText(v), Seconds(ParseInt(v)) = NaN
    PROVE  ParseInt(v) = NaN
<1>1. CASE \E n \in Int : ParseInt(v) = Number(n)
  <2>1. PICK n \in Int : ParseInt(v) = Number(n)
    BY <1>1
  <2>2. Number(n) # NaN /\ [Number(n) EXCEPT !.num = 1000 * @].type = "number"
    BY DEF Number, NaN
  <2>3. Seconds(Number(n)).type = "number"
    BY <2>2 DEF Seconds
  <2> QED
    BY <2>1, <2>3 DEF NaN
<1> QED
  BY <1>1, NumbersRead

(* A running process computes with a number that is none only for a variable left
   out or empty that has no default, for a text that Number reads and parseInt
   does not, or for a variable that is not validated. *)
THEOREM NumbersExplained == FairSpec => []NumbersHaveACause
<1>1. ASSUME IInv PROVE NumbersHaveACause
  <2> SUFFICES ASSUME phase = "listening", NEW n \in DOMAIN SettingsRead, SettingsRead[n] = NaN
               PROVE  \/ /\ IsFalsy(Prop(env, n))
                         /\ n \in {"REDIS_PORT", "THROTTLER_LIMIT", "THROTTLER_TTL"}
                      \/ ReadByNumberOnly(Prop(env, n))
                      \/ n = "QUEUE_FAILED_RETRY_ATTEMPTS"
                      \/ n = "DATABASE_PORT" /\ "DATABASE_URL" \in DOMAIN env
    BY DEF NumbersHaveACause
  <2>1. EverythingValid
    BY <1>1, RunningIsValid
  <2>2. \/ n \notin DOMAIN env /\ Prop(env, n) = Undefined
        \/ n \in DOMAIN env /\ IsText(Prop(env, n))
    BY <1>1, SetOrNot
  <2>9. IsFalsy(Undefined)
    BY DEF IsFalsy, IsMissing, Undefined
  <2>3. CASE n = "REDIS_PORT"
    <3>1. ParseInt(Prop(env, n)) = NaN
      BY <2>3 DEF SettingsRead, RedisConfig
    <3> QED
      BY <2>1, <2>2, <2>3, <2>9, <3>1, Accepted, NoneHasACause
  <2>4. CASE n = "THROTTLER_LIMIT"
    <3>1. ParseInt(Prop(env, n)) = NaN
      BY <2>4 DEF SettingsRead, ThrottlerConfig
    <3> QED
      BY <2>1, <2>2, <2>4, <2>9, <3>1, Accepted, NoneHasACause
  <2>5. CASE n = "THROTTLER_TTL"
    <3>1. ThrottlerConfig(env).ttl = NaN
      BY <2>5 DEF SettingsRead
    <3>2. Number(0) # NaN
      BY DEF Number, NaN
    <3>3. Seconds(ParseInt(Prop(env, n))) = NaN
      BY <2>5, <3>1, <3>2 DEF ThrottlerConfig
    <3>4. ParseInt(Prop(env, n)) = NaN
      BY <2>2, <3>3, SecondsAreNone
    <3> QED
      BY <2>1, <2>2, <2>5, <2>9, <3>4, Accepted, NoneHasACause
  <2>6. CASE n = "MAIL_PORT"
    <3>1. IntOr(Prop(env, n), 587) = NaN
      BY <2>6 DEF SettingsRead, MailConfig
    <3>2. /\ ~IsFalsy(Prop(env, n)) /\ Prop(env, n) # Undefined
          /\ ParseInt(Prop(env, n)) = NaN
      BY <3>1, DefaultIsANumber
    <3> QED
      BY <2>1, <2>2, <2>6, <3>2, Accepted, NoneHasACause
  <2>7. CASE n = "DATABASE_PORT" /\ "DATABASE_URL" \notin DOMAIN env
    <3>1. IntOr(Prop(env, n), 5432) = NaN
      BY <2>7 DEF SettingsRead, DatabaseConfig
    <3>2. /\ ~IsFalsy(Prop(env, n)) /\ Prop(env, n) # Undefined
          /\ ParseInt(Prop(env, n)) = NaN
      BY <3>1, DefaultIsANumber
    <3>3. IsFalsy(Prop(env, "DATABASE_URL"))
      BY <2>7 DEF Prop, IsFalsy, IsMissing, Undefined
    <3> QED
      BY <2>1, <2>2, <2>7, <3>2, <3>3, Accepted, NoneHasACause
  <2>8. n \in {"REDIS_PORT", "MAIL_PORT", "THROTTLER_LIMIT", "THROTTLER_TTL",
               "QUEUE_FAILED_RETRY_ATTEMPTS", "DATABASE_PORT"}
    BY DEF SettingsRead
  <2> QED
    BY <2>3, <2>4, <2>5, <2>6, <2>7, <2>8
<1> QED
  BY <1>1, Invariance, PTL

-----------------------------------------------------------------------------
LEMMA TextsAreNotFalsy ==
    ASSUME NEW v, IsText(v), v.form # "empty"
    PROVE  ~IsFalsy(v)
<1>1. v.type = "string" /\ ~IsMissing(v)
  BY TextIsGiven
<1>2. Empty.form = "empty" /\ NaN.type # "string" /\ Number(0).type # "string"
      /\ Bool(FALSE).type # "string"
  BY DEF Empty, Text, NaN, Number, Bool
<1> QED
  BY <1>1, <1>2 DEF IsFalsy

LEMMA WithForm ==
    ASSUME IInv, NEW n, NEW forms, HasForm(Prop(env, n), forms)
    PROVE  /\ n \in DOMAIN env /\ Prop(env, n) = env[n] /\ IsText(env[n])
           /\ env[n].form \in forms
<1>1. Prop(env, n) # Undefined /\ Prop(env, n).form \in forms
  BY DEF HasForm, Undefined
<1> QED
  BY <1>1, SetOrNot

(* A numeral is the number that is read from it. *)
LEMMA NumeralsAreRead ==
    ASSUME NEW v, NEW default, IsText(v), v.form = "numeral"
    PROVE  SamePort(v, IntOr(v, default))
<1>1. v.type = "string" /\ "lead" \notin DOMAIN v /\ HasForm(v, {"numeral"})
  BY DEF IsText, HasForm
<1>2. ~IsFalsy(v)
  BY TextsAreNotFalsy
<1>3. IntOr(v, default) = Number(v.num)
  BY <1>1, <1>2 DEF IntOr, ParseInt
<1> QED
  BY <1>1, <1>3 DEF SamePort, HasForm, Number

(* Prisma and better-auth use one database when it is given by its parts and
   the port is written in digits. *)
THEOREM SameDatabase == FairSpec => []OneDatabase
<1>1. ASSUME IInv PROVE OneDatabase
  <2> SUFFICES ASSUME {"DATABASE_URL", "DIRECT_URL"} \cap DOMAIN env = {},
                      HasForm(Prop(env, "DATABASE_PORT"), {"numeral"})
               PROVE  /\ SamePort(PrismaConfig(env).url.port, AuthDatabase.port)
                      /\ \A p \in {"url", "username", "password", "host", "name"} :
                           PrismaConfig(env).url[p] = AuthDatabase[p]
    BY DEF OneDatabase
  <2>1. IsFalsy(Prop(env, "DATABASE_URL")) /\ IsFalsy(Prop(env, "DIRECT_URL"))
    BY DEF Prop, IsFalsy, IsMissing, Undefined
  <2>2. PrismaConfig(env).url =
          PartsOfAddress(Prop(env, "DATABASE_USERNAME"), Prop(env, "DATABASE_PASSWORD"),
            Prop(env, "DATABASE_HOST"), Prop(env, "DATABASE_PORT"), Prop(env, "DATABASE_NAME"))
    BY <2>1 DEF PrismaConfig
  <2>3. AuthDatabase =
          PartsOfAddress(Prop(env, "DATABASE_USERNAME"), Prop(env, "DATABASE_PASSWORD"),
            Prop(env, "DATABASE_HOST"), IntOr(Prop(env, "DATABASE_PORT"), 5432),
            Prop(env, "DATABASE_NAME"))
    BY <2>1 DEF AuthDatabase, DatabaseConfig
  <2>4. SamePort(Prop(env, "DATABASE_PORT"), IntOr(Prop(env, "DATABASE_PORT"), 5432))
    BY <1>1, WithForm, NumeralsAreRead
  <2> QED
    BY <2>2, <2>3, <2>4 DEF PartsOfAddress
<1> QED
  BY <1>1, Invariance, PTL

-----------------------------------------------------------------------------
(* An origin that CORS lets in because of one that was given. *)
LEMMA AllowedForAGivenOne ==
    ASSUME NEW given, \A p \in given : p = Origin(p.scheme, p.host, p.rest),
           NEW o \in WithWww(WithLoopback(given))
    PROVE  \E p \in given : AliasOf(o, p)
<1>1. \A p \in given : /\ ~p.www /\ WwwAlias(p).scheme = p.scheme /\ WwwAlias(p).host = p.host
                       /\ WwwAlias(p).rest = p.rest
                       /\ LoopbackAlias(p).scheme = p.scheme /\ ~LoopbackAlias(p).www
                       /\ LoopbackAlias(p).host = "127.0.0.1" /\ LoopbackAlias(p).rest = p.rest
                       /\ WwwAlias(LoopbackAlias(p)).scheme = p.scheme
  BY DEF Origin, WwwAlias, LoopbackAlias
<1>2. \A q \in WithLoopback(given) :
        q \in given \/ \E p \in given : IsLocalhost(p) /\ q = LoopbackAlias(p)
  BY DEF WithLoopback
<1>3. CASE o \in WithLoopback(given)
  <2>1. CASE o \in given
    BY <1>1, <2>1 DEF AliasOf
  <2>2. CASE \E p \in given : IsLocalhost(p) /\ o = LoopbackAlias(p)
    BY <1>1, <2>2 DEF AliasOf, IsLocalhost
  <2> QED
    BY <1>2, <1>3, <2>1, <2>2
<1>4. CASE \E q \in WithLoopback(given) : IsHttps(q) /\ o = WwwAlias(q)
  <2>1. PICK q \in WithLoopback(given) : IsHttps(q) /\ o = WwwAlias(q)
    BY <1>4
  <2>2. q \in given
    BY <1>1, <1>2, <2>1 DEF IsHttps, IsLocalhost
  <2>3. AliasOf(o, q)
    BY <1>1, <2>1, <2>2 DEF AliasOf, IsHttps
  <2> QED
    BY <2>2, <2>3
<1> QED
  BY <1>3, <1>4 DEF WithWww

(* Outside development the server lets in every origin it was configured with
   and, of any others, the studio and the aliases of those: the loopback address
   for what begins with http://localhost, and www for https. *)
THEOREM OriginsAsConfigured == FairSpec => []ConfiguredOrigins
<1>1. ASSUME IInv PROVE ConfiguredOrigins
  <2> DEFINE given == env.APP_CORS_ORIGIN.origins
             aliased == WithWww(WithLoopback(given))
  <2> SUFFICES ASSUME ~IsDevelopment, HasForm(Prop(env, "APP_CORS_ORIGIN"), {"origins"})
               PROVE  /\ given \subseteq CorsOrigins.origins
                      /\ \A o \in CorsOrigins.origins :
                           o = Studio \/ \E p \in given : AliasOf(o, p)
                      /\ \A p \in given : p.scheme = "https" => WwwAlias(p) \in CorsOrigins.origins
    BY DEF ConfiguredOrigins
  <2>1. /\ Prop(env, "APP_CORS_ORIGIN") = env.APP_CORS_ORIGIN
        /\ IsText(env.APP_CORS_ORIGIN) /\ env.APP_CORS_ORIGIN.form = "origins"
    BY <1>1, WithForm
  <2>2. getCorsOrigin(env.APP_CORS_ORIGIN) = OriginList(aliased)
    BY <2>1, TextsAreNotFalsy, TextIsGiven DEF getCorsOrigin, HasForm, Flag
  <2>3. AppConfig(env).corsOrigin = OriginList(aliased)
    BY <2>1, <2>2 DEF AppConfig
  <2>4. CorsOrigins.origins = {Studio} \cup aliased
    BY <2>3 DEF CorsOrigins, OriginList
  <2>5. \A p \in given : p = Origin(p.scheme, p.host, p.rest)
    BY <2>1 DEF IsText
  <2>6. given \subseteq aliased /\ \A p \in given : p.scheme = "https" => WwwAlias(p) \in aliased
    BY DEF WithWww, WithLoopback, IsHttps
  <2>7. \A o \in aliased : \E p \in given : AliasOf(o, p)
    BY <2>5, AllowedForAGivenOne
  <2> HIDE DEF given, aliased
  <2> QED
    BY <2>4, <2>6, <2>7
<1> QED
  BY <1>1, Invariance, PTL

-----------------------------------------------------------------------------
(* A NODE_ENV that is set and validated is one of the environments. *)
LEMMA KnownEnvironment ==
    ASSUME IInv, EverythingValid, "NODE_ENV" \in DOMAIN env
    PROVE  HasForm(env.NODE_ENV, Environments) /\ Prop(env, "NODE_ENV") = env.NODE_ENV
           /\ IsText(env.NODE_ENV)
<1>1. Prop(env, "NODE_ENV") = env.NODE_ENV /\ IsText(env.NODE_ENV)
  BY SetOrNot
<1>2. env.NODE_ENV.type = "string" /\ ~IsMissing(env.NODE_ENV)
  BY <1>1, TextIsGiven
<1> DEFINE field == AppRules.NODE_ENV
<1>3. field = Optional(Field("none", "none", {Check("isEnum", Environments, FALSE)}))
  BY Merged DEF AppRules
<1>4. /\ field.convert = "none" /\ field.transform = "none"
      /\ field.skips = {"undefined", "null"} /\ field.checks = {Check("isEnum", Environments, FALSE)}
  BY <1>3 DEF Optional, Field
<1>5. Accepts(field, env.NODE_ENV)
  BY <1>1, Accepted
<1> HIDE DEF field
<1>6. Value(field, env.NODE_ENV) = env.NODE_ENV
  BY <1>2, <1>4 DEF Value, Transform, Convert, ConvertOne
<1>7. Holds(Check("isEnum", Environments, FALSE), env.NODE_ENV)
  BY <1>2, <1>4, <1>5, <1>6 DEF Accepts
<1> QED
  BY <1>1, <1>7 DEF Holds, Check, Passes

(* The parts of a running server agree on being in development, unless NODE_ENV
   is not set. *)
THEOREM OneMode == FairSpec => []ModesAgree
<1>1. ASSUME IInv PROVE ModesAgree
  <2> SUFFICES ASSUME phase = "listening", "NODE_ENV" \in DOMAIN env
               PROVE  /\ GraphqlIsDevelopment = IsDevelopment /\ I18nLogs = IsDevelopment
                      /\ IsDevelopment => "docs" \in done
    BY DEF ModesAgree
  <2>1. /\ HasForm(env.NODE_ENV, Environments) /\ Prop(env, "NODE_ENV") = env.NODE_ENV
        /\ IsText(env.NODE_ENV)
    BY <1>1, RunningIsValid, KnownEnvironment
  <2>2. ~IsFalsy(env.NODE_ENV)
    BY <2>1, TextsAreNotFalsy DEF HasForm, Environments
  <2>3. NodeEnv = env.NODE_ENV.form
    BY <2>1, <2>2 DEF NodeEnv, AppConfig, OrElse
  <2>4. GraphqlIsDevelopment <=> IsDevelopment
    BY <2>1, <2>3 DEF GraphqlIsDevelopment, IsDevelopment, HasForm
  <2>5. IsDevelopment => "docs" \in done
    BY <1>1 DEF IInv, PastDocs, ServesDocs, IsDevelopment
  <2> QED
    BY <2>4, <2>5 DEF I18nLogs, IsDevelopment, GraphqlIsDevelopment, HasForm
<1> QED
  BY <1>1, Invariance, PTL
=============================================================================
