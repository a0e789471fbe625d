---------------------------- MODULE MC_Bootstrap ----------------------------
(* Environments for TLC: .env.example in its two roles, and each variable   *)
(* of it unset or given another text.                                       *)
EXTENDS Bootstrap

Example(isWorker, nodeEnv) ==
    Vars({"APP_NAME", "REDIS_HOST", "REDIS_PASSWORD", "AUTH_SECRET", "BASIC_AUTH_USERNAME",
          "BASIC_AUTH_PASSWORD", "GITHUB_CLIENT_ID", "GITHUB_CLIENT_SECRET", "MAIL_HOST",
          "MAIL_DEFAULT_NAME", "GRAFANA_USERNAME", "GRAFANA_PASSWORD"}, Word("plain"))
    ++ [DATABASE_HOST |-> Word("host"), DATABASE_USERNAME |-> Word("user"),
        DATABASE_PASSWORD |-> Word("password"), DATABASE_NAME |-> Word("name")]
    ++ Vars({"SENTRY_DSN", "REDIS_CA", "AWS_KEY", "MAIL_USER"}, Empty)
    ++ Vars({"IS_HTTPS", "REDIS_TLS", "MAIL_SECURE", "MAIL_REQUIRE_TLS", "THROTTLER_ENABLED"},
            Word("false"))
    ++ Vars({"MAIL_IGNORE_TLS", "APP_LOGGING", "QUEUE_REMOVE_ON_COMPLETE"}, Word("true"))
    ++ [NODE_ENV |-> Word(nodeEnv), IS_WORKER |-> Word(IF isWorker THEN "true" ELSE "false"),
        APP_URL |-> Word("url"), APP_PORT |-> Numeral(8000), APP_WORKER_PORT |-> Numeral(8001),
        APP_LOG_SERVICE |-> Word("console"), APP_LOG_LEVEL |-> Word("debug"),
        APP_CORS_ORIGIN |-> Origins({Origin("http", "localhost", "port"),
                                     Origin("https", "a.com", "none")}),
        DATABASE_PORT |-> Numeral(5432), REDIS_PORT |-> Numeral(6379), MAIL_PORT |-> Numeral(1025),
        MAIL_DEFAULT_EMAIL |-> Word("email"), THROTTLER_LIMIT |-> Numeral(3),
        THROTTLER_TTL |-> Numeral(1), QUEUE_FAILED_RETRY_ATTEMPTS |-> Numeral(3)]
MCComplete == {Example(w, n) : w \in BOOLEAN, n \in {"local", "production"}}
Texts == {Empty, Word("plain"), Word("true"), Numeral(70000), Numeral(-1), Measure(30),
          Written(3000, 3), Written(7000, 70000), Word("email"), Word("*"), PointFive, Blank}
Without(e, n) == [x \in DOMAIN e \ {n} |-> e[x]]
WithUrl(e) == [DATABASE_URL |-> Word("url")] ++ Without(e, "DATABASE_HOST")
Changed(e, n) == {Without(e, n)} \cup {[e EXCEPT ![n] = t] : t \in Texts}
MCEnvironments ==
    LET changed == UNION {Changed(e, n) : e \in MCComplete, n \in DOMAIN Example(TRUE, "local")}
        ports == UNION {Changed(e, "DATABASE_PORT") : e \in MCComplete}
        longer == Origins({Origin("http", "localhost", "name")})
        given == {[e EXCEPT !.SENTRY_DSN = Word("url"), !.APP_CORS_ORIGIN = longer] :
                  e \in MCComplete}
    IN MCComplete \cup changed \cup given \cup {WithUrl(e) : e \in ports \cup MCComplete}
       \cup {[THROTTLER_ENABLED |-> Word("true")] ++ Without(e, "THROTTLER_LIMIT") :
             e \in MCComplete}
=============================================================================
