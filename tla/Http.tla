-------------------------------- MODULE Http --------------------------------
(***************************************************************************)
(* One server's HTTP requests, from the onRequest hook to the reply: basic *)
(* auth on the tool pages, the throttler, the AuthGuard, the upload        *)
(* interceptor, the ValidationPipe and the handlers of the file, chat,     *)
(* health and user-list routes, and the route that hands requests to       *)
(* better-auth. The session store, S3, the database, Redis and the model   *)
(* provider answer when they like, or fail.                                *)
(***************************************************************************)
EXTENDS Bodies, FiniteSets

CONSTANTS Requests, Uploads,
          Addresses,     \* network addresses, of connections and in headers
          Queries,       \* query strings, parsed
          Bodies_,       \* JSON bodies
          Deployments,   \* configurations the server is started with
          MaxCount       \* files of one upload (10 in the code)

ASSUME HttpAssumption ==
    /\ MaxCount \in Nat \ {0} /\ IsFiniteSet(Requests)
    /\ Uploads \subseteq Seq({"small", "large"})
    \* A query string has no values but texts, and lists of a repeated name's.
    /\ \A q \in Queries : \A p \in DOMAIN q : q[p].type \in {"string", "array"}
    /\ \A d \in Deployments : d.limit \in Nat

VARIABLES server,   \* the configuration in effect
          req,      \* what each request is and how far it has come
          hits,     \* throttler counters, kept in Redis
          blocked,  \* counters that went over the limit, kept there as well
          objects,  \* files stored in the S3 bucket
          disk,     \* files stored on the local disk
          captured  \* requests whose error went to Sentry
vars == <<server, req, hits, blocked, objects, disk, captured>>

ListRoute == "list"
GuardedRoutes == {ListRoute, "single", "multiple", "chat"}
PublicRoutes == {"chat"}
NestRoutes == GuardedRoutes \cup {"health"}
ToolRoutes == {"board", "reference"}      \* behind basic auth: the queue board and Swagger, better-auth's docs
BetterAuthRoutes == {"auth", "reference"}
Routes == NestRoutes \cup ToolRoutes \cup BetterAuthRoutes
UploadRoutes == {"single", "multiple"}
\* The throttler has a counter for each handler and tracker.
Keys == NestRoutes \X Addresses

BodyOf(route) == IF route = ListRoute THEN OffsetPageOptions ELSE StreamChatRequest
\* What the pipe of a route is given: @Query() or @Body().
Inputs(route) == IF route = ListRoute THEN Queries ELSE Bodies_
Input(r) == Instance(BodyOf(req[r].route), req[r].body)

Stages == {"unsent", "hook", "throttle", "guard", "intercept", "pipe", "handler",
           "proxy", "uploading", "streaming", "checking", "replied"}
Unsent == [stage |-> "unsent", route |-> "none", socket |-> "none", claims |-> FALSE,
           body |-> NoProps, files |-> <<>>, status |-> 0, puts |-> <<>>, checks |-> [k \in {} |-> "open"]]

Statuses == {0, 200, 400, 401, 413, 422, 429, 500, 503}
Paths == Routes \cup {"none"}
Trackers == Addresses \cup {"none"}
Contents == Queries \cup Bodies_ \cup {NoProps}
FileLists == Uploads \cup {<<>>}
PutLists == Seq({"pending", "stored", "failed"})
CheckResults == UNION {[S -> {"open", "up", "down", "error"}] :
                       S \in SUBSET {"database", "redis", "docs"}}
Request ==
    [stage : Stages, route : Paths, socket : Trackers, claims : BOOLEAN, body : Contents,
     files : FileLists, status : Statuses, puts : PutLists, checks : CheckResults]

Init ==
    /\ server \in Deployments
    /\ req = [r \in Requests |-> Unsent]
    /\ hits = [key \in Keys |-> 0] /\ blocked = {}
    /\ objects = {} /\ disk = {} /\ captured = {}

-----------------------------------------------------------------------------
Stage(r, s) == req' = [req EXCEPT ![r].stage = s]
\* The body is not looked at again once the reply is sent.
Reply(r, status) ==
    req' = [req EXCEPT ![r].stage = "replied", ![r].status = status, ![r].body = NoProps]
\* An error thrown inside the interceptors: Sentry gets it when it is on and
\* the error is not an HttpException.
Throw(r, status) ==
    /\ Reply(r, status)
    /\ captured' = IF server.sentry /\ status = 500 THEN captured \cup {r} ELSE captured

\* A request arrives. What it carries is chosen where the server reads it:
\* the basic-auth header by the hook, the forwarding headers by the throttler,
\* the files by the interceptor and the body by the pipe.
Send(r) ==
    /\ req[r].stage = "unsent"
    /\ \E route \in Routes, s \in Addresses :
         req' = [req EXCEPT ![r].stage = "hook", ![r].route = route, ![r].socket = s]
    /\ UNCHANGED <<server, hits, blocked, objects, disk, captured>>

\* basicAuthMiddleware compares the header with the configured name and
\* password; without a configured name no header is right.
BasicAuthPasses(header) == header = "right" /\ server.basicUser
OnRequest(r) ==
    /\ req[r].stage = "hook"
    /\ \E header \in {"none", "wrong", "right"} :
       IF req[r].route \in ToolRoutes /\ ~BasicAuthPasses(header) THEN Reply(r, 401)
       ELSE IF req[r].route = "board" THEN Reply(r, 200)
       ELSE Stage(r, IF req[r].route \in BetterAuthRoutes THEN "proxy" ELSE "throttle")
    /\ UNCHANGED <<server, hits, blocked, objects, disk, captured>>

\* getTracker asks whether the first forwarding header there is has a text. With
\* one, or with none behind a trusted proxy, it takes the first of request.ips,
\* the address of the connection; when no proxy is trusted there is no such list,
\* and it throws. With an empty header it takes request.ip, which behind a
\* trusted proxy is an address that X-Forwarded-For claims.
TrackerThrows(forwarded) == forwarded = "text" /\ ~server.trustProxy
Claims(forwarded) == forwarded = "empty" /\ server.trustProxy
TrackerOfBalancer(r, forwarded, ip) == CHOOSE s \in Addresses : TRUE   \* Mutant: one tracker for all
Tracker(r, forwarded, ip) == IF Claims(forwarded) THEN ip ELSE req[r].socket

\* A request over the limit blocks its counter, for as long as a window; with the
\* throttler off the window is nothing: the counter is gone at once, and Redis
\* takes no block of that length.
Over(key) == key \in blocked \/ hits[key] + 1 > server.limit
Count(key) ==
    /\ hits' = [hits EXCEPT ![key] = IF server.throttled THEN @ + 1 ELSE 0]
    /\ blocked' = IF server.throttled /\ Over(key) THEN blocked \cup {key} ELSE blocked
Throttled(r, claims, stage, status) ==
    req' = [req EXCEPT ![r].stage = stage, ![r].status = status, ![r].claims = claims]

\* The guard awaits Redis, which may fail before or after it has counted, or
\* never answer.
Throttle(r) ==
    /\ req[r].stage = "throttle"
    /\ \E forwarded \in {"none", "text", "empty"}, ip \in Addresses :
         LET key == <<req[r].route, Tracker(r, forwarded, ip)>>
             claims == Claims(forwarded)
         IN \/ Throttled(r, claims, "replied", 500) /\ UNCHANGED <<hits, blocked>>
            \/ /\ ~TrackerThrows(forwarded) /\ Count(key)
               /\ \/ Throttled(r, claims, "replied", 500)
                  \/ /\ Over(key) /\ server.throttled
                     /\ Throttled(r, claims, "replied", 429)
                  \/ /\ ~Over(key)
                     /\ Throttled(r, claims,
                          IF req[r].route \in GuardedRoutes THEN "guard" ELSE "handler", 0)
    /\ UNCHANGED <<server, objects, disk, captured>>
WindowEnds(key) ==
    /\ hits[key] > 0
    /\ hits' = [hits EXCEPT ![key] = 0]
    /\ UNCHANGED <<server, req, blocked, objects, disk, captured>>
BlockEnds(key) ==
    /\ key \in blocked
    /\ blocked' = blocked \ {key}
    /\ UNCHANGED <<server, req, hits, objects, disk, captured>>

\* AuthGuard.canActivate over HTTP: a public route passes; elsewhere getSession
\* finds a session, finds none, or throws.
Guard(r) ==
    /\ req[r].stage = "guard"
    /\ \/ Stage(r, IF req[r].route \in UploadRoutes THEN "intercept" ELSE "pipe")
       \/ req[r].route \notin PublicRoutes /\ (Reply(r, 401) \/ Reply(r, 500))
    /\ UNCHANGED <<server, hits, blocked, objects, disk, captured>>

\* FileUploadInterceptor: too many files or one over the limit refuse the
\* upload; with local upload the files are on disk before the handler runs.
FilesOf(r, files) == {<<r, i>> : i \in DOMAIN files}
LimitPlusOne(route) == MaxCount + 1   \* Mutant: off by one
Limit(route) == IF route = "single" THEN 1 ELSE MaxCount
Intercept(r) ==
    /\ req[r].stage = "intercept"
    /\ \E files \in Uploads :
       IF Len(files) > Limit(req[r].route) THEN Reply(r, 400) /\ UNCHANGED disk
       ELSE IF \E i \in DOMAIN files : files[i] = "large"
       THEN Reply(r, 413) /\ UNCHANGED disk
       ELSE /\ req' = [req EXCEPT ![r].stage = "handler", ![r].files = files]
            /\ disk' = IF server.localUpload THEN disk \cup FilesOf(r, files) ELSE disk
    /\ UNCHANGED <<server, hits, blocked, objects, captured>>

\* ValidationPipe, with its 422.
Validate(r) ==
    /\ req[r].stage = "pipe"
    /\ \E body \in Inputs(req[r].route) :
       IF Validated(BodyOf(req[r].route), body)
       THEN req' = [req EXCEPT ![r].stage = "handler", ![r].body = body]
       ELSE Reply(r, 422)
    /\ UNCHANGED <<server, hits, blocked, objects, disk, captured>>

-----------------------------------------------------------------------------
\* UserController.findAllUsers: a query fails, and always when it is asked to
\* skip a negative number of rows.
NegativeSkip(page, limit) == (page - 1) * limit < 0
List(r) ==
    /\ req[r].stage = "handler" /\ req[r].route = ListRoute
    /\ \/ Throw(r, 500)
       \/ /\ ~NegativeSkip(Input(r).page.num, Input(r).limit.num)
          /\ Reply(r, 200) /\ UNCHANGED captured
    /\ UNCHANGED <<server, hits, blocked, objects, disk>>

\* FileController: without a file 400, or 500 when the body is no form and
\* there is no list of files; a file that has a destination is on disk already;
\* otherwise one PutObject per file, all started at once.
Upload(r) ==
    /\ req[r].stage = "handler" /\ req[r].route \in UploadRoutes
    /\ IF req[r].files = <<>> THEN Throw(r, 400) \/ (req[r].route = "multiple" /\ Throw(r, 500))
       ELSE IF server.localUpload THEN Reply(r, 200) /\ UNCHANGED captured
       ELSE /\ req' = [req EXCEPT ![r].stage = "uploading",
                                  ![r].puts = [i \in DOMAIN req[r].files |-> "pending"]]
            /\ UNCHANGED captured
    /\ UNCHANGED <<server, hits, blocked, objects, disk>>
\* S3 stores one of the files, under a key of its own. It may do so after the
\* request was answered.
Stored(r, i) ==
    /\ i \in DOMAIN req[r].puts /\ req[r].puts[i] = "pending"
    /\ req' = [req EXCEPT ![r].puts[i] = "stored"]
    /\ objects' = objects \cup {<<r, i>>}
    /\ UNCHANGED <<server, hits, blocked, disk, captured>>
PutFailed(r, i) ==
    /\ i \in DOMAIN req[r].puts /\ req[r].puts[i] = "pending"
    /\ req' = [req EXCEPT ![r].puts[i] = "failed"]
    /\ UNCHANGED <<server, hits, blocked, objects, disk, captured>>
\* Promise.all: rejected with the first failure, resolved once all are stored.
\* Mutant: Promise.any in place of Promise.all.
AnyStored(r) == \E i \in DOMAIN req[r].puts : req[r].puts[i] = "stored"
AllStored(r) == \A i \in DOMAIN req[r].puts : req[r].puts[i] = "stored"
OneFailed(r) == \E i \in DOMAIN req[r].puts : req[r].puts[i] = "failed"
Uploaded(r) ==
    /\ req[r].stage = "uploading"
    /\ \/ OneFailed(r) /\ Throw(r, 500)
       \/ AllStored(r) /\ Reply(r, 200) /\ UNCHANGED captured
    /\ UNCHANGED <<server, hits, blocked, objects, disk>>

\* ChatController.streamChat: what throws before the stream is handed to the
\* reply is answered with 500; from then on the status is out, and a stream
\* that breaks just ends.
Chat(r) ==
    /\ req[r].stage = "handler" /\ req[r].route = "chat"
    /\ \/ Reply(r, 500)
       \/ req' = [req EXCEPT ![r].stage = "streaming", ![r].status = 200]
    /\ UNCHANGED <<server, hits, blocked, objects, disk, captured>>
\* Mutant: an error of the stream is answered by the same catch.
StreamBreaksAnswered(r) == Reply(r, 500)
StreamBreaks(r) == Stage(r, "replied")
StreamEnds(r) ==
    /\ req[r].stage = "streaming"
    /\ Stage(r, "replied") \/ StreamBreaks(r)
    /\ UNCHANGED <<server, hits, blocked, objects, disk, captured>>

\* HealthController.check starts every indicator; outside production the API
\* docs are one of them.
Indicators == {"database", "redis"} \cup (IF server.production THEN {} ELSE {"docs"})
Health(r) ==
    /\ req[r].stage = "handler" /\ req[r].route = "health"
    /\ req' = [req EXCEPT ![r].stage = "checking", ![r].checks = [k \in Indicators |-> "open"]]
    /\ UNCHANGED <<server, hits, blocked, objects, disk, captured>>
Settle(r, k, outcome) ==
    /\ req[r].stage = "checking" /\ req[r].checks[k] = "open"
    /\ req' = [req EXCEPT ![r].checks[k] = outcome]
    /\ UNCHANGED <<server, hits, blocked, objects, disk, captured>>
\* The query against the timer of five seconds: the loser is not looked at.
QueryAnswers(r) == Settle(r, "database", "up") \/ Settle(r, "database", "down")
TimerMissing(r) == FALSE   \* Mutant: the query is awaited without a timer
TimerFires(r) == Settle(r, "database", "down")
\* The ping of Redis, which gives up after a second, and of the docs, which
\* waits as long as they take.
PingEnds(r, k) == k # "database" /\ (Settle(r, k, "up") \/ Settle(r, k, "error"))
\* A database that is down is a result, not an error: the check is still ok.
HealthStatus(checks) == IF \E k \in DOMAIN checks : checks[k] = "error" THEN 503 ELSE 200
Checked(r) ==
    /\ req[r].stage = "checking"
    /\ \A k \in DOMAIN req[r].checks : req[r].checks[k] # "open"
    /\ Reply(r, HealthStatus(req[r].checks))
    /\ UNCHANGED <<server, hits, blocked, objects, disk, captured>>

\* AuthModule.configure: better-auth answers with a status of its own, or
\* something throws on the way and the reply is 500.
BetterAuth(r) ==
    /\ req[r].stage = "proxy"
    /\ Reply(r, 200) \/ Reply(r, 401) \/ Reply(r, 500)
    /\ UNCHANGED <<server, hits, blocked, objects, disk, captured>>

Handle(r) == List(r) \/ Upload(r) \/ Uploaded(r) \/ Chat(r) \/ Health(r) \/ Checked(r)
ServerStep(r) == OnRequest(r) \/ Throttle(r) \/ Guard(r) \/ Intercept(r) \/ Validate(r)
                 \/ Handle(r) \/ BetterAuth(r)
AllAnswered == (\A r \in Requests : req[r].stage = "replied") /\ UNCHANGED vars
Next ==
    \/ \E r \in Requests :
         \/ Send(r) \/ ServerStep(r) \/ StreamEnds(r) \/ QueryAnswers(r) \/ TimerFires(r)
         \/ \E k \in {"redis", "docs"} : k \in Indicators /\ PingEnds(r, k)
         \/ \E i \in DOMAIN req[r].puts : Stored(r, i) \/ PutFailed(r, i)
    \/ \E key \in Keys : WindowEnds(key) \/ BlockEnds(key)
    \/ AllAnswered
Spec == Init /\ [][Next]_vars
\* What ends by itself: the timer, the ping of Redis with its time limit, and the
\* reply once every result is in. Nothing is assumed of the throttler's Redis,
\* the database, S3, the session store, the API docs or the model provider.
FairSpec ==
    /\ Spec
    /\ \A r \in Requests :
         WF_vars(TimerFires(r)) /\ WF_vars(PingEnds(r, "redis")) /\ WF_vars(Checked(r))

-----------------------------------------------------------------------------
TypeOK ==
    /\ server \in Deployments
    /\ req \in [Requests -> Request]
    /\ hits \in [Keys -> Nat] /\ blocked \subseteq Keys
    /\ objects \cup disk \subseteq Requests \X (1 .. MaxCount)
    /\ captured \subseteq Requests

\* An upload answered with 200 has stored every one of its files, in the
\* bucket or on the disk (Promise.all in FileService.uploadMultipleFiles).
UploadAnsweredMeansStored ==
    \A r \in Requests :
        req[r].route \in UploadRoutes /\ req[r].status = 200
            => FilesOf(r, req[r].files) \subseteq objects \cup disk /\ req[r].files # <<>>

\* The handlers compute with what the pipe let through: page and limit are
\* whole numbers; a chat request has a list, and what in it is an object is a
\* message: it has a list of parts, of which those that are objects have a type.
IsPart(v) == v.type = "object" => Prop(v.props, "type").type = "string"
IsMessage(v) ==
    v.type = "object" =>
        LET parts == Prop(v.props, "parts")
        IN parts.type = "array" /\ \A i \in DOMAIN parts.items : IsPart(parts.items[i])
HandlersGetTypedInput ==
    \A r \in Requests :
        req[r].stage = "handler" =>
            /\ req[r].route = ListRoute =>
                 \A p \in {"page", "limit"} : Input(r)[p].type = "number" /\ Input(r)[p].whole
            /\ req[r].route = "chat" =>
                 /\ Input(r).messages.type = "array"
                 /\ \A i \in DOMAIN Input(r).messages.items :
                      IsMessage(Input(r).messages.items[i])

\* A request is refused as one too many only while the throttler is on, and only
\* when at least as many others as the limit reached the throttler for the same
\* handler over its own connection's address: no address pays for another,
\* unless a claimed address was counted (getTracker, throttler.guard.ts).
ThrottledWithItsSocket ==
    \A r \in Requests : req[r].status = 429 =>
        /\ server.throttled
        /\ Cardinality({q \in Requests \ {r} :
              /\ req[q].route = req[r].route
              /\ req[q].stage \notin {"unsent", "hook", "throttle"}
              /\ req[q].socket = req[r].socket \/ req[q].claims \/ req[r].claims})
            >= server.limit

\* A status that went out is never replaced by another (the catch of
\* ChatController.streamChat covers only what throws before the stream starts).
StatusIsSentOnce ==
    [][\A r \in Requests : req[r].status # 0 => req'[r].status = req[r].status]_vars

DocsKeepWaiting(r) == "docs" \in DOMAIN req[r].checks /\ req[r].checks["docs"] = "open"
\* A health check ends even if neither the database nor Redis ever answers; only
\* the API docs, where they are one of the indicators, can keep it waiting.
HealthIsAnswered ==
    \A r \in Requests :
        req[r].stage = "checking" /\ ~DocsKeepWaiting(r) ~> req[r].stage = "replied"

\* The API docs give page and limit a minimum of 1 (page-options.dto.ts).
AcceptedPageIsDocumented ==
    \A r \in Requests : req[r].route = ListRoute /\ req[r].stage = "handler" =>
        Input(r).page.num >= 1 /\ Input(r).limit.num >= 1
=============================================================================
