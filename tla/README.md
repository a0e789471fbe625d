# Verification of 3dotai-backend

TLA+ models of the backend (`src/`), TLC runs that check them on small
instances, and TLAPS proofs of what matters most. The code is a NestJS
application: a main server (REST, GraphQL, WebSocket) and a worker server that
share a Postgres database and a Redis instance. Paths below are relative to the
repository; `api/…`, `auth/…` and so on are under `src/`.

## 1. Inventory

| component | state it keeps | operations | talks to | what is hard | what makes it correct |
|---|---|---|---|---|---|
| TikTok shop authorization (`api/tiktok-auth`) | table `tiktok_shop_auth`: one row per user, shop unique, tokens and expiries | initiate, callback, shop info/status, disconnect, refresh, `getValidAccessToken` | TikTok (through the client), Postgres | every handler reads, awaits TikTok, then writes; requests of one user overlap; answers take time | a shop has one user, a user's row holds only tokens granted for that user, refresh never revives a connection, a token handed out is still valid |
| TikTok API client (`services/tiktok`) | none | signed API calls, token calls, shop lookup | TikTok | no timeout | each failure becomes `BadRequestException` |
| Mail requests (`auth/auth.service.ts`) | "last sent" markers in the cache, 30 s each | magic link, verification, password reset | cache, e-mail queue, called by better-auth | the check, the enqueue and the marker are three awaits | a marker means a mail was queued; a marked request is refused; the documented limit of one mail per 30 s |
| Cache (`shared/cache`) | Redis keys with expiry | get, getTtl, set, delete | Redis | expiry between two calls | `-1`/`-2` read as "no expiry known" |
| E-mail queue and worker (`worker/queues/email`, `config/bull`) | BullMQ job sets | add, process, retry with backoff, stall recovery | Redis, Postgres, mail service | at-least-once processing, worker crashes, users deleted or renamed while a job waits | every queued job is finally completed or failed; attempts are bounded; mail goes only to a user found at processing time |
| Mail service (`shared/mail`) | none | render and send | SMTP | an answer lost after the mail left | a retry is the only way to send twice |
| Socket gateway and service (`shared/socket`) | `clients` map per server process; list of socket ids per user in the cache (1 h) | connect, disconnect, message, sendTo, sendToAll | session check, cache | read-modify-write of the cached list across awaits; several processes; expiry; restarts | the list is the user's open sockets unless a race or failure is to blame; `sendTo` reaches only the user's sockets |
| HTTP requests (`main.ts`, `auth.guard.ts`, `auth.module.ts`, throttler, pipe) | throttler counters in Redis | hook, throttle, guard, intercept, validate, handle; hand-over to better-auth | better-auth, Redis | who is counted with whom; what throws where; replies that are already out | a request is refused only for the traffic of its own address to the same handler; handlers see only input that passed the pipe; one status per request |
| File upload (`api/file`, `services/aws`) | files on disk or in S3 | single and multiple upload | disk, S3 | one of several puts fails, puts end in any order and after the reply | 200 means every file is stored |
| Health (`api/health`) | none | query of the database, ping of Redis and of the docs | Postgres, Redis | a timer racing the query; pings that may hang | a check is answered though the database and Redis are silent |
| Chat (`api/chat`) | none | streaming completion | external model | a stream that breaks after its status is out | the status is sent once |
| Input validation (`decorators`, the request DTOs) | none (pure) | conversion, defaults, validators | class-transformer, class-validator | absent, null, empty and non-numeric texts | what a handler computes with has the declared type |
| User service (`api/user`) | table `user` | list (offset, cursor), find, profile update, delete; sign-up, by better-auth | Postgres, better-auth | check-then-write of e-mail and user name; a user name without unique index; two writes one after the other, the second of which may fail; hard delete under way | an update answered with 200 is whole; a half-written one has a cause; a user name is given twice only with a cause; a deleted user stays deleted |
| Pagination (`utils/pagination`, `common/dto`) | none (pure) | page numbers; cursor queries | Prisma | off-by-one at the first and last page; the rows and the total are two queries | pages are disjoint and cover the data |
| Configuration and bootstrap (`config/*`, `main.ts`, `app.module.ts`) | the environment; what has been set up | load, validate, create, set up, connect, listen; restart | Postgres, Redis | the same variable validated in one way and read in another; order of set-up; restarts | an environment that validates starts; the parts of a server agree |
| Loggers, headers, static files, i18n texts, response classes, scripts, dashboards | none | — | — | — | — |

Components meet in shared state (the `user` table, the cache, the queue), in
calls awaited by a handler, and in callbacks (better-auth calls the mail
requests, BullMQ the processor). An action below is the code between two awaits.

## 2. Modules

Each component has a specification module; `MC_*` modules instantiate it for
TLC; `*_proofs` modules hold the theorems.

| module | models | proofs |
|---|---|---|
| `ShopRegistry` | what the TikTok service promises: a registry of users and shops | |
| `TikTokAuth` | `api/tiktok-auth` and the outcomes of `services/tiktok` | `TikTokAuth_proofs` |
| `TikTokAuthDocs` | what the component's README says of it | |
| `Accounts` | the user table as the mail subsystem sees it | |
| `EmailQueue` (extends `Accounts`) | `worker/queues/email`, `config/bull`, `shared/mail`; BullMQ is external | `EmailQueue_proofs` |
| `AuthMail` (extends `EmailQueue`) | `auth/auth.service.ts`, the markers in `shared/cache`; drives the queue | `AuthMail_proofs` |
| `SocketPresence` | `shared/socket` on several servers, the lists in `shared/cache` | `SocketPresence_proofs` |
| `Fields` | the field decorators: conversions, defaults, validators, the `ValidationPipe` | |
| `Bodies` (extends `Fields`) | the request bodies and query strings built from them | |
| `Http` (extends `Bodies`) | a request from the hook to the reply; uploads, chat, health, the hand-over to better-auth | `Http_proofs` |
| `EnvConfig` (extends `Fields`) | the configuration namespaces: what each validates and what it reads | |
| `Bootstrap` (extends `EnvConfig`) | `bootstrap()` for a server and a worker, refused starts and restarts | `Bootstrap_proofs` |
| `Pagination` | page numbers and the cursor paginator, as functions | `Pagination_proofs` |
| `Users` (extends `Pagination`) | `api/user`: profile updates, deletion, lists, finds | `Users_proofs` |

Three specifications are abstract: `ShopRegistry`, which `TikTokAuth`
implements under a refinement mapping; `QueueSpec` of `EmailQueue`, which
`AuthMail` implements; and the reference definitions `PaginatorIsExact` and
`WalkSeesEachUserOnce` compare the pages with.

Every safety property a passing run checks is also a theorem; liveness is
model-checked. Left of the plan: sessions in the cache, shared by the guard and
the deletion of a user; the guard's GraphQL transport.

## 3. TikTok shop authorization: `TikTokAuth`

**State.** `row` is the table `tiktok_shop_auth`: per user a shop, tokens, the
stored expiry and `isActive`. `alive` are the users in the database, `issued`
the time in the last `state` parameter each client was given, `now` a clock.
`req` are the requests being served: a record with the await the request is
suspended at and the locals it needs afterwards. A token carries what TikTok
knows of it (whom it was granted for, for which shop, when it expires), so a
property can compare that with what the table says.

**Actions.** Every `await` of `tiktok.service.ts` ends a step, so requests
interleave exactly where Node lets them:

| handler | steps |
|---|---|
| `initiateAuth` | `InitiateAuth` |
| `handleCallback` | `BeginCallback` (with `verifyState`), `ExchangeCode`, `ShopInfo`, `CallbackFind`, `CallbackSave` |
| `disconnectShop` | `Begin`, `DisconnectFind`, `DisconnectDelete` |
| `refreshUserToken` | `Begin`, `RefreshFind`, `TikTokRefreshes`, `RefreshReceive`, `RefreshStore` |
| `getValidAccessToken` | `Begin`, `TokenFind`, then the steps of a refresh, `TokenReread` |
| `getUserShopInfo`, `getAuthStatus` | read only: the operators `Connected` and `ShopOf`, used as the refinement mapping |

`TikTokFails` is any failure of a call to TikTok, `DeleteUser` the cascade of
the user service, `Restart` a server that stops with its requests in flight.
Prisma's unique and foreign keys are in `CanCreate` and `CanUpdate`; a violated
one is an error nobody maps (`internalError`).

**Time.** The stored expiry is computed when the answer has arrived, later than
TikTok computed the real one. Requests are assumed to take at most `Latency`,
and `TimeAssumption` asks `Buffer >= Latency` (the code's five minutes against
the time an answer takes) and `Life > 2 * Latency` (tokens outlive two
requests). Without the first, a token could be handed out expired; the code
sets no timeout that would guarantee it, so it stays an assumption.

**Left out.** Database failures other than constraints, refresh tokens that
expire, accounts with several shops in one grant (the service takes the first),
and a client that keeps an older `state` than its last one.

| run | shows |
|---|---|
| `tiktok_sharing` | two users, two shops, two requests, no time: `TypeOK`, `TokensStayWithUser`, `OnlyCallbackConnects`, and that `ShopRegistry`, in which a shop has one user, is implemented (`RegistrySpec`). Two requests are what every race here needs: one between another's read and write. |
| `tiktok_expiry` | one user, one shop, two requests, a clock of 4 with `Life` 3, `Latency` and `Buffer` 1, under `FairSpec`: `HandedTokenIsValid` across a whole lifetime and the refreshes after it, and `RequestsAreAnswered` |
| `tiktok_one_shop` | violated: README.md:9 says a user is connected to one shop; a refresh under way while a callback switches the shop leaves the new shop with the old shop's tokens |

README.md:220 of the component promises a `ConflictException` for a shop that
another user holds. `CallbackSave` has no such outcome, because the code has
none: nothing looks for another holder, and the unique index answers with an
unmapped error (`internalError`).

**Fairness.** `FairSpec` asks weak fairness of `Serve(r)`: the event loop
resumes a request whose await has settled, and TikTok settles every call. The
second half is an assumption (`axios` is called without a timeout). No fairness
is asked of clients, restarts or the clock.

**Proved** (`TikTokAuth_proofs`), for all users, shops and requests: all the
safety properties above and the refinement. The properties are not inductive:
a row's tokens are right because those of the request that writes them were,
many steps before. `IInv` adds
- `ReqSound`: a request holds tokens of its own user; tokens granted to it
  expire `Life` after it began or later; the expiry it is about to store
  overstates the real one by at most `Latency`; it is at most `Latency` old.
- `RowSound`: the same for a row, which is active and whose user exists.
- `RereadSound`: the row `getValidAccessToken` reads again was written since
  the request's own store or by a request that overlaps it, so its token is
  fresh. This is where `Life > 2 * Latency` is used.

`RequestsAreAnswered` is model-checked only.

## 4. Mail requests and the e-mail queue: `AuthMail`, `EmailQueue`

**State.** `email` (from `Accounts`) is the address of each user. `job` is each
BullMQ job with its state, data, lock and counters, and `sent`, the mails handed
to the mail server for it, which nobody stores. `worker` is where each worker
process is in its job. `AuthMail` adds `marker` (when the cache key of a kind
and user expires), `req` (the requests, at the await they are suspended at),
`mail` (how each job came to be queued, read by the properties only) and `now`.

**Actions.** A request is `BeginSignin` or `BeginForUser` (called by
better-auth), `FindUser`, `CheckTtl`, `Add`, `SetMarker`, or `RequestFails` at
any await. A worker is `Take`, `Lookup` (`findUnique`), `Send` (accepted,
refused, or accepted with the answer lost), then `Complete` or `Fail`. `Crash`
and `LoseLock` are a worker that stops, and one that fails to renew its lock and
works on; `StalledCheck` hands a job without a lock to another worker, once.
BullMQ is outside the repository: these actions model what the code relies on
(the outcome of a job is taken from the holder of its lock, `attempts`,
`backoff`, `maxStalledCount` 1). The limiter only slows workers, and the removal
of finished jobs and the event listeners only clean up and log.

`attempts` is 0 unless `QUEUE_FAILED_RETRY_ATTEMPTS` is set; `config/bull`
validates a different name, `RETRY_ATTEMPTS_ON_FAIL`. 0 and 1 are both one try
(`Chances`).

| run | shows |
|---|---|
| `queue_safety` | two jobs, two workers, two attempts, one stall, one user with two addresses: `MailsPerJobBounded`, `CompletedMeansSentOrGone`, and `EveryJobFinishes` under the queue's fairness. Two workers are what a lost lock needs, two jobs what a busy worker needs to keep another waiting. |
| `mail_markers` | two requests and two kinds of mail for one user, a window of 2 and a clock of 3: `CloseMailsAreRaces`, `MarkerMeansQueued`, and that every step drives the queue as its own specification allows (`DrivesQueueAsSpecified`). No workers: their steps are the queue's own actions, so only those of requests and accounts could differ. |
| `mail_rate` | violated: the comment at `auth.service.ts:39` says one mail per 30 seconds; the marker is set two awaits after it was read, and two requests pass in between |

Deadlock is not checked for the queue alone: with finitely many jobs it really
comes to rest when all are finished and the users are gone.

**Fairness.** `QueueFairness`: workers that are free take waiting jobs, calls a
worker awaits settle, backoffs end, and the stalled check runs
(`stalledInterval`). None for crashes, lost locks, requests or deletions: a job
finishes because `StalledCheck` gives up on it, not because crashes end.

**Proved** (`EmailQueue_proofs`, `AuthMail_proofs`): all the safety properties
above, for any number of jobs, workers and requests and any `Attempts`, `Window`
and finite set of workers, and that `AuthMail` implements `EmailQueue`
(`DrivesQueue` for the steps, `ImplementsQueue` for the whole specification;
the fairness is the same formula). `QueueInv` adds
- `LockSound`: whoever holds a lock works on that job;
- `SentSound`: each time a job was taken ended in a counted failure or stall,
  or is the present one, and each sends at most one mail; so mails sent and
  workers still busy with the job are bounded by the counters. Counting busy
  workers matters: one that lost its lock may still send.
- `CountersSound`: the counters stop at their limits;
- `WorkerSound`: a worker is done only after a mail, or for want of a user.

`AuthMail`'s `IInv` adds that a marker is never earlier than a window after any
mail that set it, and that whoever found a marker dead did so a window after
every mail that had set it before (`Waited`).

`EveryJobFinishes` is model-checked only.

## 5. Socket presence: `SocketPresence`

**State.** `open` is each socket's life, `clients` the gateway's map on each
server, `list` the cached list of each user (`UserSocketClients`), `joining` and
`leaving` where `handleConnection` and `handleDisconnect` are for a socket with
the list they read, `sending` a call of `sendTo` on each server. `disturbed` is
kept for the properties: users for whom handlers overlapped or something failed.

**Actions.** Each handler is three steps, with an await before the read and
before the write. `HandlerFails` is a rejected cache call, `ServerCrash` loses a
server's map and sockets, `Expire` is the hour's TTL; time is not counted, the
TTL may end at any moment after a write. `sendTo` reads the list and then looks
in its own server's map only.

| run | shows |
|---|---|
| `socket_presence` | a user on two servers, another user on one: `UndisturbedListIsExact` names everything that makes a list differ from the user's sockets (overlap, failure, crash, TTL) and that only a quiet expiry repairs it; `SendsReachOnlyTheUser` shows that a wrong list never makes a message go astray |

Three sockets allow the overlaps on one server and on two. Not modelled: the
middleware (a socket without a session never reaches the handlers), `message`
and `ping` (no state), `sendToAll` (the local map). `SocketService` has no
caller in the repository.

**Proved** (`SocketPresence_proofs`), for any users, servers and sockets: the
three invariants. `UndisturbedListIsExact` speaks of moments when no handler of
the user runs; the invariant says what the list is while one does. `MapSound`:
a server's map holds just its own open sockets. `ListsSound`: entries and what
`sendTo` has read contain only the user's sockets. `DisturbedSound`: for a user
who is not disturbed the list is exact (`Quiet`), or one handler alone is on its
way, with what it read equal to the list, and its own socket the one difference
between the list and the open sockets (`JoiningAlone`, `LeavingAlone`).

## 6. HTTP requests: `Http`, `Bodies`, `Fields`

**State.** `server` is the configuration in effect, `req` each request with its
stage, route, connection's address, files, status and what it awaits, `hits` and
`blocked` the throttler's counters and blocks in Redis, one for each handler and
tracker, `objects` and `disk` the files stored, `captured` the errors Sentry got.
What a request carries is chosen where the server reads it: the basic-auth header
by the hook, the forwarding headers by the throttler, the files by the
interceptor, the body by the pipe.

**Actions.** `OnRequest` (basic auth of the tool pages), `Throttle`, `Guard`,
`Intercept` (the limits on files), `Validate`, then the handler: `List`, `Upload`
with `Stored`, `PutFailed` and `Uploaded` (`Promise.all`), `Chat` and
`StreamEnds`, `Health` with `QueryAnswers`, `TimerFires`, `PingEnds` and
`Checked`. `BetterAuth` is the catch-all route of `AuthModule`. `WindowEnds` and
`BlockEnds` are the expiry of a counter and of a block. A put may end after the
request was answered.

**Throttler.** `getTracker` asks whether the forwarding header has a text. With a
text the tracker is the connection's address, and where no proxy is trusted the
list it takes it from is missing, so it throws; with an empty header it falls
back to `req.ip`, which behind a trusted proxy is whatever address the client
claims (`Tracker`, `TrackerThrows`, `Claims`). The throttler counts in Redis:
the call may fail before or after it has counted, or never be answered.

**Input.** `Fields` models what the decorators of `field.decorators.ts` make of
a JSON value: class-transformer's conversion, the transforms, the defaults and
each validator. Of a text only its form, its length and a numeral's value are
kept. `Bodies` builds the request classes from them, as the DTOs do. Nested
validation (class-validator 0.14, `@ValidateNested({ each: true })`) passes over
items that are null and walks into items that are lists (`ItemsOf`, `Opened`,
`Looked`). What can be sent are two constants: `Queries`, parsed query strings,
whose values are texts or lists (`HttpAssumption`), and `Bodies_`, JSON bodies,
of which nothing is assumed. `f ++ g` of `Fields` merges records, the left one
first.

| run | shows |
|---|---|
| `http` | two requests, two addresses, at most two files, a throttler limit of 1, and two deployments (development on the local disk; production with S3, throttler, trusted proxy and Sentry): all properties below, under `FairSpec`. Two requests are enough for one to be throttled with the other; two files for one put to fail. 818,452 states. |
| `page_minimum` | violated: `page-options.dto.ts` gives page and limit `minimum: 1`, which reaches the API docs only (the validator's option is `min`), so page 0 and negative limits pass |

`UploadAnsweredMeansStored`: 200 means every file is stored.
`ThrottledWithItsSocket`: 429 is answered only with the throttler on and only
after at least the limit of others came to the same handler over the same
connection's address, a claimed address aside. `HandlersGetTypedInput`: what the
pipe lets through has the types the handler computes with, as far as the pipe
looks: items that are null or lists in lists do pass, so `{"messages":[null]}`
reaches the chat handler, although `chat.dto.ts:312-314` documents an array of
chat messages.
`StatusIsSentOnce`: nothing replaces a status that is out. `HealthIsAnswered`: a
health check ends even if neither the database nor Redis ever answers; only the
ping of the API docs, where it is an indicator, can keep it waiting.

**Fairness** (`FairSpec`). Of the five-second timer of `prisma.health.ts`, of the
ping of Redis, to which terminus gives a limit of its own, and of the reply once
all results are in. Nothing is asked of the throttler's Redis, the ping of the
docs (neither the controller nor terminus sets it a limit), the database, S3, the
session store or the model.

**Proved** (`Http_proofs`), for any number of requests and addresses, any
deployments, uploads and limit: `TypeOK`, `UploadAnsweredMeansStored`,
`ThrottledWithItsSocket`, `StatusIsSentOnce`. The invariant adds, per request,
which statuses, files, puts and results belong to a stage (`PlaceSound`,
`FilesSound`), `HitsSound`: a counter is at most the number of requests to its
handler that passed the throttler and may have been counted there, and
`BlocksSound`: a counter is blocked only when more of them than the limit have.
Both stay true while windows and blocks end and Redis fails, because requests
never come back. `Moves` says what a step may do to the record of its request;
`StatusIsSentOnce` follows from it.

`HandlersGetTypedInput` is proved as well, for any query strings and bodies. It
has two halves. No path leads to the list or the chat handler around the pipe:
`InputSound`, that a request in such a handler has a body the pipe took, is
invariant by `Moves`. And a body the pipe took is typed: `PageIsNumber` follows
a page number through conversion and validation (a text that is no numeral
becomes NaN and is refused, a list stays a list and is refused), `ListFits` and
`PartsFit` go down the nesting from the request to the messages that are objects
and their parts.

`HealthIsAnswered` is model-checked only.

**Left out.** Response headers, the guard's GraphQL and WebSocket branches, rows
a user list returns (they are in `Users`), and `setupHooks` of `AuthModule`,
which returns at once because the configuration has no hooks.

## 7. Configuration and start: `EnvConfig`, `Bootstrap`

**State.** `env`, the environment, fixed; `database`, up or away; `phase`,
`loaded` and `done`, how far `bootstrap()` has come; `cause`, why it was refused.

**Actions.** One per step of `main.ts`, in its order: `LoadNamespace` for each
namespace (`validateConfig` of its class), `CreateModules` (every `getOrThrow` of
the factories of the role, and pino, which throws for a level it does not know),
cookies, pipes, CORS, docs, Sentry, hooks, `Connect`, `Bind`. A step that throws refuses the start; `Restart` is the container's
`restart: unless-stopped`. Once Sentry is set up with a real address its handler
takes the rejected promise, the process stays and is not started again
(`KeptAlive`). `EnvConfig` holds each validator class and each
`getConfig`, which reads the same variables with `parseInt`: `Number` and
`parseInt` differ on "3e3", "30s", ".5", a blank and the empty text, and the
properties say where that can be seen. `getCorsOrigin` makes its alias for what
begins with `http://localhost`: an `Origin` is that beginning and a rest, which
may be a port or more of a name.

| run | shows |
|---|---|
| `boot` | `.env.example` as a server and as a worker, under two values of `NODE_ENV`; each of its variables unset or one of eleven other texts; the same with `DATABASE_URL` in place of the host; the throttler on without a limit; a real Sentry address with an origin that only begins like localhost. 87,640 states. |

The alias for localhost is wider than its comment ("localhost",
`app.config.ts:123`): from a configured `http://localhost-app.com` the prefix
test makes `http://127.0.0.1-app.com`, an origin of another name, and lets it in.
`ConfiguredOrigins` counts it among the aliases; the run includes the case.

`ValidatedIsEnough` and `NumbersHaveACause` list every way in which a validated
environment still fails or yields no number; `OneDatabase`, `ConfiguredOrigins`
and `ModesAgree` relate values two parts of the server compute on their own.
`CompleteEnvironmentBoots`, under weak fairness of the server's steps and of the
restart, assumes that the database finally stays up, for the environments of
`.env.example`, which leave the Sentry address empty. One variable differs from
the example at a time; the pairs that matter together (`DATABASE_URL` with the
parts, the throttler with its limit) are added.

**Proved** (`Bootstrap_proofs`): `TypeOK` and these five properties for every
environment, whichever variables it sets and to whatever texts. All that is
assumed of a text is how the two readings of it go together (`IsText`: a numeral
is read alike by `Number` and `parseInt`, there is one empty text, an origin is
as it was written; that `Number` reads a text says nothing of `parseInt`). The
proof has two layers.
- The invariant `IInv` of the start: the namespaces loaded so far are valid;
  past `loading` all are; past the docs step they are set up where they are
  served; and a refused start has the condition its cause names, the unknown log
  level among them (`RefusedFor`).
- What validation is worth, without any step: `Accepted` splits the verdict on a
  variable, `NumberIsRead` and `PortIsRead` say what `parseInt` makes of a text
  that was accepted as a number, `OmittedHasAName` which variables a `getOrThrow`
  can miss, `KnownEnvironment` which values of `NODE_ENV` get through.

The attempt to prove `ValidatedIsEnough` for all texts, beyond those of the run,
showed that it had a gap: `APP_PORT` may be a text that `Number` reads as a port
and `parseInt` as a number too large. The last clause names that case. Origins
are sets: the order in which `getCorsOrigin` lists them decides nothing.

`CompleteEnvironmentBoots` is model-checked only.

## 8. Users and lists: `Users`, `Pagination`

**State.** `rows` is the user table, `gone` the ids that were deleted, `req` the
requests, each at the await it is suspended at.

**Actions.** `updateUserProfile` is `StartUpdate`, `LookUpEmail`,
`LookUpUsername`, `AuthLookUp`, `AuthWrite` (better-auth's two parts), `Write`,
`ReadBack`; a step is taken only for a field the body has. Any query a
request awaits may fail (`QueryFails`); a deletion that fails changes nothing, as
one without a row does. `StartFind`, `Delete` and `ListByCursor` are one
query each. A walk over the pages is `StartWalk`,
`QueryItems` and `QueryTotal` (started together, answered in any order) and
`AnswerPage`. Signing up is better-auth's: `StartSignUp`, `LookUpSignUp` and
`Create`, by an address, whose user name the username plugin looks up, or with
GitHub, whose login `mapProfileToUser` takes as the user name and nothing looks
up. The plugin stores and looks up names in small letters (`Lower`, `Named`); a
GitHub login is taken in either form (`StoredNames`). "name" stands for first
and last name. A step that changes the table marks the other requests under way
as `disturbed`, for the properties only.

The cursor list always answers 500: its query selects the column `status`, which
the table has not got. `nextPage` and `previousPage` are always undefined: the
constructor compares with `totalPages` before it assigns it. Both are modelled
as they are.

| run | shows |
|---|---|
| `users` | two requests, three ids, three addresses, four user names of which one has a capital, tables of two rows with equal and with different instants, a third row of a later or the same instant, pages of 1 and 2: all properties. Two requests are what each race here needs, one of them writing between the other's look-up and its write; three rows make a walk of three pages, and one whose last page is short. 54,766 states; with a third request the space grows past what a run can hold, and no property relates three requests. |
| `usernames` | violated: `user.schema.ts:15` says a user name must be unique; a GitHub sign-up takes a login another user has as name, and the column has no unique index |

`UsernameClashHasACause`, `HalfWriteHasACause` and `AnsweredUpdateIsWhole` say
what an update guarantees, and name every excuse: two users come to have one name
only by a GitHub sign-up, or through a look-up that another request's write
overtook; an update fails after better-auth has written its part only when
another request wrote in between, the address asked for is null, or a query
failed; one answered with 200 that nobody disturbed is in the table, the user
name perhaps without its capitals. `PaginatorIsExact` compares `Paginate` with a
reference definition for every cursor and limit; `WalkSeesEachUserOnce` is the
whole walk.

**Proved** (`Users_proofs`), for any number of users and requests: `TypeOK`,
`DeletedStaysDeleted`, `UsernameClashHasACause`, `HalfWriteHasACause`,
`AnsweredUpdateIsWhole`. The invariant adds `RequestSound` (what a request at
each await must be) and `Fresh`: what an undisturbed request has looked up or
written so far still holds of the table.

`PaginatorIsExact` holds for any set of ids, any cursor among them and any limit,
and the proof needs no induction over lists. In `Pagination` the list of a query
is given by ranks (`Ordered`: at place `i` the id that `i - 1` ids precede), so
`Pagination_proofs` can count: `NumberingReachesAll` (as many different ranks as
ids, so every rank is taken) makes the list well defined, `Between` and `LeftOver`
say what is left of it after a cursor, `Reversed` and `LastOnes` what the flipped
order and `Reverse` do to each other, `OneTooMany` that asking for one row more
than the limit tells whether there is more. `PageAfter` and `PageBefore` put them
together.

`WalkSeesEachUserOnce` holds for any number of users and any page size. Its
invariant `Walks` says of a walk nobody disturbed, over rows of different
instants: it has seen `(page - 1) * limit` rows and at most all, what it has seen
and what it has just read is in place (`InPlace`: the row at place `i` has as
many newer rows as rows came before it), and the total it has read is the number
of rows. `ListingInPlace` gives the places of a sorted listing, `MorePages` shows
that the client's test against `totalPages` is exact, and `AllInPlace` that a list
with a row at every place has every row. Rows of one instant are excluded because
the order of such rows differs from query to query, writes because pages shift.
Instants are numbers (`UsersAssumption`).

## 9. What is not modelled, and what is only checked

- Security headers, static files, API versions, loggers, dashboards, response
  classes, e-mail templates and i18n texts: constants and formatting.
- `SocketService.sendToAll`, `updateUser`, `utils/pagination/offset-pagination.ts`
  and `database-logger.ts`: nothing in the repository calls them, or they change
  no state.
- Sessions, sign-up and plugins are better-auth's, BullMQ, Prisma, S3, TikTok
  and the model provider are services: modelled by the outcomes the code
  handles, as the versions `package.json` names behave. Two simplifications:
  `updateUser` of better-auth finds the row by the session's user, and a sign-up
  looks up address and name in one step.
- Database failures: in `Users`, `EmailQueue`, `AuthMail`, `Http` and at the start
  any query may fail; in `TikTokAuth` only constraints do (another failing query
  there is one 500, and the grant that is lost with it is lost in the same way
  as with a violated constraint).
- What becomes of a mail the mail server accepted; build and deployment scripts.

Model-checked only: the four liveness properties (`RequestsAreAnswered`,
`EveryJobFinishes`, `HealthIsAnswered`, `CompleteEnvironmentBoots`), which rest on
fairness and so on ENABLED, out of the prover's reach, and the four
disagreements with the documentation, which are counterexamples. Every other
property is proved. Every bound above is of the instances: the theorems hold for
all values of the constants that satisfy the named assumptions.
