----------------------------- MODULE TikTokAuth -----------------------------
(* The TikTok shop authorization service (src/api/tiktok-auth): the table of
   shop connections, the requests that read and write it between awaits, and
   the answers of TikTok.  Every `await` of tiktok.service.ts ends a step, so
   that requests of the same or of different users interleave there.

   A token stands for the access and refresh token of one grant and carries
   what TikTok knows about it: for whom and for which shop it was granted, and
   when its access token really expires.  `refreshTokenExpiresAt`, the names,
   scopes and regions are written together with the tokens and read by no
   decision; they are left out. *)
EXTENDS Integers

CONSTANTS
    Users, Shops,
    Requests,       \* slots for requests being served at the same time
    None,           \* no row, no token, no timestamp
    Life,           \* access_token_expire_in, the same for every grant
    Buffer,         \* getValidAccessToken refreshes this long before expiry
    StateMaxAge,    \* verifyState refuses a state older than this
    Latency,        \* a request is answered within this time (environment)
    MaxTime         \* bound on the clock

Token == [user : Users, shop : Shops, expires : Nat]
Row   == [shop : Shops, token : Token, expiresAt : Nat, isActive : BOOLEAN]

ASSUME NoneAssumption ==
    None \notin Users \cup Shops \cup Nat \cup Token \cup Row
ASSUME TimeAssumption ==
    /\ Life \in Nat /\ Buffer \in Nat /\ StateMaxAge \in Nat
    /\ Latency \in Nat /\ MaxTime \in Nat
    /\ Buffer >= Latency
    /\ Life > 2 * Latency

VARIABLES
    alive,      \* users that exist in the database
    row,        \* tiktok_shop_auth: the row of each user, or None
    issued,     \* timestamp of the last state each user's client was given
    req,        \* the requests being served, and the last answers
    now

vars == <<alive, row, issued, req, now>>

-----------------------------------------------------------------------------
(* Requests.  `at` is the await a request is suspended at. *)

Ops == {"callback", "disconnect", "refresh", "token"}
FirstAwait == [callback |-> "ExchangeCode", disconnect |-> "DisconnectFind",
               refresh |-> "RefreshFind", token |-> "TokenFind"]
Awaits == {"ExchangeCode", "ShopInfo", "CallbackFind", "CallbackSave",
           "DisconnectFind", "DisconnectDelete", "RefreshFind", "TokenFind",
           "RefreshCall", "RefreshReceive", "RefreshStore", "TokenReread"}
(* While suspended here a request holds the tokens it read or was granted. *)
HoldsToken == {"ShopInfo", "CallbackFind", "CallbackSave", "RefreshCall",
               "RefreshReceive", "RefreshStore"}
(* Where getValidAccessToken is suspended. *)
TokenAwaits == {"TokenFind", "RefreshCall", "RefreshReceive", "RefreshStore",
                "TokenReread"}
Answers == {"none", "ok", "badRequest", "unauthorized", "notFound",
            "internalError"}

Request == [at : Awaits \cup {"idle"}, op : Ops \cup {"none"},
            user : Users \cup {None}, began : Nat, token : Token \cup {None}, expiresAt : Nat, found : BOOLEAN,
            answer : Answers]

(* A request of u that has just arrived. *)
Arrived(u, op) ==
    [at |-> FirstAwait[op], op |-> op, user |-> u, began |-> now,
     token |-> None, expiresAt |-> 0, found |-> FALSE, answer |-> "none"]

(* A request of u that has been answered with a, handing out token tk. *)
Answered(u, op, a, tk) ==
    [at |-> "idle", op |-> op, user |-> u, began |-> 0,
     token |-> tk, expiresAt |-> 0, found |-> FALSE, answer |-> a]

InFlight(r) == req[r].at # "idle"

Answer(r, a, tk) ==
    req' = [req EXCEPT ![r] = Answered(req[r].user, req[r].op, a, tk)]

-----------------------------------------------------------------------------
(* The table.  userId and shopId are unique; userId references the user, with
   onDelete: Cascade. *)

HeldByOther(u, s) ==
    \E v \in Users \ {u} : row[v] # None /\ row[v].shop = s

(* Mutant: the schema without the foreign key to the user. *)
CreateForAnyone(u, s) == row[u] = None /\ ~HeldByOther(u, s)

CanCreate(u, s) == u \in alive /\ row[u] = None /\ ~HeldByOther(u, s)
CanUpdate(u, s) == row[u] # None /\ ~HeldByOther(u, s)

(* getUserShopInfo, and the connected flag of getAuthStatus. *)
Connected(u) == row[u] # None /\ row[u].isActive
ShopOf(u) == IF Connected(u) THEN row[u].shop ELSE None

-----------------------------------------------------------------------------
(* TikTok. *)

Granted(u, s) == [user |-> u, shop |-> s, expires |-> now + Life]

(* TikTok answers with an error code, no shop, or the call itself fails: the
   client and refreshAccessTokenInternal turn each into BadRequestException. *)
TikTokFails(r) ==
    /\ req[r].at \in {"ExchangeCode", "ShopInfo", "RefreshCall"}
    /\ Answer(r, "badRequest", None)
    /\ UNCHANGED <<alive, row, issued, now>>

(* TikTok grants new tokens for a refresh token; the answer is on its way. *)
TikTokRefreshes(r) ==
    /\ req[r].at = "RefreshCall"
    /\ req' = [req EXCEPT ![r].at = "RefreshReceive",
                          ![r].token = Granted(@.user, @.shop)]
    /\ UNCHANGED <<alive, row, issued, now>>

-----------------------------------------------------------------------------
(* initiateAuth: refused while connected; otherwise the client gets a state
   with the current time.  The refused call changes nothing. *)
InitiateAuth(u) ==
    /\ ~Connected(u)
    /\ issued' = [issued EXCEPT ![u] = now]
    /\ UNCHANGED <<alive, row, req, now>>

(* verifyState: v is the user the state names, None if it does not parse. *)
ValidState(u, v) ==
    /\ v = u
    /\ now - issued[v] <= StateMaxAge

(* handleCallback starts: the state parameter is optional, and may be the one
   issued to any user. *)
BeginCallback(r, u) ==
    /\ ~InFlight(r)
    /\ \/ req' = [req EXCEPT ![r] = Arrived(u, "callback")]
       \/ \E v \in {w \in Users : issued[w] # None} \cup {None} :
            req' = [req EXCEPT ![r] =
                      IF ValidState(u, v)
                      THEN Arrived(u, "callback")
                      ELSE Answered(u, "callback", "unauthorized", None)]
    /\ UNCHANGED <<alive, row, issued, now>>

(* TikTok exchanges the code for tokens of one shop; getShopInfo is called. *)
ExchangeCode(r) ==
    /\ req[r].at = "ExchangeCode"
    /\ \E s \in Shops :
         req' = [req EXCEPT ![r].at = "ShopInfo",
                            ![r].token = Granted(req[r].user, s)]
    /\ UNCHANGED <<alive, row, issued, now>>

(* The shop's data arrives; the expiry is computed only now. *)
ShopInfo(r) ==
    /\ req[r].at = "ShopInfo"
    /\ req' = [req EXCEPT ![r].at = "CallbackFind",
                          ![r].expiresAt = now + Life]
    /\ UNCHANGED <<alive, row, issued, now>>

CallbackFind(r) ==
    /\ req[r].at = "CallbackFind"
    /\ req' = [req EXCEPT ![r].at = "CallbackSave",
                          ![r].found = (row[req[r].user] # None)]
    /\ UNCHANGED <<alive, row, issued, now>>

(* Mutant: a failing save is never answered. *)
SaveNeverFails(r) ==
    LET u == req[r].user
        s == req[r].token.shop
    IN  /\ req[r].at = "CallbackSave"
        /\ IF req[r].found THEN CanUpdate(u, s) ELSE CanCreate(u, s)
        /\ row' = [row EXCEPT ![u] =
             [shop |-> s, token |-> req[r].token,
              expiresAt |-> req[r].expiresAt, isActive |-> TRUE]]
        /\ Answer(r, "ok", None)
        /\ UNCHANGED <<alive, issued, now>>

(* Update or create, by what CallbackFind saw; a violated constraint or a row
   gone missing is a Prisma error nobody maps. *)
CallbackSave(r) ==
    LET u == req[r].user
        s == req[r].token.shop
        saved == IF req[r].found THEN CanUpdate(u, s) ELSE CanCreate(u, s)
    IN  /\ req[r].at = "CallbackSave"
        /\ \/ /\ saved
              /\ row' = [row EXCEPT ![u] =
                   [shop |-> s, token |-> req[r].token,
                    expiresAt |-> req[r].expiresAt,
                    isActive |-> IF req[r].found THEN row[u].isActive ELSE TRUE]]
              /\ Answer(r, "ok", None)
           \/ /\ ~saved
              /\ Answer(r, "internalError", None)
              /\ UNCHANGED row
        /\ UNCHANGED <<alive, issued, now>>

-----------------------------------------------------------------------------
(* disconnectShop, refreshUserToken and getValidAccessToken start. *)
Begin(r, u, op) ==
    /\ ~InFlight(r)
    /\ req' = [req EXCEPT ![r] = Arrived(u, op)]
    /\ UNCHANGED <<alive, row, issued, now>>

DisconnectFind(r) ==
    /\ req[r].at = "DisconnectFind"
    /\ IF row[req[r].user] = None
       THEN Answer(r, "notFound", None)
       ELSE req' = [req EXCEPT ![r].at = "DisconnectDelete"]
    /\ UNCHANGED <<alive, row, issued, now>>

(* Prisma's delete throws when the row is gone. *)
DisconnectDelete(r) ==
    LET u == req[r].user
    IN  /\ req[r].at = "DisconnectDelete"
        /\ row' = [row EXCEPT ![u] = None]
        /\ Answer(r, IF row[u] = None THEN "internalError" ELSE "ok", None)
        /\ UNCHANGED <<alive, issued, now>>

RefreshFind(r) ==
    LET u == req[r].user
    IN  /\ req[r].at = "RefreshFind"
        /\ IF row[u] = None
           THEN Answer(r, "notFound", None)
           ELSE req' = [req EXCEPT ![r].at = "RefreshCall",
                                   ![r].token = row[u].token]
        /\ UNCHANGED <<alive, row, issued, now>>

(* Mutant: no buffer before the stored expiry. *)
NotYetExpired(u) == now < row[u].expiresAt

(* The stored token is good until Buffer before its stored expiry. *)
StillGood(u) == now < row[u].expiresAt - Buffer

TokenFind(r) ==
    LET u == req[r].user
    IN  /\ req[r].at = "TokenFind"
        /\ \/ /\ ~Connected(u)
              /\ Answer(r, "notFound", None)
           \/ /\ Connected(u) /\ StillGood(u)
              /\ Answer(r, "ok", row[u].token)
           \/ /\ Connected(u) /\ ~StillGood(u)
              /\ req' = [req EXCEPT ![r].at = "RefreshCall",
                                    ![r].token = row[u].token]
        /\ UNCHANGED <<alive, row, issued, now>>

(* refreshAccessTokenInternal resumes with TikTok's answer. *)
RefreshReceive(r) ==
    /\ req[r].at = "RefreshReceive"
    /\ req' = [req EXCEPT ![r].at = "RefreshStore",
                          ![r].expiresAt = now + Life]
    /\ UNCHANGED <<alive, row, issued, now>>

(* refreshUserToken is done; getValidAccessToken reads the row once more. *)
AfterStore(r) ==
    IF req[r].op = "token"
    THEN req' = [req EXCEPT ![r].at = "TokenReread"]
    ELSE Answer(r, "ok", None)

(* Mutant: the update names the row by its shop. *)
StoreByShop(r) ==
    /\ req[r].at = "RefreshStore"
    /\ row' = [v \in Users |->
         IF row[v] # None /\ row[v].shop = req[r].token.shop
         THEN [row[v] EXCEPT !.token = req[r].token, !.expiresAt = req[r].expiresAt]
         ELSE row[v]]
    /\ AfterStore(r)
    /\ UNCHANGED <<alive, issued, now>>

(* Mutant: an upsert in place of the update. *)
StoreByUpsert(r) ==
    /\ req[r].at = "RefreshStore"
    /\ row' = [row EXCEPT ![req[r].user] =
         [shop |-> req[r].token.shop, token |-> req[r].token,
          expiresAt |-> req[r].expiresAt, isActive |-> TRUE]]
    /\ AfterStore(r)
    /\ UNCHANGED <<alive, issued, now>>

(* The update names the user's row, whatever it has become, and changes its
   tokens only; an error is answered as BadRequestException. *)
RefreshStore(r) ==
    LET u == req[r].user
    IN  /\ req[r].at = "RefreshStore"
        /\ \/ /\ row[u] = None
              /\ Answer(r, "badRequest", None)
              /\ UNCHANGED row
           \/ /\ row[u] # None
              /\ row' = [row EXCEPT ![u].token = req[r].token,
                                    ![u].expiresAt = req[r].expiresAt]
              /\ AfterStore(r)
        /\ UNCHANGED <<alive, issued, now>>

(* Mutant: `updatedAuth?.accessToken`. *)
RereadUnchecked(r) ==
    /\ req[r].at = "TokenReread"
    /\ Answer(r, "ok", IF row[req[r].user] = None THEN None
                        ELSE row[req[r].user].token)
    /\ UNCHANGED <<alive, row, issued, now>>

(* `updatedAuth!.accessToken`: a TypeError when the row is gone. *)
TokenReread(r) ==
    LET u == req[r].user
    IN  /\ req[r].at = "TokenReread"
        /\ IF row[u] = None
           THEN Answer(r, "internalError", None)
           ELSE Answer(r, "ok", row[u].token)
        /\ UNCHANGED <<alive, row, issued, now>>

-----------------------------------------------------------------------------
(* UserService.deleteUser: the row goes with the user.  Sessions live on in
   the session cache, so requests of a removed user still arrive. *)
DeleteUser(u) ==
    /\ u \in alive
    /\ alive' = alive \ {u}
    /\ row' = [row EXCEPT ![u] = None]
    /\ UNCHANGED <<issued, req, now>>

(* The server stops and starts again: what was in flight is never answered. *)
Restart ==
    /\ \E r \in Requests : InFlight(r)
    /\ req' = [r \in Requests |->
                 IF InFlight(r)
                 THEN Answered(req[r].user, req[r].op, "none", None)
                 ELSE req[r]]
    /\ UNCHANGED <<alive, row, issued, now>>

Tick ==
    /\ now < MaxTime
    /\ \A r \in Requests : InFlight(r) => now < req[r].began + Latency
    /\ now' = now + 1
    /\ UNCHANGED <<alive, row, issued, req>>

-----------------------------------------------------------------------------
Init ==
    /\ alive = Users
    /\ row = [u \in Users |-> None]
    /\ issued = [u \in Users |-> None]
    /\ req = [r \in Requests |-> Answered(None, "none", "none", None)]
    /\ now = 0

(* A step of the server or of TikTok that carries request r further. *)
Serve(r) ==
    \/ TikTokFails(r) \/ TikTokRefreshes(r)
    \/ ExchangeCode(r) \/ ShopInfo(r) \/ CallbackFind(r) \/ CallbackSave(r)
    \/ DisconnectFind(r) \/ DisconnectDelete(r)
    \/ RefreshFind(r) \/ TokenFind(r)
    \/ RefreshReceive(r) \/ RefreshStore(r) \/ TokenReread(r)

Next ==
    \/ \E r \in Requests : Serve(r)
    \/ \E r \in Requests, u \in Users :
         \/ BeginCallback(r, u)
         \/ \E op \in Ops \ {"callback"} : Begin(r, u, op)
    \/ \E u \in Users : InitiateAuth(u) \/ DeleteUser(u)
    \/ Restart
    \/ Tick

Spec == Init /\ [][Next]_vars

(* The event loop resumes every request whose await has settled, and TikTok
   settles every call: the client sets no timeout, so this is an assumption
   about TikTok and the network. *)
FairSpec == Spec /\ \A r \in Requests : WF_vars(Serve(r))
-----------------------------------------------------------------------------
(* A request in flight has a user, an operation that fits where it is suspended
   and, where the code goes on to use one, a token; the answer "ok" of getValidAccessToken carries a token. *)
WellFormed(q) ==
    /\ q \in Request
    /\ q.at # "idle" => q.user \in Users /\ q.op \in Ops
    /\ q.at # "idle" /\ q.op = "token" => q.at \in TokenAwaits
    /\ q.at \in HoldsToken => q.token # None
    /\ q.op = "token" /\ q.answer = "ok" => q.token # None

(* Every variable has its type and every request is well formed; in particular
   getValidAccessToken never answers without a token (tiktok.service.ts:187,
   where the row may have gone). *)
TypeOK ==
    /\ alive \subseteq Users
    /\ row \in [Users -> Row \cup {None}]
    /\ issued \in [Users -> Nat \cup {None}]
    /\ req \in [Requests -> Request]
    /\ now \in 0..MaxTime
    /\ \A r \in Requests : WellFormed(req[r])

(* A user's row holds, and getValidAccessToken hands to a user, only tokens
   TikTok granted for that user, whatever refreshes, disconnects and callbacks
   happened between the reading of the row and the writing of the tokens. *)
TokensStayWithUser ==
    /\ \A u \in Users : row[u] # None => row[u].token.user = u
    /\ \A r \in Requests : req[r].token # None => req[r].token.user = req[r].user

(* A token getValidAccessToken hands out has not expired at TikTok, although
   the stored expiry is computed after the answer travelled and the row may
   have been rewritten by others before it is read again. *)
HandedTokenIsValid ==
    [][\A r \in Requests :
         req[r].op = "token" /\ InFlight(r) /\ ~InFlight(r)' /\ req'[r].answer = "ok"
         => now < req'[r].token.expires]_vars

(* A connection comes into being only when a callback of that same user is
   answered "ok": a refresh that was under way when the shop was disconnected
   or the user deleted never brings the row back. *)
OnlyCallbackConnects ==
    [][\A u \in Users :
         row[u] = None /\ row'[u] # None
         => /\ u \in alive
            /\ \E r \in Requests :
                 /\ req[r].at = "CallbackSave" /\ req[r].user = u
                 /\ req'[r].answer = "ok"]_vars

(* The service implements the abstract registry, seen through
   getUserShopInfo. *)
Registry == INSTANCE ShopRegistry
              WITH users <- alive, shopOf <- [u \in Users |-> ShopOf(u)]
RegistrySpec == Registry!Spec

(* Every request is answered, or dropped by a restart, when TikTok settles
   every call: no outcome of a call leaves a request hanging. *)
RequestsAreAnswered == \A r \in Requests : InFlight(r) ~> ~InFlight(r)
=============================================================================
