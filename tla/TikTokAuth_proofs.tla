-------------------------- MODULE TikTokAuth_proofs --------------------------
(* Proofs about TikTokAuth, for every set of users, shops and request slots and
   every choice of the durations that satisfies TimeAssumption. *)
EXTENDS TikTokAuth, TLAPS

(* What a request carries while it is suspended: a token of its own user,
   granted since the request began except while the stored one is being
   exchanged, and an expiry that overstates the real one by no more than the
   time the request has taken.  No request outlives Latency. *)
Granting == HoldsToken \ {"RefreshCall"}
Storing == {"CallbackFind", "CallbackSave", "RefreshStore"}

ReqSound(q) ==
    /\ q.token # None => q.token.user = q.user
    /\ q.at \in Granting => q.token.expires >= q.began + Life
    /\ q.at \in Storing => q.expiresAt <= q.token.expires + Latency
    /\ q.at # "idle" => q.began <= now /\ now <= q.began + Latency

(* A row is active, holds a token of its user, overstates its expiry by at most
   Latency, and belongs to a user that exists. *)
RowSound(u) ==
    row[u] # None =>
      /\ row[u].isActive
      /\ row[u].token.user = u
      /\ row[u].expiresAt <= row[u].token.expires + Latency
      /\ u \in alive

(* The row getValidAccessToken is about to read again was written since its own
   store, by a request that began at most Latency before it. *)
RereadSound(r) ==
    req[r].at = "TokenReread" /\ row[req[r].user] # None
    => row[req[r].user].token.expires >= req[r].began + Life - Latency

IInv ==
    /\ TypeOK
    /\ \A r \in Requests : ReqSound(req[r])
    /\ \A u \in Users : RowSound(u)
    /\ \A r \in Requests : RereadSound(r)

-----------------------------------------------------------------------------
(* The initial state has the declared types. *)
LEMMA TypeInit == Init => TypeOK
BY NoneAssumption, TimeAssumption
   DEF Init, TypeOK, Answered, Request, WellFormed, HoldsToken, TokenAwaits, Answers

(* A request that has arrived, gone on to its next await, or been answered is
   well formed. *)
LEMMA ArrivedWellFormed ==
    ASSUME now \in Nat, NEW u \in Users, NEW op \in Ops
    PROVE  WellFormed(Arrived(u, op))
BY DEF WellFormed, HoldsToken, TokenAwaits, Arrived, Request, FirstAwait, Awaits, Ops, Answers

LEMMA AnsweredWellFormed ==
    ASSUME NEW u \in Users \cup {None}, NEW op \in Ops \cup {"none"},
           NEW a \in Answers, NEW tk \in Token \cup {None},
           op = "token" /\ a = "ok" => tk # None
    PROVE  WellFormed(Answered(u, op, a, tk))
BY DEF WellFormed, HoldsToken, TokenAwaits, Answered, Request

LEMMA MovedWellFormed ==
    ASSUME NEW x, WellFormed(x), x.at # "idle",
           NEW a \in Awaits, a \notin HoldsToken \/ x.at \in HoldsToken,
           x.op = "token" => a \in TokenAwaits
    PROVE  /\ WellFormed([x EXCEPT !.at = a])
           /\ \A n \in Nat : WellFormed([x EXCEPT !.at = a, !.expiresAt = n])
           /\ \A b \in BOOLEAN : WellFormed([x EXCEPT !.at = a, !.found = b])
BY ZenonT(40) DEF WellFormed, HoldsToken, TokenAwaits, Request

LEMMA GrantedWellFormed ==
    ASSUME NEW x, WellFormed(x), x.at # "idle",
           NEW a \in Awaits, NEW tk \in Token, tk # None,
           x.op = "token" => a \in TokenAwaits
    PROVE  WellFormed([x EXCEPT !.at = a, !.token = tk])
BY DEF WellFormed, HoldsToken, TokenAwaits, Request

(* Replacing one request by a well-formed one keeps the types of requests. *)
LEMMA ReplaceType ==
    ASSUME NEW r \in Requests, NEW q, WellFormed(q),
           req \in [Requests -> Request],
           \A x \in Requests : WellFormed(req[x]),
           req' = [req EXCEPT ![r] = q]
    PROVE  /\ req' \in [Requests -> Request]
           /\ \A x \in Requests : WellFormed(req'[x])
BY DEF WellFormed

(* What the typed state gives an action that serves request r. *)
LEMMA ServedType ==
    ASSUME TypeOK, NEW r \in Requests, InFlight(r)
    PROVE  /\ now \in Nat /\ now + Life \in Nat
           /\ WellFormed(req[r]) /\ req[r].at # "idle"
           /\ req[r].user \in Users /\ req[r].op \in Ops
           /\ req[r].token \in Token \cup {None}
           /\ req[r].expiresAt \in Nat /\ req[r].found \in BOOLEAN
           /\ req[r].at \in HoldsToken => req[r].token \in Token
           /\ req[r].op = "token" => req[r].at \in TokenAwaits
           /\ row[req[r].user] \in Row \cup {None}
<1>1. now \in Nat /\ now + Life \in Nat
  BY TimeAssumption DEF TypeOK
<1>2. WellFormed(req[r]) /\ req[r].at # "idle"
  BY DEF TypeOK, InFlight
<1> QED
  BY <1>1, <1>2 DEF TypeOK, WellFormed, Request

(* The requests stay well formed in every step that serves one of them. *)
LEMMA AnswerType ==
    ASSUME TypeOK, NEW r \in Requests, InFlight(r),
           NEW a \in Answers, NEW tk \in Token \cup {None},
           req[r].op = "token" /\ a = "ok" => tk # None,
           Answer(r, a, tk)
    PROVE  /\ req' \in [Requests -> Request]
           /\ \A x \in Requests : WellFormed(req'[x])
<1>1. WellFormed(Answered(req[r].user, req[r].op, a, tk))
  BY ServedType, AnsweredWellFormed
<1> QED
  BY <1>1, ReplaceType DEF Answer, TypeOK

LEMMA MoveType ==
    ASSUME TypeOK, NEW r \in Requests, InFlight(r),
           NEW a \in Awaits, a \notin HoldsToken \/ req[r].at \in HoldsToken,
           req[r].op = "token" => a \in TokenAwaits
    PROVE  /\ req' = [req EXCEPT ![r].at = a]
              => req' \in [Requests -> Request] /\ \A x \in Requests : WellFormed(req'[x])
           /\ \A n \in Nat : req' = [req EXCEPT ![r].at = a, ![r].expiresAt = n]
              => req' \in [Requests -> Request] /\ \A x \in Requests : WellFormed(req'[x])
           /\ \A b \in BOOLEAN : req' = [req EXCEPT ![r].at = a, ![r].found = b]
              => req' \in [Requests -> Request] /\ \A x \in Requests : WellFormed(req'[x])
<1>1. ASSUME req' = [req EXCEPT ![r].at = a]
      PROVE  req' \in [Requests -> Request] /\ \A x \in Requests : WellFormed(req'[x])
  <2>1. WellFormed([req[r] EXCEPT !.at = a])
    BY ServedType, MovedWellFormed
  <2> QED  BY <1>1, <2>1, ReplaceType DEF TypeOK
<1>2. ASSUME NEW n \in Nat, req' = [req EXCEPT ![r].at = a, ![r].expiresAt = n]
      PROVE  req' \in [Requests -> Request] /\ \A x \in Requests : WellFormed(req'[x])
  <2>1. WellFormed([req[r] EXCEPT !.at = a, !.expiresAt = n])
    BY ServedType, MovedWellFormed
  <2> QED  BY <1>2, <2>1, ReplaceType DEF TypeOK
<1>3. ASSUME NEW b \in BOOLEAN, req' = [req EXCEPT ![r].at = a, ![r].found = b]
      PROVE  req' \in [Requests -> Request] /\ \A x \in Requests : WellFormed(req'[x])
  <2>1. WellFormed([req[r] EXCEPT !.at = a, !.found = b])
    BY ServedType, MovedWellFormed
  <2> QED  BY <1>3, <2>1, ReplaceType DEF TypeOK
<1> QED
  BY <1>1, <1>2, <1>3

LEMMA MoveTokenType ==
    ASSUME TypeOK, NEW r \in Requests, InFlight(r),
           NEW a \in Awaits, NEW tk \in Token,
           req[r].op = "token" => a \in TokenAwaits,
           req' = [req EXCEPT ![r].at = a, ![r].token = tk]
    PROVE  req' \in [Requests -> Request] /\ \A x \in Requests : WellFormed(req'[x])
<1>1. tk # None
  BY NoneAssumption
<1>2. WellFormed([req[r] EXCEPT !.at = a, !.token = tk])
  BY <1>1, ServedType, GrantedWellFormed
<1> QED
  BY <1>2, ReplaceType DEF TypeOK

(* Every step keeps the types; one step of the proof per action. *)
LEMMA TypeStep == TypeOK /\ [Next]_vars => TypeOK'
<1> SUFFICES ASSUME TypeOK, [Next]_vars PROVE TypeOK'
    OBVIOUS
<1> DEFINE ReqTyped == /\ req' \in [Requests -> Request]
                       /\ \A x \in Requests : WellFormed(req'[x])
           Frame == UNCHANGED <<alive, row, issued, now>>
<1>a. ASSUME ReqTyped, Frame PROVE TypeOK'
  BY <1>a DEF TypeOK
<1>b. ASSUME ReqTyped, UNCHANGED <<alive, issued, now>>,
             row' \in [Users -> Row \cup {None}]
      PROVE  TypeOK'
  BY <1>b DEF TypeOK
<1> HIDE DEF ReqTyped
<1>1. ASSUME NEW r \in Requests, TikTokFails(r) PROVE TypeOK'
  <2>1. ReqTyped
    BY <1>1, AnswerType DEF TikTokFails, InFlight, Answers, ReqTyped
  <2> QED  BY <1>1, <1>a, <2>1 DEF TikTokFails
<1>2. ASSUME NEW r \in Requests, TikTokRefreshes(r) PROVE TypeOK'
  <2>1. InFlight(r) /\ req[r].token \in Token /\ now + Life \in Nat
    BY <1>2, ServedType DEF TikTokRefreshes, InFlight, HoldsToken
  <2>2. Granted(req[r].token.user, req[r].token.shop) \in Token
    BY <2>1 DEF Granted, Token
  <2>3. ReqTyped
    BY <1>2, <2>1, <2>2, MoveTokenType
       DEF TikTokRefreshes, Awaits, TokenAwaits, ReqTyped
  <2> QED  BY <1>2, <1>a, <2>3 DEF TikTokRefreshes
<1>3. ASSUME NEW r \in Requests, ExchangeCode(r) PROVE TypeOK'
  <2>1. InFlight(r) /\ req[r].user \in Users /\ now + Life \in Nat /\ req[r].op # "token"
    BY <1>3, ServedType DEF ExchangeCode, InFlight, TokenAwaits
  <2>2. \A s \in Shops : Granted(req[r].user, s) \in Token
    BY <2>1 DEF Granted, Token
  <2>3. ReqTyped
    BY <1>3, <2>1, <2>2, MoveTokenType DEF ExchangeCode, Awaits, ReqTyped
  <2> QED  BY <1>3, <1>a, <2>3 DEF ExchangeCode
<1>4. ASSUME NEW r \in Requests, ShopInfo(r) PROVE TypeOK'
  <2>1. InFlight(r) /\ now + Life \in Nat /\ req[r].op # "token"
    BY <1>4, ServedType DEF ShopInfo, InFlight, TokenAwaits
  <2>2. ReqTyped
    BY <1>4, <2>1, MoveType DEF ShopInfo, Awaits, HoldsToken, ReqTyped
  <2> QED  BY <1>4, <1>a, <2>2 DEF ShopInfo
<1>5. ASSUME NEW r \in Requests, CallbackFind(r) PROVE TypeOK'
  <2>1. InFlight(r) /\ req[r].op # "token"
    BY <1>5, ServedType DEF CallbackFind, InFlight, TokenAwaits
  <2>2. ReqTyped
    BY <1>5, <2>1, MoveType DEF CallbackFind, Awaits, HoldsToken, ReqTyped
  <2> QED  BY <1>5, <1>a, <2>2 DEF CallbackFind
<1>6. ASSUME NEW r \in Requests, CallbackSave(r) PROVE TypeOK'
  <2>1. /\ InFlight(r) /\ req[r].token \in Token /\ req[r].expiresAt \in Nat
        /\ req[r].user \in Users /\ row[req[r].user] \in Row \cup {None}
        /\ req[r].op # "token"
    BY <1>6, ServedType DEF CallbackSave, InFlight, HoldsToken, TokenAwaits
  <2>2. ReqTyped
    BY <1>6, <2>1, AnswerType DEF CallbackSave, Answers, ReqTyped
  <2>3. req[r].found /\ CanUpdate(req[r].user, req[r].token.shop)
        => row[req[r].user].isActive \in BOOLEAN
    BY <2>1 DEF CanUpdate, Row
  <2>4. row' \in [Users -> Row \cup {None}]
    <3>1. CASE UNCHANGED row
      BY <3>1 DEF TypeOK
    <3>2. CASE ~UNCHANGED row
      <4>1. PICK b \in BOOLEAN :
              row' = [row EXCEPT ![req[r].user] =
                        [shop |-> req[r].token.shop, token |-> req[r].token,
                         expiresAt |-> req[r].expiresAt, isActive |-> b]]
        BY <1>6, <2>1, <2>3, <3>2 DEF CallbackSave
      <4>2. [shop |-> req[r].token.shop, token |-> req[r].token,
             expiresAt |-> req[r].expiresAt, isActive |-> b] \in Row
        BY <2>1 DEF Row, Token
      <4> QED  BY <4>1, <4>2 DEF TypeOK
    <3> QED  BY <3>1, <3>2
  <2> QED  BY <1>6, <1>b, <2>2, <2>4 DEF CallbackSave
<1>7. ASSUME NEW r \in Requests, DisconnectFind(r) PROVE TypeOK'
  <2>1. InFlight(r) /\ req[r].op # "token"
    BY <1>7, ServedType DEF DisconnectFind, InFlight, TokenAwaits
  <2>2. ReqTyped
    BY <1>7, <2>1, AnswerType, MoveType
       DEF DisconnectFind, Awaits, HoldsToken, Answers, ReqTyped
  <2> QED  BY <1>7, <1>a, <2>2 DEF DisconnectFind
<1>8. ASSUME NEW r \in Requests, DisconnectDelete(r) PROVE TypeOK'
  <2>1. InFlight(r) /\ req[r].op # "token"
    BY <1>8, ServedType DEF DisconnectDelete, InFlight, TokenAwaits
  <2>2. ReqTyped
    BY <1>8, <2>1, AnswerType DEF DisconnectDelete, Answers, ReqTyped
  <2> QED  BY <1>8, <1>b, <2>2 DEF DisconnectDelete, TypeOK
<1>9. ASSUME NEW r \in Requests, RefreshFind(r) PROVE TypeOK'
  <2>1. /\ InFlight(r) /\ req[r].op # "token"
        /\ row[req[r].user] \in Row \cup {None}
    BY <1>9, ServedType DEF RefreshFind, InFlight, TokenAwaits
  <2>2. row[req[r].user] # None => row[req[r].user].token \in Token
    BY <2>1 DEF Row
  <2>3. ReqTyped
    BY <1>9, <2>1, <2>2, AnswerType, MoveTokenType
       DEF RefreshFind, Awaits, Answers, ReqTyped
  <2> QED  BY <1>9, <1>a, <2>3 DEF RefreshFind
<1>10. ASSUME NEW r \in Requests, TokenFind(r) PROVE TypeOK'
  <2>1. InFlight(r) /\ row[req[r].user] \in Row \cup {None}
    BY <1>10, ServedType DEF TokenFind, InFlight
  <2>2. row[req[r].user] # None
        => row[req[r].user].token \in Token /\ row[req[r].user].token # None
    BY <2>1, NoneAssumption DEF Row
  <2>3. ReqTyped
    BY <1>10, <2>1, <2>2, AnswerType, MoveTokenType
       DEF TokenFind, Connected, Awaits, TokenAwaits, Answers, ReqTyped
  <2> QED  BY <1>10, <1>a, <2>3 DEF TokenFind
<1>11. ASSUME NEW r \in Requests, RefreshReceive(r) PROVE TypeOK'
  <2>1. InFlight(r) /\ now + Life \in Nat
    BY <1>11, ServedType DEF RefreshReceive, InFlight
  <2>2. ReqTyped
    BY <1>11, <2>1, MoveType
       DEF RefreshReceive, Awaits, TokenAwaits, HoldsToken, ReqTyped
  <2> QED  BY <1>11, <1>a, <2>2 DEF RefreshReceive
<1>12. ASSUME NEW r \in Requests, RefreshStore(r) PROVE TypeOK'
  <2>1. /\ InFlight(r) /\ req[r].token \in Token /\ req[r].expiresAt \in Nat
        /\ req[r].user \in Users /\ row[req[r].user] \in Row \cup {None}
    BY <1>12, ServedType DEF RefreshStore, InFlight, HoldsToken
  <2>2. ReqTyped
    BY <1>12, <2>1, AnswerType, MoveType
       DEF RefreshStore, AfterStore, Awaits, TokenAwaits, HoldsToken, Answers, ReqTyped
  <2>3. row' \in [Users -> Row \cup {None}]
    BY <1>12, <2>1 DEF RefreshStore, TypeOK, Row
  <2> QED  BY <1>12, <1>b, <2>2, <2>3 DEF RefreshStore
<1>13. ASSUME NEW r \in Requests, TokenReread(r) PROVE TypeOK'
  <2>1. InFlight(r) /\ row[req[r].user] \in Row \cup {None}
    BY <1>13, ServedType DEF TokenReread, InFlight
  <2>2. row[req[r].user] # None
        => row[req[r].user].token \in Token /\ row[req[r].user].token # None
    BY <2>1, NoneAssumption DEF Row
  <2>3. ReqTyped
    BY <1>13, <2>1, <2>2, AnswerType DEF TokenReread, Answers, ReqTyped
  <2> QED  BY <1>13, <1>a, <2>3 DEF TokenReread
<1>14. ASSUME NEW r \in Requests, NEW u \in Users, BeginCallback(r, u) PROVE TypeOK'
  <2>1. WellFormed(Arrived(u, "callback"))
    BY ArrivedWellFormed DEF TypeOK, Ops
  <2>2. WellFormed(Answered(u, "callback", "unauthorized", None))
    BY AnsweredWellFormed DEF Ops, Answers
  <2>3. ReqTyped
    BY <1>14, <2>1, <2>2, ReplaceType DEF BeginCallback, TypeOK, ReqTyped
  <2> QED  BY <1>14, <1>a, <2>3 DEF BeginCallback
<1>15. ASSUME NEW r \in Requests, NEW u \in Users, NEW op \in Ops, Begin(r, u, op)
       PROVE TypeOK'
  <2>1. WellFormed(Arrived(u, op))
    BY ArrivedWellFormed DEF TypeOK
  <2>2. ReqTyped
    BY <1>15, <2>1, ReplaceType DEF Begin, TypeOK, ReqTyped
  <2> QED  BY <1>15, <1>a, <2>2 DEF Begin
<1>16. ASSUME NEW u \in Users, InitiateAuth(u) PROVE TypeOK'
  BY <1>16 DEF InitiateAuth, TypeOK
<1>17. ASSUME NEW u \in Users, DeleteUser(u) PROVE TypeOK'
  BY <1>17 DEF DeleteUser, TypeOK
<1>18. ASSUME Restart PROVE TypeOK'
  <2>1. \A r \in Requests : InFlight(r)
          => WellFormed(Answered(req[r].user, req[r].op, "none", None))
    BY ServedType, AnsweredWellFormed DEF Answers
  <2>2. \A r \in Requests : WellFormed(req'[r])
    BY <1>18, <2>1 DEF Restart, TypeOK
  <2>3. ReqTyped
    BY <1>18, <2>2 DEF Restart, WellFormed, ReqTyped
  <2> QED  BY <1>18, <1>a, <2>3 DEF Restart
<1>19. ASSUME Tick PROVE TypeOK'
  BY <1>19, TimeAssumption DEF Tick, TypeOK
<1>20. ASSUME UNCHANGED vars PROVE TypeOK'
  BY <1>20 DEF vars, TypeOK
<1> QED
  BY <1>1, <1>2, <1>3, <1>4, <1>5, <1>6, <1>7, <1>8, <1>9, <1>10, <1>11, <1>12,
     <1>13, <1>14, <1>15, <1>16, <1>17, <1>18, <1>19, <1>20 DEF Next, Serve

(* Every variable keeps its type, and getValidAccessToken never answers "ok"
   without a token. *)
THEOREM TypeCorrect == Spec => []TypeOK
<1>1. Init => TypeOK
  BY TypeInit
<1>2. TypeOK /\ [Next]_vars => TypeOK'
  BY TypeStep
<1> QED
  BY <1>1, <1>2, PTL DEF Spec

-----------------------------------------------------------------------------
(* The inductive invariant. *)

LEMMA IInvInit == Init => IInv
BY TypeInit
   DEF Init, IInv, ReqSound, RowSound, RereadSound, Answered, Granting, HoldsToken, Storing

(* The requests stay sound. *)
LEMMA ReqSoundStep ==
    ASSUME IInv, Next, NEW x \in Requests
    PROVE  ReqSound(req[x])'
<1>t. TypeOK /\ TypeOK' /\ ReqSound(req[x])
  BY TypeStep DEF IInv
<1> USE TimeAssumption
<1>1. ASSUME NEW r \in Requests, TikTokFails(r) PROVE ReqSound(req[x])'
  BY <1>t, <1>1 DEF TikTokFails, Answer, Answered, ReqSound, Granting, HoldsToken, Storing, TypeOK
<1>2. ASSUME NEW r \in Requests, TikTokRefreshes(r) PROVE ReqSound(req[x])'
  <2> DEFINE tk == Granted(req[r].token.user, req[r].token.shop)
  <2>1. /\ req[r].at = "RefreshCall" /\ InFlight(r)
        /\ req[r].token \in Token /\ req[r].began \in Nat /\ now \in Nat
    BY <1>t, <1>2, ServedType
       DEF TikTokRefreshes, InFlight, HoldsToken, WellFormed, Request
  <2>a. req[r].token # None
    BY <2>1, NoneAssumption
  <2>b. /\ req[r].token.user = req[r].user
        /\ req[r].began <= now /\ now <= req[r].began + Latency
    BY <2>1, <2>a DEF IInv, ReqSound
  <2>c. tk.user = req[r].user /\ tk.expires = now + Life
    BY <2>b DEF Granted
  <2>2. CASE x = r
    <3>1. req'[r] = [req[r] EXCEPT !.at = "RefreshReceive", !.token = tk]
      BY <1>t, <1>2 DEF TikTokRefreshes, TypeOK
    <3>2. /\ req'[r].at = "RefreshReceive" /\ req'[r].token = tk
          /\ req'[r].user = req[r].user /\ req'[r].began = req[r].began
      BY <1>t, <3>1 DEF TypeOK, Request
    <3> HIDE DEF tk
    <3> QED
      BY <1>2, <2>1, <2>b, <2>c, <2>2, <3>2 DEF TikTokRefreshes, ReqSound, Granting, HoldsToken, Storing
  <2>3. CASE x # r
    BY <1>t, <1>2, <2>3 DEF TikTokRefreshes, TypeOK, ReqSound
  <2> QED  BY <2>2, <2>3
<1>3. ASSUME NEW r \in Requests, ExchangeCode(r) PROVE ReqSound(req[x])'
  BY SMTT(20), <1>t, <1>3 DEF ExchangeCode, Granted, ReqSound, Granting, HoldsToken, Storing, TypeOK, WellFormed, Request, Token
<1>4. ASSUME NEW r \in Requests, ShopInfo(r) PROVE ReqSound(req[x])'
  BY <1>t, <1>4 DEF ShopInfo, ReqSound, Granting, HoldsToken, Storing, TypeOK, WellFormed, Request, Token
<1>5. ASSUME NEW r \in Requests, CallbackFind(r) PROVE ReqSound(req[x])'
  BY ZenonT(40), <1>t, <1>5 DEF CallbackFind, ReqSound, Granting, HoldsToken, Storing, TypeOK, WellFormed, Request, Token
<1>6. ASSUME NEW r \in Requests, CallbackSave(r) PROVE ReqSound(req[x])'
  BY <1>t, <1>6 DEF CallbackSave, Answer, Answered, ReqSound, Granting, HoldsToken, Storing, TypeOK
<1>7. ASSUME NEW r \in Requests, DisconnectFind(r) PROVE ReqSound(req[x])'
  BY <1>t, <1>7 DEF DisconnectFind, Answer, Answered, ReqSound, Granting, HoldsToken, Storing, TypeOK, WellFormed, Request
<1>8. ASSUME NEW r \in Requests, DisconnectDelete(r) PROVE ReqSound(req[x])'
  BY <1>t, <1>8 DEF DisconnectDelete, Answer, Answered, ReqSound, Granting, HoldsToken, Storing, TypeOK
<1>9. ASSUME NEW r \in Requests, RefreshFind(r) PROVE ReqSound(req[x])'
  BY <1>t, <1>9 DEF RefreshFind, Answer, Answered, ReqSound, Granting, HoldsToken, Storing, TypeOK, WellFormed, Request, RowSound, IInv
<1>10. ASSUME NEW r \in Requests, TokenFind(r) PROVE ReqSound(req[x])'
  BY SMTT(20), <1>t, <1>10 DEF TokenFind, Connected, Answer, Answered, ReqSound, Granting, HoldsToken, Storing, TypeOK, WellFormed, Request, RowSound, IInv
<1>11. ASSUME NEW r \in Requests, RefreshReceive(r) PROVE ReqSound(req[x])'
  BY <1>t, <1>11 DEF RefreshReceive, ReqSound, Granting, HoldsToken, Storing, TypeOK, WellFormed, Request, Token
<1>12. ASSUME NEW r \in Requests, RefreshStore(r) PROVE ReqSound(req[x])'
  BY <1>t, <1>12 DEF RefreshStore, AfterStore, Answer, Answered, ReqSound, Granting, HoldsToken, Storing, TypeOK, WellFormed, Request
<1>13. ASSUME NEW r \in Requests, TokenReread(r) PROVE ReqSound(req[x])'
  BY <1>t, <1>13 DEF TokenReread, Answer, Answered, ReqSound, Granting, HoldsToken, Storing, TypeOK, WellFormed, Request, RowSound, IInv
<1>14. ASSUME NEW r \in Requests, NEW u \in Users, BeginCallback(r, u) PROVE ReqSound(req[x])'
  BY <1>t, <1>14 DEF BeginCallback, Arrived, Answered, FirstAwait, ReqSound, Granting, HoldsToken, Storing, TypeOK
<1>15. ASSUME NEW r \in Requests, NEW u \in Users, NEW op \in Ops, Begin(r, u, op)
       PROVE ReqSound(req[x])'
  BY <1>t, <1>15 DEF Begin, Arrived, FirstAwait, Ops, ReqSound, Granting, HoldsToken, Storing, TypeOK
<1>16. ASSUME NEW u \in Users, InitiateAuth(u) PROVE ReqSound(req[x])'
  BY <1>t, <1>16 DEF InitiateAuth, ReqSound
<1>17. ASSUME NEW u \in Users, DeleteUser(u) PROVE ReqSound(req[x])'
  BY <1>t, <1>17 DEF DeleteUser, ReqSound
<1>18. ASSUME Restart PROVE ReqSound(req[x])'
  BY <1>t, <1>18 DEF Restart, Answered, ReqSound, Granting, HoldsToken, Storing, TypeOK
<1>19. ASSUME Tick PROVE ReqSound(req[x])'
  BY <1>t, <1>19 DEF Tick, InFlight, ReqSound, TypeOK, WellFormed, Request
<1> QED
  BY <1>1, <1>2, <1>3, <1>4, <1>5, <1>6, <1>7, <1>8, <1>9, <1>10, <1>11, <1>12,
     <1>13, <1>14, <1>15, <1>16, <1>17, <1>18, <1>19 DEF Next, Serve

(* Only three steps write a row. *)
LEMMA RowWrites ==
    ASSUME Next
    PROVE  \/ UNCHANGED <<row, alive>>
           \/ \E r \in Requests : CallbackSave(r) \/ DisconnectDelete(r) \/ RefreshStore(r)
           \/ \E u \in Users : DeleteUser(u)
BY DEF Next, Serve, TikTokFails, TikTokRefreshes, ExchangeCode, ShopInfo, CallbackFind,
       DisconnectFind, RefreshFind, TokenFind, RefreshReceive, TokenReread,
       BeginCallback, Begin, InitiateAuth, Restart, Tick

(* What the saving callback writes. *)
LEMMA Saved ==
    ASSUME IInv, NEW r \in Requests, CallbackSave(r), ~UNCHANGED row
    PROVE  LET u == req[r].user
           IN  /\ u \in Users /\ u \in alive
               /\ row'[u] # None
               /\ row'[u].shop = req[r].token.shop
               /\ row'[u].token = req[r].token
               /\ row'[u].expiresAt = req[r].expiresAt
               /\ row'[u].isActive
               /\ \A v \in Users \ {u} : row'[v] = row[v]
               /\ ~HeldByOther(u, req[r].token.shop)
<1>1. InFlight(r) /\ req[r].user \in Users
  BY ServedType DEF IInv, CallbackSave, InFlight
<1>2. CanCreate(req[r].user, req[r].token.shop) \/ CanUpdate(req[r].user, req[r].token.shop)
  BY DEF CallbackSave
<1>3. req[r].user \in alive /\ ~HeldByOther(req[r].user, req[r].token.shop)
  BY <1>1, <1>2 DEF CanCreate, CanUpdate, IInv, RowSound
<1> DEFINE u == req[r].user
           new == [shop |-> req[r].token.shop, token |-> req[r].token,
                   expiresAt |-> req[r].expiresAt,
                   isActive |-> IF req[r].found THEN row[u].isActive ELSE TRUE]
<1>4. row' = [row EXCEPT ![u] = new]
  BY DEF CallbackSave
<1>5. req[r].found => row[u].isActive = TRUE
  BY <1>1, ServedType DEF IInv, CallbackSave, CanUpdate, Row, RowSound
<1>6. new \in Row
  BY <1>1, <1>5, ServedType DEF IInv, CallbackSave, HoldsToken, Row, Token
<1>7. row'[u] = new /\ new # None
  BY <1>1, <1>4, <1>6, NoneAssumption DEF IInv, TypeOK
<1> QED
  BY <1>1, <1>3, <1>4, <1>5, <1>7 DEF IInv, TypeOK

(* What the storing refresh writes. *)
LEMMA Stored ==
    ASSUME IInv, NEW r \in Requests, RefreshStore(r), row[req[r].user] # None
    PROVE  LET u == req[r].user
           IN  /\ u \in Users
               /\ row'[u] # None
               /\ row'[u].shop = row[u].shop
               /\ row'[u].isActive = row[u].isActive
               /\ row'[u].token = req[r].token
               /\ row'[u].expiresAt = req[r].expiresAt
               /\ \A v \in Users \ {u} : row'[v] = row[v]
<1>1. /\ req[r].user \in Users /\ row[req[r].user] \in Row
      /\ req[r].token \in Token /\ req[r].expiresAt \in Nat
  BY ServedType DEF IInv, RefreshStore, InFlight, HoldsToken
<1>2. row' = [row EXCEPT ![req[r].user].token = req[r].token,
                         ![req[r].user].expiresAt = req[r].expiresAt]
  BY DEF RefreshStore
<1>3. row'[req[r].user] =
        [row[req[r].user] EXCEPT !.token = req[r].token, !.expiresAt = req[r].expiresAt]
  BY <1>1, <1>2 DEF IInv, TypeOK
<1>4. row'[req[r].user] \in Row
  BY <1>1, <1>3 DEF Row
<1>5. row'[req[r].user] # None
  BY <1>4, NoneAssumption
<1> QED
  BY <1>1, <1>2, <1>3, <1>5 DEF IInv, TypeOK, Row

(* The rows stay sound. *)
LEMMA RowSoundStep ==
    ASSUME IInv, Next, NEW u \in Users
    PROVE  RowSound(u)'
<1>1. ASSUME NEW r \in Requests, CallbackSave(r) PROVE RowSound(u)'
  <2>1. CASE UNCHANGED row
    BY <1>1, <2>1 DEF CallbackSave, RowSound, IInv
  <2>2. CASE ~UNCHANGED row
    <3>1. /\ req[r].token # None
          /\ req[r].token.user = req[r].user
          /\ req[r].expiresAt <= req[r].token.expires + Latency
      BY <1>1 DEF IInv, TypeOK, WellFormed, ReqSound, CallbackSave, HoldsToken, Storing
    <3>2. CASE u = req[r].user
      <4>1. row'[u].isActive /\ row'[u].token = req[r].token /\ row'[u].expiresAt = req[r].expiresAt /\ u \in alive
        BY <1>1, <2>2, <3>2, Saved
      <4>2. alive' = alive
        BY <1>1 DEF CallbackSave
      <4> QED  BY <3>1, <3>2, <4>1, <4>2 DEF RowSound
    <3>3. CASE u # req[r].user
      <4>1. row'[u] = row[u]
        BY <1>1, <2>2, <3>3, Saved
      <4>2. alive' = alive
        BY <1>1 DEF CallbackSave
      <4> QED  BY <4>1, <4>2 DEF RowSound, IInv
    <3> QED  BY <3>2, <3>3
  <2> QED  BY <2>1, <2>2
<1>2. ASSUME NEW r \in Requests, DisconnectDelete(r) PROVE RowSound(u)'
  BY <1>2 DEF DisconnectDelete, RowSound, IInv, TypeOK
<1>3. ASSUME NEW r \in Requests, RefreshStore(r) PROVE RowSound(u)'
  <2>1. CASE row[req[r].user] = None
    BY <1>3, <2>1 DEF RefreshStore, RowSound, IInv
  <2>2. CASE row[req[r].user] # None
    <3>1. /\ req[r].token # None
          /\ req[r].token.user = req[r].user
          /\ req[r].expiresAt <= req[r].token.expires + Latency
      BY <1>3 DEF IInv, TypeOK, WellFormed, ReqSound, RefreshStore, HoldsToken, Storing
    <3> QED
      BY SMTT(20), <1>3, <2>2, <3>1, Stored DEF RefreshStore, RowSound, IInv
  <2> QED  BY <2>1, <2>2
<1>4. ASSUME NEW v \in Users, DeleteUser(v) PROVE RowSound(u)'
  BY <1>4 DEF DeleteUser, RowSound, IInv, TypeOK
<1>5. ASSUME UNCHANGED <<row, alive>> PROVE RowSound(u)'
  BY <1>5 DEF RowSound, IInv
<1> QED
  BY <1>1, <1>2, <1>3, <1>4, <1>5, RowWrites

(* A row written while x is about to read it again is fresh enough for x: the
   writer began at most Latency before now, and now is not before x began. *)
LEMMA FreshEnough ==
    ASSUME IInv, NEW x \in Requests, req[x].at = "TokenReread",
           NEW r \in Requests, req[r].at \in Granting
    PROVE  req[r].token.expires >= req[x].began + Life - Latency
<1>1. /\ req[r].token.expires >= req[r].began + Life
      /\ now <= req[r].began + Latency
      /\ req[x].began <= now
  BY DEF IInv, ReqSound, Granting, HoldsToken
<1>2. /\ req[r].token.expires \in Nat /\ req[r].began \in Nat
      /\ req[x].began \in Nat /\ now \in Nat
  BY DEF IInv, TypeOK, WellFormed, Request, Token, Granting, HoldsToken
<1> QED
  BY <1>1, <1>2, TimeAssumption

(* A step changes request x only by serving it, by starting it, or by a
   restart; only the store of getValidAccessToken leads to the second read, and
   only its end leads on from there. *)
LEMMA OnlyServed ==
    ASSUME TypeOK, NEW r \in Requests, Serve(r), NEW x \in Requests, x # r
    PROVE  req'[x] = req[x]
<1>1. \/ \E q : req' = [req EXCEPT ![r] = q]
      \/ \E a : req' = [req EXCEPT ![r].at = a]
      \/ \E a, n : req' = [req EXCEPT ![r].at = a, ![r].expiresAt = n]
      \/ \E a, b : req' = [req EXCEPT ![r].at = a, ![r].found = b]
      \/ \E a, tk : req' = [req EXCEPT ![r].at = a, ![r].token = tk]
  <2>1. CASE TikTokFails(r) \/ CallbackSave(r) \/ DisconnectFind(r) \/ DisconnectDelete(r)
    BY <2>1 DEF TikTokFails, CallbackSave, DisconnectFind, DisconnectDelete, Answer
  <2>2. CASE TikTokRefreshes(r) \/ ExchangeCode(r) \/ ShopInfo(r) \/ CallbackFind(r) \/ RefreshReceive(r)
    BY <2>2 DEF TikTokRefreshes, ExchangeCode, ShopInfo, CallbackFind, RefreshReceive
  <2>3. CASE RefreshFind(r) \/ TokenFind(r)
    BY <2>3 DEF RefreshFind, TokenFind, Answer
  <2>4. CASE RefreshStore(r) \/ TokenReread(r)
    BY <2>4 DEF RefreshStore, AfterStore, TokenReread, Answer
  <2> QED  BY <2>1, <2>2, <2>3, <2>4 DEF Serve
<1> QED
  BY <1>1 DEF TypeOK

LEMMA RereadReached ==
    ASSUME TypeOK, NEW x \in Requests, Serve(x)
    PROVE  /\ req[x].at = "TokenReread" => TokenReread(x) /\ req'[x].at = "idle"
           /\ req'[x].at = "TokenReread" => RefreshStore(x) /\ row[req[x].user] # None
<1>t. req \in [Requests -> Request]
  BY DEF TypeOK
<1>1. CASE TikTokFails(x) \/ TikTokRefreshes(x) \/ ExchangeCode(x) \/ ShopInfo(x)
  BY <1>t, <1>1 DEF TikTokFails, TikTokRefreshes, ExchangeCode, ShopInfo, Answer, Answered, Request
<1>2. CASE CallbackFind(x) \/ CallbackSave(x) \/ DisconnectFind(x) \/ DisconnectDelete(x)
  BY <1>t, <1>2 DEF CallbackFind, CallbackSave, DisconnectFind, DisconnectDelete, Answer, Answered, Request
<1>3. CASE RefreshFind(x) \/ TokenFind(x) \/ RefreshReceive(x)
  BY <1>t, <1>3 DEF RefreshFind, TokenFind, RefreshReceive, Answer, Answered, Request
<1>4. CASE RefreshStore(x) \/ TokenReread(x)
  BY <1>t, <1>4 DEF RefreshStore, AfterStore, TokenReread, Answer, Answered, Request
<1> QED
  BY <1>1, <1>2, <1>3, <1>4 DEF Serve

LEMMA Unserved ==
    ASSUME TypeOK, Next, NEW x \in Requests, ~Serve(x)
    PROVE  \/ req'[x] = req[x]
           \/ ~InFlight(x) /\ req'[x].at # "TokenReread"
           \/ req'[x].at = "idle"
<1>1. ASSUME NEW r \in Requests, Serve(r) PROVE req'[x] = req[x]
  BY <1>1, OnlyServed
<1>2. ASSUME NEW r \in Requests, NEW u \in Users, BeginCallback(r, u)
      PROVE  req'[x] = req[x] \/ (~InFlight(x) /\ req'[x].at # "TokenReread")
  <2>1. Arrived(u, "callback").at = "ExchangeCode"
    BY DEF Arrived, FirstAwait
  <2>2. Answered(u, "callback", "unauthorized", None).at = "idle"
    BY DEF Answered
  <2>3. \E q : q.at # "TokenReread" /\ req' = [req EXCEPT ![r] = q]
    BY <1>2, <2>1, <2>2 DEF BeginCallback
  <2> QED
    BY <1>2, <2>3 DEF BeginCallback, TypeOK, InFlight
<1>3. ASSUME NEW r \in Requests, NEW u \in Users, NEW op \in Ops, Begin(r, u, op)
      PROVE  req'[x] = req[x] \/ (~InFlight(x) /\ req'[x].at # "TokenReread")
  <2>1. Arrived(u, op).at # "TokenReread"
    BY DEF Arrived, FirstAwait, Ops
  <2> QED
    BY <1>3, <2>1 DEF Begin, TypeOK, InFlight
<1>4. CASE Restart
  BY <1>4 DEF Restart, Answered
<1>5. CASE Tick \/ \E u \in Users : InitiateAuth(u) \/ DeleteUser(u)
  BY <1>5 DEF Tick, InitiateAuth, DeleteUser
<1> QED
  BY <1>1, <1>2, <1>3, <1>4, <1>5 DEF Next

(* Reading again stays sound: x itself may just have stored its tokens, or some
   other request may have rewritten or removed the row. *)
LEMMA RereadStep ==
    ASSUME IInv, Next, NEW x \in Requests
    PROVE  RereadSound(x)'
<1> DEFINE u == req[x].user
<1>t. TypeOK /\ TypeOK' /\ RereadSound(x)
  BY TypeStep DEF IInv
<1>1. SUFFICES ASSUME req'[x].at = "TokenReread", row'[req'[x].user] # None
               PROVE  row'[req'[x].user].token.expires
                        >= req'[x].began + Life - Latency
  BY DEF RereadSound
<1>2. CASE req[x].at = "TokenReread"
  <2>1. req'[x] = req[x]
    BY <1>t, <1>1, <1>2, RereadReached, Unserved DEF InFlight
  <2>2. CASE row'[u] = row[u]
    BY <1>t, <1>1, <1>2, <2>1, <2>2 DEF RereadSound
  <2>3. CASE row'[u] # row[u]
    <3>0. u \in Users
      BY <1>t, <1>2, ServedType DEF InFlight
    <3>1. PICK r \in Requests : CallbackSave(r) \/ RefreshStore(r)
      BY <1>t, <1>1, <2>1, <2>3, <3>0, RowWrites DEF DisconnectDelete, DeleteUser, TypeOK
    <3>2. row'[u].token = req[r].token
      <4>1. CASE CallbackSave(r)
        BY <2>3, <3>0, <4>1, Saved
      <4>2. CASE RefreshStore(r)
        <5>1. row[req[r].user] # None
          BY <2>3, <4>2 DEF RefreshStore
        <5> QED  BY <2>3, <3>0, <4>2, <5>1, Stored
      <4> QED  BY <3>1, <4>1, <4>2
    <3>3. req[r].at \in Granting
      BY <3>1 DEF CallbackSave, RefreshStore, Granting, HoldsToken
    <3> QED  BY <1>2, <2>1, <3>2, <3>3, FreshEnough
  <2> QED  BY <2>2, <2>3
<1>3. CASE req[x].at # "TokenReread"
  <2>1. RefreshStore(x)
    BY <1>t, <1>1, <1>3, RereadReached, Unserved
  <2>2. /\ row[u] # None
        /\ req'[x] = [req[x] EXCEPT !.at = "TokenReread"]
    BY <1>t, <1>1, <2>1 DEF RefreshStore, AfterStore, Answer, Answered, TypeOK
  <2>3. req'[x].user = u /\ req'[x].began = req[x].began
    BY <1>t, <2>2 DEF TypeOK, Request
  <2>4. row'[u].token = req[x].token
    BY <2>1, <2>2, Stored
  <2>5. /\ req[x].token.expires >= req[x].began + Life
        /\ req[x].token.expires \in Nat /\ req[x].began \in Nat
    BY <1>t, <2>1 DEF RefreshStore, IInv, ReqSound, TypeOK, WellFormed, Request, Token,
                      Granting, HoldsToken
  <2> QED  BY <2>3, <2>4, <2>5, TimeAssumption
<1> QED
  BY <1>2, <1>3

(* The invariant is inductive. *)
LEMMA IInvStep == IInv /\ [Next]_vars => IInv'
<1>1. ASSUME IInv, Next PROVE IInv'
  BY <1>1, TypeStep, ReqSoundStep, RowSoundStep, RereadStep DEF IInv
<1>2. ASSUME IInv, UNCHANGED vars PROVE IInv'
  BY <1>2, TypeStep DEF vars, IInv, ReqSound, RowSound, RereadSound
<1> QED
  BY <1>1, <1>2

LEMMA IInvAlways == Spec => []IInv
BY IInvInit, IInvStep, PTL DEF Spec

(* A row holds, and getValidAccessToken hands out, tokens of that user only. *)
THEOREM TokensStay == Spec => []TokensStayWithUser
<1>1. IInv => TokensStayWithUser
  BY DEF IInv, RowSound, ReqSound, TokensStayWithUser
<1> QED
  BY <1>1, IInvAlways, PTL

-----------------------------------------------------------------------------
(* The token handed out is valid at TikTok. *)

(* getValidAccessToken answers "ok" in two places. *)
LEMMA HandingSteps ==
    ASSUME TypeOK, Next, NEW r \in Requests,
           req[r].op = "token", InFlight(r), ~InFlight(r)', req'[r].answer = "ok"
    PROVE  TokenFind(r) \/ TokenReread(r)
<1>1. CASE Serve(r)
  <2>1. req[r].at \in TokenAwaits
    BY DEF TypeOK, WellFormed, InFlight
  <2>2. ~TikTokFails(r)
    BY DEF TikTokFails, Answer, Answered, TypeOK
  <2>3. ~TikTokRefreshes(r) /\ ~RefreshReceive(r)
    BY DEF TikTokRefreshes, RefreshReceive, InFlight, TypeOK, Request
  <2>4. ~RefreshStore(r)
    BY DEF RefreshStore, AfterStore, InFlight, Answer, Answered, TypeOK, Request
  <2> QED
    BY <1>1, <2>1, <2>2, <2>3, <2>4
       DEF Serve, TokenAwaits, ExchangeCode, ShopInfo, CallbackFind, CallbackSave,
           DisconnectFind, DisconnectDelete, RefreshFind
<1>2. CASE ~Serve(r)
  <2>1. ASSUME NEW x \in Requests, Serve(x) PROVE req'[r] = req[r]
    BY <1>2, <2>1, OnlyServed
  <2>2. ASSUME NEW x \in Requests, NEW u \in Users, BeginCallback(x, u)
        PROVE  req'[r] = req[r]
    BY <2>2 DEF BeginCallback, TypeOK, InFlight
  <2>3. ASSUME NEW x \in Requests, NEW u \in Users, NEW op \in Ops, Begin(x, u, op)
        PROVE  req'[r] = req[r]
    BY <2>3 DEF Begin, TypeOK, InFlight
  <2>4. ~Restart
    BY DEF Restart, Answered
  <2>5. ASSUME Tick \/ \E u \in Users : InitiateAuth(u) \/ DeleteUser(u)
        PROVE  req'[r] = req[r]
    BY <2>5 DEF Tick, InitiateAuth, DeleteUser
  <2>6. req'[r] # req[r]
    BY DEF InFlight
  <2> QED
    BY <2>1, <2>2, <2>3, <2>4, <2>5, <2>6 DEF Next
<1> QED
  BY <1>1, <1>2

LEMMA HandedStep ==
    ASSUME IInv, Next, NEW r \in Requests,
           req[r].op = "token", InFlight(r), ~InFlight(r)', req'[r].answer = "ok"
    PROVE  now < req'[r].token.expires
<1> DEFINE u == req[r].user
<1>1. /\ TypeOK /\ u \in Users /\ now \in Nat /\ req[r].began \in Nat
      /\ now <= req[r].began + Latency
  BY ServedType DEF IInv, InFlight, ReqSound, WellFormed, Request, TypeOK
<1>2. CASE TokenFind(r)
  <2>1. Connected(u) /\ StillGood(u) /\ req'[r].token = row[u].token
    BY <1>1, <1>2 DEF TokenFind, Answer, Answered, TypeOK, InFlight, Request
  <2>2. /\ row[u].expiresAt <= row[u].token.expires + Latency
        /\ row[u].expiresAt \in Nat /\ row[u].token.expires \in Nat
    BY <1>1, <2>1 DEF Connected, IInv, RowSound, TypeOK, Row, Token
  <2> QED
    BY <1>1, <2>1, <2>2, TimeAssumption DEF StillGood
<1>3. CASE TokenReread(r)
  <2>1. row[u] # None /\ req'[r].token = row[u].token
    BY <1>1, <1>3 DEF TokenReread, Answer, Answered, TypeOK
  <2>2. /\ row[u].token.expires >= req[r].began + Life - Latency
        /\ row[u].token.expires \in Nat
    BY <1>1, <1>3, <2>1 DEF TokenReread, IInv, RereadSound, TypeOK, Row, Token
  <2> QED
    BY <1>1, <2>1, <2>2, TimeAssumption
<1> QED
  BY <1>1, <1>2, <1>3, HandingSteps

(* getValidAccessToken never hands out a token that has expired at TikTok, if a
   request takes no longer than the buffer and less than half a token's life. *)
THEOREM HandedValid == Spec => HandedTokenIsValid
<1>1. IInv /\ [Next]_vars
      => [\A r \in Requests :
            req[r].op = "token" /\ InFlight(r) /\ ~InFlight(r)' /\ req'[r].answer = "ok"
            => now < req'[r].token.expires]_vars
  BY HandedStep
<1> QED
  BY <1>1, IInvAlways, PTL DEF Spec, HandedTokenIsValid

-----------------------------------------------------------------------------
(* Only a callback connects. *)

LEMMA ConnectStep ==
    ASSUME IInv, Next, NEW u \in Users, row[u] = None, row'[u] # None
    PROVE  /\ u \in alive
           /\ \E r \in Requests :
                /\ req[r].at = "CallbackSave" /\ req[r].user = u
                /\ req'[r].answer = "ok"
<1>1. PICK r \in Requests : CallbackSave(r) \/ RefreshStore(r)
  BY RowWrites DEF DisconnectDelete, DeleteUser, IInv, TypeOK
<1>2. CASE CallbackSave(r)
  <2>1. ~UNCHANGED row
    OBVIOUS
  <2>2. req[r].user = u /\ u \in alive
    BY <1>2, <2>1, Saved
  <2>3. Answer(r, "ok", None)
    BY <1>2, <2>1 DEF CallbackSave
  <2>4. req'[r].answer = "ok"
    BY <2>3 DEF Answer, Answered, IInv, TypeOK
  <2> QED  BY <1>2, <2>2, <2>4 DEF CallbackSave
<1>3. CASE RefreshStore(r)
  <2>1. row[req[r].user] # None
    BY <1>3 DEF RefreshStore
  <2> QED  BY <1>3, <2>1, Stored
<1> QED
  BY <1>1, <1>2, <1>3

(* No refresh and no other late write ever brings a connection back. *)
THEOREM OnlyCallback == Spec => OnlyCallbackConnects
<1>1. IInv /\ [Next]_vars
      => [\A u \in Users :
            row[u] = None /\ row'[u] # None
            => /\ u \in alive
               /\ \E r \in Requests :
                    /\ req[r].at = "CallbackSave" /\ req[r].user = u
                    /\ req'[r].answer = "ok"]_vars
  BY ConnectStep
<1> QED
  BY <1>1, IInvAlways, PTL DEF Spec, OnlyCallbackConnects

-----------------------------------------------------------------------------
(* The service implements ShopRegistry. *)

LEMMA RegistryInit == Init => Registry!Init
BY DEF Init, Registry!Init, ShopOf, Connected

(* What getUserShopInfo shows of a sound row. *)
LEMMA ShopOfRow ==
    ASSUME IInv, IInv', NEW u \in Users
    PROVE  /\ ShopOf(u) = IF row[u] = None THEN None ELSE row[u].shop
           /\ ShopOf(u)' = IF row'[u] = None THEN None ELSE row'[u].shop
           /\ row[u] # None => row[u].shop \in Shops /\ row[u].shop # None
BY NoneAssumption DEF IInv, RowSound, ShopOf, Connected, TypeOK, Row

(* What a step does to the shop of a user is a step of the registry, or nothing
   the registry can see: a refresh keeps the shop. *)
LEMMA RegistryStep == IInv /\ [Next]_vars => [Registry!Next]_(Registry!vars)
<1> SUFFICES ASSUME IInv, Next
             PROVE  Registry!Next \/ UNCHANGED Registry!vars
  BY DEF vars, Registry!vars, ShopOf, Connected
<1>i. IInv'
  BY IInvStep
<1> DEFINE shopOf == [u \in Users |-> ShopOf(u)]
<1>u. ASSUME alive' = alive, \A u \in Users : ShopOf(u)' = ShopOf(u)
      PROVE  UNCHANGED Registry!vars
  BY <1>u DEF Registry!vars
<1>1. ASSUME NEW r \in Requests, CallbackSave(r)
      PROVE  Registry!Next \/ UNCHANGED Registry!vars
  <2>1. CASE UNCHANGED row
    BY <1>1, <2>1, <1>u DEF CallbackSave, ShopOf, Connected
  <2>2. CASE ~UNCHANGED row
    <3>0. PICK u \in Users, s \in Shops : u = req[r].user /\ s = req[r].token.shop
      BY <1>1, ServedType DEF IInv, CallbackSave, InFlight, HoldsToken, Token
    <3>1. u \in alive /\ ~HeldByOther(u, s)
      BY <3>0, <1>1, <2>2, Saved, ServedType
         DEF IInv, CallbackSave, InFlight, HoldsToken, Token
    <3>2. row'[u] # None /\ row'[u].shop = s /\ \A v \in Users \ {u} : row'[v] = row[v]
      BY <3>0, <1>1, <2>2, Saved
    <3>3. alive' = alive
      BY <1>1 DEF CallbackSave
    <3>4. ShopOf(u)' = s /\ \A v \in Users \ {u} : ShopOf(v)' = ShopOf(v)
      BY <1>i, <3>1, <3>2, ShopOfRow
    <3>5. \A v \in Users \ {u} : shopOf[v] # s
      BY <1>i, <3>1, ShopOfRow, NoneAssumption DEF HeldByOther
    <3>6. shopOf' = [shopOf EXCEPT ![u] = s]
      BY <3>4
    <3>7. Registry!Connect(u, s)
      BY <3>1, <3>3, <3>5, <3>6 DEF Registry!Connect
    <3> QED  BY <3>1, <3>7 DEF Registry!Next
  <2> QED  BY <2>1, <2>2
<1>2. ASSUME NEW r \in Requests, DisconnectDelete(r)
      PROVE  Registry!Next \/ UNCHANGED Registry!vars
  <2>0. PICK u \in Users : u = req[r].user
    BY <1>2, ServedType DEF IInv, DisconnectDelete, InFlight
  <2>1. alive' = alive /\ row' = [row EXCEPT ![u] = None]
    BY <1>2, <2>0 DEF DisconnectDelete
  <2>2. row'[u] = None /\ \A v \in Users \ {u} : row'[v] = row[v]
    BY <2>1 DEF IInv, TypeOK
  <2>3. ShopOf(u)' = None /\ \A v \in Users \ {u} : ShopOf(v)' = ShopOf(v)
    BY <1>i, <2>1, <2>2, ShopOfRow
  <2>4. CASE ShopOf(u) = None
    BY <2>1, <2>3, <2>4, <1>u
  <2>5. CASE ShopOf(u) # None
    <3>1. shopOf' = [shopOf EXCEPT ![u] = None]
      BY <2>3
    <3>2. shopOf[u] # None
      BY <2>5
    <3> QED  BY <2>1, <3>1, <3>2 DEF Registry!Next, Registry!Disconnect
  <2> QED  BY <2>4, <2>5
<1>3. ASSUME NEW r \in Requests, RefreshStore(r)
      PROVE  Registry!Next \/ UNCHANGED Registry!vars
  <2>1. alive' = alive
    BY <1>3 DEF RefreshStore
  <2>2. CASE row[req[r].user] = None
    BY <1>3, <2>1, <2>2, <1>u DEF RefreshStore, ShopOf, Connected
  <2>3. CASE row[req[r].user] # None
    BY <1>3, <1>i, <2>1, <2>3, <1>u, Stored, ShopOfRow
  <2> QED  BY <2>2, <2>3
<1>4. ASSUME NEW u \in Users, DeleteUser(u)
      PROVE  Registry!Next \/ UNCHANGED Registry!vars
  <2>1. row'[u] = None /\ \A v \in Users \ {u} : row'[v] = row[v]
    BY <1>4 DEF DeleteUser, IInv, TypeOK
  <2>2. shopOf' = [shopOf EXCEPT ![u] = None]
    BY <1>i, <2>1, ShopOfRow
  <2> QED  BY <1>4, <2>2 DEF DeleteUser, Registry!Next, Registry!Remove
<1>5. ASSUME UNCHANGED <<row, alive>>
      PROVE  Registry!Next \/ UNCHANGED Registry!vars
  BY <1>5, <1>u DEF ShopOf, Connected
<1> QED
  BY <1>1, <1>2, <1>3, <1>4, <1>5, RowWrites

(* The connections that getUserShopInfo shows change only as the registry of
   users and shops allows. *)
THEOREM ImplementsRegistry == Spec => RegistrySpec
<1>1. Init => Registry!Init
  BY RegistryInit
<1>2. IInv /\ [Next]_vars => [Registry!Next]_(Registry!vars)
  BY RegistryStep
<1> QED
  BY <1>1, <1>2, IInvAlways, PTL DEF Spec, Registry!Spec, RegistrySpec

=============================================================================
