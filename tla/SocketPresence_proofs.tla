------------------------ MODULE SocketPresence_proofs ------------------------
(* Proofs about SocketPresence, for any number of users, servers and sockets. *)
EXTENDS SocketPresence, TLAPS

SocketsOf(u) == {c \in Sockets : UserOf[c] = u}

(* A server's map holds open sockets of that server only. *)
MapSound ==
    \A s \in Servers : \A c \in clients[s] : ServerOf[c] = s /\ open[c] = "open"

(* However stale, an entry and every copy of it holds sockets of its user. *)
ListsSound ==
    /\ \A u \in Users : list[u] \subseteq SocketsOf(u)
    /\ \A c \in Sockets : /\ joining[c].read \subseteq SocketsOf(UserOf[c])
                          /\ leaving[c].read \subseteq SocketsOf(UserOf[c])
    /\ \A s \in Servers : /\ sending[s].read \subseteq SocketsOf(sending[s].to)
                          /\ sending[s].at # "idle" => sending[s].to \in Users

(* A user whose handlers have never met: no handler runs and the entry is
   exact, or one runs and the entry differs from the open sockets by its socket
   only, and so does what the handler read. *)
Quiet(u) ==
    /\ Joining(u) = {} /\ Leaving(u) = {}
    /\ list[u] = OpenOf(u)

JoiningAlone(u, c) ==
    /\ Joining(u) = {c} /\ Leaving(u) = {}
    /\ open[c] = "open"
    /\ list[u] = OpenOf(u) \ {c}
    /\ joining[c].at = "Set" => joining[c].read = list[u]

LeavingAlone(u, c) ==
    /\ Joining(u) = {} /\ Leaving(u) = {c}
    /\ open[c] = "closed"
    /\ list[u] = OpenOf(u) \cup {c}
    /\ leaving[c].at = "Set" => leaving[c].read = list[u]

Accounted(u) ==
    Quiet(u) \/ \E c \in SocketsOf(u) : JoiningAlone(u, c) \/ LeavingAlone(u, c)

DisturbedSound == \A u \in Users \ disturbed : Accounted(u)

IInv == TypeOK /\ MapSound /\ ListsSound /\ DisturbedSound

-----------------------------------------------------------------------------
LEMMA IdleType == Idle \in Handler /\ Idle.at = "idle" /\ Idle.read = {}
BY DEF Idle, Handler

LEMMA HandlerType ==
    ASSUME NEW at \in {"idle", "Get", "Set"}, NEW read \in SUBSET Sockets
    PROVE  [at |-> at, read |-> read] \in Handler
BY DEF Handler

LEMMA NotSendingType == NotSending \in Sender /\ NotSending.at = "idle" /\ NotSending.read = {}
BY DEF NotSending, Sender

LEMMA SenderType ==
    ASSUME NEW to \in Users, NEW at \in {"idle", "Get", "Send"}, NEW read \in SUBSET Sockets
    PROVE  [to |-> to, at |-> at, read |-> read] \in Sender
BY DEF Sender

LEMMA TypeInit == Init => TypeOK
BY SocketAssumption, IdleType, NotSendingType DEF Init, TypeOK

-----------------------------------------------------------------------------
(* Types are kept: the handlers of connections. *)
LEMMA ConnectType ==
    ASSUME TypeOK, NEW c \in Sockets,
           Connect(c) \/ ConnectGet(c) \/ ConnectSet(c)
    PROVE  TypeOK'
<1> USE SocketAssumption DEF TypeOK
<1>1. joining[c] \in Handler /\ list[UserOf[c]] \in SUBSET Sockets
  OBVIOUS
<1>2. CASE Connect(c)
  <2>1. [at |-> "Get", read |-> {}] \in Handler
    BY HandlerType
  <2> QED
    BY <1>2, <2>1 DEF Connect, Overlaps
<1>3. CASE ConnectGet(c)
  <2>1. [at |-> "Set", read |-> list[UserOf[c]]] \in Handler
    BY <1>1, HandlerType
  <2> QED
    BY <1>3, <2>1 DEF ConnectGet
<1>4. CASE ConnectSet(c)
  <2>1. joining[c].read \cup {c} \in SUBSET Sockets
    BY <1>1 DEF Handler
  <2> QED
    BY <1>4, <2>1, IdleType DEF ConnectSet
<1> QED
  BY <1>2, <1>3, <1>4

LEMMA DisconnectType ==
    ASSUME TypeOK, NEW c \in Sockets,
           Disconnect(c) \/ DisconnectGet(c) \/ DisconnectSet(c) \/ HandlerFails(c)
    PROVE  TypeOK'
<1> USE SocketAssumption DEF TypeOK
<1>1. leaving[c] \in Handler /\ list[UserOf[c]] \in SUBSET Sockets
  OBVIOUS
<1>2. CASE Disconnect(c)
  <2>1. [at |-> "Get", read |-> {}] \in Handler
    BY HandlerType
  <2> QED
    BY <1>2, <2>1 DEF Disconnect, Overlaps
<1>3. CASE DisconnectGet(c)
  <2>1. [at |-> "Set", read |-> list[UserOf[c]]] \in Handler
    BY <1>1, HandlerType
  <2> QED
    BY <1>3, <2>1, IdleType DEF DisconnectGet
<1>4. CASE DisconnectSet(c)
  <2>1. leaving[c].read \ {c} \in SUBSET Sockets
    BY <1>1 DEF Handler
  <2> QED
    BY <1>4, <2>1, IdleType DEF DisconnectSet
<1>5. CASE HandlerFails(c)
  BY <1>5, IdleType DEF HandlerFails
<1> QED
  BY <1>2, <1>3, <1>4, <1>5

(* Types are kept: messages, expiry and crashes. *)
LEMMA SendType ==
    ASSUME TypeOK, NEW s \in Servers,
           (\E u \in Users : SendTo(s, u)) \/ SendGet(s) \/ Send(s),
           sending[s].at # "idle" => sending[s].to \in Users
    PROVE  TypeOK'
<1> USE DEF TypeOK
<1>1. CASE \E u \in Users : SendTo(s, u)
  <2>1. PICK u \in Users : SendTo(s, u)
    BY <1>1
  <2>2. [to |-> u, at |-> "Get", read |-> {}] \in Sender
    BY SenderType
  <2> QED
    BY <2>1, <2>2 DEF SendTo
<1>2. CASE SendGet(s)
  <2>1. sending[s].to \in Users
    BY <1>2 DEF SendGet
  <2>2. [sending[s] EXCEPT !.at = "Send", !.read = list[sending[s].to]] \in Sender
    BY <2>1 DEF Sender
  <2> QED
    BY <1>2, <2>2 DEF SendGet
<1>3. CASE Send(s)
  BY <1>3, NotSendingType DEF Send
<1> QED
  BY <1>1, <1>2, <1>3

LEMMA FaultType ==
    ASSUME TypeOK, (\E u \in Users : Expire(u)) \/ (\E s \in Servers : ServerCrash(s))
    PROVE  TypeOK'
<1> USE SocketAssumption DEF TypeOK
<1>1. CASE \E u \in Users : Expire(u)
  <2>1. PICK u \in Users : Expire(u)
    BY <1>1
  <2> QED
    BY <2>1 DEF Expire
<1>2. CASE \E s \in Servers : ServerCrash(s)
  <2>1. PICK s \in Servers : ServerCrash(s)
    BY <1>2
  <2> QED
    BY <2>1, IdleType, NotSendingType DEF ServerCrash
<1> QED
  BY <1>1, <1>2

LEMMA TypeStep == TypeOK /\ ListsSound /\ [Next]_vars => TypeOK'
<1> SUFFICES ASSUME TypeOK, ListsSound, [Next]_vars PROVE TypeOK'
  OBVIOUS
<1>1. \A s \in Servers : sending[s].at # "idle" => sending[s].to \in Users
  BY DEF ListsSound
<1>2. CASE UNCHANGED vars
  BY <1>2 DEF vars, TypeOK
<1> QED
  BY <1>1, <1>2, ConnectType, DisconnectType, SendType, FaultType DEF Next

-----------------------------------------------------------------------------
(* The map of a server holds its open sockets, and every list sockets of its
   user: no step adds to them anything else. *)
LEMMA MapStep == TypeOK /\ MapSound /\ [Next]_vars => MapSound'
<1> SUFFICES ASSUME TypeOK, MapSound, [Next]_vars PROVE MapSound'
  OBVIOUS
<1> USE SocketAssumption DEF TypeOK, MapSound
<1>1. ASSUME NEW c \in Sockets, Connect(c) PROVE MapSound'
  BY <1>1 DEF Connect
<1>2. ASSUME NEW c \in Sockets, Disconnect(c) PROVE MapSound'
  BY <1>2 DEF Disconnect
<1>3. ASSUME NEW s \in Servers, ServerCrash(s) PROVE MapSound'
  BY <1>3 DEF ServerCrash
<1>4. CASE UNCHANGED <<open, clients>>
  BY <1>4
<1>5. CASE UNCHANGED vars
  BY <1>4, <1>5 DEF vars
<1>6. ASSUME NEW c \in Sockets,
             ConnectGet(c) \/ ConnectSet(c) \/ DisconnectGet(c) \/ DisconnectSet(c) \/ HandlerFails(c)
      PROVE  MapSound'
  BY <1>4, <1>6 DEF ConnectGet, ConnectSet, DisconnectGet, DisconnectSet, HandlerFails
<1>7. ASSUME NEW s \in Servers, (\E u \in Users : SendTo(s, u)) \/ SendGet(s) \/ Send(s)
      PROVE  MapSound'
  BY <1>4, <1>7 DEF SendTo, SendGet, Send
<1>8. ASSUME NEW u \in Users, Expire(u) PROVE MapSound'
  BY <1>4, <1>8 DEF Expire
<1> QED
  BY <1>1, <1>2, <1>3, <1>5, <1>6, <1>7, <1>8 DEF Next

LEMMA ListsOfConnections ==
    ASSUME TypeOK, ListsSound, NEW c \in Sockets,
           \/ Connect(c) \/ ConnectGet(c) \/ ConnectSet(c)
           \/ Disconnect(c) \/ DisconnectGet(c) \/ DisconnectSet(c) \/ HandlerFails(c)
    PROVE  ListsSound'
<1> USE SocketAssumption, IdleType DEF TypeOK, ListsSound, SocketsOf
<1>1. CASE Connect(c)
  BY <1>1 DEF Connect
<1>2. CASE ConnectGet(c)
  BY <1>2 DEF ConnectGet
<1>3. CASE ConnectSet(c)
  BY <1>3 DEF ConnectSet
<1>4. CASE Disconnect(c)
  BY <1>4 DEF Disconnect
<1>5. CASE DisconnectGet(c)
  BY <1>5 DEF DisconnectGet
<1>6. CASE DisconnectSet(c)
  BY <1>6 DEF DisconnectSet
<1>7. CASE HandlerFails(c)
  <2>1. /\ \A d \in Sockets : joining'[d] = joining[d] \/ joining'[d] = Idle
        /\ \A d \in Sockets : leaving'[d] = leaving[d] \/ leaving'[d] = Idle
    BY <1>7 DEF HandlerFails
  <2> QED
    BY <1>7, <2>1 DEF HandlerFails
<1> QED
  BY <1>1, <1>2, <1>3, <1>4, <1>5, <1>6, <1>7

LEMMA ListsOfMessages ==
    ASSUME TypeOK, ListsSound, NEW s \in Servers,
           (\E u \in Users : SendTo(s, u)) \/ SendGet(s) \/ Send(s)
    PROVE  ListsSound'
<1> USE NotSendingType DEF TypeOK, ListsSound, SocketsOf
<1>1. CASE \E u \in Users : SendTo(s, u)
  BY <1>1 DEF SendTo
<1>2. CASE SendGet(s)
  <2>1. sending[s].to \in Users
    BY <1>2 DEF SendGet
  <2>2. sending' = [sending EXCEPT ![s] = [@ EXCEPT !.at = "Send", !.read = list[sending[s].to]]]
    BY <1>2 DEF SendGet
  <2>3. /\ sending'[s].to = sending[s].to
        /\ sending'[s].read = list[sending[s].to]
    BY <2>2 DEF Sender
  <2>4. \A t \in Servers : t # s => sending'[t] = sending[t]
    BY <2>2
  <2> QED
    BY <1>2, <2>1, <2>3, <2>4 DEF SendGet
<1>3. CASE Send(s)
  BY <1>3 DEF Send
<1> QED
  BY <1>1, <1>2, <1>3

LEMMA ListsStep == TypeOK /\ ListsSound /\ [Next]_vars => ListsSound'
<1> SUFFICES ASSUME TypeOK, ListsSound, [Next]_vars PROVE ListsSound'
  OBVIOUS
<1>1. ASSUME NEW u \in Users, Expire(u) PROVE ListsSound'
  BY <1>1 DEF Expire, TypeOK, ListsSound, SocketsOf
<1>2. ASSUME NEW s \in Servers, ServerCrash(s) PROVE ListsSound'
  BY <1>2, IdleType, NotSendingType DEF ServerCrash, TypeOK, ListsSound, SocketsOf
<1>3. CASE UNCHANGED vars
  BY <1>3 DEF vars, ListsSound
<1> QED
  BY <1>1, <1>2, <1>3, ListsOfConnections, ListsOfMessages DEF Next

-----------------------------------------------------------------------------
(* A step that leaves the sockets, the handlers and the entry of a user alone
   leaves the user accounted for. *)
LEMMA Untouched ==
    ASSUME TypeOK, TypeOK', NEW u \in Users, Accounted(u),
           list'[u] = list[u],
           \A c \in SocketsOf(u) : /\ open'[c] = open[c]
                                   /\ joining'[c] = joining[c]
                                   /\ leaving'[c] = leaving[c]
    PROVE  Accounted(u)'
<1>1. Joining(u)' = Joining(u) /\ Leaving(u)' = Leaving(u) /\ OpenOf(u)' = OpenOf(u)
  BY DEF Joining, Leaving, OpenOf, SocketsOf
<1>2. CASE Quiet(u)
  BY <1>1, <1>2 DEF Quiet, Accounted
<1>3. ASSUME NEW c \in SocketsOf(u), JoiningAlone(u, c) PROVE Accounted(u)'
  <2>1. JoiningAlone(u, c)'
    BY <1>1, <1>3 DEF JoiningAlone
  <2> QED
    BY <2>1 DEF Accounted, SocketsOf
<1>4. ASSUME NEW c \in SocketsOf(u), LeavingAlone(u, c) PROVE Accounted(u)'
  <2>1. LeavingAlone(u, c)'
    BY <1>1, <1>4 DEF LeavingAlone
  <2> QED
    BY <2>1 DEF Accounted, SocketsOf
<1> QED
  BY <1>2, <1>3, <1>4 DEF Accounted

(* What is known of an undisturbed user with a handler in flight. *)
LEMMA TheJoining ==
    ASSUME NEW c \in Sockets, Accounted(UserOf[c]), joining[c].at # "idle"
    PROVE  JoiningAlone(UserOf[c], c)
BY DEF Accounted, Quiet, JoiningAlone, LeavingAlone, Joining, SocketsOf

LEMMA TheLeaving ==
    ASSUME NEW c \in Sockets, Accounted(UserOf[c]), leaving[c].at # "idle"
    PROVE  LeavingAlone(UserOf[c], c)
BY DEF Accounted, Quiet, JoiningAlone, LeavingAlone, Leaving, SocketsOf

LEMMA NobodyThere ==
    ASSUME NEW u \in Users, Accounted(u), ~Busy(u)
    PROVE  Quiet(u)
BY DEF Accounted, Quiet, JoiningAlone, LeavingAlone, Busy, SocketsOf

(* The three steps of a connection. *)
LEMMA ConnectAccounted ==
    ASSUME TypeOK, TypeOK', NEW c \in Sockets, Connect(c),
           Accounted(UserOf[c]), ~Busy(UserOf[c])
    PROVE  JoiningAlone(UserOf[c], c)'
<1> DEFINE u == UserOf[c]
<1> USE SocketAssumption DEF TypeOK
<1>1. Quiet(u)
  BY NobodyThere
<1>2. Joining(u)' = {c} /\ Leaving(u)' = {}
  BY <1>1 DEF Quiet, Joining, Leaving, Connect
<1>3. OpenOf(u)' = OpenOf(u) \cup {c} /\ c \notin OpenOf(u) /\ open'[c] = "open"
  BY DEF OpenOf, Connect
<1>4. list'[u] = list[u] /\ joining'[c].at = "Get"
  BY DEF Connect
<1> QED
  BY <1>1, <1>2, <1>3, <1>4 DEF JoiningAlone, Quiet

LEMMA ConnectGetAccounted ==
    ASSUME TypeOK, TypeOK', NEW c \in Sockets, ConnectGet(c), Accounted(UserOf[c])
    PROVE  JoiningAlone(UserOf[c], c)'
<1> DEFINE u == UserOf[c]
<1> USE SocketAssumption DEF TypeOK
<1>1. JoiningAlone(u, c)
  BY TheJoining DEF ConnectGet
<1>2. joining'[c] = [at |-> "Set", read |-> list[u]]
  BY DEF ConnectGet
<1>3. Joining(u)' = Joining(u)
  BY <1>2 DEF Joining, ConnectGet
<1>4. Leaving(u)' = Leaving(u) /\ OpenOf(u)' = OpenOf(u) /\ list' = list /\ open' = open
  BY DEF Leaving, OpenOf, ConnectGet
<1> QED
  BY <1>1, <1>2, <1>3, <1>4 DEF JoiningAlone

LEMMA ConnectSetAccounted ==
    ASSUME TypeOK, TypeOK', NEW c \in Sockets, ConnectSet(c), Accounted(UserOf[c])
    PROVE  Quiet(UserOf[c])'
<1> DEFINE u == UserOf[c]
<1> USE SocketAssumption DEF TypeOK
<1>1. JoiningAlone(u, c) /\ joining[c].read = list[u]
  BY TheJoining DEF ConnectSet, JoiningAlone
<1>2. list'[u] = list[u] \cup {c}
  BY <1>1 DEF ConnectSet
<1>3. Joining(u)' = {} /\ Leaving(u)' = {}
  BY <1>1, IdleType DEF JoiningAlone, Joining, Leaving, ConnectSet
<1>4. OpenOf(u)' = OpenOf(u) /\ c \in OpenOf(u)
  BY <1>1 DEF JoiningAlone, OpenOf, ConnectSet
<1> QED
  BY <1>1, <1>2, <1>3, <1>4 DEF JoiningAlone, Quiet

(* The three steps of a disconnection. *)
LEMMA DisconnectAccounted ==
    ASSUME TypeOK, TypeOK', NEW c \in Sockets, Disconnect(c),
           Accounted(UserOf[c]), ~Busy(UserOf[c])
    PROVE  LeavingAlone(UserOf[c], c)'
<1> DEFINE u == UserOf[c]
<1> USE SocketAssumption DEF TypeOK
<1>1. Quiet(u)
  BY NobodyThere
<1>2. Joining(u)' = {} /\ Leaving(u)' = {c}
  BY <1>1 DEF Quiet, Joining, Leaving, Disconnect
<1>3. OpenOf(u)' = OpenOf(u) \ {c} /\ c \in OpenOf(u) /\ open'[c] = "closed"
  BY DEF OpenOf, Disconnect
<1>4. list'[u] = list[u] /\ leaving'[c].at = "Get"
  BY DEF Disconnect
<1> QED
  BY <1>1, <1>2, <1>3, <1>4 DEF LeavingAlone, Quiet

LEMMA DisconnectGetAccounted ==
    ASSUME TypeOK, TypeOK', NEW c \in Sockets, DisconnectGet(c), Accounted(UserOf[c])
    PROVE  LeavingAlone(UserOf[c], c)'
<1> DEFINE u == UserOf[c]
<1> USE SocketAssumption DEF TypeOK
<1>1. LeavingAlone(u, c)
  BY TheLeaving DEF DisconnectGet
<1>2. leaving'[c] = [at |-> "Set", read |-> list[u]]
  BY <1>1 DEF DisconnectGet, LeavingAlone
<1>3. Leaving(u)' = Leaving(u)
  BY <1>2 DEF Leaving, DisconnectGet
<1>4. Joining(u)' = Joining(u) /\ OpenOf(u)' = OpenOf(u) /\ list' = list /\ open' = open
  BY DEF Joining, OpenOf, DisconnectGet
<1> QED
  BY <1>1, <1>2, <1>3, <1>4 DEF LeavingAlone

LEMMA DisconnectSetAccounted ==
    ASSUME TypeOK, TypeOK', NEW c \in Sockets, DisconnectSet(c), Accounted(UserOf[c])
    PROVE  Quiet(UserOf[c])'
<1> DEFINE u == UserOf[c]
<1> USE SocketAssumption DEF TypeOK
<1>1. LeavingAlone(u, c) /\ leaving[c].read = list[u]
  BY TheLeaving DEF DisconnectSet, LeavingAlone
<1>2. list'[u] = list[u] \ {c}
  BY <1>1 DEF DisconnectSet
<1>3. Joining(u)' = {} /\ Leaving(u)' = {}
  BY <1>1, IdleType DEF LeavingAlone, Joining, Leaving, DisconnectSet
<1>4. OpenOf(u)' = OpenOf(u) /\ c \notin OpenOf(u)
  BY <1>1 DEF LeavingAlone, OpenOf, DisconnectSet
<1> QED
  BY <1>1, <1>2, <1>3, <1>4 DEF LeavingAlone, Quiet

(* A step of one socket's handlers: users other than the socket's are
   untouched, and the socket's user stays accounted for or is disturbed. *)
LEMMA HandlersDisturb ==
    ASSUME TypeOK, TypeOK', DisturbedSound, NEW c \in Sockets,
           \/ Connect(c) \/ ConnectGet(c) \/ ConnectSet(c)
           \/ Disconnect(c) \/ DisconnectGet(c) \/ DisconnectSet(c) \/ HandlerFails(c)
    PROVE  DisturbedSound'
<1> USE SocketAssumption
<1>1. SUFFICES ASSUME NEW u \in Users, u \notin disturbed' PROVE Accounted(u)'
  BY DEF DisturbedSound
<1>2. u \notin disturbed
  BY <1>1 DEF Connect, ConnectGet, ConnectSet, Disconnect, DisconnectGet, DisconnectSet,
              HandlerFails, Overlaps
<1>3. Accounted(u)
  BY <1>2 DEF DisturbedSound
<1>4. CASE u # UserOf[c]
  <2>1. \A d \in SocketsOf(u) : /\ d # c
                                /\ open'[d] = open[d]
                                /\ joining'[d] = joining[d] /\ leaving'[d] = leaving[d]
    BY <1>4 DEF TypeOK, SocketsOf, Connect, ConnectGet, ConnectSet, Disconnect, DisconnectGet,
                DisconnectSet, HandlerFails
  <2>2. list'[u] = list[u]
    BY <1>4 DEF TypeOK, Connect, ConnectGet, ConnectSet, Disconnect, DisconnectGet,
                DisconnectSet, HandlerFails
  <2> QED
    BY <1>3, <2>1, <2>2, Untouched
<1>5. CASE u = UserOf[c]
  <2> c \in SocketsOf(u)
    BY <1>5 DEF SocketsOf
  <2>1. CASE Connect(c)
    <3>1. ~Busy(u)
      BY <1>1, <1>5, <2>1 DEF Connect, Overlaps
    <3> QED
      BY <1>3, <1>5, <2>1, <3>1, ConnectAccounted DEF Accounted, SocketsOf
  <2>2. CASE Disconnect(c)
    <3>1. ~Busy(u)
      BY <1>1, <1>5, <2>2 DEF Disconnect, Overlaps
    <3> QED
      BY <1>3, <1>5, <2>2, <3>1, DisconnectAccounted DEF Accounted, SocketsOf
  <2>3. CASE ConnectGet(c)
    BY <1>3, <1>5, <2>3, ConnectGetAccounted DEF Accounted, SocketsOf
  <2>4. CASE ConnectSet(c)
    BY <1>3, <1>5, <2>4, ConnectSetAccounted DEF Accounted
  <2>5. CASE DisconnectGet(c)
    BY <1>3, <1>5, <2>5, DisconnectGetAccounted DEF Accounted, SocketsOf
  <2>6. CASE DisconnectSet(c)
    BY <1>3, <1>5, <2>6, DisconnectSetAccounted DEF Accounted
  <2>7. CASE HandlerFails(c)
    BY <1>1, <1>5, <2>7 DEF HandlerFails
  <2> QED
    BY <2>1, <2>2, <2>3, <2>4, <2>5, <2>6, <2>7
<1> QED
  BY <1>4, <1>5

(* An entry that expires: exact if nobody of the user is there, else noted. *)
LEMMA ExpireDisturbs ==
    ASSUME TypeOK, TypeOK', DisturbedSound, NEW v \in Users, Expire(v)
    PROVE  DisturbedSound'
<1>1. SUFFICES ASSUME NEW u \in Users, u \notin disturbed' PROVE Accounted(u)'
  BY DEF DisturbedSound
<1>2. CASE u = v
  <2>1. OpenOf(u) = {} /\ ~Busy(u)
    BY <1>1, <1>2 DEF Expire
  <2>2. Joining(u)' = {} /\ Leaving(u)' = {} /\ OpenOf(u)' = {}
    BY <2>1 DEF Busy, Joining, Leaving, OpenOf, Expire
  <2>3. list'[u] = {}
    BY <1>2 DEF Expire, TypeOK
  <2> QED
    BY <2>2, <2>3 DEF Accounted, Quiet
<1>3. CASE u # v
  <2>1. Accounted(u)
    BY <1>1, <1>3 DEF Expire, DisturbedSound
  <2>2. list'[u] = list[u] /\ open' = open /\ joining' = joining /\ leaving' = leaving
    BY <1>3 DEF Expire, TypeOK
  <2> QED
    BY <2>1, <2>2, Untouched
<1> QED
  BY <1>2, <1>3

(* A crash disturbs the users whose sockets or handlers are lost. *)
LEMMA CrashDisturbs ==
    ASSUME TypeOK, TypeOK', DisturbedSound, NEW s \in Servers, ServerCrash(s)
    PROVE  DisturbedSound'
<1> USE SocketAssumption
<1>1. SUFFICES ASSUME NEW u \in Users, u \notin disturbed' PROVE Accounted(u)'
  BY DEF DisturbedSound
<1>2. Accounted(u)
  BY <1>1 DEF ServerCrash, DisturbedSound
<1>3. ASSUME NEW c \in SocketsOf(u)
      PROVE  open'[c] = open[c] /\ joining'[c] = joining[c] /\ leaving'[c] = leaving[c]
  BY <1>1, <1>3 DEF ServerCrash, SocketsOf
<1>4. list'[u] = list[u]
  BY DEF ServerCrash
<1> QED
  BY <1>2, <1>3, <1>4, Untouched

LEMMA DisturbedStep == TypeOK /\ TypeOK' /\ DisturbedSound /\ [Next]_vars => DisturbedSound'
<1> SUFFICES ASSUME TypeOK, TypeOK', DisturbedSound, [Next]_vars PROVE DisturbedSound'
  OBVIOUS
<1>1. ASSUME UNCHANGED <<open, list, joining, leaving, disturbed>> PROVE DisturbedSound'
  BY <1>1, Untouched DEF DisturbedSound
<1>2. CASE UNCHANGED vars
  BY <1>1, <1>2 DEF vars
<1>3. ASSUME NEW s \in Servers, (\E u \in Users : SendTo(s, u)) \/ SendGet(s) \/ Send(s)
      PROVE  DisturbedSound'
  BY <1>1, <1>3 DEF SendTo, SendGet, Send
<1> QED
  BY <1>2, <1>3, HandlersDisturb, ExpireDisturbs, CrashDisturbs DEF Next

-----------------------------------------------------------------------------
LEMMA InvInit == Init => IInv
<1> SUFFICES ASSUME Init PROVE IInv
  OBVIOUS
<1> USE SocketAssumption, IdleType, NotSendingType DEF Init
<1>1. TypeOK
  BY TypeInit
<1>2. MapSound /\ ListsSound
  BY DEF MapSound, ListsSound
<1>3. ASSUME NEW u \in Users PROVE Quiet(u)
  BY DEF Quiet, Joining, Leaving, OpenOf
<1> QED
  BY <1>1, <1>2, <1>3 DEF IInv, DisturbedSound, Accounted

LEMMA InvStep == IInv /\ [Next]_vars => IInv'
BY TypeStep, MapStep, ListsStep, DisturbedStep DEF IInv

THEOREM Invariance == Spec => []IInv
BY InvInit, InvStep, PTL DEF Spec

(* Every variable keeps its type. *)
THEOREM TypeCorrect == Spec => []TypeOK
<1>1. IInv => TypeOK
  BY DEF IInv
<1> QED
  BY <1>1, Invariance, PTL

(* sendTo writes to open sockets of the user it was asked for only, however
   stale the entry it read. *)
THEOREM SendsStayWithUser == Spec => []SendsReachOnlyTheUser
<1>1. IInv => SendsReachOnlyTheUser
  BY SocketAssumption
     DEF IInv, MapSound, ListsSound, SendsReachOnlyTheUser, Reached, OpenOf, SocketsOf
<1> QED
  BY <1>1, Invariance, PTL

(* The entry of a user whose handlers never met and never failed is exact. *)
THEOREM EntryExact == Spec => []UndisturbedListIsExact
<1>1. IInv => UndisturbedListIsExact
  BY NobodyThere DEF IInv, DisturbedSound, UndisturbedListIsExact, Quiet
<1> QED
  BY <1>1, Invariance, PTL
=============================================================================
