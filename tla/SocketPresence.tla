--------------------------- MODULE SocketPresence ---------------------------
(* Who is connected (shared/socket): each server keeps its open sockets in a
   map, and all of them keep the ids of a user's sockets in one cache entry,
   which the connection handlers read, change and write back with an await
   before each access. *)
EXTENDS FiniteSets

CONSTANTS
    Users, Servers,
    Sockets,    \* the sockets there may ever be
    UserOf,     \* the user of a socket's session
    ServerOf,   \* the server a socket is connected to
    None

ASSUME SocketAssumption ==
    /\ UserOf \in [Sockets -> Users]
    /\ ServerOf \in [Sockets -> Servers]
    /\ None \notin Users

VARIABLES
    open,       \* of each socket: "new", "open" or "closed"
    clients,    \* the map of each server
    list,       \* the cache entry of each user, empty when missing
    joining,    \* where handleConnection is for a socket, and the entry it read
    leaving,    \* where handleDisconnect is for a socket, and the entry it read
    sending,    \* the call of sendTo on each server, and the entry it read
    disturbed   \* users for whom a race or a failure was seen, for the properties only

vars == <<open, clients, list, joining, leaving, sending, disturbed>>

Handler == [at : {"idle", "Get", "Set"}, read : SUBSET Sockets]
Idle == [at |-> "idle", read |-> {}]

Sender == [to : Users \cup {None}, at : {"idle", "Get", "Send"}, read : SUBSET Sockets]
NotSending == [to |-> None, at |-> "idle", read |-> {}]

(* The handlers in flight for a user. *)
Joining(u) == {c \in Sockets : UserOf[c] = u /\ joining[c].at # "idle"}
Leaving(u) == {c \in Sockets : UserOf[c] = u /\ leaving[c].at # "idle"}
Busy(u) == Joining(u) \cup Leaving(u) # {}

OpenOf(u) == {c \in Sockets : UserOf[c] = u /\ open[c] = "open"}

(* A handler that starts while another of the same user is in flight. *)
Overlaps(u) ==
    disturbed' = IF Busy(u) THEN disturbed \cup {u} ELSE disturbed

-----------------------------------------------------------------------------
(* handleConnection: the socket goes into the map, and the entry is read next.
   The middleware has refused sockets without a session. *)
Connect(c) ==
    /\ open[c] = "new"
    /\ open' = [open EXCEPT ![c] = "open"]
    /\ clients' = [clients EXCEPT ![ServerOf[c]] = @ \cup {c}]
    /\ joining' = [joining EXCEPT ![c] = [at |-> "Get", read |-> {}]]
    /\ Overlaps(UserOf[c])
    /\ UNCHANGED <<list, leaving, sending>>

ConnectGet(c) ==
    /\ joining[c].at = "Get"
    /\ joining' = [joining EXCEPT ![c] = [at |-> "Set", read |-> list[UserOf[c]]]]
    /\ UNCHANGED <<open, clients, list, leaving, sending, disturbed>>

(* Mutant: the list is written without the others. *)
ConnectSetAlone(c) ==
    /\ joining[c].at = "Set"
    /\ list' = [list EXCEPT ![UserOf[c]] = {c}]
    /\ joining' = [joining EXCEPT ![c] = Idle]
    /\ UNCHANGED <<open, clients, leaving, sending, disturbed>>

(* Mutant: the user's id is listed for the socket's. *)
ConnectSetUser(c) ==
    /\ joining[c].at = "Set"
    /\ list' = [list EXCEPT ![UserOf[c]] = joining[c].read \cup {UserOf[c]}]
    /\ joining' = [joining EXCEPT ![c] = Idle]
    /\ UNCHANGED <<open, clients, leaving, sending, disturbed>>

ConnectSet(c) ==
    /\ joining[c].at = "Set"
    /\ list' = [list EXCEPT ![UserOf[c]] = joining[c].read \cup {c}]
    /\ joining' = [joining EXCEPT ![c] = Idle]
    /\ UNCHANGED <<open, clients, leaving, sending, disturbed>>

(* Mutant: the socket stays in the map. *)
DisconnectKeepsClient(c) ==
    /\ open[c] = "open"
    /\ open' = [open EXCEPT ![c] = "closed"]
    /\ leaving' = [leaving EXCEPT ![c] = [at |-> "Get", read |-> {}]]
    /\ Overlaps(UserOf[c])
    /\ UNCHANGED <<list, joining, sending, clients>>

(* handleDisconnect: it may start before handleConnection of the socket ended. *)
Disconnect(c) ==
    /\ open[c] = "open"
    /\ open' = [open EXCEPT ![c] = "closed"]
    /\ clients' = [clients EXCEPT ![ServerOf[c]] = @ \ {c}]
    /\ leaving' = [leaving EXCEPT ![c] = [at |-> "Get", read |-> {}]]
    /\ Overlaps(UserOf[c])
    /\ UNCHANGED <<list, joining, sending>>

(* An entry without the socket is left as it is. *)
DisconnectGet(c) ==
    LET read == list[UserOf[c]]
    IN  /\ leaving[c].at = "Get"
        /\ leaving' = [leaving EXCEPT ![c] =
                         IF c \in read THEN [at |-> "Set", read |-> read] ELSE Idle]
        /\ UNCHANGED <<open, clients, list, joining, sending, disturbed>>

DisconnectSet(c) ==
    /\ leaving[c].at = "Set"
    /\ list' = [list EXCEPT ![UserOf[c]] = leaving[c].read \ {c}]
    /\ leaving' = [leaving EXCEPT ![c] = Idle]
    /\ UNCHANGED <<open, clients, joining, sending, disturbed>>
(* The cache refuses the handler's read or write: nobody catches it. *)
HandlerFails(c) ==
    /\ \/ /\ joining[c].at # "idle"
          /\ joining' = [joining EXCEPT ![c] = Idle]
          /\ UNCHANGED leaving
       \/ /\ leaving[c].at # "idle"
          /\ leaving' = [leaving EXCEPT ![c] = Idle]
          /\ UNCHANGED joining
    /\ disturbed' = disturbed \cup {UserOf[c]}
    /\ UNCHANGED <<open, clients, list, sending>>

-----------------------------------------------------------------------------
(* sendTo: the entry is read, then looked up socket by socket without an await. *)
SendTo(s, u) ==
    /\ sending[s].at = "idle"
    /\ sending' = [sending EXCEPT ![s] = [to |-> u, at |-> "Get", read |-> {}]]
    /\ UNCHANGED <<open, clients, list, joining, leaving, disturbed>>

SendGet(s) ==
    /\ sending[s].at = "Get"
    /\ sending' = [sending EXCEPT ![s].at = "Send", ![s].read = list[sending[s].to]]
    /\ UNCHANGED <<open, clients, list, joining, leaving, disturbed>>

Send(s) ==
    /\ sending[s].at = "Send"
    /\ sending' = [sending EXCEPT ![s] = NotSending]
    /\ UNCHANGED <<open, clients, list, joining, leaving, disturbed>>

(* The sockets a loop of sendTo on server s finds in the map now. *)
Reached(s) == sending[s].read \cap clients[s]

-----------------------------------------------------------------------------
(* The entry of a user is gone an hour after it was last written. With nobody
   connected that is what heals it. *)
Expire(u) ==
    /\ list[u] # {}
    /\ list' = [list EXCEPT ![u] = {}]
    /\ disturbed' = IF OpenOf(u) = {} /\ ~Busy(u) THEN disturbed \ {u}
                                               ELSE disturbed \cup {u}
    /\ UNCHANGED <<open, clients, joining, leaving, sending>>

(* A server dies with its map, its sockets and the calls it was in. *)
ServerCrash(s) ==
    LET lost == {c \in Sockets :
                   /\ ServerOf[c] = s
                   /\ open[c] = "open" \/ joining[c].at # "idle" \/ leaving[c].at # "idle"}
    IN  /\ lost # {}
        /\ open' = [c \in Sockets |-> IF c \in lost THEN "closed" ELSE open[c]]
        /\ clients' = [clients EXCEPT ![s] = {}]
        /\ joining' = [c \in Sockets |-> IF c \in lost THEN Idle ELSE joining[c]]
        /\ leaving' = [c \in Sockets |-> IF c \in lost THEN Idle ELSE leaving[c]]
        /\ sending' = [sending EXCEPT ![s] = NotSending]
        /\ disturbed' = disturbed \cup {UserOf[c] : c \in lost}
        /\ UNCHANGED list

-----------------------------------------------------------------------------
Init ==
    /\ open = [c \in Sockets |-> "new"]
    /\ clients = [s \in Servers |-> {}]
    /\ list = [u \in Users |-> {}]
    /\ joining = [c \in Sockets |-> Idle]
    /\ leaving = [c \in Sockets |-> Idle]
    /\ sending = [s \in Servers |-> NotSending]
    /\ disturbed = {}

Next ==
    \/ \E c \in Sockets :
          \/ Connect(c) \/ ConnectGet(c) \/ ConnectSet(c)
          \/ Disconnect(c) \/ DisconnectGet(c) \/ DisconnectSet(c)
          \/ HandlerFails(c)
    \/ \E s \in Servers, u \in Users : SendTo(s, u)
    \/ \E s \in Servers : SendGet(s) \/ Send(s) \/ ServerCrash(s)
    \/ \E u \in Users : Expire(u)

Spec == Init /\ [][Next]_vars

-----------------------------------------------------------------------------
(* Types of the variables. *)
TypeOK ==
    /\ open \in [Sockets -> {"new", "open", "closed"}]
    /\ clients \in [Servers -> SUBSET Sockets]
    /\ list \in [Users -> SUBSET Sockets]
    /\ joining \in [Sockets -> Handler]
    /\ leaving \in [Sockets -> Handler]
    /\ sending \in [Servers -> Sender]
    /\ disturbed \subseteq Users

(* The cache entry is read, changed and written with an await in between, by
   several servers and without a lock. What that costs: a user's entry is the
   user's open sockets whenever no handler of the user runs, unless handlers of
   the user overlapped, one failed, a server died, or the hour ran out under an
   open socket, since the last time the entry expired with nobody connected. *)
UndisturbedListIsExact ==
    \A u \in Users : (u \notin disturbed /\ ~Busy(u)) => list[u] = OpenOf(u)

(* However stale the entry that sendTo read, and whatever was lost from it or
   left in it by races and crashes, the loop writes to open sockets of the
   user it was asked for and to no others. *)
SendsReachOnlyTheUser ==
    \A s \in Servers :
      Reached(s) \subseteq {c \in OpenOf(sending[s].to) : ServerOf[c] = s}
=============================================================================
