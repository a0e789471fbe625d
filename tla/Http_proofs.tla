----------------------------- MODULE Http_proofs -----------------------------
(* Proofs about Http, for any number of requests, addresses, deployments, query
   strings, bodies and uploads. *)
EXTENDS Http, FiniteSetTheorems, TLAPS

Early == {"unsent", "hook", "throttle"}
(* The requests past the throttler that a counter may have counted: for its
   handler, from its address or under an address they claimed. *)
Passed(key) == {q \in Requests :
    /\ req[q].route = key[1] /\ req[q].stage \notin Early
    /\ req[q].socket = key[2] \/ req[q].claims}

(* A request x named r, in a deployment, with what is in the bucket and on the
   disk. *)
PlaceSound(x) ==
    /\ x.stage \notin {"streaming", "replied"} => x.status = 0
    /\ x.stage = "unsent" => x.route = "none"
    /\ x.stage # "unsent" => x.socket \in Addresses
    /\ x.stage = "hook" => x.route \in Routes
    /\ x.stage = "throttle" => x.route \in NestRoutes
    /\ x.stage = "proxy" => x.route \in BetterAuthRoutes
    /\ x.stage \in {"intercept", "uploading"} => x.route \in UploadRoutes
    /\ x.stage = "checking" => x.route = "health"
    /\ x.stage = "streaming" => x.route = "chat"

FilesSound(d, r, x, stored, saved) ==
    /\ Len(x.files) <= MaxCount
    /\ DOMAIN x.puts \subseteq DOMAIN x.files
    /\ x.stage \notin {"uploading", "replied"} => DOMAIN x.puts = {}
    /\ d.localUpload => FilesOf(r, x.files) \subseteq saved
    /\ \A i \in DOMAIN x.puts : x.puts[i] = "stored" => <<r, i>> \in stored
    /\ x.stage = "uploading" => DOMAIN x.puts = DOMAIN x.files /\ x.files # <<>>
    /\ x.route \in UploadRoutes /\ x.status = 200
         => FilesOf(r, x.files) \subseteq stored \cup saved /\ x.files # <<>>

Sound(d, r, x, stored, saved) ==
    /\ x \in Request
    /\ PlaceSound(x)
    /\ FilesSound(d, r, x, stored, saved)

(* A counter counts such requests, since its last window began: there are at
   least as many. One that is blocked went over the limit, with the throttler on. *)
HitsSound == \A key \in Keys : hits[key] <= Cardinality(Passed(key))
BlocksSound == \A key \in blocked :
    server.throttled /\ Cardinality(Passed(key)) > server.limit

Typed ==
    /\ server \in Deployments
    /\ req \in [Requests -> Request]
    /\ hits \in [Keys -> Nat]
    /\ blocked \subseteq Keys
    /\ objects \subseteq Requests \X (1 .. MaxCount)
    /\ disk \subseteq Requests \X (1 .. MaxCount)
    /\ captured \subseteq Requests

IInv ==
    /\ Typed
    /\ \A r \in Requests : Sound(server, r, req[r], objects, disk)
    /\ HitsSound
    /\ BlocksSound
    /\ ThrottledWithItsSocket

-----------------------------------------------------------------------------
LEMMA NothingThere == <<>> \in PutLists /\ DOMAIN <<>> = {} /\ Len(<<>>) = 0
BY DEF PutLists

LEMMA UnsentSound ==
    ASSUME NEW d, NEW r, NEW stored, NEW saved
    PROVE  /\ Unsent \in Request
           /\ Sound(d, r, Unsent, stored, saved)
<1>1. [k \in {} |-> "open"] \in CheckResults
  <2>1. [k \in {} |-> "open"] \in [{} -> {"open", "up", "down", "error"}]
    OBVIOUS
  <2> QED
    BY <2>1 DEF CheckResults
<1>2. Unsent \in Request
  BY <1>1, NothingThere
     DEF Unsent, Request, Stages, Paths, Trackers, Contents, FileLists, Statuses
<1>3. /\ Unsent.stage = "unsent" /\ Unsent.status = 0 /\ Unsent.route = "none"
      /\ Unsent.files = <<>> /\ Unsent.puts = <<>> /\ DOMAIN Unsent.checks = {}
  BY DEF Unsent
<1>4. PlaceSound(Unsent)
  BY <1>3 DEF PlaceSound
<1>5. FilesSound(d, r, Unsent, stored, saved)
  <2>1. 0 <= MaxCount
    BY HttpAssumption
  <2>2. FilesOf(r, Unsent.files) = {}
    BY <1>3, NothingThere DEF FilesOf
  <2> QED
    BY <1>3, <2>1, <2>2, NothingThere DEF FilesSound
<1> QED
  BY <1>2, <1>4, <1>5 DEF Sound

LEMMA PassedFinite ==
    ASSUME NEW key
    PROVE  IsFiniteSet(Passed(key)) /\ Cardinality(Passed(key)) \in Nat
<1>1. Passed(key) \subseteq Requests
  BY DEF Passed
<1> QED
  BY <1>1, HttpAssumption, FS_Subset, FS_CardinalityType

(* What is stored stays so: a sound request stays sound. *)
LEMMA StoresGrow ==
    ASSUME NEW d, NEW r, NEW x, NEW stored, NEW saved, NEW stored2, NEW saved2,
           Sound(d, r, x, stored, saved), stored \subseteq stored2, saved \subseteq saved2
    PROVE  Sound(d, r, x, stored2, saved2)
BY DEF Sound, FilesSound

(* The others past the throttler that a request may have been refused with. *)
Ahead(r) == {q \in Requests \ {r} :
    /\ req[q].route = req[r].route
    /\ req[q].stage \notin Early
    /\ req[q].socket = req[r].socket \/ req[q].claims \/ req[r].claims}

LEMMA AheadFinite ==
    ASSUME NEW r
    PROVE  IsFiniteSet(Ahead(r)) /\ Cardinality(Ahead(r)) \in Nat
<1>1. Ahead(r) \subseteq Requests
  BY DEF Ahead
<1> QED
  BY <1>1, HttpAssumption, FS_Subset, FS_CardinalityType

LEMMA ThrottledAhead ==
    ThrottledWithItsSocket <=>
      \A r \in Requests : req[r].status = 429 =>
          server.throttled /\ Cardinality(Ahead(r)) >= server.limit
BY DEF ThrottledWithItsSocket, Ahead, Early

(* A step after which every request past the throttler is as it was to the
   counters: counters and refusals have at least as many requests behind them. *)
LEMMA CountsGrow ==
    ASSUME IInv, req' \in [Requests -> Request],
           \A q \in Requests : req[q].stage \notin Early =>
               /\ req'[q].stage \notin Early /\ req'[q].route = req[q].route
               /\ req'[q].socket = req[q].socket /\ req'[q].claims = req[q].claims
    PROVE  /\ \A key \in Keys : /\ Cardinality(Passed(key)) <= Cardinality(Passed(key)')
                                /\ Cardinality(Passed(key)') \in Nat
           /\ \A q \in Requests : req[q].status = 429 =>
                Cardinality(Ahead(q)') >= server.limit
<1>1. ASSUME NEW key \in Keys
      PROVE  /\ Cardinality(Passed(key)) <= Cardinality(Passed(key)')
             /\ Cardinality(Passed(key)') \in Nat
  <2>1. Passed(key) \subseteq Passed(key)'
    BY DEF Passed
  <2>2. IsFiniteSet(Passed(key)')
    <3>1. Passed(key)' \subseteq Requests
      BY DEF Passed
    <3> QED
      BY <3>1, HttpAssumption, FS_Subset
  <2> QED
    BY <2>1, <2>2, FS_Subset, FS_CardinalityType
<1>2. ASSUME NEW q \in Requests, req[q].status = 429
      PROVE  Cardinality(Ahead(q)') >= server.limit
  <2>1. req[q].stage \notin Early
    <3>1. PlaceSound(req[q])
      BY DEF IInv, Sound
    <3> QED
      BY <1>2, <3>1 DEF PlaceSound, Early
  <2>2. Ahead(q) \subseteq Ahead(q)'
    BY <2>1 DEF Ahead
  <2>3. IsFiniteSet(Ahead(q)')
    <3>1. Ahead(q)' \subseteq Requests
      BY DEF Ahead
    <3> QED
      BY <3>1, HttpAssumption, FS_Subset
  <2>4. Cardinality(Ahead(q)) <= Cardinality(Ahead(q)') /\ Cardinality(Ahead(q)') \in Nat
    BY <2>2, <2>3, FS_Subset, FS_CardinalityType
  <2>5. Cardinality(Ahead(q)) >= server.limit /\ server.limit \in Nat
    BY <1>2, ThrottledAhead, HttpAssumption DEF IInv, Typed
  <2> QED
    BY <2>4, <2>5, AheadFinite
<1> QED
  BY <1>1, <1>2

(* A step that leaves the counters alone: it gives one request a sound record,
   which stays past the throttler on its socket if it was, and is not answered
   with 429. *)
LEMMA UpdateKeeps ==
    ASSUME IInv, NEW r \in Requests, NEW x,
           req' = [req EXCEPT ![r] = x], server' = server, hits' = hits, blocked' = blocked,
           objects \subseteq objects', objects' \subseteq Requests \X (1 .. MaxCount),
           disk \subseteq disk', disk' \subseteq Requests \X (1 .. MaxCount),
           captured' \subseteq Requests,
           Sound(server, r, x, objects', disk'),
           req[r].stage \notin Early =>
               /\ x.stage \notin Early /\ x.route = req[r].route
               /\ x.socket = req[r].socket /\ x.claims = req[r].claims,
           x.status = 429 => req[r].status = 429
    PROVE  IInv'
<1>1. x \in Request /\ req \in [Requests -> Request] /\ server.limit \in Nat
  BY HttpAssumption DEF Sound, IInv, Typed
<1>2. Typed'
  BY <1>1 DEF IInv, Typed
<1>3. req'[r] = x /\ \A q \in Requests \ {r} : req'[q] = req[q]
  BY <1>1
<1>4. ASSUME NEW q \in Requests PROVE Sound(server', q, req'[q], objects', disk')
  <2>1. CASE q = r
    BY <1>3, <2>1
  <2>2. CASE q # r
    <3>1. Sound(server, q, req[q], objects, disk)
      BY DEF IInv
    <3>2. Sound(server, q, req[q], objects', disk')
      BY <3>1, StoresGrow
    <3> QED
      BY <1>3, <2>2, <3>2
  <2> QED
    BY <2>1, <2>2
<1>5. ASSUME NEW q \in Requests, req[q].stage \notin Early
      PROVE  /\ req'[q].stage \notin Early /\ req'[q].route = req[q].route
             /\ req'[q].socket = req[q].socket /\ req'[q].claims = req[q].claims
  BY <1>3, <1>5
<1>6. req' \in [Requests -> Request]
  BY <1>1
<1>7. /\ \A key \in Keys : /\ Cardinality(Passed(key)) <= Cardinality(Passed(key)')
                           /\ Cardinality(Passed(key)') \in Nat
      /\ \A q \in Requests : req[q].status = 429 => Cardinality(Ahead(q)') >= server.limit
  BY <1>5, <1>6, CountsGrow
<1>8. HitsSound'
  <2>1. ASSUME NEW key \in Keys PROVE hits[key] <= Cardinality(Passed(key)')
    <3>1. hits[key] \in Nat /\ hits[key] <= Cardinality(Passed(key))
      BY DEF IInv, Typed, HitsSound
    <3> QED
      BY <1>7, <3>1, PassedFinite
  <2> QED
    BY <2>1 DEF HitsSound
<1>9. BlocksSound'
  <2>1. ASSUME NEW key \in blocked
        PROVE  server.throttled /\ Cardinality(Passed(key)') > server.limit
    <3>1. key \in Keys /\ server.throttled /\ Cardinality(Passed(key)) > server.limit
      BY DEF IInv, Typed, BlocksSound
    <3> QED
      BY <1>1, <1>7, <3>1, PassedFinite
  <2> QED
    BY <2>1 DEF BlocksSound
<1>10. ThrottledWithItsSocket'
  <2>1. SUFFICES ASSUME NEW q \in Requests, req'[q].status = 429
                 PROVE  server.throttled /\ Cardinality(Ahead(q)') >= server.limit
    BY DEF ThrottledWithItsSocket, Ahead, Early
  <2>2. req[q].status = 429
    BY <1>3, <2>1
  <2> QED
    BY <1>7, <2>2, ThrottledAhead DEF IInv
<1> QED
  BY <1>2, <1>4, <1>8, <1>9, <1>10 DEF IInv

-----------------------------------------------------------------------------
LEMMA Known ==
    ASSUME IInv, NEW r \in Requests
    PROVE  /\ req[r] \in Request /\ PlaceSound(req[r])
           /\ FilesSound(server, r, req[r], objects, disk)
           /\ objects \subseteq Requests \X (1 .. MaxCount)
           /\ disk \subseteq Requests \X (1 .. MaxCount)
           /\ captured \subseteq Requests
BY DEF IInv, Sound, Typed

(* A request that is moved on without anything else. *)
LEMMA StageKeeps ==
    ASSUME IInv, NEW r \in Requests, NEW s \in Stages \ {"unsent"}, Stage(r, s),
           UNCHANGED <<server, hits, blocked, objects, disk, captured>>,
           s \notin {"uploading", "checking", "streaming"},
           s \in Early => req[r].stage \in Early,
           s = "replied" \/ req[r].stage \notin {"uploading", "checking", "streaming", "replied"},
           req[r].stage # "unsent",
           s # "hook", s = "throttle" => req[r].route \in NestRoutes,
           s = "proxy" => req[r].route \in BetterAuthRoutes,
           s = "intercept" => req[r].route \in UploadRoutes
    PROVE  IInv'
<1> DEFINE x == [req[r] EXCEPT !.stage = s]
<1>1. req' = [req EXCEPT ![r] = x]
  BY DEF Stage
<1>2. /\ x \in Request /\ x.stage = s /\ x.route = req[r].route
      /\ x.socket = req[r].socket /\ x.claims = req[r].claims
      /\ x.files = req[r].files /\ x.status = req[r].status /\ x.puts = req[r].puts
  BY Known DEF Request
<1> HIDE DEF x
<1>3. PlaceSound(x)
  BY <1>2, Known DEF PlaceSound, Early
<1>4. FilesSound(server, r, x, objects, disk)
  BY <1>2, Known DEF FilesSound
<1>6. Sound(server, r, x, objects', disk')
  BY <1>2, <1>3, <1>4 DEF Sound
<1> QED
  BY ZenonT(40), <1>1, <1>2, <1>6, Known, UpdateKeeps

(* A request that is answered, but not by the throttler. *)
LEMMA ReplyKeeps ==
    ASSUME IInv, NEW r \in Requests, NEW status \in Statuses \ {429}, Reply(r, status),
           req[r].stage # "unsent",
           UNCHANGED <<server, hits, blocked, objects, disk>>, captured' \subseteq Requests,
           req[r].route \in UploadRoutes /\ status = 200 =>
               FilesOf(r, req[r].files) \subseteq objects \cup disk /\ req[r].files # <<>>
    PROVE  IInv'
<1> DEFINE x == [req[r] EXCEPT !.stage = "replied", !.status = status, !.body = NoProps]
<1>1. req' = [req EXCEPT ![r] = x]
  BY ZenonT(40) DEF Reply
<1>2. /\ x \in Request /\ x.stage = "replied" /\ x.route = req[r].route
      /\ x.socket = req[r].socket /\ x.claims = req[r].claims
      /\ x.files = req[r].files /\ x.status = status
      /\ x.puts = req[r].puts
  <2>1. req[r] \in Request /\ "replied" \in Stages /\ NoProps \in Contents /\ status \in Statuses
    BY Known DEF Stages, Contents
  <2> QED
    BY <2>1 DEF Request
<1> HIDE DEF x
<1>3. PlaceSound(x)
  BY <1>2, Known DEF PlaceSound
<1>4. FilesSound(server, r, x, objects, disk)
  BY <1>2, Known DEF FilesSound
<1>6. Sound(server, r, x, objects', disk')
  BY <1>2, <1>3, <1>4 DEF Sound
<1> QED
  BY ZenonT(40), <1>1, <1>2, <1>6, Known, UpdateKeeps DEF Early

LEMMA ThrowKeeps ==
    ASSUME IInv, NEW r \in Requests, NEW status \in {400, 500}, Throw(r, status),
           req[r].stage # "unsent",
           UNCHANGED <<server, hits, blocked, objects, disk>>
    PROVE  IInv'
<1>1. captured' \subseteq Requests
  BY Known DEF Throw
<1> QED
  BY <1>1, ReplyKeeps DEF Throw, Statuses

LEMMA SendKeeps ==
    ASSUME IInv, NEW r \in Requests, Send(r)
    PROVE  IInv'
<1>1. PICK route \in Routes, t \in Addresses :
         req' = [req EXCEPT ![r].stage = "hook", ![r].route = route, ![r].socket = t]
  BY DEF Send
<1> DEFINE x == [req[r] EXCEPT !.stage = "hook", !.route = route, !.socket = t]
<1>2. req' = [req EXCEPT ![r] = x]
  BY <1>1
<1>3. /\ x \in Request /\ x.stage = "hook" /\ x.socket = t /\ x.route = route
      /\ x.files = req[r].files
      /\ x.status = req[r].status /\ x.puts = req[r].puts
  BY Known DEF Request, Stages, Paths, Trackers
<1> HIDE DEF x
<1>4. req[r].stage = "unsent" /\ req[r].status = 0
  BY Known DEF Send, PlaceSound
<1>5. PlaceSound(x)
  BY <1>3, <1>4 DEF PlaceSound
<1>6. FilesSound(server, r, x, objects, disk)
  BY <1>3, <1>4, Known DEF FilesSound
<1>8. Sound(server, r, x, objects', disk')
  BY <1>3, <1>5, <1>6 DEF Sound, Send
<1> QED
  BY ZenonT(40), <1>2, <1>3, <1>4, <1>8, Known, UpdateKeeps DEF Early, Send

LEMMA OnRequestKeeps ==
    ASSUME IInv, NEW r \in Requests, OnRequest(r)
    PROVE  IInv'
<1>1. UNCHANGED <<server, hits, blocked, objects, disk, captured>> /\ req[r].stage = "hook"
  BY DEF OnRequest
<1>2. captured' \subseteq Requests
  BY <1>1, Known
<1>3. CASE Reply(r, 401)
  BY <1>1, <1>2, <1>3, ReplyKeeps DEF Statuses
<1>4. CASE Reply(r, 200) /\ req[r].route = "board"
  BY <1>1, <1>2, <1>4, ReplyKeeps DEF Statuses, UploadRoutes
<1>5. CASE Stage(r, "proxy") /\ req[r].route \in BetterAuthRoutes
  BY <1>1, <1>5, StageKeeps DEF Stages, Early
<1>6. CASE Stage(r, "throttle") /\ req[r].route \notin ToolRoutes \cup BetterAuthRoutes
  <2>1. req[r].route \in NestRoutes
    BY <1>1, <1>6, Known DEF PlaceSound, Routes
  <2> QED
    BY <1>1, <1>6, <2>1, StageKeeps DEF Stages, Early
<1>7. \/ Reply(r, 401) \/ (Reply(r, 200) /\ req[r].route = "board")
      \/ Stage(r, "proxy") /\ req[r].route \in BetterAuthRoutes
      \/ Stage(r, "throttle") /\ req[r].route \notin {"board"} \cup BetterAuthRoutes
  BY ZenonT(40) DEF OnRequest
<1>8. ToolRoutes \cup BetterAuthRoutes = {"board"} \cup BetterAuthRoutes
  BY DEF ToolRoutes, BetterAuthRoutes
<1> QED
  BY <1>3, <1>4, <1>5, <1>6, <1>7, <1>8

(* A window or a block that ends. *)
LEMMA WindowEndsKeeps ==
    ASSUME IInv, NEW key \in Keys, WindowEnds(key) \/ BlockEnds(key)
    PROVE  IInv'
<1>1. UNCHANGED <<server, req, objects, disk, captured>>
  BY DEF WindowEnds, BlockEnds
<1>2. hits' \in [Keys -> Nat] /\ \A k \in Keys : hits'[k] <= hits[k]
  BY DEF WindowEnds, BlockEnds, IInv, Typed
<1>3. blocked' \subseteq blocked
  BY DEF WindowEnds, BlockEnds
<1>4. Typed'
  BY <1>1, <1>2, <1>3 DEF IInv, Typed
<1>5. \A r \in Requests : Sound(server', r, req'[r], objects', disk')
  BY <1>1 DEF IInv
<1>6. \A k : Passed(k)' = Passed(k)
  BY <1>1 DEF Passed
<1>7. HitsSound'
  <2>1. ASSUME NEW k \in Keys PROVE hits'[k] <= Cardinality(Passed(k))
    <3>1. hits[k] \in Nat /\ hits'[k] \in Nat /\ hits[k] <= Cardinality(Passed(k))
      BY <1>2 DEF IInv, Typed, HitsSound
    <3> QED
      BY <1>2, <3>1, PassedFinite
  <2> QED
    BY <1>6, <2>1 DEF HitsSound
<1>8. BlocksSound'
  BY <1>1, <1>3, <1>6 DEF IInv, BlocksSound
<1>9. ThrottledWithItsSocket'
  BY <1>1 DEF IInv, ThrottledWithItsSocket
<1> QED
  BY <1>4, <1>5, <1>7, <1>8, <1>9 DEF IInv

LEMMA OneMore ==
    ASSUME NEW S, IsFiniteSet(S), NEW r, r \notin S
    PROVE  Cardinality(S \cup {r}) = Cardinality(S) + 1
BY FS_AddElement

(* What Redis does with a request that the throttler counts, or fails to. *)
LEMMA CountIs ==
    ASSUME IInv, NEW key \in Keys, Count(key) \/ UNCHANGED <<hits, blocked>>
    PROVE  /\ hits' \in [Keys -> Nat] /\ hits'[key] <= hits[key] + 1
           /\ \A k \in Keys \ {key} : hits'[k] = hits[k]
           /\ blocked' \subseteq blocked \cup {key}
           /\ key \in blocked' \ blocked => server.throttled /\ hits[key] + 1 > server.limit
<1>1. hits \in [Keys -> Nat] /\ hits[key] \in Nat
  BY DEF IInv, Typed
<1> QED
  BY <1>1 DEF Count, Over

Answered(r, claims, stage, status) ==
    [req[r] EXCEPT !.stage = stage, !.status = status, !.claims = claims]

LEMMA ThrottledIs ==
    ASSUME NEW r, NEW claims, NEW stage, NEW status, Throttled(r, claims, stage, status)
    PROVE  req' = [req EXCEPT ![r] = Answered(r, claims, stage, status)]
BY DEF Throttled, Answered

(* The throttler counts a request when it lets it past or refuses it, or when
   Redis fails after that. *)
LEMMA CountKeeps ==
    ASSUME IInv, NEW r \in Requests, req[r].stage = "throttle",
           NEW claims \in BOOLEAN, NEW stage \in {"replied", "guard", "handler"},
           NEW status \in {0, 429, 500}, stage # "replied" => status = 0,
           NEW key \in Keys, key[1] = req[r].route, claims \/ key[2] = req[r].socket,
           Throttled(r, claims, stage, status),
           Count(key) \/ UNCHANGED <<hits, blocked>>,
           status = 429 => Over(key) /\ server.throttled,
           UNCHANGED <<server, objects, disk, captured>>
    PROVE  IInv'
<1> DEFINE x == Answered(r, claims, stage, status)
<1>1. req' = [req EXCEPT ![r] = x]
  BY ThrottledIs
<1>2. /\ x \in Request /\ x.stage = stage /\ x.route = req[r].route /\ x.socket = req[r].socket
      /\ x.files = req[r].files /\ x.status = status /\ x.puts = req[r].puts
      /\ x.claims = claims
  <2>1. req[r] \in Request /\ stage \in Stages /\ status \in Statuses
    BY Known DEF Stages, Statuses
  <2> QED
    BY <2>1 DEF Request, Answered
<1> HIDE DEF x
<1>3. Sound(server, r, x, objects, disk)
  <2>1. PlaceSound(x)
    BY <1>2, Known DEF PlaceSound
  <2>2. FilesSound(server, r, x, objects, disk)
    BY <1>2, Known DEF FilesSound
  <2> QED
    BY <1>2, <2>1, <2>2 DEF Sound
<1>4. req'[r] = x /\ \A q \in Requests \ {r} : req'[q] = req[q]
  BY <1>1 DEF IInv, Typed
<1>5. req' \in [Requests -> Request]
  BY <1>1, <1>2 DEF IInv, Typed
<1>6. /\ \A k \in Keys : /\ Cardinality(Passed(k)) <= Cardinality(Passed(k)')
                         /\ Cardinality(Passed(k)') \in Nat
      /\ \A q \in Requests : req[q].status = 429 => Cardinality(Ahead(q)') >= server.limit
  <2>1. \A q \in Requests : req[q].stage \notin Early =>
               /\ req'[q].stage \notin Early /\ req'[q].route = req[q].route
               /\ req'[q].socket = req[q].socket /\ req'[q].claims = req[q].claims
    BY <1>4 DEF Early
  <2> QED
    BY <1>5, <2>1, CountsGrow
<1>7. Cardinality(Passed(key)') = Cardinality(Passed(key)) + 1
  <2>1. Passed(key)' = Passed(key) \cup {r} /\ r \notin Passed(key)
    BY <1>2, <1>4 DEF Passed, Early
  <2>2. IsFiniteSet(Passed(key))
    BY PassedFinite
  <2> QED
    BY <2>1, <2>2, OneMore
<1>8. /\ server.limit \in Nat /\ hits[key] \in Nat /\ hits'[key] \in Nat
      /\ hits[key] <= Cardinality(Passed(key)) /\ hits'[key] <= hits[key] + 1
      /\ Cardinality(Passed(key)) \in Nat
  BY CountIs, HttpAssumption, PassedFinite DEF IInv, Typed, HitsSound
<1>9. Typed'
  BY <1>5, CountIs DEF IInv, Typed
<1>10. \A q \in Requests : Sound(server', q, req'[q], objects', disk')
  BY <1>3, <1>4 DEF IInv
<1>11. HitsSound'
  <2>1. hits'[key] <= Cardinality(Passed(key)')
    BY <1>7, <1>8
  <2>2. ASSUME NEW k \in Keys \ {key} PROVE hits'[k] <= Cardinality(Passed(k)')
    <3>1. hits'[k] = hits[k] /\ hits[k] \in Nat /\ hits[k] <= Cardinality(Passed(k))
      BY CountIs DEF IInv, Typed, HitsSound
    <3> QED
      BY <1>6, <3>1, PassedFinite
  <2> QED
    BY <2>1, <2>2 DEF HitsSound
<1>12. BlocksSound'
  <2>1. ASSUME NEW k \in blocked
        PROVE  server.throttled /\ Cardinality(Passed(k)') > server.limit
    <3>1. k \in Keys /\ server.throttled /\ Cardinality(Passed(k)) > server.limit
      BY DEF IInv, Typed, BlocksSound
    <3> QED
      BY <1>6, <1>8, <3>1, PassedFinite
  <2>2. ASSUME key \in blocked' \ blocked
        PROVE  server.throttled /\ Cardinality(Passed(key)') > server.limit
    <3>1. server.throttled /\ hits[key] + 1 > server.limit
      BY <2>2, CountIs
    <3> QED
      BY <1>7, <1>8, <3>1
  <2> QED
    BY <2>1, <2>2, CountIs DEF BlocksSound
<1>13. ThrottledWithItsSocket'
  <2>1. SUFFICES ASSUME NEW q \in Requests, req'[q].status = 429
                 PROVE  server.throttled /\ Cardinality(Ahead(q)') >= server.limit
    BY DEF ThrottledWithItsSocket, Ahead, Early
  <2>2. CASE q # r
    BY <1>4, <1>6, <2>1, <2>2, ThrottledAhead DEF IInv
  <2>3. CASE q = r
    <3>1. Over(key) /\ server.throttled
      BY <1>2, <1>4, <2>1, <2>3
    <3>2. Cardinality(Passed(key)) >= server.limit
      <4>1. CASE key \in blocked
        BY <1>8, <4>1 DEF IInv, BlocksSound
      <4>2. CASE hits[key] + 1 > server.limit
        BY <1>8, <4>2
      <4> QED
        BY <3>1, <4>1, <4>2 DEF Over
    <3>3. Passed(key) \subseteq Ahead(r)'
      BY <1>2, <1>4 DEF Passed, Ahead, Early
    <3>4. IsFiniteSet(Ahead(r)')
      <4>1. Ahead(r)' \subseteq Requests
        BY DEF Ahead
      <4> QED
        BY <4>1, HttpAssumption, FS_Subset
    <3>5. Cardinality(Passed(key)) <= Cardinality(Ahead(r)') /\ Cardinality(Ahead(r)') \in Nat
      BY <3>3, <3>4, FS_Subset, FS_CardinalityType
    <3> QED
      BY <1>8, <2>3, <3>1, <3>2, <3>5
  <2> QED
    BY <2>2, <2>3
<1> QED
  BY <1>9, <1>10, <1>11, <1>12, <1>13 DEF IInv

LEMMA ThrottleKeeps ==
    ASSUME IInv, NEW r \in Requests, Throttle(r)
    PROVE  IInv'
<1>1. UNCHANGED <<server, objects, disk, captured>> /\ req[r].stage = "throttle"
  BY DEF Throttle
<1>2. PICK forwarded \in {"none", "text", "empty"}, ip \in Addresses :
         LET key == <<req[r].route, Tracker(r, forwarded, ip)>>
             claims == Claims(forwarded)
         IN \/ Throttled(r, claims, "replied", 500) /\ UNCHANGED <<hits, blocked>>
            \/ /\ ~TrackerThrows(forwarded) /\ Count(key)
               /\ \/ Throttled(r, claims, "replied", 500)
                  \/ /\ Over(key) /\ server.throttled
                     /\ Throttled(r, claims, "replied", 429)
                  \/ /\ ~Over(key)
                     /\ Throttled(r, claims,
                          IF req[r].route \in GuardedRoutes THEN "guard" ELSE "handler", 0)
  BY DEF Throttle
<1> DEFINE address == Tracker(r, forwarded, ip)
           key == <<req[r].route, address>>
<1>3. PICK claims \in BOOLEAN : claims = (Claims(forwarded) = TRUE)
  OBVIOUS
<1>4. Claims(forwarded) = claims
  BY <1>3 DEF Claims
<1>5. /\ address \in Addresses /\ (claims \/ address = req[r].socket)
      /\ req[r].route \in NestRoutes
  BY <1>1, <1>4, Known DEF Tracker, PlaceSound
<1> HIDE DEF address
<1>6. key \in Keys /\ key[1] = req[r].route /\ (claims \/ key[2] = req[r].socket)
  BY <1>5 DEF Keys
<1> DEFINE stage == IF req[r].route \in GuardedRoutes THEN "guard" ELSE "handler"
<1>7. stage \in {"guard", "handler"}
  OBVIOUS
<1>8. \/ Throttled(r, claims, "replied", 500) /\ (UNCHANGED <<hits, blocked>> \/ Count(key))
      \/ Throttled(r, claims, "replied", 429) /\ Over(key) /\ server.throttled /\ Count(key)
      \/ Throttled(r, claims, stage, 0) /\ Count(key)
  BY <1>2, <1>4 DEF address
<1> HIDE DEF key, stage
<1>9. CASE Throttled(r, claims, "replied", 500) /\ (UNCHANGED <<hits, blocked>> \/ Count(key))
  BY <1>1, <1>6, <1>9, CountKeeps
<1>10. CASE Throttled(r, claims, "replied", 429) /\ Over(key) /\ server.throttled /\ Count(key)
  BY <1>1, <1>6, <1>10, CountKeeps
<1>11. CASE Throttled(r, claims, stage, 0) /\ Count(key)
  BY <1>1, <1>6, <1>7, <1>11, CountKeeps
<1> QED
  BY <1>8, <1>9, <1>10, <1>11

LEMMA GuardKeeps ==
    ASSUME IInv, NEW r \in Requests, Guard(r)
    PROVE  IInv'
<1>1. UNCHANGED <<server, hits, blocked, objects, disk, captured>> /\ req[r].stage = "guard"
  BY DEF Guard
<1>2. CASE Stage(r, "intercept") /\ req[r].route \in UploadRoutes
  BY <1>1, <1>2, StageKeeps DEF Stages, Early
<1>3. CASE Stage(r, "pipe")
  BY <1>1, <1>3, StageKeeps DEF Stages, Early
<1>4. ASSUME NEW status \in {401, 500}, Reply(r, status) PROVE IInv'
  <2>1. captured' \subseteq Requests
    BY <1>1, Known
  <2> QED
    BY <1>1, <1>4, <2>1, ReplyKeeps DEF Statuses
<1> QED
  BY <1>2, <1>3, <1>4 DEF Guard

LEMMA BetterAuthKeeps ==
    ASSUME IInv, NEW r \in Requests, BetterAuth(r)
    PROVE  IInv'
<1>1. UNCHANGED <<server, hits, blocked, objects, disk, captured>> /\ req[r].stage = "proxy"
  BY DEF BetterAuth
<1>2. req[r].route \notin UploadRoutes /\ captured' \subseteq Requests
  BY <1>1, Known DEF PlaceSound, BetterAuthRoutes, UploadRoutes
<1>3. ASSUME NEW status \in {200, 401, 500}, Reply(r, status) PROVE IInv'
  BY <1>1, <1>2, <1>3, ReplyKeeps DEF Statuses
<1> QED
  BY <1>3 DEF BetterAuth

LEMMA ListKeeps ==
    ASSUME IInv, NEW r \in Requests, List(r)
    PROVE  IInv'
<1>1. UNCHANGED <<server, hits, blocked, objects, disk>> /\ req[r].stage = "handler"
      /\ req[r].route \notin UploadRoutes
  BY DEF List, ListRoute, UploadRoutes
<1>2. CASE Throw(r, 500)
  BY <1>1, <1>2, ThrowKeeps
<1>3. CASE Reply(r, 200) /\ UNCHANGED captured
  <2>1. captured' \subseteq Requests
    BY <1>3, Known
  <2> QED
    BY <1>1, <1>3, <2>1, ReplyKeeps DEF Statuses
<1> QED
  BY <1>2, <1>3 DEF List

(* Of the files an upload carries, each is named by its request and its
   place. *)
LEMMA FilesAreNamed ==
    ASSUME NEW r \in Requests, NEW files \in Seq({"small", "large"}), Len(files) <= MaxCount
    PROVE  FilesOf(r, files) \subseteq Requests \X (1 .. MaxCount)
<1>1. ASSUME NEW i \in DOMAIN files PROVE i \in 1 .. MaxCount
  BY <1>1, HttpAssumption
<1> QED
  BY <1>1 DEF FilesOf

LEMMA FilesKnown ==
    ASSUME IInv, NEW r \in Requests
    PROVE  /\ req[r].files \in Seq({"small", "large"})
           /\ req[r].puts \in Seq({"pending", "stored", "failed"})
<1>1. req[r].files \in FileLists /\ req[r].puts \in PutLists
  BY Known DEF Request
<1>2. FileLists \subseteq Seq({"small", "large"})
  <2>1. <<>> \in Seq({"small", "large"})
    OBVIOUS
  <2> QED
    BY <2>1, HttpAssumption DEF FileLists
<1> QED
  BY <1>1, <1>2 DEF PutLists

LEMMA InterceptKeeps ==
    ASSUME IInv, NEW r \in Requests, Intercept(r)
    PROVE  IInv'
<1>1. UNCHANGED <<server, hits, blocked, objects, captured>> /\ req[r].stage = "intercept"
      /\ req[r].status = 0
  BY Known DEF Intercept, PlaceSound
<1>2. captured' \subseteq Requests
  BY <1>1, Known
<1>3. CASE \E status \in {400, 413} : Reply(r, status) /\ UNCHANGED disk
  BY <1>1, <1>2, <1>3, ReplyKeeps DEF Statuses
<1>4. ASSUME NEW files \in Uploads, Len(files) <= Limit(req[r].route),
             req' = [req EXCEPT ![r].stage = "handler", ![r].files = files],
             disk' = IF server.localUpload THEN disk \cup FilesOf(r, files) ELSE disk
      PROVE  IInv'
  <2> DEFINE x == [req[r] EXCEPT !.stage = "handler", !.files = files]
  <2>1. req' = [req EXCEPT ![r] = x]
    BY <1>4
  <2>2. "handler" \in Stages /\ files \in FileLists
    BY DEF Stages, FileLists
  <2>3. /\ x \in Request /\ x.stage = "handler" /\ x.route = req[r].route
        /\ x.socket = req[r].socket /\ x.claims = req[r].claims
        /\ x.files = files /\ x.status = 0
        /\ x.puts = req[r].puts
    BY <1>1, <2>2, Known DEF Request
  <2> HIDE DEF x
  <2>4. files \in Seq({"small", "large"}) /\ Len(files) <= MaxCount
    BY <1>4, HttpAssumption DEF Limit
  <2>5. disk \subseteq disk' /\ disk' \subseteq Requests \X (1 .. MaxCount)
    BY <1>4, <2>4, FilesAreNamed, Known
  <2>6. PlaceSound(x)
    BY <1>1, <2>3, Known DEF PlaceSound
  <2>7. DOMAIN x.puts = {}
    BY <1>1, <2>3, Known DEF FilesSound
  <2>8. FilesSound(server, r, x, objects, disk')
    BY <1>4, <2>3, <2>4, <2>7 DEF FilesSound
  <2>10. Sound(server, r, x, objects', disk')
    BY <1>1, <2>3, <2>6, <2>8 DEF Sound
  <2> QED
    BY ZenonT(40), <1>1, <1>2, <2>1, <2>3, <2>5, <2>10, Known, UpdateKeeps DEF Early
<1> QED
  <2>1. PICK files \in Uploads :
          IF Len(files) > Limit(req[r].route) THEN Reply(r, 400) /\ UNCHANGED disk
          ELSE IF \E i \in DOMAIN files : files[i] = "large"
          THEN Reply(r, 413) /\ UNCHANGED disk
          ELSE /\ req' = [req EXCEPT ![r].stage = "handler", ![r].files = files]
               /\ disk' = IF server.localUpload THEN disk \cup FilesOf(r, files) ELSE disk
    BY DEF Intercept
  <2>2. Len(files) \in Nat /\ Limit(req[r].route) \in Nat
    BY HttpAssumption DEF Limit
  <2> QED
    BY <1>3, <1>4, <2>1, <2>2

LEMMA ValidateKeeps ==
    ASSUME IInv, NEW r \in Requests, Validate(r)
    PROVE  IInv'
<1>1. UNCHANGED <<server, hits, blocked, objects, disk, captured>> /\ req[r].stage = "pipe"
  BY DEF Validate
<1>2. captured' \subseteq Requests
  BY <1>1, Known
<1>3. CASE Reply(r, 422)
  BY <1>1, <1>2, <1>3, ReplyKeeps DEF Statuses
<1>4. ASSUME NEW body \in Inputs(req[r].route),
             req' = [req EXCEPT ![r].stage = "handler", ![r].body = body]
      PROVE  IInv'
  <2> DEFINE x == [req[r] EXCEPT !.stage = "handler", !.body = body]
  <2>1. req' = [req EXCEPT ![r] = x]
    BY <1>4
  <2>2. "handler" \in Stages /\ body \in Contents
    BY DEF Stages, Contents, Inputs
  <2>3. /\ x \in Request /\ x.stage = "handler" /\ x.route = req[r].route
        /\ x.socket = req[r].socket /\ x.claims = req[r].claims
        /\ x.files = req[r].files /\ x.status = req[r].status
        /\ x.puts = req[r].puts
    BY <2>2, Known DEF Request
  <2> HIDE DEF x
  <2>4. PlaceSound(x)
    BY <1>1, <2>3, Known DEF PlaceSound
  <2>5. FilesSound(server, r, x, objects, disk)
    BY <1>1, <2>3, Known DEF FilesSound
  <2>7. Sound(server, r, x, objects', disk')
    BY <1>1, <2>3, <2>4, <2>5 DEF Sound
  <2> QED
    BY ZenonT(40), <1>1, <1>2, <2>1, <2>3, <2>7, Known, UpdateKeeps DEF Early
<1> QED
  BY <1>3, <1>4 DEF Validate

LEMMA UploadKeeps ==
    ASSUME IInv, NEW r \in Requests, Upload(r)
    PROVE  IInv'
<1>1. UNCHANGED <<server, hits, blocked, objects, disk>> /\ req[r].stage = "handler"
      /\ req[r].route \in UploadRoutes /\ req[r].status = 0
  BY Known DEF Upload, PlaceSound
<1>2. CASE \E status \in {400, 500} : Throw(r, status)
  BY <1>1, <1>2, ThrowKeeps
<1>3. CASE server.localUpload /\ req[r].files # <<>> /\ Reply(r, 200) /\ UNCHANGED captured
  <2>1. captured' \subseteq Requests
    BY <1>3, Known
  <2>2. FilesOf(r, req[r].files) \subseteq objects \cup disk
    BY <1>3, Known DEF FilesSound
  <2> QED
    BY <1>1, <1>3, <2>1, <2>2, ReplyKeeps DEF Statuses, UploadRoutes
<1>4. CASE /\ req[r].files # <<>> /\ UNCHANGED captured
           /\ req' = [req EXCEPT ![r].stage = "uploading",
                                 ![r].puts = [i \in DOMAIN req[r].files |-> "pending"]]
  <2> DEFINE puts == [i \in DOMAIN req[r].files |-> "pending"]
             x == [req[r] EXCEPT !.stage = "uploading", !.puts = puts]
  <2>1. req' = [req EXCEPT ![r] = x]
    BY <1>4
  <2>2. /\ puts \in PutLists /\ DOMAIN puts = DOMAIN req[r].files
        /\ \A i \in DOMAIN puts : puts[i] = "pending"
    <3>1. req[r].files \in Seq({"small", "large"})
      BY FilesKnown
    <3> QED
      BY <3>1 DEF PutLists
  <2> HIDE DEF puts
  <2>3. "uploading" \in Stages
    BY DEF Stages
  <2>4. /\ x \in Request /\ x.stage = "uploading" /\ x.route = req[r].route
        /\ x.socket = req[r].socket /\ x.claims = req[r].claims
        /\ x.files = req[r].files /\ x.status = 0
        /\ x.puts = puts
    BY <1>1, <2>2, <2>3, Known DEF Request
  <2> HIDE DEF x
  <2>5. PlaceSound(x)
    BY <1>1, <2>4, Known DEF PlaceSound
  <2>6. FilesSound(server, r, x, objects, disk)
    BY <1>1, <1>4, <2>2, <2>4, Known DEF FilesSound
  <2>8. Sound(server, r, x, objects', disk')
    BY <1>1, <2>4, <2>5, <2>6 DEF Sound
  <2> QED
    BY ZenonT(40), <1>1, <1>4, <2>1, <2>4, <2>8, Known, UpdateKeeps DEF Early
<1> QED
  BY <1>2, <1>3, <1>4 DEF Upload

(* One PutObject ends, in either way; the file is in the bucket if it is
   stored. *)
LEMMA PutEnds ==
    ASSUME IInv, NEW r \in Requests, NEW i \in DOMAIN req[r].puts,
           NEW outcome \in {"stored", "failed"}, req[r].puts[i] = "pending",
           req' = [req EXCEPT ![r].puts[i] = outcome],
           UNCHANGED <<server, hits, blocked, disk, captured>>,
           objects' = objects \/ objects' = objects \cup {<<r, i>>},
           outcome = "stored" => <<r, i>> \in objects'
    PROVE  IInv'
<1> DEFINE puts == [req[r].puts EXCEPT ![i] = outcome]
           x == [req[r] EXCEPT !.puts = puts]
<1>1. req' = [req EXCEPT ![r] = x]
  OBVIOUS
<1>2. /\ puts \in PutLists /\ DOMAIN puts = DOMAIN req[r].puts
      /\ \A j \in DOMAIN puts : puts[j] = IF j = i THEN outcome ELSE req[r].puts[j]
  <2>1. req[r].puts \in Seq({"pending", "stored", "failed"})
    BY FilesKnown
  <2> QED
    BY <2>1 DEF PutLists
<1> HIDE DEF puts
<1>3. /\ x \in Request /\ x.stage = req[r].stage /\ x.route = req[r].route
      /\ x.socket = req[r].socket /\ x.claims = req[r].claims
      /\ x.files = req[r].files /\ x.status = req[r].status
      /\ x.puts = puts
  BY <1>2, Known DEF Request
<1> HIDE DEF x
<1>4. objects \subseteq objects' /\ objects' \subseteq Requests \X (1 .. MaxCount)
  <2>1. i \in DOMAIN req[r].files
    BY Known DEF FilesSound
  <2>2. <<r, i>> \in FilesOf(r, req[r].files)
    BY <2>1 DEF FilesOf
  <2>3. FilesOf(r, req[r].files) \subseteq Requests \X (1 .. MaxCount)
    BY FilesKnown, FilesAreNamed, Known DEF FilesSound
  <2> QED
    BY <2>2, <2>3, Known
<1>5. PlaceSound(x)
  BY <1>3, Known DEF PlaceSound
<1>6. FilesSound(server, r, x, objects', disk)
  <2>1. \A j \in DOMAIN x.puts : x.puts[j] = "stored" => <<r, j>> \in objects'
    BY <1>2, <1>3, <1>4, Known DEF FilesSound
  <2> QED
    BY <1>2, <1>3, <1>4, <2>1, Known DEF FilesSound
<1>8. Sound(server, r, x, objects', disk')
  BY <1>3, <1>5, <1>6 DEF Sound
<1> QED
  BY ZenonT(40), <1>1, <1>3, <1>4, <1>8, Known, UpdateKeeps DEF Early

LEMMA StoredKeeps ==
    ASSUME IInv, NEW r \in Requests, NEW i \in DOMAIN req[r].puts,
           Stored(r, i) \/ PutFailed(r, i)
    PROVE  IInv'
<1>1. CASE Stored(r, i)
  BY <1>1, PutEnds DEF Stored
<1>2. CASE PutFailed(r, i)
  BY <1>2, PutEnds DEF PutFailed
<1> QED
  BY <1>1, <1>2

LEMMA UploadedKeeps ==
    ASSUME IInv, NEW r \in Requests, Uploaded(r)
    PROVE  IInv'
<1>1. UNCHANGED <<server, hits, blocked, objects, disk>> /\ req[r].stage = "uploading"
      /\ req[r].route \in UploadRoutes
  BY Known DEF Uploaded, PlaceSound
<1>2. CASE Throw(r, 500)
  BY <1>1, <1>2, ThrowKeeps
<1>3. CASE AllStored(r) /\ Reply(r, 200) /\ UNCHANGED captured
  <2>1. captured' \subseteq Requests
    BY <1>3, Known
  <2>2. DOMAIN req[r].puts = DOMAIN req[r].files /\ req[r].files # <<>>
    BY <1>1, Known DEF FilesSound
  <2>3. FilesOf(r, req[r].files) \subseteq objects
    BY <1>3, <2>2, Known DEF AllStored, FilesOf, FilesSound
  <2> QED
    BY <1>1, <1>3, <2>1, <2>2, <2>3, ReplyKeeps DEF Statuses, UploadRoutes
<1> QED
  BY <1>2, <1>3 DEF Uploaded

-----------------------------------------------------------------------------
LEMMA ChatKeeps ==
    ASSUME IInv, NEW r \in Requests, Chat(r)
    PROVE  IInv'
<1>1. UNCHANGED <<server, hits, blocked, objects, disk, captured>> /\ req[r].stage = "handler"
      /\ req[r].route = "chat" /\ "chat" \notin UploadRoutes
  BY DEF Chat, UploadRoutes
<1>2. captured' \subseteq Requests
  BY <1>1, Known
<1>3. CASE Reply(r, 500)
  BY <1>1, <1>2, <1>3, ReplyKeeps DEF Statuses
<1>4. CASE req' = [req EXCEPT ![r].stage = "streaming", ![r].status = 200]
  <2> DEFINE x == [req[r] EXCEPT !.stage = "streaming", !.status = 200]
  <2>1. req' = [req EXCEPT ![r] = x]
    BY <1>4
  <2>2. "streaming" \in Stages /\ 200 \in Statuses
    BY DEF Stages, Statuses
  <2>3. /\ x \in Request /\ x.stage = "streaming" /\ x.route = req[r].route
        /\ x.socket = req[r].socket /\ x.claims = req[r].claims
        /\ x.files = req[r].files /\ x.status = 200
        /\ x.puts = req[r].puts
    BY ZenonT(100), <2>2, Known DEF Request
  <2> HIDE DEF x
  <2>4. PlaceSound(x)
    BY <1>1, <2>3, Known DEF PlaceSound
  <2>5. FilesSound(server, r, x, objects, disk)
    BY <1>1, <2>3, Known DEF FilesSound
  <2>7. Sound(server, r, x, objects', disk')
    BY <1>1, <2>3, <2>4, <2>5 DEF Sound
  <2>8. x.stage \notin Early /\ x.status # 429
    BY <2>3 DEF Early
  <2>9. /\ server' = server /\ hits' = hits /\ blocked' = blocked
        /\ objects \subseteq objects' /\ objects' \subseteq Requests \X (1 .. MaxCount)
        /\ disk \subseteq disk' /\ disk' \subseteq Requests \X (1 .. MaxCount)
    BY <1>1, Known
  <2>10. x.route = req[r].route /\ x.socket = req[r].socket /\ x.claims = req[r].claims
    BY <2>3
  <2> QED
    BY ZenonT(40), <1>2, <2>1, <2>7, <2>8, <2>9, <2>10, UpdateKeeps
<1> QED
  BY <1>3, <1>4 DEF Chat

LEMMA StreamEndsKeeps ==
    ASSUME IInv, NEW r \in Requests, StreamEnds(r)
    PROVE  IInv'
<1>1. UNCHANGED <<server, hits, blocked, objects, disk, captured>> /\ req[r].stage = "streaming"
      /\ Stage(r, "replied")
  BY DEF StreamEnds, StreamBreaks
<1> QED
  BY <1>1, StageKeeps DEF Stages, Early

(* A health check that goes on, with other results. *)
LEMMA ChecksKeep ==
    ASSUME IInv, NEW r \in Requests, NEW checks \in CheckResults,
           req[r].stage \in {"handler", "checking"}, req[r].route = "health",
           req' = [req EXCEPT ![r].stage = "checking", ![r].checks = checks],
           UNCHANGED <<server, hits, blocked, objects, disk, captured>>
    PROVE  IInv'
<1> DEFINE x == [req[r] EXCEPT !.stage = "checking", !.checks = checks]
<1>1. req' = [req EXCEPT ![r] = x]
  OBVIOUS
<1>2. "checking" \in Stages
  BY DEF Stages
<1>3. /\ x \in Request /\ x.stage = "checking" /\ x.route = req[r].route
      /\ x.socket = req[r].socket /\ x.claims = req[r].claims
      /\ x.files = req[r].files /\ x.status = req[r].status
      /\ x.puts = req[r].puts /\ x.checks = checks
  BY <1>2, Known DEF Request
<1> HIDE DEF x
<1>4. PlaceSound(x)
  BY <1>3, Known DEF PlaceSound
<1>5. FilesSound(server, r, x, objects, disk)
  BY <1>3, Known DEF FilesSound
<1>7. Sound(server, r, x, objects', disk')
  BY <1>3, <1>4, <1>5 DEF Sound
<1> QED
  BY ZenonT(40), <1>1, <1>3, <1>7, Known, UpdateKeeps DEF Early

LEMMA HealthKeeps ==
    ASSUME IInv, NEW r \in Requests, Health(r)
    PROVE  IInv'
<1> DEFINE checks == [k \in Indicators |-> "open"]
<1>1. /\ UNCHANGED <<server, hits, blocked, objects, disk, captured>>
      /\ req[r].stage = "handler" /\ req[r].route = "health"
      /\ req' = [req EXCEPT ![r].stage = "checking", ![r].checks = checks]
  BY DEF Health
<1>2. Indicators \in SUBSET {"database", "redis", "docs"}
  BY DEF Indicators
<1>3. checks \in [Indicators -> {"open", "up", "down", "error"}]
  OBVIOUS
<1>4. checks \in CheckResults
  BY <1>2, <1>3 DEF CheckResults
<1> HIDE DEF checks
<1> QED
  BY <1>1, <1>4, ChecksKeep

LEMMA SettleKeeps ==
    ASSUME IInv, NEW r \in Requests, NEW k, NEW outcome \in {"up", "down", "error"},
           Settle(r, k, outcome)
    PROVE  IInv'
<1> DEFINE checks == [req[r].checks EXCEPT ![k] = outcome]
<1>1. /\ UNCHANGED <<server, hits, blocked, objects, disk, captured>> /\ req[r].stage = "checking"
      /\ req' = [req EXCEPT ![r].checks = checks]
  BY DEF Settle
<1>2. req[r].route = "health" /\ req[r].checks \in CheckResults
  BY <1>1, Known DEF PlaceSound, Request
<1>3. PICK S \in SUBSET {"database", "redis", "docs"} :
        req[r].checks \in [S -> {"open", "up", "down", "error"}]
  BY <1>2 DEF CheckResults
<1>4. checks \in [S -> {"open", "up", "down", "error"}]
  BY <1>3
<1>5. checks \in CheckResults
  BY <1>4 DEF CheckResults
<1> HIDE DEF checks
<1>6. req' = [req EXCEPT ![r].stage = "checking", ![r].checks = checks]
  <2>1. req[r] \in Request /\ req \in [Requests -> Request]
    BY Known DEF IInv, Typed
  <2>2. [req[r] EXCEPT !.checks = checks] = [req[r] EXCEPT !.stage = "checking", !.checks = checks]
    BY <1>1, <2>1 DEF Request
  <2>3. req' = [req EXCEPT ![r] = [req[r] EXCEPT !.checks = checks]]
    BY <1>1
  <2>4. req' = [req EXCEPT ![r] = [req[r] EXCEPT !.stage = "checking", !.checks = checks]]
    BY <2>2, <2>3
  <2> QED
    BY <2>4
<1> QED
  BY <1>1, <1>2, <1>5, <1>6, ChecksKeep

LEMMA AnswersKeep ==
    ASSUME IInv, NEW r \in Requests,
           QueryAnswers(r) \/ TimerFires(r) \/ \E k \in {"redis", "docs"} : PingEnds(r, k)
    PROVE  IInv'
<1>1. CASE QueryAnswers(r)
  BY <1>1, SettleKeeps DEF QueryAnswers
<1>2. CASE TimerFires(r)
  BY <1>2, SettleKeeps DEF TimerFires
<1>3. ASSUME NEW k \in {"redis", "docs"}, PingEnds(r, k) PROVE IInv'
  BY <1>3, SettleKeeps DEF PingEnds
<1> QED
  BY <1>1, <1>2, <1>3

LEMMA CheckedKeeps ==
    ASSUME IInv, NEW r \in Requests, Checked(r)
    PROVE  IInv'
<1>1. UNCHANGED <<server, hits, blocked, objects, disk, captured>> /\ req[r].stage = "checking"
      /\ Reply(r, HealthStatus(req[r].checks)) /\ captured' \subseteq Requests
  BY Known DEF Checked
<1>2. req[r].route = "health" /\ "health" \notin UploadRoutes
  BY <1>1, Known DEF PlaceSound, UploadRoutes
<1>3. HealthStatus(req[r].checks) \in Statuses \ {429}
  BY DEF HealthStatus, Statuses
<1> QED
  BY <1>1, <1>2, <1>3, ReplyKeeps

-----------------------------------------------------------------------------
LEMMA InvInit == Init => IInv
<1> SUFFICES ASSUME Init PROVE IInv
  OBVIOUS
<1>1. \A r \in Requests : req[r] = Unsent
  BY DEF Init
<1>2. Unsent \in Request /\ \A r \in Requests : Sound(server, r, req[r], objects, disk)
  BY <1>1, UnsentSound
<1>3. Typed
  BY <1>2 DEF Init, Typed
<1>4. HitsSound
  BY PassedFinite DEF Init, HitsSound
<1>5. BlocksSound
  BY DEF Init, BlocksSound
<1>6. ThrottledWithItsSocket
  BY <1>1 DEF ThrottledWithItsSocket, Unsent
<1> QED
  BY <1>2, <1>3, <1>4, <1>5, <1>6 DEF IInv

LEMMA StutterKeeps ==
    ASSUME IInv, UNCHANGED vars
    PROVE  IInv'
<1>1. UNCHANGED <<server, req, hits, blocked, objects, disk, captured>>
  BY DEF vars
<1>2. Typed' /\ \A r \in Requests : Sound(server', r, req'[r], objects', disk')
  BY <1>1 DEF IInv, Typed
<1>3. HitsSound'
  BY <1>1 DEF IInv, HitsSound, Passed
<1>4. BlocksSound'
  BY <1>1 DEF IInv, BlocksSound, Passed
<1>5. ThrottledWithItsSocket'
  BY <1>1 DEF IInv, ThrottledWithItsSocket
<1> QED
  BY <1>2, <1>3, <1>4, <1>5 DEF IInv

LEMMA InvStep == IInv /\ [Next]_vars => IInv'
<1> SUFFICES ASSUME IInv, [Next]_vars PROVE IInv'
  OBVIOUS
<1>1. ASSUME NEW r \in Requests, ServerStep(r) PROVE IInv'
  <2>1. CASE OnRequest(r)
    BY <2>1, OnRequestKeeps
  <2>2. CASE Throttle(r)
    BY <2>2, ThrottleKeeps
  <2>3. CASE Guard(r)
    BY <2>3, GuardKeeps
  <2>4. CASE Intercept(r)
    BY <2>4, InterceptKeeps
  <2>5. CASE Validate(r)
    BY <2>5, ValidateKeeps
  <2>6. CASE BetterAuth(r)
    BY <2>6, BetterAuthKeeps
  <2>7. CASE Handle(r)
    <3>1. CASE List(r)
      BY <3>1, ListKeeps
    <3>2. CASE Upload(r)
      BY <3>2, UploadKeeps
    <3>3. CASE Uploaded(r)
      BY <3>3, UploadedKeeps
    <3>4. CASE Chat(r)
      BY <3>4, ChatKeeps
    <3>5. CASE Health(r)
      BY <3>5, HealthKeeps
    <3>6. CASE Checked(r)
      BY <3>6, CheckedKeeps
    <3> QED
      BY <2>7, <3>1, <3>2, <3>3, <3>4, <3>5, <3>6 DEF Handle
  <2> QED
    BY <1>1, <2>1, <2>2, <2>3, <2>4, <2>5, <2>6, <2>7 DEF ServerStep
<1>2. ASSUME NEW r \in Requests, Send(r) PROVE IInv'
  BY <1>2, SendKeeps
<1>3. ASSUME NEW r \in Requests, StreamEnds(r) PROVE IInv'
  BY <1>3, StreamEndsKeeps
<1>4. ASSUME NEW r \in Requests,
             QueryAnswers(r) \/ TimerFires(r) \/ \E k \in {"redis", "docs"} : PingEnds(r, k)
      PROVE  IInv'
  BY <1>4, AnswersKeep
<1>5. ASSUME NEW r \in Requests, NEW i \in DOMAIN req[r].puts, Stored(r, i) \/ PutFailed(r, i)
      PROVE  IInv'
  BY <1>5, StoredKeeps
<1>6. ASSUME NEW key \in Keys, WindowEnds(key) \/ BlockEnds(key) PROVE IInv'
  BY <1>6, WindowEndsKeeps
<1>7. CASE UNCHANGED vars
  BY <1>7, StutterKeeps
<1> QED
  BY <1>1, <1>2, <1>3, <1>4, <1>5, <1>6, <1>7 DEF Next, AllAnswered

(* Every state of a behaviour satisfies the invariant. *)
THEOREM Invariance == Spec => []IInv
BY InvInit, InvStep, PTL DEF Spec

(* Every variable keeps its type. *)
THEOREM TypeCorrect == Spec => []TypeOK
<1>1. IInv => TypeOK
  BY DEF IInv, Typed, TypeOK
<1> QED
  BY <1>1, Invariance, PTL

(* An upload answered with 200 has stored every one of its files, however the
   puts are ordered and whichever of them fail (Promise.all in
   FileService.uploadMultipleFiles). *)
THEOREM UploadStored == Spec => []UploadAnsweredMeansStored
<1>1. IInv => UploadAnsweredMeansStored
  BY DEF IInv, Sound, FilesSound, UploadAnsweredMeansStored
<1> QED
  BY <1>1, Invariance, PTL

(* A request is refused as one too many only with the throttler on, and with at
   least the limit of others for the same handler over its own connection's
   address, but for claimed addresses (AppThrottlerGuard.getTracker). *)
THEOREM ThrottledFairly == Spec => []ThrottledWithItsSocket
<1>1. IInv => ThrottledWithItsSocket
  BY DEF IInv
<1> QED
  BY <1>1, Invariance, PTL

-----------------------------------------------------------------------------
(* The routes whose handler runs behind the pipe, and a body the pipe took. *)
PipedRoutes == {ListRoute, "chat"}
Taken(x) == x.body \in Inputs(x.route) /\ Validated(BodyOf(x.route), x.body)

(* What a step does to the record y of the request whose step it is. *)
Moves(y, x) ==
    /\ y.stage = "unsent" \/ x.route = y.route
    /\ y.stage \in {"streaming", "replied"} => x.status = y.status
    /\ x.stage = "handler" /\ x.route \in PipedRoutes =>
         \/ y.stage = "handler" /\ x.body = y.body
         \/ Taken(x)
Moved(r) ==
    /\ Moves(req[r], req'[r])
    /\ \A q \in Requests \ {r} : req'[q] = req[q]

LEMMA EditMoves ==
    ASSUME IInv, NEW r \in Requests, NEW x, req' = [req EXCEPT ![r] = x], Moves(req[r], x)
    PROVE  Moved(r)
BY DEF IInv, Typed, Moved

LEMMA StageMoves ==
    ASSUME IInv, NEW r \in Requests, NEW s, Stage(r, s),
           s = "handler" => req[r].route \notin PipedRoutes
    PROVE  Moved(r)
<1> DEFINE x == [req[r] EXCEPT !.stage = s]
<1>1. req' = [req EXCEPT ![r] = x]
  BY DEF Stage
<1>2. /\ x.stage = s /\ x.route = req[r].route /\ x.status = req[r].status
  BY Known DEF Request
<1> HIDE DEF x
<1> QED
  BY <1>1, <1>2, EditMoves DEF Moves

LEMMA ReplyMoves ==
    ASSUME IInv, NEW r \in Requests, NEW status, Reply(r, status),
           req[r].stage \notin {"streaming", "replied"}
    PROVE  Moved(r)
<1> DEFINE x == [req[r] EXCEPT !.stage = "replied", !.status = status, !.body = NoProps]
<1>1. req' = [req EXCEPT ![r] = x]
  BY DEF Reply
<1>2. x.stage = "replied" /\ x.route = req[r].route
  BY Known DEF Request
<1> HIDE DEF x
<1> QED
  BY <1>1, <1>2, EditMoves DEF Moves

(* The steps that do more to the record than move or answer the request. *)
LEMMA EditsMove ==
    ASSUME IInv, NEW r \in Requests, req[r].stage \notin {"streaming", "replied"},
           \/ \E files \in Uploads :
                /\ req' = [req EXCEPT ![r].stage = "handler", ![r].files = files]
                /\ req[r].route \notin PipedRoutes
           \/ \E body \in Inputs(req[r].route) :
                /\ Validated(BodyOf(req[r].route), body)
                /\ req' = [req EXCEPT ![r].stage = "handler", ![r].body = body]
           \/ \E puts \in PutLists :
                req' = [req EXCEPT ![r].stage = "uploading", ![r].puts = puts]
           \/ req' = [req EXCEPT ![r].stage = "streaming", ![r].status = 200]
    PROVE  Moved(r)
<1>1. ASSUME NEW files, req' = [req EXCEPT ![r].stage = "handler", ![r].files = files],
             req[r].route \notin PipedRoutes
      PROVE  Moved(r)
  <2> DEFINE x == [req[r] EXCEPT !.stage = "handler", !.files = files]
  <2>1. req' = [req EXCEPT ![r] = x]
    BY <1>1
  <2>2. x.route = req[r].route
    BY Known DEF Request
  <2> HIDE DEF x
  <2> QED
    BY <1>1, <2>1, <2>2, EditMoves DEF Moves
<1>2. ASSUME NEW body \in Inputs(req[r].route), Validated(BodyOf(req[r].route), body),
             req' = [req EXCEPT ![r].stage = "handler", ![r].body = body]
      PROVE  Moved(r)
  <2> DEFINE x == [req[r] EXCEPT !.stage = "handler", !.body = body]
  <2>1. req' = [req EXCEPT ![r] = x]
    BY <1>2
  <2>2. x.route = req[r].route /\ x.body = body
    BY Known DEF Request
  <2> HIDE DEF x
  <2>3. Taken(x)
    BY <1>2, <2>2 DEF Taken
  <2> QED
    BY <2>1, <2>2, <2>3, EditMoves DEF Moves
<1>3. ASSUME NEW puts, req' = [req EXCEPT ![r].stage = "uploading", ![r].puts = puts]
      PROVE  Moved(r)
  <2> DEFINE x == [req[r] EXCEPT !.stage = "uploading", !.puts = puts]
  <2>1. req' = [req EXCEPT ![r] = x]
    BY <1>3
  <2>2. x.stage = "uploading" /\ x.route = req[r].route
    BY Known DEF Request
  <2> HIDE DEF x
  <2> QED
    BY <2>1, <2>2, EditMoves DEF Moves
<1>4. CASE req' = [req EXCEPT ![r].stage = "streaming", ![r].status = 200]
  <2> DEFINE x == [req[r] EXCEPT !.stage = "streaming", !.status = 200]
  <2>1. req' = [req EXCEPT ![r] = x]
    BY ZenonT(40), <1>4
  <2>2. x.stage = "streaming" /\ x.route = req[r].route
    BY Known DEF Request
  <2> HIDE DEF x
  <2> QED
    BY <2>1, <2>2, EditMoves DEF Moves
<1> QED
  BY <1>1, <1>2, <1>3, <1>4

LEMMA SendMoves ==
    ASSUME IInv, NEW r \in Requests, Send(r)
    PROVE  Moved(r)
<1>1. PICK route \in Routes, t \in Addresses :
         req' = [req EXCEPT ![r].stage = "hook", ![r].route = route, ![r].socket = t]
  BY DEF Send
<1> DEFINE x == [req[r] EXCEPT !.stage = "hook", !.route = route, !.socket = t]
<1>2. req' = [req EXCEPT ![r] = x]
  BY <1>1
<1>3. x.stage = "hook"
  BY Known DEF Request
<1>4. req[r].stage = "unsent"
  BY DEF Send
<1> HIDE DEF x
<1> QED
  BY <1>2, <1>3, <1>4, EditMoves DEF Moves

LEMMA PutMoves ==
    ASSUME IInv, NEW r \in Requests, NEW i, NEW outcome,
           req' = [req EXCEPT ![r].puts[i] = outcome]
    PROVE  Moved(r)
<1> DEFINE x == [req[r] EXCEPT !.puts[i] = outcome]
<1>1. req' = [req EXCEPT ![r] = x]
  OBVIOUS
<1>2. /\ x.stage = req[r].stage /\ x.route = req[r].route /\ x.status = req[r].status
      /\ x.body = req[r].body
  BY Known DEF Request
<1> HIDE DEF x
<1> QED
  BY <1>1, <1>2, EditMoves DEF Moves

LEMMA SettleMoves ==
    ASSUME IInv, NEW r \in Requests, NEW k, NEW outcome, Settle(r, k, outcome)
    PROVE  Moved(r)
<1> DEFINE x == [req[r] EXCEPT !.checks[k] = outcome]
<1>1. req' = [req EXCEPT ![r] = x] /\ req[r].stage = "checking"
  BY DEF Settle
<1>2. x.route = req[r].route /\ x.stage = req[r].stage
  BY Known DEF Request
<1> HIDE DEF x
<1> QED
  BY <1>1, <1>2, EditMoves DEF Moves

LEMMA HealthMoves ==
    ASSUME IInv, NEW r \in Requests, Health(r)
    PROVE  Moved(r)
<1> DEFINE x == [req[r] EXCEPT !.stage = "checking", !.checks = [k \in Indicators |-> "open"]]
<1>1. req' = [req EXCEPT ![r] = x] /\ req[r].stage = "handler"
  BY DEF Health
<1>2. x.route = req[r].route /\ x.stage = "checking"
  BY Known DEF Request
<1> HIDE DEF x
<1> QED
  BY <1>1, <1>2, EditMoves DEF Moves

LEMMA ThrottleMoves ==
    ASSUME IInv, NEW r \in Requests, Throttle(r)
    PROVE  Moved(r)
<1> DEFINE past == IF req[r].route \in GuardedRoutes THEN "guard" ELSE "handler"
<1>1. PICK claims, stage, status :
        /\ Throttled(r, claims, stage, status)
        /\ stage \in {"replied", past}
  <2>1. PICK forwarded \in {"none", "text", "empty"} :
          \/ Throttled(r, Claims(forwarded), "replied", 500)
          \/ Throttled(r, Claims(forwarded), "replied", 429)
          \/ Throttled(r, Claims(forwarded), past, 0)
    BY DEF Throttle
  <2> HIDE DEF past
  <2> QED
    BY <2>1
<1>2. req[r].stage = "throttle" /\ (stage = "handler" => req[r].route \notin PipedRoutes)
  BY <1>1 DEF Throttle, GuardedRoutes, PipedRoutes
<1> DEFINE x == Answered(r, claims, stage, status)
<1>3. req' = [req EXCEPT ![r] = x]
  BY <1>1, ThrottledIs
<1>4. x.route = req[r].route /\ x.stage = stage
  BY Known DEF Request, Answered
<1> HIDE DEF x
<1> QED
  BY <1>2, <1>3, <1>4, EditMoves DEF Moves

LEMMA ServerMoves ==
    ASSUME IInv, NEW r \in Requests, ServerStep(r)
    PROVE  Moved(r)
<1>1. CASE OnRequest(r)
  <2>1. req[r].stage = "hook" /\ (\/ \E status \in {200, 401} : Reply(r, status)
                                  \/ \E s \in Stages \ {"handler"} : Stage(r, s))
    BY <1>1 DEF OnRequest, Stages
  <2> QED
    BY <2>1, ReplyMoves, StageMoves
<1>2. CASE Throttle(r)
  BY <1>2, ThrottleMoves
<1>3. CASE Guard(r)
  <2>1. req[r].stage = "guard" /\ (\/ \E status \in {401, 500} : Reply(r, status)
                                   \/ \E s \in Stages \ {"handler"} : Stage(r, s))
    BY <1>3 DEF Guard, Stages
  <2> QED
    BY <2>1, ReplyMoves, StageMoves
<1>4. CASE Intercept(r)
  <2>1. req[r].stage = "intercept"
        /\ (\/ \E status \in {400, 413} : Reply(r, status)
            \/ \E files \in Uploads :
                 req' = [req EXCEPT ![r].stage = "handler", ![r].files = files])
    BY <1>4 DEF Intercept
  <2>2. req[r].route \notin PipedRoutes
    BY <2>1, Known DEF PlaceSound, UploadRoutes, PipedRoutes, ListRoute
  <2> QED
    BY <2>1, <2>2, ReplyMoves, EditsMove
<1>5. CASE Validate(r)
  <2>1. req[r].stage = "pipe"
        /\ (\/ Reply(r, 422)
            \/ \E body \in Inputs(req[r].route) :
                 /\ Validated(BodyOf(req[r].route), body)
                 /\ req' = [req EXCEPT ![r].stage = "handler", ![r].body = body])
    BY <1>5 DEF Validate
  <2> QED
    BY <2>1, ReplyMoves, EditsMove
<1>6. CASE List(r) \/ Uploaded(r) \/ Checked(r) \/ BetterAuth(r)
  <2>1. req[r].stage \in {"handler", "uploading", "checking", "proxy"}
    BY <1>6 DEF List, Uploaded, Checked, BetterAuth
  <2>2. \E status : Reply(r, status)
    BY <1>6 DEF List, Uploaded, Checked, BetterAuth, Throw
  <2> QED
    BY <2>1, <2>2, ReplyMoves
<1>7. CASE Upload(r)
  <2>1. [i \in DOMAIN req[r].files |-> "pending"] \in PutLists
    <3>1. req[r].files \in Seq({"small", "large"})
      BY FilesKnown
    <3> QED
      BY <3>1 DEF PutLists
  <2>2. req[r].stage = "handler"
        /\ (\/ \E status \in {200, 400, 500} : Reply(r, status)
            \/ \E puts \in PutLists :
                 req' = [req EXCEPT ![r].stage = "uploading", ![r].puts = puts])
    BY <1>7, <2>1 DEF Upload, Throw
  <2> QED
    BY ZenonT(40), <2>2, ReplyMoves, EditsMove
<1>8. CASE Chat(r)
  <2>1. req[r].stage = "handler"
        /\ (\/ Reply(r, 500)
            \/ req' = [req EXCEPT ![r].stage = "streaming", ![r].status = 200])
    BY <1>8 DEF Chat
  <2> QED
    BY <2>1, ReplyMoves, EditsMove
<1>9. CASE Health(r)
  BY <1>9, HealthMoves
<1> QED
  BY <1>1, <1>2, <1>3, <1>4, <1>5, <1>6, <1>7, <1>8, <1>9 DEF ServerStep, Handle

LEMMA NextMoves ==
    ASSUME IInv, [Next]_vars
    PROVE  UNCHANGED req \/ \E r \in Requests : Moved(r)
<1>1. ASSUME NEW r \in Requests, ServerStep(r) \/ Send(r) \/ StreamEnds(r) PROVE Moved(r)
  BY <1>1, ServerMoves, SendMoves, StageMoves DEF StreamEnds, StreamBreaks
<1>2. ASSUME NEW r \in Requests, NEW k, QueryAnswers(r) \/ TimerFires(r) \/ PingEnds(r, k)
      PROVE  Moved(r)
  BY <1>2, SettleMoves DEF QueryAnswers, TimerFires, PingEnds
<1>3. ASSUME NEW r \in Requests, NEW i, Stored(r, i) \/ PutFailed(r, i) PROVE Moved(r)
  BY <1>3, PutMoves DEF Stored, PutFailed
<1>4. ASSUME NEW key \in Keys, WindowEnds(key) \/ BlockEnds(key) PROVE UNCHANGED req
  BY <1>4 DEF WindowEnds, BlockEnds
<1>5. CASE UNCHANGED vars
  BY <1>5 DEF vars
<1> QED
  BY <1>1, <1>2, <1>3, <1>4, <1>5 DEF Next, AllAnswered

LEMMA StepSendsOnce ==
    ASSUME IInv, [Next]_vars, NEW r \in Requests, req[r].status # 0
    PROVE  req'[r].status = req[r].status
<1>1. req[r].stage \in {"streaming", "replied"}
  BY Known DEF PlaceSound
<1>2. ASSUME NEW q \in Requests, Moved(q) PROVE req'[r].status = req[r].status
  <2>1. CASE q = r
    BY <1>1, <1>2, <2>1 DEF Moved, Moves
  <2>2. CASE q # r
    BY <1>2, <2>2 DEF Moved
  <2> QED
    BY <2>1, <2>2
<1> QED
  BY <1>2, NextMoves

(* A status that went out is never replaced by another, whatever breaks
   afterwards (the catch of ChatController.streamChat). *)
THEOREM StatusOnce == Spec => StatusIsSentOnce
<1>1. IInv /\ [Next]_vars
        => [\A r \in Requests : req[r].status # 0 => req'[r].status = req[r].status]_vars
  BY StepSendsOnce
<1> QED
  BY <1>1, Invariance, PTL DEF Spec, StatusIsSentOnce

-----------------------------------------------------------------------------
(* A page number or a limit is optional, and converted to a whole number. *)
LEMMA PageField ==
    ASSUME NEW d
    PROVE  LET f == NumberFieldOptional([minimum |-> 1, default |-> d, int |-> TRUE]) IN
           /\ f.convert = "Number" /\ f.transform = "none" /\ f.skips = {"undefined", "null"}
           /\ Check("isInt", 0, FALSE) \in f.checks /\ f.nested = "none"
<1> DEFINE o == [minimum |-> 1, default |-> d, int |-> TRUE]
           k == Field("Number", "none",
             {Check(IF Option(o, "int", FALSE) THEN "isInt" ELSE "isNumber", 0, Each(o))}
             \cup When("min" \in DOMAIN o, {Check("min", Option(o, "min", 0), Each(o))})
             \cup When("max" \in DOMAIN o, {Check("max", Option(o, "max", 0), Each(o))})
             \cup When(Option(o, "isPositive", FALSE), {Check("isPositive", 0, Each(o))}))
<1>1. Option(o, "int", FALSE) /\ Each(o) = FALSE /\ Option(o, "nullable", FALSE) = FALSE
  BY DEF Option, Each
<1>2. NumberFieldOptional(o) = Optional(And(k, {Check("notNull", 0, FALSE)}))
  BY <1>1 DEF NumberFieldOptional, NumberField, NullRule
<1>3. /\ k.convert = "Number" /\ k.transform = "none" /\ k.skips = {} /\ k.nested = "none"
      /\ Check("isInt", 0, FALSE) \in k.checks
  BY <1>1 DEF Field
<1>4. k = [convert |-> "Number", transform |-> "none", skips |-> {}, checks |-> k.checks, nested |-> "none"]
  BY DEF Field
<1> HIDE DEF k
<1> QED
  BY <1>2, <1>3, <1>4 DEF Optional, And

LEMMA NumberOfText ==
    ASSUME NEW v, v.type = "string"
    PROVE  Convert("Number", v).type \in {"number", "NaN"}
<1>1. Convert("Number", v) = ToNumber(v)
  BY DEF Convert, ConvertOne, IsMissing
<1>2. ToNumber(v) \in {Number(0), Number(v.num), Half(v.half), NaN}
  BY DEF ToNumber
<1>3. \A n : Number(n).type = "number" /\ Half(n).type = "number"
  BY DEF Number, Half
<1>4. NaN.type = "NaN"
  BY DEF NaN
<1> QED
  BY <1>1, <1>2, <1>3, <1>4

(* What the pipe lets through as a page or a limit: the constructor Number leaves
   a text that is no numeral as NaN, which is refused, and a list as a list. *)
LEMMA PageIsNumber ==
    ASSUME NEW body, \A q \in DOMAIN body : body[q].type \in {"string", "array"},
           Validated(OffsetPageOptions, body), NEW p \in {"page", "limit"}
    PROVE  /\ Instance(OffsetPageOptions, body)[p].type = "number"
           /\ Instance(OffsetPageOptions, body)[p].whole
<1> DEFINE fields == OffsetPageOptions.fields
           value == Instance(OffsetPageOptions, body)[p]
<1>1. p \in DOMAIN fields
  BY DEF OffsetPageOptions, Class
<1>2. /\ fields[p].convert = "Number" /\ fields[p].transform = "none"
      /\ fields[p].skips = {"undefined", "null"} /\ Check("isInt", 0, FALSE) \in fields[p].checks
  <2> DEFINE f(d) == NumberFieldOptional([minimum |-> 1, default |-> d, int |-> TRUE])
  <2>1. fields[p] = f(10) \/ fields[p] = f(1)
    BY DEF OffsetPageOptions, Class
  <2> HIDE DEF fields
  <2> QED
    BY ZenonT(40), <2>1, PageField
<1>3. value = IF p \in DOMAIN body THEN Value(fields[p], body[p])
              ELSE Prop(OffsetPageOptions.defaults, p)
  BY <1>1 DEF Instance
<1>4. CASE p \notin DOMAIN body
  <2>1. Prop(OffsetPageOptions.defaults, p) \in {Number(10), Number(1)}
    BY DEF OffsetPageOptions, Class, Prop
  <2> QED
    BY <1>3, <1>4, <2>1 DEF Number
<1>5. CASE p \in DOMAIN body
  <2>1. value = Convert("Number", body[p])
    BY <1>2, <1>3, <1>5 DEF Value, Transform
  <2>2. value.type \in {"number", "NaN", "array"}
    <3>1. CASE body[p].type = "string"
      BY <2>1, <3>1, NumberOfText
    <3>2. CASE body[p].type = "array"
      BY <2>1, <3>2 DEF Convert, Array
    <3> QED
      BY <1>5, <3>1, <3>2
  <2>3. value.type \notin fields[p].skips
    BY <1>2, <2>2
  <2>4. \A c \in fields[p].checks : Holds(c, value)
    <3> HIDE DEF value, fields
    <3> QED
      BY <1>1, <2>3 DEF Validated, Fits, value, fields
  <2>5. Holds(Check("isInt", 0, FALSE), value)
    BY <1>2, <2>4
  <2>6. value.type = "number" /\ value.whole
    <3> HIDE DEF value
    <3> QED
      BY <2>5 DEF Holds, Check, Passes
  <2> QED
    BY <2>6
<1> QED
  BY <1>4, <1>5

(* A nested list: it is an array, whose objects each fit their class. *)
IsList(class, p, name) ==
    /\ p \in DOMAIN class.fields
    /\ class.fields[p] = Nested(Plain({"isArray"}), name)
    /\ name # "none" /\ p \notin DOMAIN class.defaults

LEMMA ListField ==
    ASSUME NEW class, NEW p, NEW name, IsList(class, p, name)
    PROVE  /\ class.fields[p].convert = "none" /\ class.fields[p].transform = "none"
           /\ class.fields[p].skips = {} /\ Check("isArray", 0, FALSE) \in class.fields[p].checks
           /\ class.fields[p].nested = name
<1> DEFINE k == Plain({"isArray"})
<1>1. k = [convert |-> "none", transform |-> "none", skips |-> {},
           checks |-> {Check("isArray", 0, FALSE)}, nested |-> "none"]
  BY DEF Plain, Field
<1>2. class.fields[p] = [k EXCEPT !.nested = name]
  BY DEF IsList, Nested
<1> HIDE DEF k
<1> QED
  BY <1>1, <1>2

LEMMA ListIsGiven ==
    ASSUME NEW class, NEW body, NEW p, NEW name, IsList(class, p, name),
           Instance(class, body)[p].type = "array"
    PROVE  /\ p \in DOMAIN body /\ body[p].type = "array"
           /\ ItemsOf(body[p]) = ItemsOf(Instance(class, body)[p])
<1>1. class.fields[p].convert = "none" /\ class.fields[p].transform = "none"
  BY ZenonT(40), ListField
<1>2. Instance(class, body)[p] = IF p \in DOMAIN body THEN Value(class.fields[p], body[p])
                                 ELSE Prop(class.defaults, p)
  BY DEF Instance, IsList
<1>3. Prop(class.defaults, p) = Undefined
  BY DEF Prop, IsList
<1>4. ASSUME NEW v, v.type # "array" PROVE Convert("none", v) = v
  BY <1>4 DEF Convert, ConvertOne
<1>5. ASSUME NEW v, v.type # "array" PROVE Value(class.fields[p], v) = v
  BY <1>1, <1>4, <1>5 DEF Value, Transform
<1>6. Undefined.type # "array"
  BY DEF Undefined
<1>7. p \in DOMAIN body /\ body[p].type = "array"
  BY <1>2, <1>3, <1>5, <1>6
<1>8. Instance(class, body)[p] = Array([i \in DOMAIN body[p].items |-> body[p].items[i]])
  BY <1>1, <1>2, <1>7 DEF Value, Transform, Convert, ConvertOne
<1> DEFINE given == body[p].items
           taken == Instance(class, body)[p].items
<1>9. taken = [i \in DOMAIN given |-> given[i]]
  BY <1>8 DEF Array
<1> HIDE DEF given, taken
<1>10. {taken[i] : i \in DOMAIN taken} = {given[i] : i \in DOMAIN given}
  BY <1>9
<1> QED
  BY <1>7, <1>10 DEF ItemsOf, given, taken

(* The walk that nested validation takes comes to every item. *)
LEMMA ItemsAreLooked ==
    ASSUME NEW value, NEW v \in ItemsOf(value), v.type = "object"
    PROVE  v \in Looked(value) /\ ~IsMissing(v) /\ v.type # "array"
<1>1. \A values : v \in values => v \in Opened(values)
  BY DEF Opened, ItemsOf
<1> QED
  BY <1>1 DEF Looked, IsMissing

(* Such a list, in a body that its class accepts. *)
LEMMA ListFits ==
    ASSUME NEW class, NEW body, NEW p, NEW name, IsList(class, p, name),
           Validated(class, body)
    PROVE  /\ Instance(class, body)[p].type = "array"
           /\ \A v \in ItemsOf(Instance(class, body)[p]) :
                v.type = "object" => MessageFits(name, v.props)
<1> DEFINE value == Instance(class, body)[p]
           field == class.fields[p]
<1>1. /\ field.skips = {} /\ Check("isArray", 0, FALSE) \in field.checks
      /\ field.nested = name /\ name # "none" /\ p \in DOMAIN class.fields
  <2>1. /\ field.skips = {} /\ Check("isArray", 0, FALSE) \in field.checks
        /\ field.nested = name
    BY ListField
  <2> QED
    BY <2>1 DEF IsList
<1> HIDE DEF value, field
<1>2. /\ \A c \in field.checks : Holds(c, value)
      /\ \A v \in Looked(value) :
           \/ IsMissing(v) \/ v.type = "array"
           \/ v.type = "object" /\ MessageFits(name, v.props)
  BY <1>1 DEF Validated, Fits, value, field
<1>3. Holds(Check("isArray", 0, FALSE), value)
  BY <1>1, <1>2
<1>4. value.type = "array"
  BY <1>3 DEF Holds, Check, Passes
<1>5. \A v \in ItemsOf(value) : v.type = "object" => MessageFits(name, v.props)
  BY <1>2, ItemsAreLooked
<1> QED
  BY <1>4, <1>5 DEF value

(* A part that is accepted has a text for its type. *)
LEMMA PartHasType ==
    ASSUME NEW props, PartFits("MessagePart", props)
    PROVE  Prop(props, "type").type = "string"
<1> DEFINE class == MessagePart
           value == Instance(class, props)["type"]
           field == class.fields["type"]
<1>1. "type" \in DOMAIN class.fields /\ "type" \notin DOMAIN class.defaults
      /\ field = Plain({"isString"})
  BY DEF MessagePart, Class, All, NoProps, ++
<1>2. /\ field.skips = {} /\ Check("isString", 0, FALSE) \in field.checks
      /\ field.convert = "none" /\ field.transform = "none"
  BY <1>1 DEF Plain, Field
<1>3. ClassNamed("MessagePart") = class
  BY DEF ClassNamed
<1> HIDE DEF value, field, class
<1>4. \A c \in field.checks : Holds(c, value)
  BY <1>1, <1>2, <1>3 DEF PartFits, Fits, value, field
<1>5. Holds(Check("isString", 0, FALSE), value)
  BY <1>2, <1>4
<1>6. value.type = "string"
  BY <1>5 DEF Holds, Check, Passes
<1>7. value = IF "type" \in DOMAIN props THEN Value(field, props["type"]) ELSE Undefined
  BY <1>1 DEF value, field, Instance, Prop
<1>8. "type" \in DOMAIN props /\ value = Convert("none", props["type"])
  BY <1>2, <1>6, <1>7 DEF Undefined, Value, Transform
<1>9. value = props["type"]
  BY <1>6, <1>8 DEF Convert, ConvertOne, Array
<1> QED
  BY <1>6, <1>8, <1>9 DEF Prop

(* A message that is accepted has a list of parts, and the objects in it have a
   text for their type. *)
LEMMA PartsFit ==
    ASSUME NEW props, MessageFits("ChatMessage", props)
    PROVE  /\ Prop(props, "parts").type = "array"
           /\ \A v \in ItemsOf(Prop(props, "parts")) : IsPart(v)
<1> DEFINE class == ChatMessage
           value == Instance(class, props)["parts"]
           field == class.fields["parts"]
<1>1. IsList(class, "parts", "MessagePart")
  BY DEF IsList, ChatMessage, Class, NoProps, All, ++
<1>2. /\ field.skips = {} /\ Check("isArray", 0, FALSE) \in field.checks
      /\ "parts" \in DOMAIN class.fields /\ field.nested = "MessagePart"
  <2> HIDE DEF class
  <2>1. /\ field.skips = {} /\ Check("isArray", 0, FALSE) \in field.checks
        /\ field.nested = "MessagePart"
    BY <1>1, ListField
  <2> QED
    BY <1>1, <2>1 DEF IsList
<1>3. ClassNamed("ChatMessage") = class
  BY DEF ClassNamed
<1> HIDE DEF value, field, class
<1>4. /\ \A c \in field.checks : Holds(c, value)
      /\ \A v \in Looked(value) :
           \/ IsMissing(v) \/ v.type = "array"
           \/ v.type = "object" /\ PartFits("MessagePart", v.props)
  BY <1>2, <1>3 DEF MessageFits, Fits, value, field
<1>5. Holds(Check("isArray", 0, FALSE), value)
  BY <1>2, <1>4
<1>6. value.type = "array"
  BY <1>5 DEF Holds, Check, Passes
<1>7. \A v \in ItemsOf(value) : IsPart(v)
  BY <1>4, ItemsAreLooked, PartHasType DEF IsPart
<1>8. Instance(class, props)["parts"].type = "array"
  BY <1>6 DEF value
<1>9. /\ "parts" \in DOMAIN props /\ props["parts"].type = "array"
      /\ ItemsOf(props["parts"]) = ItemsOf(value)
  BY ZenonT(60), <1>1, <1>8, ListIsGiven DEF value
<1> QED
  BY <1>7, <1>9 DEF Prop

LEMMA MessagesAreList == IsList(StreamChatRequest, "messages", "ChatMessage")
BY DEF IsList, StreamChatRequest, Class, All, ++

(* A handler behind the pipe has a body that the pipe took. *)
InputSound == \A r \in Requests :
    req[r].stage = "handler" /\ req[r].route \in PipedRoutes => Taken(req[r])

LEMMA StepKeepsInput == IInv /\ InputSound /\ [Next]_vars => InputSound'
<1> SUFFICES ASSUME IInv, InputSound, [Next]_vars, NEW r \in Requests,
                    req'[r].stage = "handler", req'[r].route \in PipedRoutes
             PROVE  Taken(req'[r])
  BY DEF InputSound
<1>1. CASE req'[r] = req[r]
  BY <1>1 DEF InputSound
<1>2. CASE Moves(req[r], req'[r])
  <2>1. CASE Taken(req'[r])
    BY <2>1
  <2>2. CASE req[r].stage = "handler" /\ req'[r].body = req[r].body
    <3>1. req'[r].route = req[r].route
      BY <1>2, <2>2 DEF Moves
    <3>2. Taken(req[r])
      BY <2>2, <3>1 DEF InputSound
    <3> QED
      BY <2>2, <3>1, <3>2 DEF Taken
  <2> QED
    BY <1>2, <2>1, <2>2 DEF Moves
<1> QED
  BY <1>1, <1>2, NextMoves DEF Moved

LEMMA InputIsTyped == InputSound => HandlersGetTypedInput
<1> SUFFICES ASSUME InputSound, NEW r \in Requests, req[r].stage = "handler"
             PROVE  /\ req[r].route = ListRoute =>
                         \A p \in {"page", "limit"} : Input(r)[p].type = "number" /\ Input(r)[p].whole
                    /\ req[r].route = "chat" =>
                         /\ Input(r).messages.type = "array"
                         /\ \A i \in DOMAIN Input(r).messages.items :
                              IsMessage(Input(r).messages.items[i])
  BY DEF HandlersGetTypedInput
<1> DEFINE body == req[r].body
<1>1. CASE req[r].route = ListRoute
  <2>1. body \in Queries /\ Validated(OffsetPageOptions, body)
    BY <1>1 DEF InputSound, PipedRoutes, Taken, Inputs, BodyOf
  <2>2. \A q \in DOMAIN body : body[q].type \in {"string", "array"}
    BY <2>1, HttpAssumption
  <2>3. Input(r) = Instance(OffsetPageOptions, body)
    BY <1>1 DEF Input, BodyOf
  <2>4. \A p \in {"page", "limit"} : Input(r)[p].type = "number" /\ Input(r)[p].whole
    BY <2>1, <2>2, <2>3, PageIsNumber
  <2> QED
    BY <1>1, <2>4 DEF ListRoute
<1>2. CASE req[r].route = "chat"
  <2>1. Validated(StreamChatRequest, body)
    BY <1>2 DEF InputSound, PipedRoutes, Taken, BodyOf, ListRoute
  <2>2. Input(r) = Instance(StreamChatRequest, body)
    BY <1>2 DEF Input, BodyOf, ListRoute
  <2>3. /\ Input(r)["messages"].type = "array"
        /\ \A v \in ItemsOf(Input(r)["messages"]) :
             v.type = "object" => MessageFits("ChatMessage", v.props)
    <3> HIDE DEF body
    <3>1. LET value == Instance(StreamChatRequest, body)["messages"] IN
          /\ value.type = "array"
          /\ \A v \in ItemsOf(value) : v.type = "object" => MessageFits("ChatMessage", v.props)
      BY <2>1, MessagesAreList, ListFits
    <3> QED
      BY <2>2, <3>1
  <2>4. \A v \in ItemsOf(Input(r)["messages"]) : IsMessage(v)
    <3>1. SUFFICES ASSUME NEW v \in ItemsOf(Input(r)["messages"]), v.type = "object"
                   PROVE  LET parts == Prop(v.props, "parts") IN
                          parts.type = "array" /\ \A i \in DOMAIN parts.items : IsPart(parts.items[i])
      BY DEF IsMessage
    <3>2. /\ Prop(v.props, "parts").type = "array"
          /\ \A w \in ItemsOf(Prop(v.props, "parts")) : IsPart(w)
      BY <2>3, <3>1, PartsFit
    <3> QED
      BY <3>2 DEF ItemsOf
  <2>5. \A i \in DOMAIN Input(r)["messages"].items : IsMessage(Input(r)["messages"].items[i])
    BY <2>3, <2>4 DEF ItemsOf
  <2> QED
    BY <1>2, <2>3, <2>5 DEF ListRoute
<1> QED
  BY <1>1, <1>2

(* The handlers compute with what the pipe let through: no path reaches the list
   or the chat handler around it (ValidationPipe in main.ts), whole numbers for
   page and limit, and a list whose objects are messages with their parts. *)
THEOREM InputTyped == Spec => []HandlersGetTypedInput
<1>1. Init => InputSound
  BY DEF Init, InputSound, Unsent
<1> QED
  BY <1>1, StepKeepsInput, InputIsTyped, Invariance, PTL DEF Spec
=============================================================================
