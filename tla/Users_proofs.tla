---------------------------- MODULE Users_proofs ----------------------------
(* Proofs about Users, for any number of users and requests. *)
EXTENDS Users, Pagination_proofs

Updating == {"email", "username", "auth", "authWrite", "write"}

(* What holds of a request whatever became of the table meanwhile. *)
RequestSound(q) ==
    /\ q.at \in Updating => q.kind = "update"
    /\ q.at \in {"signUp", "create"} =>
         q.kind = "signUp" /\ q.channel \in {"email", "github"} /\ q.body \in SignUps
    /\ q.at \in Updating \/ (q.at = "read" /\ q.kind = "update") => q.body \in Profiles
    /\ q.at \in Updating \cup {"read"} => q.user \in Ids
    /\ q.at = "username" \/ q.change => q.body.username \in Usernames
    /\ q.authDone => q.at \in {"write", "read"}
    /\ q.at = "idle" => q.kind = None
    /\ q.at = "page" => q.kind = "walk"
    /\ q.at = "read" => q.kind \in {"update", "find"}
    /\ q.at # "done" => q.status = 0

(* What was looked up, or written, is still so in the table t: of a request
   under way that nobody disturbed. *)
EmailIsFree(t, q) == \A v \in DOMAIN t : t[v].email = q.body.email => v = q.user
UsernameIsFree(t, q) ==
    \A v \in DOMAIN t : t[v].username = Lower[q.body.username] => v = q.user
NobodyHas(t, q) ==
    q.body.username # None => \A v \in DOMAIN t : t[v].username # Lower[q.body.username]
Holds(t, q, f) == q.body[f] # None => t[q.user][f] = q.body[f]
HoldsName(t, q) ==
    q.body.username # None => t[q.user].username \in {q.body.username, Lower[q.body.username]}

Fresh(t, q) ==
    /\ q.at \in {"username", "auth", "authWrite", "write"} => EmailIsFree(t, q)
    /\ q.at \in {"auth", "authWrite"} /\ ~q.change /\ q.user \in DOMAIN t =>
         HoldsName(t, q)
    /\ q.at = "authWrite" /\ q.change => UsernameIsFree(t, q)
    /\ q.at = "write" /\ q.user \in DOMAIN t => HoldsName(t, q) /\ Holds(t, q, "image")
    /\ q.authDone => q.user \in DOMAIN t
    /\ q.at = "create" /\ q.channel = "email" => NobodyHas(t, q)
    /\ q.at = "read" /\ q.kind = "update" =>
         /\ q.user \in DOMAIN t
         /\ \A f \in {"email", "name", "image"} : Holds(t, q, f)
         /\ HoldsName(t, q)

TableSound ==
    /\ DOMAIN rows \subseteq Ids /\ rows \in [DOMAIN rows -> Rows]
    /\ gone \subseteq Ids
    /\ DeletedStaysDeleted

Sound(t, q) ==
    /\ q \in Request
    /\ RequestSound(q)
    /\ ~q.disturbed => Fresh(t, q)

IInv ==
    /\ TableSound
    /\ req \in [Requests -> Request]
    /\ \A r \in Requests : Sound(rows, req[r])

-----------------------------------------------------------------------------
(* What a step of request r may do to the others: if it changes the table they
   are disturbed, those under way. *)
Others(r) ==
    \A q \in Requests \ {r} :
        \/ req'[q] = req[q] /\ (rows' = rows \/ ~InProgress(q))
        \/ req'[q] = [req[q] EXCEPT !.disturbed = TRUE]

LEMMA DisturbedType ==
    ASSUME NEW q \in Request
    PROVE  LET d == [q EXCEPT !.disturbed = TRUE] IN
           /\ d \in Request
           /\ d.disturbed = TRUE
           /\ d.at = q.at /\ d.kind = q.kind /\ d.user = q.user /\ d.body = q.body
           /\ d.channel = q.channel
           /\ d.change = q.change /\ d.authDone = q.authDone /\ d.status = q.status
BY DEF Request

LEMMA DisturbedSound ==
    ASSUME NEW t, NEW q \in Request, RequestSound(q)
    PROVE  Sound(t, [q EXCEPT !.disturbed = TRUE])
BY DisturbedType DEF Sound, RequestSound

LEMMA AtRestSound ==
    ASSUME NEW t, NEW u, NEW q \in Request, Sound(t, q), q.at \in {"idle", "done"}
    PROVE  Sound(u, q)
BY DEF Sound, RequestSound, Fresh, Updating

LEMMA OthersSound ==
    ASSUME IInv, NEW r \in Requests, Others(r), NEW q \in Requests \ {r}
    PROVE  Sound(rows', req'[q])
<1>1. req[q] \in Request /\ Sound(rows, req[q]) /\ RequestSound(req[q])
  BY DEF IInv, Sound
<1>2. CASE req'[q] = [req[q] EXCEPT !.disturbed = TRUE]
  BY <1>1, <1>2, DisturbedSound
<1>3. CASE req'[q] = req[q] /\ rows' = rows
  BY <1>1, <1>3
<1>4. CASE req'[q] = req[q] /\ ~InProgress(q)
  BY <1>1, <1>4, AtRestSound DEF InProgress
<1> QED
  BY <1>2, <1>3, <1>4 DEF Others

LEMMA UpdateOthers ==
    ASSUME IInv, NEW r \in Requests, NEW new, Update(r, new), UNCHANGED rows
    PROVE  Others(r) /\ req'[r] = new
BY DEF Others, Update, IInv

LEMMA DisturbOthers ==
    ASSUME NEW r \in Requests, NEW new, UpdateAndDisturb(r, new)
    PROVE  Others(r) /\ req'[r] = new
<1>1. ASSUME NEW q \in Requests \ {r}
      PROVE  req'[q] = Disturbed(q)
  BY DEF UpdateAndDisturb
<1>2. Others(r)
  BY <1>1 DEF Others, Disturbed
<1> QED
  BY <1>2 DEF UpdateAndDisturb

(* A step that gives request r a sound record and keeps the table sound. *)
LEMMA UpdateKeeps ==
    ASSUME IInv, NEW r \in Requests, NEW new, Sound(rows, new),
           Update(r, new), UNCHANGED <<rows, gone>>
    PROVE  IInv'
<1>1. req' \in [Requests -> Request]
  BY DEF IInv, Sound, Update
<1>2. Others(r) /\ req'[r] = new
  BY UpdateOthers
<1>3. TableSound'
  BY DEF IInv, TableSound, DeletedStaysDeleted
<1> QED
  BY <1>1, <1>2, <1>3, OthersSound DEF IInv

LEMMA DisturbKeeps ==
    ASSUME IInv, NEW r \in Requests, NEW new, Sound(rows', new),
           UpdateAndDisturb(r, new), TableSound'
    PROVE  IInv'
<1>1. Others(r) /\ req'[r] = new
  BY DisturbOthers
<1>2. \A q \in Requests : Sound(rows', req'[q])
  BY <1>1, OthersSound
<1>3. req' \in [Requests -> Request]
  BY <1>2 DEF Sound, UpdateAndDisturb
<1> QED
  BY <1>2, <1>3 DEF IInv

-----------------------------------------------------------------------------
LEMMA IdleType == Idle \in Request
BY DEF Idle, Request, Steps, Kinds, Channels, Bodies, Targets, Positive, Queries, Lists, Statuses

LEMMA AnsweredSound ==
    ASSUME NEW t, NEW status \in Statuses
    PROVE  Sound(t, Answered(status))
<1> DEFINE q == Answered(status)
<1>1. q \in Request
  BY IdleType DEF Answered, Request, Steps
<1>2. q.at = "done" /\ q.change = FALSE /\ q.authDone = FALSE
  BY DEF Answered, Idle
<1> QED
  BY <1>1, <1>2 DEF Sound, RequestSound, Fresh, Updating

LEMMA FailedSound ==
    ASSUME NEW t
    PROVE  Sound(t, Failed)
<1>1. Answered(500) \in Request
  BY AnsweredSound DEF Statuses, Sound
<1>2. Answered(500).at = "done" /\ ~Answered(500).change /\ ~Answered(500).authDone
  BY DEF Answered, Idle
<1> DEFINE a == Answered(500)
<1> HIDE DEF a
<1>3. a \in Request /\ a.at = "done" /\ ~a.change /\ ~a.authDone
  BY <1>1, <1>2 DEF a
<1>4. Failed = [a EXCEPT !.failed = TRUE]
  BY DEF Failed, a
<1>5. Failed \in Request /\ Failed.at = "done" /\ ~Failed.change /\ ~Failed.authDone
  BY <1>3, <1>4 DEF Request
<1> HIDE DEF Failed
<1> QED
  BY <1>5 DEF Sound, RequestSound, Fresh, Updating

LEMMA AnswerKeeps ==
    ASSUME IInv, NEW r \in Requests, NEW status \in Statuses,
           Answer(r, status), UNCHANGED <<rows, gone>>
    PROVE  IInv'
BY AnsweredSound, UpdateKeeps DEF Answer

LEMMA BodyType ==
    ASSUME NEW body \in Profiles
    PROVE  /\ body \in Bodies
           /\ body.email \in Emails \cup {None, Null}
           /\ body.username \in Usernames \cup {None} /\ (body.username = None <=> body.username \notin Usernames)
           /\ body.name \in {None, "new"} /\ body.image \in {None, "new"}
BY UsersAssumption DEF Bodies

(* A table holds addresses, so an absent or null one is nobody's. *)
LEMMA NoEmailIsFree ==
    ASSUME TableSound, NEW q, q.body.email \notin Emails
    PROVE  EmailIsFree(rows, q)
BY DEF TableSound, EmailIsFree, Rows

LEMMA StartUpdateKeeps ==
    ASSUME IInv, NEW r \in Requests, StartUpdate(r)
    PROVE  IInv'
<1>1. PICK u \in DOMAIN rows \cup gone, body \in Profiles, channel \in {"http", "graphql"} :
         \/ Update(r, [Idle EXCEPT !.at = FirstStep(body), !.kind = "update", !.user = u,
                                   !.channel = channel, !.body = body])
         \/ Answer(r, 403)
  BY DEF StartUpdate
<1> DEFINE q == [Idle EXCEPT !.at = FirstStep(body), !.kind = "update", !.user = u,
                             !.channel = channel, !.body = body]
<1>2. u \in Ids
  BY DEF IInv, TableSound
<1>3. FirstStep(body) \in Updating \ {"authWrite"}
  BY DEF FirstStep, AfterEmail, Updating
<1>4. q \in Request
  BY <1>2, <1>3, BodyType, IdleType DEF Request, Updating, Steps, Kinds, Channels, Targets
<1>5. /\ q.at = FirstStep(body) /\ q.kind = "update" /\ q.user = u /\ q.body = body
      /\ q.change = FALSE /\ q.authDone = FALSE /\ q.status = 0
  BY DEF Idle
<1>6. q.at = "username" => body.username \in Usernames
  BY <1>5 DEF FirstStep, AfterEmail
<1>7. RequestSound(q)
  BY <1>2, <1>3, <1>5, <1>6 DEF RequestSound, Updating
<1>8. q.at # "email" => EmailIsFree(rows, q)
  BY <1>5, NoEmailIsFree DEF FirstStep, IInv
<1>9. q.at \in {"auth", "write"} => body.username = None
  BY <1>5, BodyType DEF FirstStep, AfterEmail
<1>10. q.at = "write" => body.image = None
  BY <1>5, BodyType DEF FirstStep, AfterEmail
<1>11. Fresh(rows, q)
  BY <1>3, <1>5, <1>8, <1>9, <1>10 DEF Fresh, Holds, HoldsName, Updating
<1>12. Sound(rows, q)
  BY <1>4, <1>7, <1>11 DEF Sound
<1> QED
  BY <1>1, <1>12, UpdateKeeps, AnswerKeeps DEF StartUpdate, Statuses

(* An update that goes on to its next step. *)
LEMMA GoesOn ==
    ASSUME NEW q \in Request, NEW s \in Steps
    PROVE  LET n == [q EXCEPT !.at = s] IN
           /\ n \in Request /\ n.at = s
           /\ n.kind = q.kind /\ n.user = q.user /\ n.body = q.body /\ n.change = q.change
           /\ n.channel = q.channel
           /\ n.authDone = q.authDone /\ n.disturbed = q.disturbed /\ n.status = q.status
BY DEF Request

LEMMA Known ==
    ASSUME IInv, NEW r \in Requests
    PROVE  /\ req[r] \in Request /\ RequestSound(req[r])
           /\ ~req[r].disturbed => Fresh(rows, req[r])
BY DEF IInv, Sound

LEMMA LookUpEmailKeeps ==
    ASSUME IInv, NEW r \in Requests, LookUpEmail(r)
    PROVE  IInv'
<1> DEFINE body == req[r].body
           s == AfterEmail(body)
           q == [req[r] EXCEPT !.at = s]
<1>1. CASE ~(Owner(body.email) \subseteq {req[r].user})
  BY <1>1, AnswerKeeps DEF LookUpEmail, Statuses
<1>2. CASE Owner(body.email) \subseteq {req[r].user}
  <2>1. Update(r, q) /\ UNCHANGED <<rows, gone>> /\ req[r].at = "email"
    BY <1>2 DEF LookUpEmail
  <2>2. s \in {"username", "auth", "write"} /\ s \in Steps
    BY DEF AfterEmail, Steps
  <2>3. /\ q \in Request /\ q.at = s
        /\ q.kind = req[r].kind /\ q.user = req[r].user /\ q.body = body
        /\ q.change = req[r].change /\ q.authDone = req[r].authDone /\ q.status = req[r].status
    BY <2>2, Known, GoesOn
  <2>4. body \in Profiles
    BY <2>1, Known DEF RequestSound, Updating
  <2>5. RequestSound(q)
    <3>1. s = "username" => body.username \in Usernames
      BY DEF AfterEmail
    <3> QED
      BY <2>1, <2>2, <2>3, <3>1, Known DEF RequestSound, Updating
  <2>6. EmailIsFree(rows, q)
    BY <1>2, <2>3 DEF EmailIsFree, Owner
  <2>7. s \in {"auth", "write"} => body.username = None
    BY <2>4, BodyType DEF AfterEmail
  <2>8. s = "write" => body.image = None
    BY <2>4, BodyType DEF AfterEmail
  <2>9. ~req[r].authDone
    BY <2>1, Known DEF RequestSound
  <2>10. Fresh(rows, q)
    BY <2>2, <2>3, <2>6, <2>7, <2>8, <2>9 DEF Fresh, Holds, HoldsName
  <2> QED
    BY <2>1, <2>3, <2>5, <2>10, UpdateKeeps DEF Sound
<1> QED
  BY <1>1, <1>2

(* Whether an address or a user name is free does not depend on the step. *)
LEMMA SameBody ==
    ASSUME NEW t, NEW q, NEW n, n.user = q.user, n.body = q.body
    PROVE  /\ EmailIsFree(t, q) => EmailIsFree(t, n)
           /\ UsernameIsFree(t, q) => UsernameIsFree(t, n)
           /\ \A f : Holds(t, q, f) => Holds(t, n, f)
           /\ HoldsName(t, q) => HoldsName(t, n)
BY DEF EmailIsFree, UsernameIsFree, Holds, HoldsName

LEMMA LookUpUsernameKeeps ==
    ASSUME IInv, NEW r \in Requests, LookUpUsername(r)
    PROVE  IInv'
<1> DEFINE u == req[r].user
           body == req[r].body
           change == ~(u \in DOMAIN rows /\ rows[u].username = body.username)
           s == IF change \/ body.image # None THEN "auth" ELSE "write"
           q == [req[r] EXCEPT !.change = change, !.at = s]
<1>1. Update(r, q) /\ UNCHANGED <<rows, gone>> /\ req[r].at = "username"
  BY DEF LookUpUsername
<1>2. s \in {"auth", "write"} /\ s \in Steps /\ change \in BOOLEAN
  BY DEF Steps
<1> HIDE DEF change, s
<1>3. /\ q \in Request /\ q.at = s
      /\ q.kind = req[r].kind /\ q.user = u /\ q.body = body /\ q.change = change
      /\ q.authDone = req[r].authDone /\ q.disturbed = req[r].disturbed
      /\ q.status = req[r].status
  <2>1. req[r] \in Request
    BY Known
  <2> QED
    BY <1>2, <2>1 DEF Request
<1>4. RequestSound(q)
  BY <1>1, <1>2, <1>3, Known DEF RequestSound, Updating
<1>5. ASSUME ~q.disturbed PROVE Fresh(rows, q)
  <2>1. EmailIsFree(rows, q)
    BY <1>1, <1>3, <1>5, Known, SameBody DEF Fresh
  <2>2. ~change => HoldsName(rows, q)
    BY <1>3 DEF HoldsName, change
  <2>3. s = "write" => ~change /\ body.image = None
    BY DEF s
  <2>4. ~req[r].authDone
    BY <1>1, Known DEF RequestSound
  <2> QED
    BY <1>2, <1>3, <2>1, <2>2, <2>3, <2>4 DEF Fresh, Holds
<1> QED
  BY <1>1, <1>3, <1>4, <1>5, UpdateKeeps DEF Sound

LEMMA AuthLookUpKeeps ==
    ASSUME IInv, NEW r \in Requests, AuthLookUp(r)
    PROVE  IInv'
<1> DEFINE q == [req[r] EXCEPT !.at = "authWrite"]
<1>1. CASE Answer(r, 500)
  BY <1>1, AnswerKeeps DEF AuthLookUp, Statuses
<1>2. CASE ~(req[r].change /\ TakenByAnother(r)) /\ Update(r, q)
  <2>1. UNCHANGED <<rows, gone>> /\ req[r].at = "auth"
    BY DEF AuthLookUp
  <2>2. /\ q \in Request /\ q.at = "authWrite"
        /\ q.kind = req[r].kind /\ q.user = req[r].user /\ q.body = req[r].body
        /\ q.change = req[r].change /\ q.authDone = req[r].authDone
        /\ q.disturbed = req[r].disturbed /\ q.status = req[r].status
    BY ZenonT(40), Known, GoesOn DEF Steps
  <2>3. RequestSound(q)
    BY <2>1, <2>2, Known DEF RequestSound, Updating
  <2>4. ASSUME ~q.disturbed PROVE Fresh(rows, q)
    <3>1. Fresh(rows, req[r])
      BY <2>2, <2>4, Known
    <3>2. EmailIsFree(rows, q)
      BY <2>1, <2>2, <3>1, SameBody DEF Fresh
    <3>3. ~q.change /\ q.user \in DOMAIN rows => HoldsName(rows, q)
      BY <2>1, <2>2, <3>1, SameBody DEF Fresh
    <3>4. q.change => UsernameIsFree(rows, q)
      <4>1. q.change => q.body.username # None
        BY <2>3, UsersAssumption DEF RequestSound
      <4> QED
        BY <1>2, <2>2, <4>1 DEF TakenByAnother, Named, UsernameIsFree
    <3>5. ~q.authDone
      BY <2>1, <2>2, Known DEF RequestSound
    <3> QED
      BY <2>2, <3>2, <3>3, <3>4, <3>5 DEF Fresh
  <2> QED
    BY <1>2, <2>1, <2>2, <2>3, <2>4, UpdateKeeps DEF Sound
<1> QED
  BY <1>1, <1>2 DEF AuthLookUp

(* The row that better-auth writes, and the row that the service writes. *)
LEMMA RowUpdated ==
    ASSUME NEW row \in Rows, NEW e \in Emails, NEW n \in Usernames \cup {Null},
           NEW m \in {"old", "new"}, NEW i \in {"old", "new"}
    PROVE  /\ [row EXCEPT !.image = i, !.username = n] \in Rows
           /\ [row EXCEPT !.email = e, !.name = m] \in Rows
BY DEF Rows

LEMMA RowType ==
    ASSUME TableSound, NEW u \in DOMAIN rows
    PROVE  /\ rows[u] \in Rows
           /\ rows[u].email \in Emails /\ rows[u].username \in Usernames \cup {Null}
           /\ rows[u].name \in {"old", "new"} /\ rows[u].image \in {"old", "new"}
BY DEF TableSound, Rows

(* Replacing a row by another keeps the table sound. *)
LEMMA ReplaceRow ==
    ASSUME TableSound, NEW u \in DOMAIN rows, NEW row \in Rows,
           rows' = [rows EXCEPT ![u] = row], UNCHANGED gone
    PROVE  /\ TableSound'
           /\ DOMAIN rows' = DOMAIN rows /\ rows'[u] = row
           /\ \A v \in DOMAIN rows \ {u} : rows'[v] = rows[v]
BY DEF TableSound, DeletedStaysDeleted

LEMMA AuthWriteTable ==
    ASSUME IInv, NEW r \in Requests, req[r].at = "authWrite", req[r].user \in DOMAIN rows,
           UNCHANGED gone,
           rows' = [rows EXCEPT ![req[r].user].image =
                                     IF req[r].body.image = None THEN @ ELSE req[r].body.image,
                                ![req[r].user].username =
                                     IF req[r].change THEN Lower[req[r].body.username] ELSE @]
    PROVE  LET u == req[r].user
               body == req[r].body
           IN /\ TableSound'
              /\ DOMAIN rows' = DOMAIN rows
              /\ \A v \in DOMAIN rows \ {u} : rows'[v] = rows[v]
              /\ \A v \in DOMAIN rows : rows'[v].email = rows[v].email
              /\ body.image # None => rows'[u].image = body.image
              /\ rows'[u].username = IF req[r].change THEN Lower[body.username] ELSE rows[u].username
<1> DEFINE u == req[r].user
           body == req[r].body
           i == IF body.image = None THEN rows[u].image ELSE body.image
           n == IF req[r].change THEN Lower[body.username] ELSE rows[u].username
           row == [rows[u] EXCEPT !.image = i, !.username = n]
<1>1. body \in Profiles /\ (req[r].change => body.username \in Usernames)
  BY Known DEF RequestSound, Updating
<1>2. TableSound /\ rows[u] \in Rows
  BY RowType DEF IInv
<1>3. i \in {"old", "new"} /\ n \in Usernames \cup {Null}
  <2>1. req[r].change => Lower[body.username] \in Usernames
    BY <1>1, UsersAssumption
  <2> QED
    BY <1>1, <1>2, <2>1, BodyType, RowType
<1>4. row \in Rows
  BY <1>2, <1>3 DEF Rows
<1>5. row.image = i /\ row.username = n /\ row.email = rows[u].email
  BY <1>2 DEF Rows
<1>6. rows' = [rows EXCEPT ![u] = row]
  OBVIOUS
<1> HIDE DEF row, i, n
<1>7. /\ TableSound'
      /\ DOMAIN rows' = DOMAIN rows /\ rows'[u] = row
      /\ \A v \in DOMAIN rows \ {u} : rows'[v] = rows[v]
  BY <1>2, <1>4, <1>6, ReplaceRow
<1> QED
  BY <1>5, <1>7 DEF i, n

LEMMA AuthWriteKeeps ==
    ASSUME IInv, NEW r \in Requests, AuthWrite(r)
    PROVE  IInv'
<1> DEFINE u == req[r].user
           body == req[r].body
           there == u \in DOMAIN rows
           q == [req[r] EXCEPT !.at = "write", !.authDone = there]
<1>1. CASE Answer(r, 500) /\ UNCHANGED rows
  BY <1>1, AnswerKeeps DEF AuthWrite, Statuses
<1>2. CASE ~(Answer(r, 500) /\ UNCHANGED rows)
  <2>1. UpdateAndDisturb(r, q) /\ req[r].at = "authWrite" /\ UNCHANGED gone
    BY <1>2 DEF AuthWrite
  <2>2. CASE there
    <3>1. /\ TableSound'
          /\ DOMAIN rows' = DOMAIN rows
          /\ \A v \in DOMAIN rows : rows'[v].email = rows[v].email
          /\ body.image # None => rows'[u].image = body.image
          /\ rows'[u].username = IF req[r].change THEN Lower[body.username] ELSE rows[u].username
      BY <1>2, <2>1, <2>2, AuthWriteTable DEF AuthWrite
    <3>2. /\ q \in Request /\ q.at = "write"
          /\ q.kind = req[r].kind /\ q.user = u /\ q.body = body /\ q.change = req[r].change
          /\ q.authDone = TRUE /\ q.disturbed = req[r].disturbed /\ q.status = req[r].status
      <4>1. req[r] \in Request /\ "write" \in Steps
        BY Known DEF Steps
      <4>2. q = [req[r] EXCEPT !.at = "write", !.authDone = TRUE]
        BY <2>2
      <4> HIDE DEF q
      <4> QED
        BY <4>1, <4>2 DEF Request
    <3>3. RequestSound(q)
      BY <2>1, <3>2, Known DEF RequestSound, Updating
    <3>4. ASSUME ~q.disturbed PROVE Fresh(rows', q)
      <4>1. Fresh(rows, req[r])
        BY <3>2, <3>4, Known
      <4>2. EmailIsFree(rows', q)
        BY <2>1, <3>1, <3>2, <4>1 DEF Fresh, EmailIsFree
      <4>3. HoldsName(rows', q)
        BY <2>1, <2>2, <3>1, <3>2, <4>1 DEF Fresh, HoldsName
      <4>4. Holds(rows', q, "image")
        BY <3>1, <3>2 DEF Holds
      <4> QED
        BY <2>2, <3>1, <3>2, <4>2, <4>3, <4>4 DEF Fresh
    <3> QED
      BY <2>1, <3>1, <3>2, <3>3, <3>4, DisturbKeeps DEF Sound
  <2>3. CASE ~there
    <3>1. rows' = rows
      BY <1>2, <2>3 DEF AuthWrite
    <3>2. TableSound'
      BY <2>1, <3>1 DEF IInv, TableSound, DeletedStaysDeleted
    <3>3. /\ q \in Request /\ q.at = "write"
          /\ q.kind = req[r].kind /\ q.user = u /\ q.body = body /\ q.change = req[r].change
          /\ q.authDone = FALSE /\ q.disturbed = req[r].disturbed /\ q.status = req[r].status
      <4>1. req[r] \in Request /\ "write" \in Steps
        BY Known DEF Steps
      <4>2. q = [req[r] EXCEPT !.at = "write", !.authDone = FALSE]
        <5>1. there = FALSE
          BY <2>3
        <5> HIDE DEF there
        <5> QED
          BY <5>1
      <4> HIDE DEF q
      <4> QED
        BY <4>1, <4>2 DEF Request
    <3>4. RequestSound(q)
      BY <2>1, <3>3, Known DEF RequestSound, Updating
    <3>5. ASSUME ~q.disturbed PROVE Fresh(rows', q)
      <4>1. EmailIsFree(rows, q)
        BY <2>1, <3>3, <3>5, Known, SameBody DEF Fresh
      <4> QED
        BY <2>3, <3>1, <3>3, <4>1 DEF Fresh
    <3> QED
      BY <2>1, <3>2, <3>3, <3>4, <3>5, DisturbKeeps DEF Sound
  <2> QED
    BY <2>2, <2>3
<1> QED
  BY <1>1, <1>2

LEMMA WriteKeeps ==
    ASSUME IInv, NEW r \in Requests, Write(r)
    PROVE  IInv'
<1> DEFINE u == req[r].user
           body == req[r].body
           row == Written(rows[u], body)
           q == [req[r] EXCEPT !.at = "read"]
<1>1. CASE UpdateFails(u, body)
  BY <1>1, AnswerKeeps DEF Write, Statuses
<1>2. CASE ~UpdateFails(u, body)
  <2>1. /\ req[r].at = "write" /\ UNCHANGED gone
        /\ rows' = [rows EXCEPT ![u] = row] /\ UpdateAndDisturb(r, q)
    BY <1>2 DEF Write
  <2>2. u \in DOMAIN rows /\ body.email # Null
    BY <1>2 DEF UpdateFails
  <2>3. body \in Profiles
    BY <2>1, Known DEF RequestSound, Updating
  <2>4. TableSound /\ rows[u] \in Rows
    BY <2>2, RowType DEF IInv
  <2>5. /\ row \in Rows
        /\ row.email = IF body.email = None THEN rows[u].email ELSE body.email
        /\ row.name = IF body.name = None THEN rows[u].name ELSE body.name
        /\ row.username = rows[u].username /\ row.image = rows[u].image
    <3> DEFINE e == IF body.email = None THEN rows[u].email ELSE body.email
               m == IF body.name = None THEN rows[u].name ELSE body.name
    <3>1. e \in Emails /\ m \in {"old", "new"}
      BY <2>2, <2>3, <2>4, BodyType, RowType
    <3>2. row = [rows[u] EXCEPT !.email = e, !.name = m]
      BY DEF Written
    <3> HIDE DEF row, e, m
    <3>3. /\ row \in Rows /\ row.email = e /\ row.name = m
          /\ row.username = rows[u].username /\ row.image = rows[u].image
      BY <2>4, <3>1, <3>2 DEF Rows
    <3> QED
      BY <3>3 DEF e, m
  <2> HIDE DEF row
  <2>6. TableSound' /\ DOMAIN rows' = DOMAIN rows /\ rows'[u] = row
    BY <2>1, <2>2, <2>4, <2>5, ReplaceRow
  <2>7. /\ q \in Request /\ q.at = "read"
        /\ q.kind = req[r].kind /\ q.user = u /\ q.body = body /\ q.change = req[r].change
        /\ q.authDone = req[r].authDone /\ q.disturbed = req[r].disturbed
        /\ q.status = req[r].status
    BY ZenonT(60), Known, GoesOn DEF Steps
  <2>8. RequestSound(q)
    BY <2>1, <2>7, Known DEF RequestSound, Updating
  <2>9. ASSUME ~q.disturbed PROVE Fresh(rows', q)
    <3>1. HoldsName(rows, req[r]) /\ Holds(rows, req[r], "image")
      BY <2>1, <2>2, <2>7, <2>9, Known DEF Fresh
    <3>2. HoldsName(rows', q) /\ Holds(rows', q, "image")
      BY <2>5, <2>6, <2>7, <3>1 DEF Holds, HoldsName
    <3>3. Holds(rows', q, "email") /\ Holds(rows', q, "name")
      BY <2>5, <2>6, <2>7 DEF Holds
    <3> QED
      BY <2>2, <2>6, <2>7, <3>2, <3>3 DEF Fresh
  <2> QED
    BY <2>1, <2>6, <2>7, <2>8, <2>9, DisturbKeeps DEF Sound
<1> QED
  BY <1>1, <1>2

LEMMA ReadBackKeeps ==
    ASSUME IInv, NEW r \in Requests, ReadBack(r)
    PROVE  IInv'
BY AnswerKeeps DEF ReadBack, Statuses

LEMMA ListByCursorKeeps ==
    ASSUME IInv, NEW r \in Requests, ListByCursor(r)
    PROVE  IInv'
BY AnswerKeeps DEF ListByCursor, Statuses

LEMMA StartFindKeeps ==
    ASSUME IInv, NEW r \in Requests, StartFind(r)
    PROVE  IInv'
<1>1. PICK u \in Ids :
         Update(r, [Idle EXCEPT !.at = "read", !.kind = "find", !.user = u])
  BY DEF StartFind
<1> DEFINE q == [Idle EXCEPT !.at = "read", !.kind = "find", !.user = u]
<1>2. q \in Request
  BY IdleType DEF Request, Steps, Kinds, Targets
<1>3. /\ q.at = "read" /\ q.kind = "find" /\ q.user = u
      /\ q.change = FALSE /\ q.authDone = FALSE /\ q.status = 0
  BY DEF Idle
<1>4. Sound(rows, q)
  BY <1>2, <1>3 DEF Sound, RequestSound, Fresh, Updating
<1> QED
  BY <1>1, <1>4, UpdateKeeps DEF StartFind

LEMMA DeleteKeeps ==
    ASSUME IInv, NEW r \in Requests, Delete(r)
    PROVE  IInv'
<1>1. PICK u \in Ids, channel \in {"http", "graphql"} :
         IF u \in DOMAIN rows
         THEN /\ rows' = Without(rows, u) /\ gone' = gone \cup {u}
              /\ UpdateAndDisturb(r, Answered(IF channel = "http" THEN 200 ELSE 500))
         ELSE Answer(r, 500) /\ UNCHANGED <<rows, gone>>
  BY DEF Delete
<1>2. CASE u \in DOMAIN rows
  <2>1. rows' = [v \in DOMAIN rows \ {u} |-> rows[v]] /\ gone' = gone \cup {u}
    BY <1>1, <1>2 DEF Without
  <2>2. TableSound'
    BY <1>2, <2>1 DEF IInv, TableSound, DeletedStaysDeleted
  <2>3. PICK status \in Statuses : UpdateAndDisturb(r, Answered(status))
    BY <1>1, <1>2 DEF Statuses
  <2> QED
    BY <2>2, <2>3, AnsweredSound, DisturbKeeps
<1>3. CASE u \notin DOMAIN rows
  BY <1>1, <1>3, AnswerKeeps DEF Statuses
<1> QED
  BY <1>2, <1>3

LEMMA QueryFailsKeeps ==
    ASSUME IInv, NEW r \in Requests, QueryFails(r)
    PROVE  IInv'
BY FailedSound, UpdateKeeps DEF QueryFails

LEMMA StartSignUpKeeps ==
    ASSUME IInv, NEW r \in Requests, StartSignUp(r)
    PROVE  IInv'
<1>1. PICK body \in SignUps, channel \in {"email", "github"} :
         Update(r, [Idle EXCEPT !.at = "signUp", !.kind = "signUp", !.channel = channel,
                               !.body = body])
  BY DEF StartSignUp
<1> DEFINE q == [Idle EXCEPT !.at = "signUp", !.kind = "signUp", !.channel = channel,
                             !.body = body]
<1>2. q \in Request
  BY IdleType DEF Request, Steps, Kinds, Channels, Bodies
<1>3. /\ q.at = "signUp" /\ q.kind = "signUp" /\ q.channel = channel /\ q.body = body
      /\ q.change = FALSE /\ q.authDone = FALSE /\ q.status = 0
  BY DEF Idle
<1>4. Sound(rows, q)
  BY <1>2, <1>3 DEF Sound, RequestSound, Fresh, Updating
<1> QED
  BY <1>1, <1>4, UpdateKeeps DEF StartSignUp

LEMMA LookUpSignUpKeeps ==
    ASSUME IInv, NEW r \in Requests, LookUpSignUp(r)
    PROVE  IInv'
<1> DEFINE q == [req[r] EXCEPT !.at = "create"]
<1>1. CASE Answer(r, 422) \/ Answer(r, 200)
  BY <1>1, AnswerKeeps DEF LookUpSignUp, Statuses
<1>2. CASE /\ req[r].channel = "email" => Named(req[r].body.username) = {}
           /\ Update(r, q)
  <2>1. /\ q \in Request /\ q.at = "create"
        /\ q.kind = req[r].kind /\ q.user = req[r].user /\ q.body = req[r].body
        /\ q.channel = req[r].channel /\ q.change = req[r].change
        /\ q.authDone = req[r].authDone /\ q.disturbed = req[r].disturbed
        /\ q.status = req[r].status
    BY ZenonT(40), Known, GoesOn DEF Steps
  <2>2. req[r].at = "signUp" /\ UNCHANGED <<rows, gone>>
    BY DEF LookUpSignUp
  <2>3. RequestSound(q)
    BY <2>1, <2>2, Known DEF RequestSound, Updating
  <2>4. q.channel = "email" => NobodyHas(rows, q)
    BY <1>2, <2>1 DEF Named, NobodyHas
  <2>5. ~q.authDone
    BY <2>3, <2>1 DEF RequestSound
  <2>6. Fresh(rows, q)
    BY <2>1, <2>4, <2>5 DEF Fresh
  <2> QED
    BY <1>2, <2>1, <2>2, <2>3, <2>6, UpdateKeeps DEF Sound
<1> QED
  BY <1>1, <1>2 DEF LookUpSignUp

(* The table with the row of a user who has signed up. *)
LEMMA CreateTable ==
    ASSUME IInv, NEW r \in Requests, Create(r), ~(Answer(r, 500) /\ UNCHANGED rows)
    PROVE  /\ \E u \in Ids \ (DOMAIN rows \cup gone), row \in Rows :
                /\ row.username \in StoredNames(r)
                /\ rows' = [v \in DOMAIN rows \cup {u} |-> IF v # u THEN rows[v] ELSE row]
           /\ UpdateAndDisturb(r, Answered(200)) /\ UNCHANGED gone
<1> DEFINE body == req[r].body
           row(name, now) == [email |-> body.email, username |-> name, name |-> "old",
                              image |-> "old", createdAt |-> now]
<1>1. PICK u \in Ids \ (DOMAIN rows \cup gone), name \in StoredNames(r), now \in Instants :
        rows' = [v \in DOMAIN rows \cup {u} |-> IF v # u THEN rows[v] ELSE row(name, now)]
  BY DEF Create
<1>2. body.email \in Emails /\ body.username \in Usernames \cup {None}
  BY Known, UsersAssumption DEF Create, RequestSound
<1>3. name \in Usernames \cup {Null}
  BY <1>2, UsersAssumption DEF StoredNames
<1>4. row(name, now) \in Rows /\ row(name, now).username = name
  BY <1>2, <1>3 DEF Rows
<1>5. UpdateAndDisturb(r, Answered(200)) /\ UNCHANGED gone
  BY DEF Create
<1> HIDE DEF row
<1> QED
  BY <1>1, <1>4, <1>5

LEMMA CreateKeeps ==
    ASSUME IInv, NEW r \in Requests, Create(r)
    PROVE  IInv'
<1>1. CASE Answer(r, 500) /\ UNCHANGED rows
  BY <1>1, AnswerKeeps DEF Create, Statuses
<1>2. CASE ~(Answer(r, 500) /\ UNCHANGED rows)
  <2>1. PICK u \in Ids \ (DOMAIN rows \cup gone), row \in Rows :
          rows' = [v \in DOMAIN rows \cup {u} |-> IF v # u THEN rows[v] ELSE row]
    BY <1>2, CreateTable
  <2>2. UpdateAndDisturb(r, Answered(200)) /\ UNCHANGED gone
    BY <1>2, CreateTable
  <2>3. TableSound'
    BY <2>1, <2>2 DEF IInv, TableSound, DeletedStaysDeleted
  <2>4. 200 \in Statuses
    BY DEF Statuses
  <2> QED
    BY <2>2, <2>3, <2>4, AnsweredSound, DisturbKeeps
<1> QED
  BY <1>1, <1>2

-----------------------------------------------------------------------------
(* Walks through the pages. *)
LEMMA PositionType ==
    ASSUME NEW page \in Positive, NEW limit \in Positive
    PROVE  (page - 1) * limit + 1 \in Nat \ {0}
<1>1. page - 1 \in Nat /\ limit \in Nat
  BY DEF Positive
<1>2. (page - 1) * limit \in Nat
  BY <1>1
<1> QED
  BY <1>2

LEMMA RowsFinite ==
    ASSUME TableSound
    PROVE  Cardinality(DOMAIN rows) \in Nat
BY UsersAssumption, FS_Subset, FS_CardinalityType DEF TableSound

LEMMA WalkSound ==
    ASSUME NEW t, NEW q \in Request, q.at \in {"page"}, q.kind = "walk", q.status = 0,
           ~q.change, ~q.authDone
    PROVE  Sound(t, q)
BY DEF Sound, RequestSound, Fresh, Updating

LEMMA StartWalkKeeps ==
    ASSUME IInv, NEW r \in Requests, StartWalk(r)
    PROVE  IInv'
<1>1. PICK limit \in Limits :
         Update(r, [Idle EXCEPT !.at = "page", !.kind = "walk", !.limit = limit])
  BY DEF StartWalk
<1> DEFINE q == [Idle EXCEPT !.at = "page", !.kind = "walk", !.limit = limit]
<1>2. limit \in Positive
  BY UsersAssumption DEF Positive
<1>3. q \in Request
  BY <1>2, IdleType DEF Request, Steps, Kinds
<1>4. q.at = "page" /\ q.kind = "walk" /\ q.change = FALSE /\ q.authDone = FALSE /\ q.status = 0
  BY DEF Idle
<1> QED
  BY <1>1, <1>3, <1>4, WalkSound, UpdateKeeps DEF StartWalk

(* A walk that goes on is sound whatever its lists hold: no look at the table
   made earlier is relied on. *)
LEMMA WalkGoesOn ==
    ASSUME NEW q \in Request, q.at = "page", Sound(rows, q), NEW n \in Request,
           n.at = q.at, n.kind = q.kind, n.status = q.status, n.change = q.change,
           n.authDone = q.authDone, n.body = q.body
    PROVE  Sound(rows, n)
BY DEF Sound, RequestSound, Fresh, Updating

LEMMA QueryItemsKeeps ==
    ASSUME IInv, NEW r \in Requests, QueryItems(r)
    PROVE  IInv'
<1>1. PICK s \in Listings :
         Update(r, [req[r] EXCEPT !.got = @ \cup {"items"},
                                 !.items = OffsetPage(s, req[r].page, req[r].limit)])
  BY DEF QueryItems
<1> DEFINE got == req[r].got \cup {"items"}
           items == OffsetPage(s, req[r].page, req[r].limit)
           q == [req[r] EXCEPT !.got = got, !.items = items]
<1>2. req[r] \in Request /\ Sound(rows, req[r]) /\ TableSound /\ req[r].at = "page"
  BY DEF IInv, QueryItems
<1>3. req[r].page \in Positive /\ req[r].limit \in Positive /\ req[r].got \in Queries
  BY <1>2 DEF Request
<1>4. s \in Seq(Ids)
  <2>1. s \in [1 .. Cardinality(DOMAIN rows) -> DOMAIN rows]
    BY DEF Listings, SetToSeqs
  <2>2. Cardinality(DOMAIN rows) \in Nat /\ DOMAIN rows \subseteq Ids
    BY <1>2, RowsFinite DEF TableSound
  <2> QED
    BY <2>1, <2>2
<1>5. items \in Lists
  BY <1>3, <1>4, PositionType, TakeIs DEF OffsetPage, Lists, Positive
<1>6. got \in Queries
  BY <1>3 DEF Queries
<1>7. Update(r, q)
  BY <1>1
<1> HIDE DEF got, items
<1>8. /\ q \in Request /\ q.at = req[r].at /\ q.kind = req[r].kind /\ q.status = req[r].status
      /\ q.change = req[r].change /\ q.authDone = req[r].authDone /\ q.body = req[r].body
  BY <1>2, <1>5, <1>6 DEF Request
<1>9. Sound(rows, q)
  BY <1>2, <1>8, WalkGoesOn
<1> QED
  BY <1>7, <1>9, UpdateKeeps DEF QueryItems

LEMMA QueryTotalKeeps ==
    ASSUME IInv, NEW r \in Requests, QueryTotal(r)
    PROVE  IInv'
<1> DEFINE got == req[r].got \cup {"total"}
           total == Cardinality(DOMAIN rows)
           q == [req[r] EXCEPT !.got = got, !.total = total]
<1>1. req[r] \in Request /\ Sound(rows, req[r]) /\ TableSound /\ req[r].at = "page"
  BY DEF IInv, QueryTotal
<1>2. got \in Queries
  BY <1>1 DEF Request, Queries
<1>3. total \in Nat
  BY <1>1, RowsFinite
<1>4. Update(r, q)
  BY DEF QueryTotal
<1> HIDE DEF got, total
<1>5. /\ q \in Request /\ q.at = req[r].at /\ q.kind = req[r].kind /\ q.status = req[r].status
      /\ q.change = req[r].change /\ q.authDone = req[r].authDone /\ q.body = req[r].body
  BY <1>1, <1>2, <1>3 DEF Request
<1>6. Sound(rows, q)
  BY <1>1, <1>5, WalkGoesOn
<1> QED
  BY <1>4, <1>6, UpdateKeeps DEF QueryTotal

LEMMA AnswerPageKeeps ==
    ASSUME IInv, NEW r \in Requests, AnswerPage(r)
    PROVE  IInv'
<1> DEFINE seen == req[r].seen \o req[r].items
           page == req[r].page + 1
           q == [req[r] EXCEPT !.seen = seen, !.page = page,
                               !.got = {}, !.items = <<>>, !.total = 0]
<1>1. CASE Answer(r, 200)
  BY <1>1, AnswerKeeps DEF AnswerPage, Statuses
<1>2. CASE Update(r, q)
  <2>1. req[r] \in Request /\ Sound(rows, req[r]) /\ req[r].at = "page"
    BY DEF IInv, AnswerPage
  <2>2. seen \in Lists /\ <<>> \in Lists
    BY <2>1 DEF Request, Lists
  <2>3. page \in Positive
    BY <2>1 DEF Request, Positive
  <2>4. {} \in Queries
    BY DEF Queries
  <2> HIDE DEF seen, page
  <2>5. /\ q \in Request /\ q.at = req[r].at /\ q.kind = req[r].kind /\ q.status = req[r].status
        /\ q.change = req[r].change /\ q.authDone = req[r].authDone /\ q.body = req[r].body
    BY <2>1, <2>2, <2>3, <2>4 DEF Request
  <2>6. Sound(rows, q)
    BY <2>1, <2>5, WalkGoesOn
  <2> QED
    BY <1>2, <2>6, UpdateKeeps DEF AnswerPage
<1> QED
  BY <1>1, <1>2 DEF AnswerPage

-----------------------------------------------------------------------------
LEMMA InvInit == Init => IInv
<1> SUFFICES ASSUME Init PROVE IInv
  OBVIOUS
<1>1. TableSound
  BY UsersAssumption DEF Init, TableSound, DeletedStaysDeleted
<1>2. req \in [Requests -> Request]
  BY IdleType DEF Init
<1>3. Idle.at = "idle" /\ Idle.kind = None /\ Idle.status = 0
      /\ Idle.change = FALSE /\ Idle.authDone = FALSE
  BY DEF Idle
<1>4. Sound(rows, Idle)
  BY <1>3, IdleType DEF Sound, RequestSound, Fresh, Updating
<1> QED
  BY <1>1, <1>2, <1>4 DEF IInv, Init

(* The steps there are. *)
RequestStep(r) ==
    \/ StartUpdate(r) \/ LookUpEmail(r) \/ LookUpUsername(r) \/ AuthLookUp(r)
    \/ AuthWrite(r) \/ Write(r) \/ ReadBack(r) \/ StartFind(r) \/ Delete(r)
    \/ StartWalk(r) \/ QueryItems(r) \/ QueryTotal(r) \/ AnswerPage(r) \/ ListByCursor(r)
    \/ StartSignUp(r) \/ LookUpSignUp(r) \/ Create(r) \/ QueryFails(r)

LEMMA PossibleSteps ==
    ASSUME [Next]_vars
    PROVE  \/ UNCHANGED vars
           \/ \E r \in Requests : RequestStep(r)
BY DEF Next, AllDone, RequestStep

LEMMA RequestKeeps ==
    ASSUME IInv, NEW r \in Requests, RequestStep(r)
    PROVE  IInv'
BY StartUpdateKeeps, LookUpEmailKeeps, LookUpUsernameKeeps, AuthLookUpKeeps,
   AuthWriteKeeps, WriteKeeps, ReadBackKeeps, StartFindKeeps, DeleteKeeps, StartWalkKeeps,
   QueryItemsKeeps, QueryTotalKeeps, AnswerPageKeeps, ListByCursorKeeps,
   StartSignUpKeeps, LookUpSignUpKeeps, CreateKeeps, QueryFailsKeeps
   DEF RequestStep

LEMMA InvStep == IInv /\ [Next]_vars => IInv'
<1> SUFFICES ASSUME IInv, [Next]_vars PROVE IInv'
  OBVIOUS
<1>1. CASE UNCHANGED vars
  BY <1>1 DEF vars, IInv, TableSound, DeletedStaysDeleted
<1>2. CASE \E r \in Requests : RequestStep(r)
  BY <1>2, RequestKeeps
<1> QED
  BY <1>1, <1>2, PossibleSteps

THEOREM Invariance == Spec => []IInv
BY InvInit, InvStep, PTL DEF Spec

(* Every variable keeps its type. *)
THEOREM TypeCorrect == Spec => []TypeOK
<1>1. IInv => TypeOK
  BY DEF IInv, TableSound, TypeOK
<1> QED
  BY <1>1, Invariance, PTL

(* No update under way brings a deleted user back. *)
THEOREM DeletedStay == Spec => []DeletedStaysDeleted
<1>1. IInv => DeletedStaysDeleted
  BY DEF IInv, TableSound
<1> QED
  BY <1>1, Invariance, PTL

-----------------------------------------------------------------------------
(* A step of one request leaves the others where they are. *)
Stay(r) == \A q \in Requests \ {r} : req'[q].at = req[q].at /\ req'[q].status = req[q].status

LEMMA UpdateStays ==
    ASSUME IInv, NEW r \in Requests, NEW new, Update(r, new) \/ UpdateAndDisturb(r, new)
    PROVE  Stay(r)
<1>1. CASE Update(r, new)
  BY <1>1 DEF Update, Stay, IInv
<1>2. CASE UpdateAndDisturb(r, new)
  <2>1. ASSUME NEW q \in Requests \ {r}
        PROVE  req'[q].at = req[q].at /\ req'[q].status = req[q].status
    <3>1. req'[q] = Disturbed(q) /\ req[q] \in Request
      BY <1>2 DEF UpdateAndDisturb, IInv
    <3> QED
      BY <3>1, DisturbedType DEF Disturbed
  <2> QED
    BY <2>1 DEF Stay
<1> QED
  BY <1>1, <1>2

LEMMA AnswerStays ==
    ASSUME IInv, NEW r \in Requests, NEW status, Answer(r, status)
    PROVE  Stay(r)
BY UpdateStays DEF Answer

LEMMA StepsStay ==
    ASSUME IInv, NEW r \in Requests, RequestStep(r)
    PROVE  Stay(r)
<1>1. CASE StartUpdate(r) \/ LookUpEmail(r) \/ LookUpUsername(r)
  BY <1>1, UpdateStays, AnswerStays DEF StartUpdate, LookUpEmail, LookUpUsername
<1>2. CASE AuthLookUp(r) \/ AuthWrite(r)
  BY <1>2, UpdateStays, AnswerStays DEF AuthLookUp, AuthWrite
<1>3. CASE Write(r) \/ ReadBack(r) \/ ListByCursor(r)
  BY <1>3, UpdateStays, AnswerStays DEF Write, ReadBack, ListByCursor
<1>4. CASE StartFind(r) \/ Delete(r) \/ StartWalk(r)
  BY ZenonT(40), <1>4, UpdateStays, AnswerStays DEF StartFind, Delete, StartWalk
<1>5. CASE QueryItems(r) \/ QueryTotal(r) \/ AnswerPage(r)
  BY <1>5, UpdateStays, AnswerStays DEF QueryItems, QueryTotal, AnswerPage
<1>6. CASE StartSignUp(r) \/ LookUpSignUp(r) \/ QueryFails(r)
  BY <1>6, UpdateStays, AnswerStays DEF StartSignUp, LookUpSignUp, QueryFails
<1>7. CASE Create(r)
  BY <1>7, UpdateStays, AnswerStays DEF Create
<1> QED
  BY <1>1, <1>2, <1>3, <1>4, <1>5, <1>6, <1>7 DEF RequestStep

(* An update past better-auth is answered by its own last two steps, or because a
   query failed. *)
LEMMA LastSteps ==
    ASSUME IInv, [Next]_vars, NEW r \in Requests,
           req[r].at \in {"write", "read"}, req'[r].at = "done"
    PROVE  Write(r) \/ ReadBack(r) \/ QueryFails(r)
<1>1. CASE UNCHANGED vars
  BY <1>1 DEF vars
<1>2. ASSUME NEW q \in Requests, RequestStep(q) PROVE Write(r) \/ ReadBack(r) \/ QueryFails(r)
  <2>1. q = r
    BY <1>2, StepsStay DEF Stay
  <2> QED
    BY <1>2, <2>1 DEF RequestStep, StartUpdate, LookUpEmail, LookUpUsername, AuthLookUp, AuthWrite,
       StartFind, Delete, StartWalk, QueryItems, QueryTotal, AnswerPage, ListByCursor,
       StartSignUp, LookUpSignUp, Create
<1> QED
  BY <1>1, <1>2, PossibleSteps

(* HalfWriteHasACause: in the last step of an update whose first part was
   written, somebody has come between, the address is null, or a query fails. *)
THEOREM HalfWrite == Spec => HalfWriteHasACause
<1>1. ASSUME IInv, [Next]_vars
      PROVE  [\A r \in Requests :
                req[r].at # "done" /\ req'[r].at = "done" /\ req[r].authDone
                  /\ req'[r].status # 200 =>
                  req[r].disturbed \/ req[r].body.email = Null \/ req'[r].failed]_vars
  <2>1. SUFFICES ASSUME NEW r \in Requests, req[r].at # "done", req'[r].at = "done",
                        req[r].authDone, ~req[r].disturbed
                 PROVE  req'[r].status = 200 \/ req[r].body.email = Null \/ req'[r].failed
    OBVIOUS
  <2>2. /\ req[r].at \in {"write", "read"} /\ req[r].user \in DOMAIN rows
        /\ req[r].at = "write" => EmailIsFree(rows, req[r])
    BY <1>1, <2>1, Known DEF RequestSound, Fresh
  <2>3. CASE Write(r)
    <3>1. Owner(req[r].body.email) \subseteq {req[r].user}
      BY <2>2, <2>3 DEF Write, Owner, EmailIsFree
    <3>2. CASE UpdateFails(req[r].user, req[r].body)
      BY <2>2, <3>1, <3>2 DEF UpdateFails
    <3>3. CASE ~UpdateFails(req[r].user, req[r].body)
      <4>1. req'[r].at = "read"
        <5>1. req'[r] = [req[r] EXCEPT !.at = "read"]
          BY <2>3, <3>3 DEF Write, UpdateAndDisturb
        <5>2. req[r] \in Request /\ "read" \in Steps
          BY <1>1, Known DEF Steps
        <5> QED
          BY <5>1, <5>2, GoesOn
      <4> QED
        BY <2>1, <4>1
    <3> QED
      BY <3>2, <3>3
  <2>4. CASE ReadBack(r)
    BY <1>1, <2>2, <2>4 DEF ReadBack, Answer, Update, Answered, Idle, IInv
  <2>5. CASE QueryFails(r)
    <3>1. req'[r] = Failed
      BY <1>1, <2>5 DEF QueryFails, Update, IInv
    <3>2. Failed.failed
      BY DEF Failed, Answered, Idle
    <3> QED
      BY <3>1, <3>2
  <2> QED
    BY <1>1, <2>1, <2>2, <2>3, <2>4, <2>5, LastSteps
<1> QED
  BY <1>1, Invariance, PTL DEF Spec, HalfWriteHasACause

-----------------------------------------------------------------------------
(* An update is answered with 200 by reading its row back. *)
LEMMA StatusOfAnswer ==
    ASSUME IInv, NEW r \in Requests, NEW status, Answer(r, status)
    PROVE  req'[r].status = status
<1>1. req'[r] = Answered(status)
  BY DEF Answer, Update, IInv
<1> QED
  BY <1>1 DEF Answered, Idle

LEMMA StatusStays ==
    ASSUME IInv, NEW r \in Requests, NEW new, new.status = req[r].status,
           Update(r, new) \/ UpdateAndDisturb(r, new)
    PROVE  req'[r].status = req[r].status
<1>1. req'[r] = new
  BY DEF Update, UpdateAndDisturb, IInv
<1> QED
  BY <1>1

LEMMA UpdateAnswers ==
    ASSUME IInv, NEW r \in Requests, RequestStep(r), req[r].kind = "update",
           req[r].at # "done", req'[r].status = 200
    PROVE  ReadBack(r)
<1>1. req[r] \in Request /\ req[r].status = 0
      /\ req[r].at \notin {"idle", "page", "signUp", "create"}
  BY Known DEF RequestSound, None
<1>2. ~Answer(r, 400) /\ ~Answer(r, 500)
  BY StatusOfAnswer
<1>3. ASSUME NEW new, new.status = 0, Update(r, new) \/ UpdateAndDisturb(r, new)
      PROVE  FALSE
  BY <1>1, <1>3, StatusStays
<1>4. ~LookUpEmail(r)
  <2> DEFINE q == [req[r] EXCEPT !.at = AfterEmail(req[r].body)]
  <2>1. q.status = 0
    BY <1>1 DEF Request
  <2>2. ~Update(r, q)
    BY <1>3, <2>1
  <2> QED
    BY <1>2, <2>2 DEF LookUpEmail
<1>5. ~LookUpUsername(r)
  <2> DEFINE change == ~(/\ req[r].user \in DOMAIN rows
                         /\ rows[req[r].user].username = req[r].body.username)
             s == IF change \/ req[r].body.image # None THEN "auth" ELSE "write"
             q == [req[r] EXCEPT !.change = change, !.at = s]
  <2>1. LookUpUsername(r) => Update(r, q)
    BY DEF LookUpUsername
  <2> HIDE DEF change, s
  <2>2. q.status = 0
    BY <1>1 DEF Request
  <2>3. ~Update(r, q)
    BY <1>3, <2>2
  <2> QED
    BY <2>1, <2>3
<1>6. ~AuthLookUp(r)
  <2> DEFINE q == [req[r] EXCEPT !.at = "authWrite"]
  <2>1. q.status = 0
    BY <1>1 DEF Request
  <2>2. ~Update(r, q)
    BY <1>3, <2>1
  <2> QED
    BY <1>2, <2>2 DEF AuthLookUp
<1>7. ~AuthWrite(r)
  <2> DEFINE there == req[r].user \in DOMAIN rows
             q == [req[r] EXCEPT !.at = "write", !.authDone = there]
  <2>1. AuthWrite(r) => Answer(r, 500) \/ UpdateAndDisturb(r, q)
    BY DEF AuthWrite
  <2> HIDE DEF there
  <2>2. q.status = 0
    BY <1>1 DEF Request
  <2>3. ~UpdateAndDisturb(r, q)
    BY <1>3, <2>2
  <2> QED
    BY <1>2, <2>1, <2>3
<1>8. ~Write(r)
  <2> DEFINE q == [req[r] EXCEPT !.at = "read"]
  <2>1. q.status = 0
    BY <1>1 DEF Request
  <2>2. ~UpdateAndDisturb(r, q)
    BY <1>3, <2>1
  <2> QED
    BY <1>2, <2>2 DEF Write
<1>9. req[r].at # "idle" /\ req[r].at # "page"
  BY <1>1
<1>10. ~QueryFails(r)
  <2>1. QueryFails(r) => req'[r] = Failed
    BY DEF QueryFails, Update, IInv
  <2>2. Failed.status = 500
    BY DEF Failed, Answered, Idle
  <2> QED
    BY <2>1, <2>2
<1> QED
  BY <1>1, <1>4, <1>5, <1>6, <1>7, <1>8, <1>9, <1>10
     DEF RequestStep, StartUpdate, StartFind, Delete, StartWalk, QueryItems, QueryTotal,
         AnswerPage, ListByCursor, StartSignUp, LookUpSignUp, Create

(* AnsweredUpdateIsWhole: what an undisturbed update reads back is what it was
   asked to write, by both of its writes. *)
THEOREM UpdateIsWhole == Spec => AnsweredUpdateIsWhole
<1>1. ASSUME IInv, [Next]_vars
      PROVE  [\A r \in Requests :
                req[r].kind = "update" /\ ~req[r].disturbed /\ req[r].at # "done"
                  /\ req'[r].status = 200 =>
                  LET row == rows[req[r].user]
                      body == req[r].body
                  IN /\ \A f \in {"email", "name", "image"} : body[f] # None => row[f] = body[f]
                     /\ body.username # None =>
                          row.username \in {body.username, Lower[body.username]}]_vars
  <2>1. SUFFICES ASSUME NEW r \in Requests, req[r].kind = "update", ~req[r].disturbed,
                        req[r].at # "done", req'[r].status = 200
                 PROVE  /\ \A f \in {"email", "name", "image"} : Holds(rows, req[r], f)
                        /\ HoldsName(rows, req[r])
    BY DEF Holds, HoldsName
  <2>2. req[r].status = 0
    BY <1>1, <2>1, Known DEF RequestSound
  <2>3. RequestStep(r)
    <3>1. ~UNCHANGED vars
      BY <2>1, <2>2 DEF vars
    <3>2. PICK q \in Requests : RequestStep(q)
      BY <1>1, <3>1, PossibleSteps
    <3>3. q = r
      BY <1>1, <2>1, <2>2, <3>2, StepsStay DEF Stay
    <3> QED
      BY <3>2, <3>3
  <2>4. ReadBack(r)
    BY <1>1, <2>1, <2>3, UpdateAnswers
  <2> QED
    BY <1>1, <2>1, <2>4, Known DEF ReadBack, Fresh
<1> QED
  BY <1>1, Invariance, PTL DEF Spec, AnsweredUpdateIsWhole

-----------------------------------------------------------------------------
LEMMA SameNames ==
    ASSUME DOMAIN rows' \subseteq DOMAIN rows,
           \A v \in DOMAIN rows' : rows'[v].username = rows[v].username
    PROVE  Clash(rows') \subseteq Clash(rows)
BY DEF Clash

LEMMA OnlyWritersWrite ==
    ASSUME NEW r \in Requests, RequestStep(r)
    PROVE  rows' = rows \/ AuthWrite(r) \/ Write(r) \/ Delete(r) \/ Create(r)
BY DEF RequestStep, StartUpdate, LookUpEmail, LookUpUsername, AuthLookUp, ReadBack, StartFind,
       StartWalk, QueryItems, QueryTotal, AnswerPage, ListByCursor, StartSignUp, LookUpSignUp,
       QueryFails

(* A user name that was free when an undisturbed request looked is so still. *)
LEMMA AuthWriteClash ==
    ASSUME IInv, NEW r \in Requests, AuthWrite(r), ~req[r].disturbed
    PROVE  Clash(rows') \subseteq Clash(rows)
<1> DEFINE u == req[r].user
<1>1. CASE rows' = rows
  BY <1>1
<1>2. CASE rows' # rows
  <2>1. u \in DOMAIN rows
    BY <1>2 DEF AuthWrite
  <2>2. /\ DOMAIN rows' = DOMAIN rows
        /\ \A v \in DOMAIN rows \ {u} : rows'[v] = rows[v]
        /\ rows'[u].username = IF req[r].change THEN Lower[req[r].body.username] ELSE rows[u].username
    BY <1>2, <2>1, AuthWriteTable DEF AuthWrite
  <2>3. req[r].change => \A v \in DOMAIN rows \ {u} : rows[v].username # Lower[req[r].body.username]
    BY Known DEF Fresh, UsernameIsFree, AuthWrite
  <2> QED
    BY <2>1, <2>2, <2>3 DEF Clash
<1> QED
  BY <1>1, <1>2

LEMMA WriteClash ==
    ASSUME IInv, NEW r \in Requests, Write(r) \/ Delete(r)
    PROVE  Clash(rows') \subseteq Clash(rows)
<1>1. CASE Write(r)
  <2> DEFINE u == req[r].user
             row == Written(rows[u], req[r].body)
  <2>1. CASE rows' = rows
    BY <2>1
  <2>2. CASE rows' # rows
    <3>1. u \in DOMAIN rows /\ rows' = [rows EXCEPT ![u] = row]
      BY <1>1, <2>2 DEF Write, UpdateFails
    <3>2. row.username = rows[u].username
      <4>1. rows[u] \in Rows
        BY <3>1, RowType DEF IInv
      <4> QED
        BY <4>1 DEF Written, Rows
    <3> HIDE DEF row
    <3>3. DOMAIN rows' = DOMAIN rows
      BY <3>1
    <3>4. \A v \in DOMAIN rows' : rows'[v].username = rows[v].username
      BY <3>1, <3>2
    <3> QED
      BY <3>3, <3>4, SameNames
  <2> QED
    BY <2>1, <2>2
<1>2. CASE Delete(r)
  BY <1>2, SameNames DEF Delete, Without
<1> QED
  BY <1>1, <1>2

LEMMA CreateClash ==
    ASSUME IInv, NEW r \in Requests, Create(r), ~req[r].disturbed, req[r].channel # "github"
    PROVE  Clash(rows') \subseteq Clash(rows)
<1>1. CASE Answer(r, 500) /\ UNCHANGED rows
  BY <1>1
<1>2. CASE ~(Answer(r, 500) /\ UNCHANGED rows)
  <2>1. PICK u \in Ids \ (DOMAIN rows \cup gone), row \in Rows :
          /\ row.username \in StoredNames(r)
          /\ rows' = [v \in DOMAIN rows \cup {u} |-> IF v # u THEN rows[v] ELSE row]
    BY <1>2, CreateTable
  <2>2. NobodyHas(rows, req[r])
    BY Known DEF Create, RequestSound, Fresh
  <2>3. row.username # Null => \A v \in DOMAIN rows : rows[v].username # row.username
    BY <2>1, <2>2 DEF StoredNames, NobodyHas
  <2>4. DOMAIN rows' = DOMAIN rows \cup {u}
    BY <2>1
  <2>5. \A v \in DOMAIN rows' :
          rows'[v].username = IF v = u THEN row.username ELSE rows[v].username
    BY <2>1
  <2> QED
    BY <2>1, <2>3, <2>4, <2>5 DEF Clash
<1> QED
  BY <1>1, <1>2

(* UsernameClashHasACause: only GitHub, or a write that was overtaken since its
   look-up, gives a user name to a second user. *)
THEOREM ClashHasACause == Spec => UsernameClashHasACause
<1>1. ASSUME IInv, [Next]_vars
      PROVE  [Clash(rows') \subseteq Clash(rows)
               \/ \E r \in Requests : /\ req[r].at \in {"authWrite", "create"}
                                     /\ (req[r].disturbed \/ req[r].channel = "github")]_vars
  <2> DEFINE Cause(r) == /\ req[r].at \in {"authWrite", "create"}
                         /\ (req[r].disturbed \/ req[r].channel = "github")
  <2>1. CASE rows' = rows
    BY <2>1
  <2>2. ASSUME NEW r \in Requests, AuthWrite(r) \/ Create(r)
        PROVE  Clash(rows') \subseteq Clash(rows) \/ Cause(r)
    BY <1>1, <2>2, AuthWriteClash, CreateClash DEF AuthWrite, Create
  <2>3. ASSUME NEW r \in Requests, Write(r) \/ Delete(r)
        PROVE  Clash(rows') \subseteq Clash(rows)
    BY <1>1, <2>3, WriteClash
  <2>4. ASSUME NEW r \in Requests, RequestStep(r)
        PROVE  Clash(rows') \subseteq Clash(rows) \/ Cause(r)
    BY <2>1, <2>2, <2>3, <2>4, OnlyWritersWrite
  <2>5. CASE UNCHANGED vars
    BY <2>1, <2>5 DEF vars
  <2> QED
    BY <1>1, <2>4, <2>5, PossibleSteps
<1> QED
  BY <1>1, Invariance, PTL DEF Spec, UsernameClashHasACause

-----------------------------------------------------------------------------
(* PaginatorIsExact: for each user's id as a cursor, the Paginator returns the
   users next to it in the order asked for, and a cursor on a side exactly if
   users are left there. *)
THEOREM ExactPages == Spec => []PaginatorIsExact
<1>1. ASSUME IInv PROVE PaginatorIsExact
  <2> SUFFICES ASSUME NEW limit \in Limits, NEW c \in DOMAIN rows
               PROVE  LET ids == DOMAIN rows
                          after == Paginate(ids, c, Absent, limit, "desc")
                          before == Paginate(ids, Absent, c, limit, "desc")
                          upper == Ordered(Above(ids, c), "desc")
                      IN /\ after.data = Take(Ordered(Below(ids, c), "desc"), 1, limit)
                         /\ (after.afterCursor # Absent) = (Cardinality(Below(ids, c)) > limit)
                         /\ before.data = SubSeq(upper, Len(upper) - AtMost(limit, Len(upper)) + 1,
                                                 Len(upper))
                         /\ (before.beforeCursor # Absent) = (Len(upper) > limit)
    BY DEF PaginatorIsExact
  <2> DEFINE ids == DOMAIN rows
  <2>1. ids \in SUBSET (Nat \ {Absent}) /\ IsFiniteSet(ids) /\ limit \in Nat \ {0}
    BY <1>1, UsersAssumption, FS_Subset DEF IInv, TableSound
  <2>2. Below(ids, c) = Left(ids, "desc", c) /\ Above(ids, c) = Left(ids, "asc", c)
    BY <2>1 DEF Below, Above, Left, Precedes
  <2> DEFINE after == Paginate(ids, c, Absent, limit, "desc")
             before == Paginate(ids, Absent, c, limit, "desc")
             upper == Ordered(Above(ids, c), "desc")
  <2> HIDE DEF ids
  <2>3. /\ after.data = Take(Ordered(Left(ids, "desc", c), "desc"), 1, limit)
        /\ after.afterCursor # Absent <=> Cardinality(Left(ids, "desc", c)) > limit
    <3>1. IsFiniteSet(ids) /\ c \in ids
      BY <2>1 DEF ids
    <3> QED
      BY <3>1, <2>1, PageAfter
  <2>4. /\ after.data = Take(Ordered(Below(ids, c), "desc"), 1, limit)
        /\ after.afterCursor # Absent <=> Cardinality(Below(ids, c)) > limit
    BY <2>3, <2>2
  <2>5. LET left == Ordered(Left(ids, "asc", c), "desc") IN
        /\ before.data = SubSeq(left, Len(left) - AtMost(limit, Len(left)) + 1, Len(left))
        /\ before.beforeCursor # Absent <=> Len(left) > limit
    <3>1. IsFiniteSet(ids) /\ c \in ids
      BY <2>1 DEF ids
    <3> QED
      BY <3>1, <2>1, PageBefore
  <2>6. /\ before.data = SubSeq(upper, Len(upper) - AtMost(limit, Len(upper)) + 1, Len(upper))
        /\ before.beforeCursor # Absent <=> Len(upper) > limit
    BY <2>5, <2>2
  <2> HIDE DEF after, before, upper
  <2>7. (after.afterCursor # Absent) = (Cardinality(Below(ids, c)) > limit)
    BY <2>4
  <2>8. (before.beforeCursor # Absent) = (Len(upper) > limit)
    BY <2>6
  <2> QED
    BY <2>4, <2>6, <2>7, <2>8 DEF after, before, upper, ids
<1> QED
  BY <1>1, Invariance, PTL

-----------------------------------------------------------------------------
(* Walks: a row's place in the list is the number of rows that are newer. *)
Distinct(t) == \A u, v \in DOMAIN t : u # v => t[u].createdAt # t[v].createdAt
Newer(t, u) == {v \in DOMAIN t : t[v].createdAt > t[u].createdAt}
Place(t, u) == Cardinality(Newer(t, u))
Timed(t) == IsFiniteSet(DOMAIN t) /\ \A u \in DOMAIN t : t[u].createdAt \in Nat
(* The list s of rows of t begins after so many rows. *)
InPlace(t, s, from) ==
    \A i \in DOMAIN s : s[i] \in DOMAIN t /\ Place(t, s[i]) = from + i - 1

LEMMA PlaceType ==
    ASSUME NEW t, Timed(t), NEW u \in DOMAIN t
    PROVE  /\ IsFiniteSet(Newer(t, u))
           /\ Place(t, u) \in 0 .. Cardinality(DOMAIN t) - 1
<1>1. Newer(t, u) \subseteq DOMAIN t \ {u}
  BY DEF Newer, Timed
<1>2. /\ IsFiniteSet(DOMAIN t \ {u}) /\ Cardinality(DOMAIN t \ {u}) = Cardinality(DOMAIN t) - 1
      /\ Cardinality(DOMAIN t) \in Nat
  BY FS_RemoveElement, FS_CardinalityType DEF Timed
<1>3. IsFiniteSet(Newer(t, u)) /\ Cardinality(Newer(t, u)) <= Cardinality(DOMAIN t) - 1
  BY <1>1, <1>2, FS_Subset
<1>4. Cardinality(Newer(t, u)) \in Nat
  BY <1>3, FS_CardinalityType
<1> QED
  BY <1>2, <1>3, <1>4 DEF Place

LEMMA PlaceGrows ==
    ASSUME NEW t, Timed(t), NEW u \in DOMAIN t, NEW v \in DOMAIN t,
           t[v].createdAt > t[u].createdAt
    PROVE  Place(t, v) < Place(t, u)
<1>1. Newer(t, v) \cup {v} \subseteq Newer(t, u) /\ v \notin Newer(t, v)
  BY DEF Newer, Timed
<1>2. IsFiniteSet(Newer(t, v)) /\ IsFiniteSet(Newer(t, u))
  BY PlaceType
<1>3. /\ Cardinality(Newer(t, v) \cup {v}) = Cardinality(Newer(t, v)) + 1
      /\ Cardinality(Newer(t, v) \cup {v}) <= Cardinality(Newer(t, u))
  BY <1>1, <1>2, FS_AddElement, FS_Subset
<1>4. Cardinality(Newer(t, v)) \in Nat /\ Cardinality(Newer(t, u)) \in Nat
  BY <1>2, FS_CardinalityType
<1> QED
  BY <1>3, <1>4 DEF Place

LEMMA PlaceTells ==
    ASSUME NEW t, Timed(t), Distinct(t), NEW u \in DOMAIN t, NEW v \in DOMAIN t,
           Place(t, u) = Place(t, v)
    PROVE  u = v
<1>1. Place(t, u) \in Int /\ t[u].createdAt \in Nat /\ t[v].createdAt \in Nat
  BY PlaceType DEF Timed
<1>2. ~(t[u].createdAt > t[v].createdAt) /\ ~(t[v].createdAt > t[u].createdAt)
  BY <1>1, PlaceGrows
<1> QED
  BY <1>1, <1>2 DEF Distinct

LEMMA RowsTimed ==
    ASSUME TableSound
    PROVE  Timed(rows)
<1>1. IsFiniteSet(DOMAIN rows)
  BY UsersAssumption, FS_Subset DEF TableSound
<1>2. \A u \in DOMAIN rows : rows[u] \in Rows
  BY DEF TableSound
<1> QED
  BY <1>1, <1>2, UsersAssumption DEF Timed, Rows

(* A listing has every row, at its place. *)
LEMMA ListingInPlace ==
    ASSUME TableSound, Distinct(rows), NEW s \in Listings
    PROVE  /\ s \in Seq(DOMAIN rows) /\ Len(s) = Cardinality(DOMAIN rows)
           /\ InPlace(rows, s, 0)
<1> DEFINE S == DOMAIN rows
           n == Cardinality(S)
<1>1. /\ s \in [1 .. n -> S] /\ Newest(s)
      /\ \A i, j \in 1 .. n : i # j => s[i] # s[j]
  BY DEF Listings, SetToSeqs
<1>2. Timed(rows) /\ IsFiniteSet(S) /\ n \in Nat
  BY RowsTimed, FS_CardinalityType DEF Timed
<1>3. s \in Seq(S) /\ Len(s) = n /\ DOMAIN s = 1 .. n
  BY <1>1, <1>2
<1>4. \A v \in S : \E j \in 1 .. n : s[j] = v
  <2>1. s \in Injection(1 .. n, S)
    BY <1>1 DEF Injection, IsInjective
  <2>2. IsFiniteSet(1 .. n) /\ Cardinality(1 .. n) = n
    BY <1>2, FS_Interval
  <2>3. s \in Surjection(1 .. n, S)
    BY <1>2, <2>1, <2>2, FS_Injection
  <2> QED
    BY <2>3 DEF Surjection
<1>5. ASSUME NEW i \in 1 .. n
      PROVE  s[i] \in S /\ Place(rows, s[i]) = 0 + i - 1
  <2> DEFINE f == [j \in 1 .. i - 1 |-> s[j]]
             N == Newer(rows, s[i])
  <2>1. ASSUME NEW j \in 1 .. n
        PROVE  /\ rows[s[j]].createdAt \in Nat
               /\ j < i => rows[s[j]].createdAt > rows[s[i]].createdAt
               /\ j > i => rows[s[i]].createdAt >= rows[s[j]].createdAt
    <3>1. s[i] \in S /\ s[j] \in S /\ (j # i => s[j] # s[i])
      BY <1>1
    <3>2. rows[s[j]].createdAt \in Nat /\ rows[s[i]].createdAt \in Nat
      BY <1>2, <3>1 DEF Timed
    <3>3. j # i => rows[s[j]].createdAt # rows[s[i]].createdAt
      BY <3>1 DEF Distinct
    <3>4. /\ j < i => rows[s[j]].createdAt >= rows[s[i]].createdAt
          /\ j > i => rows[s[i]].createdAt >= rows[s[j]].createdAt
      BY <1>1, <1>3 DEF Newest
    <3> QED
      BY <3>2, <3>3, <3>4
  <2>2. i - 1 \in Nat /\ \A j \in 1 .. i - 1 : j \in 1 .. n /\ j < i
    BY <1>2
  <2>3. f \in [1 .. i - 1 -> N]
    BY <1>1, <2>1, <2>2 DEF Newer
  <2>4. \A v \in N : \E j \in 1 .. i - 1 : f[j] = v
    <3> SUFFICES ASSUME NEW v \in N
                 PROVE  \E j \in 1 .. i - 1 : f[j] = v
      OBVIOUS
    <3>1. v \in S /\ rows[v].createdAt > rows[s[i]].createdAt
      BY DEF Newer
    <3>2. PICK j \in 1 .. n : s[j] = v
      BY <1>4, <3>1
    <3>3. rows[s[i]].createdAt \in Nat /\ rows[s[j]].createdAt \in Nat
      BY <1>2, <2>1
    <3>4. j < i
      BY <2>1, <3>1, <3>2, <3>3
    <3> QED
      BY <3>2, <3>4, <1>2
  <2>5. \A j, k \in 1 .. i - 1 : f[j] = f[k] => j = k
    BY <1>1, <2>2
  <2>6. f \in Bijection(1 .. i - 1, N)
    BY <2>3, <2>4, <2>5 DEF Bijection, Injection, Surjection, IsInjective
  <2>7. IsFiniteSet(1 .. i - 1) /\ Cardinality(1 .. i - 1) = i - 1
    BY <2>2, FS_Interval
  <2>8. Cardinality(N) = i - 1
    <3>1. ExistsBijection(1 .. i - 1, N)
      BY <2>6 DEF ExistsBijection
    <3> QED
      BY <2>7, <3>1, FS_Bijection
  <2> QED
    BY <1>1, <2>8 DEF Place
<1> QED
  BY <1>3, <1>5 DEF InPlace

LEMMA AtMostIs ==
    ASSUME NEW a \in Int, NEW b \in Int
    PROVE  AtMost(a, b) \in {a, b} /\ AtMost(a, b) <= a /\ AtMost(a, b) <= b
BY DEF AtMost

LEMMA TakeInPlace ==
    ASSUME NEW t, NEW s \in Seq(DOMAIN t), InPlace(t, s, 0), NEW from \in Nat, NEW count \in Nat
    PROVE  InPlace(t, Take(s, from + 1, count), from)
<1> DEFINE page == Take(s, from + 1, count)
<1>1. from + 1 \in Nat \ {0}
  OBVIOUS
<1>2. /\ page \in Seq(DOMAIN t)
      /\ Len(page) = IF from + 1 > Len(s) THEN 0 ELSE AtMost(count, Len(s) - (from + 1) + 1)
      /\ \A i \in 1 .. Len(page) : page[i] = s[(from + 1) + i - 1]
  BY <1>1, TakeIs
<1> HIDE DEF page
<1>3. Len(s) \in Nat /\ DOMAIN s = 1 .. Len(s) /\ Len(page) \in Nat /\ DOMAIN page = 1 .. Len(page)
  BY <1>2
<1>4. ASSUME NEW i \in DOMAIN page
      PROVE  page[i] \in DOMAIN t /\ Place(t, page[i]) = from + i - 1
  <2>1. from + i \in 1 .. Len(s)
    <3>1. i \in 1 .. Len(page) /\ i \in Nat /\ Len(page) # 0
      BY <1>3, <1>4
    <3>2. Len(page) = AtMost(count, Len(s) - (from + 1) + 1)
      BY <1>2, <3>1
    <3>3. Len(s) - (from + 1) + 1 = Len(s) - from /\ Len(s) - from \in Int
      BY <1>3
    <3>4. Len(page) = AtMost(count, Len(s) - from)
      BY <3>2, <3>3
    <3>5. Len(page) <= Len(s) - from
      BY <3>3, <3>4, AtMostIs
    <3> QED
      BY <1>3, <3>1, <3>5
  <2>2. page[i] = s[from + i]
    BY <1>2, <1>3, <1>4
  <2>3. s[from + i] \in DOMAIN t /\ Place(t, s[from + i]) = 0 + (from + i) - 1
    BY <1>3, <2>1 DEF InPlace
  <2> QED
    BY <1>3, <1>4, <2>2, <2>3
<1> QED
  BY <1>4 DEF InPlace, page

LEMMA JoinInPlace ==
    ASSUME NEW t, NEW s1 \in Lists, NEW s2 \in Lists, InPlace(t, s1, 0), InPlace(t, s2, Len(s1))
    PROVE  /\ s1 \o s2 \in Lists /\ Len(s1 \o s2) = Len(s1) + Len(s2)
           /\ InPlace(t, s1 \o s2, 0)
<1> DEFINE s == s1 \o s2
<1>1. /\ s \in Lists /\ Len(s) = Len(s1) + Len(s2) /\ DOMAIN s = 1 .. Len(s1) + Len(s2)
      /\ Len(s1) \in Nat /\ Len(s2) \in Nat
      /\ DOMAIN s1 = 1 .. Len(s1) /\ DOMAIN s2 = 1 .. Len(s2)
      /\ \A i \in 1 .. Len(s1) + Len(s2) :
           s[i] = IF i <= Len(s1) THEN s1[i] ELSE s2[i - Len(s1)]
  BY DEF Lists
<1> HIDE DEF s
<1>2. ASSUME NEW i \in DOMAIN s
      PROVE  s[i] \in DOMAIN t /\ Place(t, s[i]) = 0 + i - 1
  <2>1. CASE i <= Len(s1)
    BY <1>1, <1>2, <2>1 DEF InPlace
  <2>2. CASE ~(i <= Len(s1))
    <3>1. i - Len(s1) \in 1 .. Len(s2) /\ s[i] = s2[i - Len(s1)]
      BY <1>1, <1>2, <2>2
    <3>2. s2[i - Len(s1)] \in DOMAIN t /\ Place(t, s2[i - Len(s1)]) = Len(s1) + (i - Len(s1)) - 1
      BY <1>1, <3>1 DEF InPlace
    <3> QED
      BY <1>1, <1>2, <3>1, <3>2
  <2> QED
    BY <2>1, <2>2
<1> QED
  BY <1>1, <1>2 DEF InPlace, s

(* A list with a row at every place has every row. *)
Members(s) == {s[i] : i \in DOMAIN s}

LEMMA AllInPlace ==
    ASSUME NEW t, Timed(t), Distinct(t), NEW s \in Lists, InPlace(t, s, 0),
           Len(s) = Cardinality(DOMAIN t)
    PROVE  Members(s) = DOMAIN t
<1>1. DOMAIN s = 1 .. Len(s) /\ Len(s) \in Nat
  BY DEF Lists
<1>2. \A i \in DOMAIN s : s[i] \in DOMAIN t
  BY DEF InPlace
<1>3. ASSUME NEW u \in DOMAIN t
      PROVE  \E i \in DOMAIN s : s[i] = u
  <2> DEFINE i == Place(t, u) + 1
  <2>1. Place(t, u) \in 0 .. Len(s) - 1
    BY PlaceType
  <2>2. i \in DOMAIN s /\ Place(t, u) = 0 + i - 1
    BY <1>1, <2>1
  <2> HIDE DEF i
  <2>3. s[i] \in DOMAIN t /\ Place(t, s[i]) = 0 + i - 1
    BY <2>2 DEF InPlace
  <2>4. s[i] = u
    BY <2>2, <2>3, PlaceTells
  <2> QED
    BY <2>2, <2>4
<1> QED
  BY <1>2, <1>3 DEF Members

(* There is a next page exactly if rows are left after this one. *)
LEMMA MorePages ==
    ASSUME NEW n \in Nat, NEW page \in Positive, NEW limit \in Positive
    PROVE  page < CeilDiv(n, limit) <=> page * limit < n
<1> DEFINE k == CeilDiv(n, limit)
<1>1. n + limit - 1 \in Nat /\ limit \in Nat /\ limit > 0 /\ page \in Nat
  BY DEF Positive
<1>2. k \in Nat /\ limit * k <= n + limit - 1 /\ n + limit - 1 < limit * k + limit
  BY <1>1 DEF CeilDiv
<1> HIDE DEF k
<1>3. CASE page < k
  <2>1. page + 1 <= k
    BY <1>1, <1>2, <1>3
  <2>2. limit * (page + 1) <= limit * k
    BY <1>1, <1>2, <2>1
  <2>3. limit * (page + 1) = page * limit + limit
    BY <1>1
  <2>4. page * limit \in Nat /\ limit * k \in Nat
    BY <1>1, <1>2
  <2> QED
    BY <1>1, <1>2, <1>3, <2>2, <2>3, <2>4 DEF k
<1>4. CASE ~(page < k)
  <2>1. k <= page
    BY <1>1, <1>2, <1>4
  <2>2. limit * k <= limit * page
    BY <1>1, <1>2, <2>1
  <2>3. limit * page = page * limit /\ page * limit \in Nat /\ limit * k \in Nat
    BY <1>1, <1>2
  <2> QED
    BY <1>1, <1>2, <1>4, <2>2, <2>3 DEF k
<1> QED
  BY <1>3, <1>4

(* A walk that nobody disturbed, of rows of different instants: what it has
   seen and what it has just read are in place. *)
OnTheWay(t, q) ==
    LET n == Cardinality(DOMAIN t) IN
    /\ Len(q.seen) = (q.page - 1) * q.limit /\ Len(q.seen) <= n
    /\ InPlace(t, q.seen, 0)
    /\ "items" \in q.got => /\ Len(q.items) = AtMost(q.limit, n - Len(q.seen))
                            /\ InPlace(t, q.items, Len(q.seen))
    /\ "total" \in q.got => q.total = n
WalkOf(t, q) == q.at = "page" /\ ~q.disturbed /\ Distinct(t) => OnTheWay(t, q)
Walks == \A r \in Requests : WalkOf(rows, req[r])

LEMMA OthersWalk ==
    ASSUME IInv, Walks, NEW r \in Requests, Others(r), NEW q \in Requests \ {r}
    PROVE  WalkOf(rows', req'[q])
<1>1. req[q] \in Request /\ WalkOf(rows, req[q])
  BY Known DEF Walks
<1>2. CASE req'[q] = [req[q] EXCEPT !.disturbed = TRUE]
  BY <1>1, <1>2, DisturbedType DEF WalkOf
<1>3. CASE req'[q] = req[q] /\ rows' = rows
  BY <1>1, <1>3
<1>4. CASE req'[q] = req[q] /\ ~InProgress(q)
  BY <1>4 DEF InProgress, WalkOf
<1> QED
  BY <1>2, <1>3, <1>4 DEF Others

LEMMA UpdateWalks ==
    ASSUME IInv, Walks, NEW r \in Requests, NEW new, WalkOf(rows', new),
           (Update(r, new) /\ UNCHANGED rows) \/ UpdateAndDisturb(r, new)
    PROVE  Walks'
<1>1. Others(r) /\ req'[r] = new
  BY UpdateOthers, DisturbOthers
<1> QED
  BY <1>1, OthersWalk DEF Walks

LEMMA ElsewhereWalks ==
    ASSUME IInv, Walks, NEW r \in Requests, NEW new, new.at # "page",
           (Update(r, new) /\ UNCHANGED rows) \/ UpdateAndDisturb(r, new)
    PROVE  Walks'
BY UpdateWalks DEF WalkOf

LEMMA AnswerWalks ==
    ASSUME IInv, Walks, NEW r \in Requests, NEW status, Answer(r, status), UNCHANGED rows
    PROVE  Walks'
<1>1. Answered(status).at # "page"
  BY DEF Answered, Idle
<1> QED
  BY <1>1, ElsewhereWalks DEF Answer

LEMMA UpdatesWalk ==
    ASSUME IInv, Walks, NEW r \in Requests,
           StartUpdate(r) \/ LookUpEmail(r) \/ LookUpUsername(r) \/ AuthLookUp(r)
           \/ AuthWrite(r) \/ Write(r) \/ ReadBack(r) \/ StartFind(r) \/ Delete(r)
           \/ ListByCursor(r) \/ StartSignUp(r) \/ LookUpSignUp(r) \/ Create(r) \/ QueryFails(r)
    PROVE  Walks'
<1>1. req[r] \in Request
  BY Known
<1>2. CASE StartUpdate(r)
  <2>1. PICK u \in DOMAIN rows \cup gone, body \in Profiles, channel \in {"http", "graphql"} :
           \/ Update(r, [Idle EXCEPT !.at = FirstStep(body), !.kind = "update", !.user = u,
                                     !.channel = channel, !.body = body])
           \/ Answer(r, 403)
    BY <1>2 DEF StartUpdate
  <2> DEFINE q == [Idle EXCEPT !.at = FirstStep(body), !.kind = "update", !.user = u,
                               !.channel = channel, !.body = body]
  <2>2. q.at # "page"
    BY DEF Idle, FirstStep, AfterEmail
  <2>3. UNCHANGED rows
    BY <1>2 DEF StartUpdate
  <2> HIDE DEF q
  <2>4. CASE Update(r, q)
    BY <2>2, <2>3, <2>4, ElsewhereWalks
  <2>5. CASE Answer(r, 403)
    BY <2>3, <2>5, AnswerWalks
  <2> QED
    BY <2>1, <2>4, <2>5 DEF q
<1>3. CASE LookUpEmail(r)
  <2>1. [req[r] EXCEPT !.at = AfterEmail(req[r].body)].at # "page"
    BY <1>1 DEF AfterEmail, Request
  <2> QED
    BY <1>3, <2>1, ElsewhereWalks, AnswerWalks DEF LookUpEmail
<1>4. CASE LookUpUsername(r)
  <2>1. \A change : [req[r] EXCEPT !.change = change,
                       !.at = IF change \/ req[r].body.image # None THEN "auth" ELSE "write"].at # "page"
    BY <1>1 DEF Request
  <2> QED
    BY <1>4, <2>1, ElsewhereWalks DEF LookUpUsername
<1>5. CASE AuthLookUp(r)
  <2>1. [req[r] EXCEPT !.at = "authWrite"].at # "page"
    BY <1>1 DEF Request
  <2> QED
    BY ZenonT(40), <1>5, <2>1, ElsewhereWalks, AnswerWalks DEF AuthLookUp
<1>6. CASE AuthWrite(r)
  <2>1. \A done : [req[r] EXCEPT !.at = "write", !.authDone = done].at # "page"
    BY <1>1 DEF Request
  <2> QED
    BY <1>6, <2>1, ElsewhereWalks, AnswerWalks DEF AuthWrite
<1>7. CASE Write(r)
  <2>1. [req[r] EXCEPT !.at = "read"].at # "page"
    BY <1>1 DEF Request
  <2> QED
    BY ZenonT(40), <1>7, <2>1, ElsewhereWalks, AnswerWalks DEF Write
<1>8. CASE ReadBack(r) \/ ListByCursor(r)
  BY <1>8, AnswerWalks DEF ReadBack, ListByCursor
<1>9. CASE StartFind(r)
  <2>1. \A u : [Idle EXCEPT !.at = "read", !.kind = "find", !.user = u].at # "page"
    BY DEF Idle
  <2> QED
    BY <1>9, <2>1, ElsewhereWalks DEF StartFind
<1>10. CASE Delete(r)
  <2>1. \A status : Answered(status).at # "page"
    BY DEF Answered, Idle
  <2> QED
    BY <1>10, <2>1, ElsewhereWalks, AnswerWalks DEF Delete
<1>11. CASE StartSignUp(r)
  <2>1. PICK body \in SignUps, channel \in {"email", "github"} :
           Update(r, [Idle EXCEPT !.at = "signUp", !.kind = "signUp", !.channel = channel,
                                 !.body = body])
    BY <1>11 DEF StartSignUp
  <2>2. [Idle EXCEPT !.at = "signUp", !.kind = "signUp", !.channel = channel,
                     !.body = body].at # "page"
    BY DEF Idle
  <2> QED
    BY <1>11, <2>1, <2>2, ElsewhereWalks DEF StartSignUp
<1>12. CASE LookUpSignUp(r)
  <2>1. [req[r] EXCEPT !.at = "create"].at # "page"
    BY <1>1 DEF Request
  <2> QED
    BY ZenonT(40), <1>12, <2>1, ElsewhereWalks, AnswerWalks DEF LookUpSignUp
<1>13. CASE Create(r)
  <2>1. Answered(200).at # "page"
    BY DEF Answered, Idle
  <2>2. \/ Answer(r, 500) /\ UNCHANGED rows
        \/ UpdateAndDisturb(r, Answered(200))
    BY <1>13 DEF Create
  <2> QED
    BY <2>1, <2>2, ElsewhereWalks, AnswerWalks
<1>14. CASE QueryFails(r)
  <2>1. Failed.at # "page"
    BY DEF Failed, Answered, Idle
  <2> QED
    BY <1>14, <2>1, ElsewhereWalks DEF QueryFails
<1> QED
  BY <1>2, <1>3, <1>4, <1>5, <1>6, <1>7, <1>8, <1>9, <1>10, <1>11, <1>12, <1>13, <1>14

LEMMA StartWalkWalks ==
    ASSUME IInv, Walks, NEW r \in Requests, StartWalk(r)
    PROVE  Walks'
<1>1. PICK limit \in Limits :
         Update(r, [Idle EXCEPT !.at = "page", !.kind = "walk", !.limit = limit])
  BY DEF StartWalk
<1> DEFINE q == [Idle EXCEPT !.at = "page", !.kind = "walk", !.limit = limit]
<1>2. q.seen = <<>> /\ q.got = {} /\ q.page = 1 /\ q.limit = limit
  BY DEF Idle
<1>3. UNCHANGED rows /\ Cardinality(DOMAIN rows) \in Nat /\ limit \in Nat
  BY RowsFinite, UsersAssumption DEF StartWalk, IInv
<1> HIDE DEF q
<1>4. Len(q.seen) = 0 /\ (q.page - 1) * q.limit = 0 /\ DOMAIN q.seen = {}
  BY <1>2, <1>3
<1>5. InPlace(rows, q.seen, 0)
  BY <1>4 DEF InPlace
<1>6. OnTheWay(rows, q)
  BY <1>2, <1>3, <1>4, <1>5 DEF OnTheWay
<1> QED
  BY <1>1, <1>3, <1>6, UpdateWalks DEF WalkOf, q

LEMMA QueryItemsWalks ==
    ASSUME IInv, Walks, NEW r \in Requests, QueryItems(r)
    PROVE  Walks'
<1>1. PICK s \in Listings :
         Update(r, [req[r] EXCEPT !.got = @ \cup {"items"},
                                 !.items = OffsetPage(s, req[r].page, req[r].limit)])
  BY DEF QueryItems
<1> DEFINE old == req[r]
           items == OffsetPage(s, old.page, old.limit)
           q == [old EXCEPT !.got = old.got \cup {"items"}, !.items = items]
           n == Cardinality(DOMAIN rows)
<1>2. old \in Request /\ WalkOf(rows, old) /\ old.at = "page" /\ rows' = rows /\ TableSound
  BY Known DEF Walks, QueryItems, IInv
<1>3. Update(r, q)
  BY <1>1
<1>4. /\ q.got = old.got \cup {"items"} /\ q.items = items /\ q.at = "page"
      /\ q.seen = old.seen /\ q.page = old.page /\ q.limit = old.limit /\ q.total = old.total
      /\ q.disturbed = old.disturbed
  BY <1>2 DEF Request
<1>5. /\ old.page \in Positive /\ old.limit \in Positive /\ old.seen \in Lists /\ n \in Nat
  BY <1>2, RowsFinite DEF Request
<1> HIDE DEF q, items
<1>6. ASSUME ~old.disturbed, Distinct(rows)
      PROVE  OnTheWay(rows, q)
  <2> DEFINE from == Len(old.seen)
  <2>1. OnTheWay(rows, old)
    BY <1>2, <1>6 DEF WalkOf
  <2>2. from = (old.page - 1) * old.limit /\ from <= n /\ from \in Nat
    BY <1>5, <2>1 DEF OnTheWay, Lists
  <2>3. s \in Seq(DOMAIN rows) /\ Len(s) = n /\ InPlace(rows, s, 0)
    BY <1>2, <1>6, ListingInPlace
  <2>4. old.limit \in Nat
    BY <1>5 DEF Positive
  <2>5. items = Take(s, from + 1, old.limit)
    BY <2>2 DEF items, OffsetPage
  <2> HIDE DEF from
  <2>6. InPlace(rows, items, from)
    BY <2>2, <2>3, <2>4, <2>5, TakeInPlace
  <2>7. Len(items) = AtMost(old.limit, n - from)
    <3>1. Len(items) = IF from + 1 > n THEN 0 ELSE AtMost(old.limit, n - (from + 1) + 1)
      <4>1. from + 1 \in Nat \ {0}
        BY <2>2
      <4> QED
        BY <2>3, <2>4, <2>5, <4>1, TakeIs
    <3>2. n - (from + 1) + 1 = n - from
      BY <1>5, <2>2
    <3>3. CASE from = n
      <4>1. n - from = 0 /\ from + 1 > n
        BY <1>5, <3>3
      <4>2. AtMost(old.limit, 0) = 0
        BY <2>4 DEF AtMost
      <4> QED
        BY <3>1, <4>1, <4>2
    <3>4. CASE from # n
      <4>1. ~(from + 1 > n)
        BY <1>5, <2>2, <3>4
      <4> QED
        BY <3>1, <3>2, <4>1
    <3> QED
      BY <3>3, <3>4
  <2>8. "total" \in q.got => q.total = n
    BY <1>4, <2>1 DEF OnTheWay
  <2>9. Len(q.seen) = (q.page - 1) * q.limit /\ Len(q.seen) <= n /\ InPlace(rows, q.seen, 0)
    BY <1>4, <2>1 DEF OnTheWay
  <2> QED
    BY <1>4, <2>6, <2>7, <2>8, <2>9 DEF OnTheWay, from
<1> QED
  BY <1>2, <1>3, <1>4, <1>6, UpdateWalks DEF WalkOf

LEMMA QueryTotalWalks ==
    ASSUME IInv, Walks, NEW r \in Requests, QueryTotal(r)
    PROVE  Walks'
<1> DEFINE old == req[r]
           n == Cardinality(DOMAIN rows)
           q == [old EXCEPT !.got = old.got \cup {"total"}, !.total = n]
<1>1. old \in Request /\ WalkOf(rows, old) /\ old.at = "page" /\ rows' = rows
  BY Known DEF Walks, QueryTotal
<1>2. Update(r, q)
  BY DEF QueryTotal
<1>3. /\ q.got = old.got \cup {"total"} /\ q.total = n /\ q.at = "page"
      /\ q.seen = old.seen /\ q.page = old.page /\ q.limit = old.limit /\ q.items = old.items
      /\ q.disturbed = old.disturbed
  BY <1>1 DEF Request
<1> HIDE DEF q
<1>4. ASSUME OnTheWay(rows, old)
      PROVE  OnTheWay(rows, q)
  BY <1>3, <1>4 DEF OnTheWay
<1> QED
  BY <1>1, <1>2, <1>3, <1>4, UpdateWalks DEF WalkOf

(* What a walk has seen once its page is answered. *)
LEMMA PageSeen ==
    ASSUME IInv, Walks, NEW r \in Requests, AnswerPage(r),
           ~req[r].disturbed, Distinct(rows)
    PROVE  LET q == req[r]
               n == Cardinality(DOMAIN rows)
               all == q.seen \o q.items
           IN /\ all \in Lists /\ InPlace(rows, all, 0)
              /\ Len(all) = AtMost(q.page * q.limit, n)
              /\ Pages(r).currentPage < Pages(r).totalPages <=> q.page * q.limit < n
<1> DEFINE q == req[r]
           n == Cardinality(DOMAIN rows)
           k == Len(q.seen)
<1>1. /\ q \in Request /\ OnTheWay(rows, q) /\ q.got = {"items", "total"} /\ n \in Nat
  BY Known, RowsFinite DEF Walks, WalkOf, AnswerPage, IInv
<1>2. q.page \in Positive /\ q.limit \in Positive /\ q.seen \in Lists /\ q.items \in Lists
  BY <1>1 DEF Request
<1>3. /\ k = (q.page - 1) * q.limit /\ k <= n /\ InPlace(rows, q.seen, 0)
      /\ Len(q.items) = AtMost(q.limit, n - k) /\ InPlace(rows, q.items, k) /\ q.total = n
  BY <1>1 DEF OnTheWay
<1>4. k \in Nat
  BY <1>2 DEF Lists
<1>5. /\ q.seen \o q.items \in Lists /\ InPlace(rows, q.seen \o q.items, 0)
      /\ Len(q.seen \o q.items) = k + Len(q.items)
  BY <1>2, <1>3, JoinInPlace
<1>6. q.page * q.limit = k + q.limit /\ q.limit \in Nat /\ q.page * q.limit \in Nat
  <2>1. q.page \in Nat /\ q.limit \in Nat
    BY <1>2 DEF Positive
  <2>2. (q.page - 1) * q.limit = q.page * q.limit - q.limit /\ q.page * q.limit \in Nat
    BY <2>1
  <2> QED
    BY <1>3, <1>4, <2>1, <2>2
<1>7. Pages(r).currentPage = q.page /\ Pages(r).totalPages = CeilDiv(n, q.limit)
  <2>1. q.limit > 0
    BY <1>2 DEF Positive
  <2> QED
    BY <1>3, <2>1 DEF Pages, OffsetPaginationDto
<1>8. Pages(r).currentPage < Pages(r).totalPages <=> q.page * q.limit < n
  BY <1>1, <1>2, <1>7, MorePages
<1> HIDE DEF k, n
<1>9. k + AtMost(q.limit, n - k) = AtMost(k + q.limit, n)
  BY <1>1, <1>4, <1>6 DEF AtMost
<1> QED
  BY <1>3, <1>5, <1>6, <1>8, <1>9 DEF k, n

LEMMA AnswerPageWalks ==
    ASSUME IInv, Walks, NEW r \in Requests, AnswerPage(r)
    PROVE  Walks'
<1> DEFINE old == req[r]
           n == Cardinality(DOMAIN rows)
           seen == old.seen \o old.items
           q == [old EXCEPT !.seen = seen, !.page = old.page + 1,
                            !.got = {}, !.items = <<>>, !.total = 0]
<1>1. old \in Request /\ rows' = rows /\ old.at = "page"
  BY Known DEF AnswerPage
<1>2. CASE Answer(r, 200)
  BY <1>1, <1>2, AnswerWalks
<1>3. CASE Update(r, q) /\ Pages(r).currentPage < Pages(r).totalPages
  <2>1. /\ q.seen = seen /\ q.page = old.page + 1 /\ q.got = {} /\ q.limit = old.limit
        /\ q.disturbed = old.disturbed
    BY <1>1 DEF Request
  <2> HIDE DEF q, seen
  <2>2. ASSUME ~old.disturbed, Distinct(rows)
        PROVE  OnTheWay(rows, q)
    <3>1. /\ InPlace(rows, seen, 0) /\ Len(seen) = AtMost(old.page * old.limit, n)
          /\ old.page * old.limit < n
      BY <1>3, <2>2, PageSeen DEF seen
    <3>2. Len(seen) = old.page * old.limit
      BY <3>1 DEF AtMost
    <3>3. (q.page - 1) * q.limit = old.page * old.limit
      <4>1. old.page \in Nat
        BY <1>1 DEF Request, Positive
      <4>2. q.page - 1 = old.page
        BY <2>1, <4>1
      <4> QED
        BY <2>1, <4>2
    <3>4. Len(q.seen) <= n
      <4>1. n \in Nat /\ old.page * old.limit \in Nat
        BY <1>1, RowsFinite DEF IInv, Request, Positive
      <4> QED
        BY <2>1, <3>1, <3>2, <4>1
    <3> QED
      BY <2>1, <3>1, <3>2, <3>3, <3>4 DEF OnTheWay
  <2> QED
    BY <1>1, <1>3, <2>1, <2>2, UpdateWalks DEF WalkOf
<1> QED
  BY <1>2, <1>3 DEF AnswerPage

LEMMA WalksInit == Init => Walks
BY DEF Init, Walks, WalkOf, Idle

LEMMA WalksStep == IInv /\ Walks /\ [Next]_vars => Walks'
<1> SUFFICES ASSUME IInv, Walks, [Next]_vars PROVE Walks'
  OBVIOUS
<1>1. ASSUME NEW r \in Requests, RequestStep(r) PROVE Walks'
  BY <1>1, UpdatesWalk, StartWalkWalks, QueryItemsWalks, QueryTotalWalks, AnswerPageWalks
     DEF RequestStep
<1>2. CASE UNCHANGED vars
  BY <1>2 DEF vars, Walks
<1> QED
  BY <1>1, <1>2, PossibleSteps

THEOREM WalksInvariance == Spec => [](IInv /\ Walks)
<1>1. Init => IInv /\ Walks
  BY InvInit, WalksInit
<1>2. IInv /\ Walks /\ [Next]_vars => (IInv /\ Walks)'
  BY InvStep, WalksStep
<1> QED
  BY <1>1, <1>2, PTL DEF Spec

(* Only the answer to its last page ends a walk well. *)
LEMMA WalkEnds ==
    ASSUME IInv, [Next]_vars, NEW r \in Requests,
           req[r].kind = "walk", req[r].at # "done", req'[r].status = 200
    PROVE  AnswerPage(r) /\ ~(Pages(r).currentPage < Pages(r).totalPages)
<1>1. req[r] \in Request /\ req[r].at = "page" /\ req[r].status = 0
  BY Known DEF RequestSound, Request, Steps, Updating, None
<1>2. CASE UNCHANGED vars
  BY <1>1, <1>2 DEF vars
<1>3. ASSUME NEW q \in Requests, RequestStep(q)
      PROVE  AnswerPage(r) /\ ~(Pages(r).currentPage < Pages(r).totalPages)
  <2>1. q = r
    BY <1>1, <1>3, StepsStay DEF Stay
  <2>2. QueryItems(r) \/ QueryTotal(r) \/ AnswerPage(r) \/ QueryFails(r)
    BY <1>1, <1>3, <2>1 DEF RequestStep, StartUpdate, LookUpEmail, LookUpUsername, AuthLookUp,
       AuthWrite, Write, ReadBack, StartFind, Delete, StartWalk, ListByCursor, StartSignUp, LookUpSignUp, Create
  <2>3. ASSUME NEW new, new.status # 200, Update(r, new) PROVE FALSE
    BY <2>3 DEF Update, IInv
  <2>4. ASSUME QueryItems(r) PROVE FALSE
    <3>1. PICK s \in Listings :
            Update(r, [req[r] EXCEPT !.got = @ \cup {"items"},
                                    !.items = OffsetPage(s, req[r].page, req[r].limit)])
      BY <2>4 DEF QueryItems
    <3>2. [req[r] EXCEPT !.got = @ \cup {"items"},
                        !.items = OffsetPage(s, req[r].page, req[r].limit)].status # 200
      BY <1>1 DEF Request
    <3> QED
      BY <2>3, <3>1, <3>2
  <2>5. ASSUME QueryTotal(r) PROVE FALSE
    <3>1. [req[r] EXCEPT !.got = @ \cup {"total"}, !.total = Cardinality(DOMAIN rows)].status # 200
      BY <1>1 DEF Request
    <3> QED
      BY <2>3, <2>5, <3>1 DEF QueryTotal
  <2>6. ASSUME Pages(r).currentPage < Pages(r).totalPages, AnswerPage(r) PROVE FALSE
    <3>1. [req[r] EXCEPT !.seen = @ \o req[r].items, !.page = @ + 1,
                         !.got = {}, !.items = <<>>, !.total = 0].status # 200
      BY <1>1 DEF Request
    <3> QED
      BY <2>3, <2>6, <3>1 DEF AnswerPage
  <2>7. ASSUME QueryFails(r) PROVE FALSE
    <3>1. Failed.status # 200
      BY DEF Failed, Answered, Idle
    <3> QED
      BY <2>3, <2>7, <3>1 DEF QueryFails
  <2> QED
    BY <2>2, <2>4, <2>5, <2>6, <2>7
<1> QED
  BY <1>2, <1>3, PossibleSteps

(* WalkSeesEachUserOnce: a client that has walked through all pages has seen
   every user once, unless a write came between or two users were created at
   one instant. *)
THEOREM WalkIsWhole == Spec => WalkSeesEachUserOnce
<1>1. ASSUME IInv, Walks, [Next]_vars
      PROVE  [\A r \in Requests :
                req[r].kind = "walk" /\ req[r].at # "done" /\ req'[r].status = 200
                  /\ ~req[r].disturbed /\ ~SameInstant =>
                  LET seen == req[r].seen \o req[r].items IN
                  /\ Len(seen) = Cardinality(DOMAIN rows)
                  /\ {seen[i] : i \in DOMAIN seen} = DOMAIN rows]_vars
  <2> SUFFICES ASSUME NEW r \in Requests, req[r].kind = "walk", req[r].at # "done",
                      req'[r].status = 200, ~req[r].disturbed, ~SameInstant
               PROVE  LET seen == req[r].seen \o req[r].items IN
                      /\ Len(seen) = Cardinality(DOMAIN rows)
                      /\ {seen[i] : i \in DOMAIN seen} = DOMAIN rows
    OBVIOUS
  <2> DEFINE seen == req[r].seen \o req[r].items
             n == Cardinality(DOMAIN rows)
  <2>1. AnswerPage(r) /\ ~(Pages(r).currentPage < Pages(r).totalPages)
    BY <1>1, WalkEnds
  <2>2. Distinct(rows)
    BY DEF SameInstant, Distinct
  <2>3. /\ seen \in Lists /\ InPlace(rows, seen, 0) /\ Len(seen) = AtMost(req[r].page * req[r].limit, n)
        /\ ~(req[r].page * req[r].limit < n)
    BY <1>1, <2>1, <2>2, PageSeen
  <2>4. Len(seen) = n
    BY <2>3 DEF AtMost
  <2>5. Timed(rows)
    BY <1>1, RowsTimed DEF IInv
  <2> HIDE DEF seen
  <2>6. seen \in Lists /\ InPlace(rows, seen, 0)
    BY <2>3
  <2>7. Members(seen) = DOMAIN rows
    BY <2>2, <2>4, <2>5, <2>6, AllInPlace
  <2> QED
    BY <2>4, <2>7 DEF seen, Members
<1> QED
  BY <1>1, WalksInvariance, PTL DEF Spec, WalkSeesEachUserOnce
=============================================================================
