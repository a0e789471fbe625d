--------------------------- MODULE AuthMail_proofs ---------------------------
(* Proofs about AuthMail, for any users, kinds of mail, jobs, workers, requests
   and life of the markers. *)
EXTENDS AuthMail, EmailQueue_proofs

(* A request names an address if it is for a magic link and a user otherwise,
   and looked at the marker in the past; the job it queued is of its kind and
   counts for its user. *)
RequestSound(r) ==
    LET q == req[r]
    IN  /\ q.at # "idle" => IF q.kind = "signin" THEN q.address \in Emails
                                                  ELSE q.address = None
        /\ q.at = "FindUser" => q.kind = "signin"
        /\ q.at \in {"CheckTtl", "Add", "SetMarker"} => q.user \in Users
        /\ q.checked <= now
        /\ q.at = "SetMarker" =>
             /\ q.job \in Jobs /\ Queued(q.job)
             /\ job[q.job].data.kind = q.kind /\ mail[q.job].user = q.user

(* A mail was queued after its request looked at the marker, and the marker was
   set after that. *)
MailSound(j) ==
    Queued(j) =>
      /\ mail[j].checked <= mail[j].queued /\ mail[j].queued <= now
      /\ mail[j].user \in Users
      /\ \A m \in mail[j].marked : mail[j].queued <= m /\ m <= now

(* A marker lives for Window from any mail that set it, and not beyond Window
   from now: setting it again never shortens its life. *)
MarkerSound(k, u) ==
    /\ marker[k][u] <= now + Window
    /\ \A j \in Jobs :
         Queued(j) /\ job[j].data.kind = k /\ mail[j].user = u =>
           \A m \in mail[j].marked : m + Window <= marker[k][u]
    /\ marker[k][u] > 0 =>
         \E j \in Jobs : Queued(j) /\ job[j].data.kind = k /\ mail[j].user = u

(* Whoever looked at a marker after a mail had set it, and went on, did so a
   Window later. *)
Waited(checked, k, u) ==
    \A j \in Jobs :
      Queued(j) /\ job[j].data.kind = k /\ mail[j].user = u =>
        \A m \in mail[j].marked : m < checked => m + Window <= checked

IInv ==
    /\ TypeOK
    /\ QueueInv
    /\ \A r \in Requests : RequestSound(r)
    /\ \A j \in Jobs : MailSound(j)
    /\ \A k \in Kinds, u \in Users : MarkerSound(k, u)
    /\ \A r \in Requests :
         req[r].at \in {"Add", "SetMarker"} => Waited(req[r].checked, req[r].kind, req[r].user)
    /\ \A j \in Jobs : Queued(j) => Waited(mail[j].checked, job[j].data.kind, mail[j].user)

-----------------------------------------------------------------------------
(* The steps of one request. *)
RequestStep(r) ==
    \/ \E k \in Kinds \ {"signin"}, u \in Users : BeginForUser(r, k, u)
    \/ \E k \in Kinds \cap {"signin"}, e \in Emails : BeginSignin(r, e)
    \/ FindUser(r) \/ CheckTtl(r) \/ RequestFails(r)

(* A step of the queue or of the accounts, which the requests do not see. *)
QueueOrAccountStep ==
    /\ \/ QueueStep /\ UNCHANGED email
       \/ AccountStep /\ UNCHANGED jobVars
    /\ UNCHANGED <<marker, req, mail, now>>

LEMMA MailCases ==
    [Next]_vars =>
        \/ \E r \in Requests : RequestStep(r)
        \/ \E r \in Requests, j \in Jobs : Add(r, j)
        \/ \E r \in Requests : SetMarker(r)
        \/ QueueOrAccountStep
        \/ Tick
        \/ UNCHANGED vars
BY DEF Next, RequestStep, QueueOrAccountStep

(* A step of one request other than Add and SetMarker changes that request only. *)
LEMMA RequestFrame ==
    ASSUME NEW r \in Requests, RequestStep(r)
    PROVE  UNCHANGED <<email, job, worker, marker, mail, now>>
BY DEF RequestStep, BeginForUser, BeginSignin, Begin, FindUser, CheckTtl, RequestFails, queueVars

LEMMA SetMarkerFrame ==
    ASSUME NEW r \in Requests, SetMarker(r)
    PROVE  UNCHANGED <<email, job, worker, now>>
BY DEF SetMarker, queueVars

(* What add is given is what the queue's own specification lets a request queue. *)
LEMMA DataIsRequested ==
    ASSUME TypeOK, NEW r \in Requests, RequestSound(r), req[r].at = "Add"
    PROVE  DataOf(r) \in Requested(req[r].kind)
<1>1. req[r].kind \in Kinds /\ req[r].user \in Users
  BY DEF TypeOK, Request, RequestSound
<1>2. CASE req[r].kind = "signin"
  BY <1>1, <1>2 DEF RequestSound, DataOf, Requested
<1>3. CASE req[r].kind # "signin"
  BY <1>1, <1>3 DEF RequestSound, DataOf, Requested
<1> QED
  BY <1>2, <1>3

(* Every step is a step of the queue, or leaves the queue alone. *)
LEMMA StepOfQueue ==
    ASSUME TypeOK, \A r \in Requests : RequestSound(r), [Next]_vars
    PROVE  [QueueNext]_queueVars
<1>1. ASSUME NEW r \in Requests, RequestStep(r) \/ SetMarker(r)
      PROVE  UNCHANGED queueVars
  BY <1>1, RequestFrame, SetMarkerFrame DEF queueVars
<1>2. ASSUME NEW r \in Requests, NEW j \in Jobs, Add(r, j)
      PROVE  QueueNext
  <2>1. req[r].kind \in Kinds /\ DataOf(r) \in Requested(req[r].kind)
    BY <1>2, DataIsRequested DEF Add, TypeOK, Request
  <2> QED  BY <1>2, <2>1 DEF Add, QueueNext
<1>3. CASE QueueOrAccountStep
  BY <1>3 DEF QueueOrAccountStep, QueueNext
<1>4. CASE Tick \/ UNCHANGED vars
  BY <1>4 DEF Tick, vars, queueVars
<1> QED
  BY <1>1, <1>2, <1>3, <1>4, MailCases

-----------------------------------------------------------------------------
LEMMA MailTypeInit == Init => TypeOK
<1> SUFFICES ASSUME Init PROVE TypeOK
  OBVIOUS
<1>1. QueueTypeOK
  BY QueueTypeInit DEF Init
<1>2. req \in [Requests -> Request] /\ \A r \in Requests : req[r].at = "idle"
  BY SomeKind DEF Init, Request
<1>3. mail \in [Jobs -> Mail]
  BY DEF Init, Mail
<1>4. now \in 0..MaxTime /\ marker \in [Kinds -> [Users -> Nat]]
  BY MailAssumption DEF Init
<1> QED
  BY <1>1, <1>2, <1>3, <1>4 DEF TypeOK

EndedRequest(k) ==
    [at |-> "idle", kind |-> k, user |-> None, address |-> None, checked |-> 0, job |-> None]

LEMMA RequestTypes ==
    ASSUME TypeOK, NEW r \in Requests
    PROVE  /\ now \in Nat /\ req[r] \in Request
           /\ \A k \in Kinds : EndedRequest(k) \in Request
           /\ \A k \in Kinds, u \in Users \cup {None}, e \in Emails \cup {None},
                 a \in {"FindUser", "CheckTtl"} :
                [at |-> a, kind |-> k, user |-> u, address |-> e,
                 checked |-> 0, job |-> None] \in Request
           /\ \A u \in Users : [req[r] EXCEPT !.at = "CheckTtl", !.user = u] \in Request
           /\ [req[r] EXCEPT !.at = "Add", !.checked = now] \in Request
           /\ \A j \in Jobs : [req[r] EXCEPT !.at = "SetMarker", !.job = j] \in Request
<1>1. now \in Nat /\ req[r] \in Request
  BY MailAssumption DEF TypeOK
<1> QED
  BY <1>1 DEF Request, EndedRequest

LEMMA ReplaceRequest ==
    ASSUME TypeOK, NEW r \in Requests, NEW q \in Request, req' = [req EXCEPT ![r] = q],
           q.at \in {"CheckTtl", "Add", "SetMarker"} => q.user \in Users,
           q.at = "SetMarker" => q.job \in Jobs
    PROVE  /\ req' \in [Requests -> Request]
           /\ \A x \in Requests :
                /\ req'[x].at \in {"CheckTtl", "Add", "SetMarker"} => req'[x].user \in Users
                /\ req'[x].at = "SetMarker" => req'[x].job \in Jobs
BY DEF TypeOK

RequestsTyped ==
    /\ req \in [Requests -> Request]
    /\ \A x \in Requests :
         /\ req[x].at \in {"CheckTtl", "Add", "SetMarker"} => req[x].user \in Users
         /\ req[x].at = "SetMarker" => req[x].job \in Jobs

LEMMA EndsType ==
    ASSUME TypeOK, NEW r \in Requests, Ends(r)
    PROVE  RequestsTyped'
<1>1. EndedRequest(AnyKind) \in Request /\ req' = [req EXCEPT ![r] = EndedRequest(AnyKind)]
  BY RequestTypes, SomeKind DEF Ends, EndedRequest, TypeOK, Request
<1> QED
  BY <1>1, ReplaceRequest DEF RequestsTyped, EndedRequest

LEMMA RequestsType ==
    ASSUME TypeOK, [Next]_vars
    PROVE  RequestsTyped'
<1>1. ASSUME NEW r \in Requests, NEW k \in Kinds, NEW u \in Users, BeginForUser(r, k, u)
      PROVE  RequestsTyped'
  BY <1>1, RequestTypes, ReplaceRequest DEF BeginForUser, Begin, RequestsTyped
<1>2. ASSUME NEW r \in Requests, NEW k \in Kinds \cap {"signin"}, NEW e \in Emails,
             BeginSignin(r, e)
      PROVE  RequestsTyped'
  BY <1>2, RequestTypes, ReplaceRequest DEF BeginSignin, Begin, RequestsTyped
<1>3. ASSUME NEW r \in Requests, FindUser(r) PROVE RequestsTyped'
  <2>1. CASE Ends(r)
    BY <2>1, EndsType
  <2>2. CASE ~Ends(r)
    <3>1. PICK u \in Users :
            req' = [req EXCEPT ![r] = [req[r] EXCEPT !.at = "CheckTtl", !.user = u]]
      BY <1>3, <2>2 DEF FindUser, Holders
    <3> DEFINE q == [req[r] EXCEPT !.at = "CheckTtl", !.user = u]
    <3>2. q \in Request /\ req[r] \in Request
      BY RequestTypes
    <3>3. q.user = u /\ q.at = "CheckTtl"
      BY <3>2 DEF Request
    <3>4. req' = [req EXCEPT ![r] = q]
      BY <3>1
    <3> HIDE DEF q
    <3> QED  BY <3>2, <3>3, <3>4, ReplaceRequest DEF RequestsTyped
  <2> QED  BY <2>1, <2>2
<1>4. ASSUME NEW r \in Requests, CheckTtl(r) PROVE RequestsTyped'
  <2>1. CASE Ends(r)
    BY <2>1, EndsType
  <2>2. CASE ~Ends(r)
    <3> DEFINE q == [req[r] EXCEPT !.at = "Add", !.checked = now]
    <3>1. req' = [req EXCEPT ![r] = q]
      BY <1>4, <2>2 DEF CheckTtl, Checked
    <3>2. q \in Request
      BY RequestTypes
    <3>3. req[r] \in Request /\ req[r].user \in Users
      BY <1>4 DEF CheckTtl, TypeOK
    <3>4. q.user \in Users /\ q.at = "Add"
      BY <3>3 DEF Request
    <3> HIDE DEF q
    <3> QED  BY <3>1, <3>2, <3>4, ReplaceRequest DEF RequestsTyped
  <2> QED  BY <2>1, <2>2
<1>5. ASSUME NEW r \in Requests, NEW j \in Jobs, Add(r, j) PROVE RequestsTyped'
  <2> DEFINE q == [req[r] EXCEPT !.at = "SetMarker", !.job = j]
  <2>1. req' = [req EXCEPT ![r] = q]
    BY <1>5 DEF Add
  <2>2. q \in Request /\ req[r] \in Request
    BY RequestTypes
  <2>3. req[r].user \in Users
    BY <1>5 DEF Add, TypeOK
  <2>4. q.user \in Users /\ q.job = j
    BY <2>2, <2>3 DEF Request
  <2> HIDE DEF q
  <2> QED  BY <2>1, <2>2, <2>4, ReplaceRequest DEF RequestsTyped
<1>6. ASSUME NEW r \in Requests, SetMarker(r) \/ RequestFails(r) PROVE RequestsTyped'
  BY <1>6, EndsType DEF SetMarker, RequestFails
<1>7. CASE UNCHANGED req
  BY <1>7 DEF TypeOK, RequestsTyped
<1> QED
  BY <1>1, <1>2, <1>3, <1>4, <1>5, <1>6, <1>7, MailCases DEF RequestStep, QueueOrAccountStep, Tick, vars

LEMMA MailTypeStep ==
    ASSUME TypeOK, \A r \in Requests : RequestSound(r), [Next]_vars
    PROVE  TypeOK'
<1>1. QueueTypeOK'
  BY StepOfQueue, QueueTypeStep DEF TypeOK
<1>2. RequestsTyped'
  BY RequestsType
<1>3. now' \in 0..MaxTime
  <2>1. now' = now \/ Tick
    BY MailCases, RequestFrame, SetMarkerFrame DEF Add, QueueOrAccountStep, vars
  <2> QED  BY <2>1, MailAssumption DEF Tick, TypeOK
<1>4. marker' \in [Kinds -> [Users -> Nat]]
  <2>1. ASSUME NEW r \in Requests, SetMarker(r) PROVE marker' \in [Kinds -> [Users -> Nat]]
    <3>1. now + Window \in Nat
      BY MailAssumption DEF TypeOK
    <3> QED  BY <2>1, <3>1 DEF SetMarker, Marked, TypeOK
  <2>2. marker' = marker \/ \E r \in Requests : SetMarker(r)
    BY MailCases, RequestFrame DEF Add, QueueOrAccountStep, Tick, vars
  <2> QED  BY <2>1, <2>2 DEF TypeOK
<1>5. mail' \in [Jobs -> Mail]
  <2>1. ASSUME NEW r \in Requests, NEW j \in Jobs, Add(r, j) PROVE mail' \in [Jobs -> Mail]
    <3>1. [user |-> req[r].user, checked |-> req[r].checked, queued |-> now, marked |-> {}]
            \in Mail
      BY RequestTypes DEF Mail, Request
    <3> QED  BY <2>1, <3>1 DEF Add, TypeOK
  <2>2. ASSUME NEW r \in Requests, SetMarker(r) PROVE mail' \in [Jobs -> Mail]
    <3>1. req[r].job \in Jobs /\ now \in Nat
      BY <2>2, RequestTypes DEF SetMarker, TypeOK
    <3> QED  BY <2>2, <3>1 DEF SetMarker, TypeOK, Mail
  <2>3. \/ mail' = mail
        \/ \E r \in Requests, j \in Jobs : Add(r, j)
        \/ \E r \in Requests : SetMarker(r)
    BY MailCases, RequestFrame DEF QueueOrAccountStep, Tick, vars
  <2> QED  BY <2>1, <2>2, <2>3 DEF TypeOK
<1> QED
  BY <1>1, <1>2, <1>3, <1>4, <1>5 DEF TypeOK, RequestsTyped

-----------------------------------------------------------------------------
(* A queued job keeps its data and what is recorded of it, except that its
   request marks it. *)
LEMMA MailKept ==
    ASSUME IInv, [Next]_vars, NEW j \in Jobs, Queued(j)
    PROVE  /\ Queued(j)' /\ job'[j].data = job[j].data
           /\ mail'[j].user = mail[j].user /\ mail'[j].checked = mail[j].checked
           /\ mail'[j].queued = mail[j].queued
           /\ \/ mail'[j].marked = mail[j].marked
              \/ \E r \in Requests : SetMarker(r) /\ req[r].job = j /\ mail'[j].marked = {now}
<1>1. Queued(j)' /\ job'[j].data = job[j].data
  BY StepOfQueue, JobStep DEF IInv, Kept, Queued
<1>2. ASSUME NEW r \in Requests, NEW i \in Jobs, Add(r, i) PROVE mail'[j] = mail[j]
  BY <1>2 DEF Add, Enqueue, Queued, IInv, TypeOK
<1>3. ASSUME NEW r \in Requests, SetMarker(r)
      PROVE  /\ mail'[j].user = mail[j].user /\ mail'[j].checked = mail[j].checked
             /\ mail'[j].queued = mail[j].queued
             /\ \/ mail'[j].marked = mail[j].marked
                \/ req[r].job = j /\ mail'[j].marked = {now}
  BY <1>3 DEF SetMarker, IInv, TypeOK, Mail
<1>4. \/ mail' = mail
      \/ \E r \in Requests, i \in Jobs : Add(r, i)
      \/ \E r \in Requests : SetMarker(r)
  BY MailCases, RequestFrame DEF QueueOrAccountStep, Tick, vars
<1> QED
  BY <1>1, <1>2, <1>3, <1>4

(* A job is queued by Add only. *)
LEMMA QueuedByAdd ==
    ASSUME IInv, [Next]_vars, NEW j \in Jobs, ~Queued(j), Queued(j)'
    PROVE  \E r \in Requests : /\ Add(r, j)
                               /\ job'[j].data.kind = req[r].kind
                               /\ mail'[j].user = req[r].user
                               /\ mail'[j].checked = req[r].checked
                               /\ mail'[j].queued = now /\ mail'[j].marked = {}
<1>1. ASSUME NEW r \in Requests, NEW i \in Jobs, Add(r, i), i # j PROVE FALSE
  BY <1>1 DEF Add, Enqueue, Queued, IInv, TypeOK, QueueTypeOK
<1>2. ASSUME NEW r \in Requests, Add(r, j)
      PROVE  /\ job'[j].data.kind = req[r].kind
             /\ mail'[j].user = req[r].user /\ mail'[j].checked = req[r].checked
             /\ mail'[j].queued = now /\ mail'[j].marked = {}
  <2>1. job'[j].data = DataOf(r)
    BY <1>2 DEF Add, Enqueue, IInv, TypeOK, QueueTypeOK, Job
  <2>2. mail'[j] = [user |-> req[r].user, checked |-> req[r].checked,
                    queued |-> now, marked |-> {}]
    BY <1>2 DEF Add, IInv, TypeOK
  <2> QED  BY <2>1, <2>2 DEF DataOf
<1>3. CASE QueueOrAccountStep
  <2>1. CASE QueueStep /\ UNCHANGED email
    BY <2>1, QueueKeepsData DEF IInv, Queued
  <2>2. CASE AccountStep /\ UNCHANGED jobVars
    BY <2>2 DEF jobVars, Queued
  <2> QED  BY <1>3, <2>1, <2>2 DEF QueueOrAccountStep
<1>4. CASE job' = job
  BY <1>4 DEF Queued
<1> QED
  BY <1>1, <1>2, <1>3, <1>4, MailCases, RequestFrame, SetMarkerFrame
     DEF Tick, vars, queueVars

LEMMA Numbers ==
    ASSUME IInv
    PROVE  /\ now \in Nat /\ Window \in Nat /\ Window > 0
           /\ \A k \in Kinds, u \in Users : marker[k][u] \in Nat
           /\ \A r \in Requests : req[r].checked \in Nat /\ req[r].kind \in Kinds
           /\ \A j \in Jobs : /\ mail[j].checked \in Nat /\ mail[j].queued \in Nat
                              /\ mail[j].marked \subseteq Nat
                              /\ job[j].data.kind \in Kinds
<1>1. \A r \in Requests : req[r] \in Request
  BY DEF IInv, TypeOK
<1>2. \A j \in Jobs : mail[j] \in Mail /\ job[j] \in Job
  BY DEF IInv, TypeOK, QueueTypeOK
<1>3. \A k \in Kinds, u \in Users : marker[k][u] \in Nat
  BY DEF IInv, TypeOK
<1> QED
  BY <1>1, <1>2, <1>3, MailAssumption DEF IInv, TypeOK, Request, Mail, Job, JobData

LEMMA TimePasses ==
    ASSUME IInv, [Next]_vars
    PROVE  now' \in Nat /\ now <= now'
<1>1. now' = now \/ Tick
  BY MailCases, RequestFrame, SetMarkerFrame DEF Add, QueueOrAccountStep, vars
<1> QED
  BY <1>1, Numbers DEF Tick

LEMMA MailStep ==
    ASSUME IInv, [Next]_vars, NEW j \in Jobs
    PROVE  MailSound(j)'
<1>1. CASE Queued(j)
  <2>1. /\ mail[j].checked <= mail[j].queued /\ mail[j].queued <= now
        /\ mail[j].user \in Users
        /\ \A m \in mail[j].marked : mail[j].queued <= m /\ m <= now
    BY <1>1 DEF IInv, MailSound
  <2>2. /\ now \in Nat /\ now' \in Nat /\ now <= now'
        /\ mail[j].queued \in Nat /\ mail[j].marked \subseteq Nat
    BY Numbers, TimePasses
  <2>3. /\ mail'[j].user = mail[j].user /\ mail'[j].checked = mail[j].checked
        /\ mail'[j].queued = mail[j].queued
        /\ mail'[j].marked = mail[j].marked \/ mail'[j].marked = {now}
    BY <1>1, MailKept
  <2> QED  BY <2>1, <2>2, <2>3 DEF MailSound
<1>2. CASE ~Queued(j) /\ Queued(j)'
  <2>1. PICK r \in Requests : /\ Add(r, j)
                              /\ mail'[j].user = req[r].user
                              /\ mail'[j].checked = req[r].checked
                              /\ mail'[j].queued = now /\ mail'[j].marked = {}
    BY <1>2, QueuedByAdd
  <2>2. req[r].checked <= now /\ req[r].user \in Users
    BY <2>1 DEF Add, IInv, RequestSound
  <2>3. now' = now /\ now \in Nat
    BY <2>1, Numbers DEF Add
  <2> QED  BY <2>1, <2>2, <2>3 DEF MailSound
<1>3. CASE ~Queued(j)'
  BY <1>3 DEF MailSound
<1> QED
  BY <1>1, <1>2, <1>3

(* A mail for kind k and user u after a step was one before it, or was added and
   has set no marker yet. *)
LEMMA WaitedStays ==
    ASSUME IInv, [Next]_vars, NEW c \in Nat, c <= now, NEW k, NEW u, Waited(c, k, u)
    PROVE  Waited(c, k, u)'
<1> SUFFICES ASSUME NEW j \in Jobs, Queued(j)', job'[j].data.kind = k, mail'[j].user = u,
                    NEW m \in mail'[j].marked, m < c
             PROVE  m + Window <= c
  BY DEF Waited
<1>1. Queued(j)
  BY QueuedByAdd
<1>2. job[j].data.kind = k /\ mail[j].user = u
  BY <1>1, MailKept
<1>3. CASE mail'[j].marked = mail[j].marked
  BY <1>1, <1>2, <1>3 DEF Waited
<1>4. CASE mail'[j].marked = {now}
  BY <1>4, Numbers
<1> QED
  BY <1>1, <1>3, <1>4, MailKept

-----------------------------------------------------------------------------
(* A marker is set by SetMarker only, to Window from now. *)
LEMMA MarkerChanges ==
    ASSUME IInv, [Next]_vars, NEW k \in Kinds, NEW u \in Users
    PROVE  \/ /\ marker'[k][u] = marker[k][u]
              /\ \A r \in Requests : SetMarker(r) => ~(req[r].kind = k /\ req[r].user = u)
           \/ \E r \in Requests : /\ SetMarker(r) /\ req[r].kind = k /\ req[r].user = u
                                  /\ marker'[k][u] = now + Window /\ now' = now
<1>1. ASSUME NEW r \in Requests, SetMarker(r)
      PROVE  /\ now' = now
             /\ marker'[k][u] = IF req[r].kind = k /\ req[r].user = u
                                THEN now + Window ELSE marker[k][u]
  BY <1>1 DEF SetMarker, Marked, IInv, TypeOK
<1>2. marker' = marker \/ \E r \in Requests : SetMarker(r)
  BY MailCases, RequestFrame DEF Add, QueueOrAccountStep, Tick, vars
<1>3. CASE \E r \in Requests : SetMarker(r) /\ req[r].kind = k /\ req[r].user = u
  BY <1>1, <1>3
<1>4. CASE ~\E r \in Requests : SetMarker(r) /\ req[r].kind = k /\ req[r].user = u
  BY <1>1, <1>2, <1>4
<1> QED
  BY <1>3, <1>4

LEMMA MarkerStep ==
    ASSUME IInv, [Next]_vars, NEW k \in Kinds, NEW u \in Users
    PROVE  MarkerSound(k, u)'
<1>0. /\ now \in Nat /\ now' \in Nat /\ now <= now' /\ Window \in Nat
      /\ marker[k][u] \in Nat /\ marker[k][u] <= now + Window
      /\ now + Window \in Nat /\ now + Window > 0
  BY Numbers, TimePasses DEF IInv, MarkerSound
<1>m. marker'[k][u] >= marker[k][u] /\ marker'[k][u] \in Nat
  BY <1>0, MarkerChanges
<1>1. marker'[k][u] <= now' + Window
  BY <1>0, MarkerChanges
<1>2. ASSUME NEW j \in Jobs, Queued(j)', job'[j].data.kind = k, mail'[j].user = u,
             NEW m \in mail'[j].marked
      PROVE  m + Window <= marker'[k][u]
  <2>1. Queued(j)
    BY <1>2, QueuedByAdd
  <2>2. job[j].data.kind = k /\ mail[j].user = u
    BY <1>2, <2>1, MailKept
  <2>3. CASE mail'[j].marked = mail[j].marked
    <3>1. m + Window <= marker[k][u] /\ m \in Nat
      BY <1>2, <2>1, <2>2, <2>3, Numbers DEF IInv, MarkerSound
    <3> QED  BY <1>0, <1>m, <3>1
  <2>4. ASSUME NEW r \in Requests, SetMarker(r), req[r].job = j, mail'[j].marked = {now}
        PROVE  m + Window <= marker'[k][u]
    <3>1. req[r].kind = k /\ req[r].user = u
      BY <2>2, <2>4 DEF IInv, RequestSound, SetMarker
    <3>2. marker'[k][u] = now + Window
      BY <2>4, <3>1, MarkerChanges
    <3> QED  BY <1>0, <1>2, <2>4, <3>2
  <2> QED  BY <2>1, <2>3, <2>4, MailKept
<1>3. ASSUME marker'[k][u] > 0
      PROVE  \E j \in Jobs : (Queued(j) /\ job[j].data.kind = k /\ mail[j].user = u)'
  <2>1. \E j \in Jobs : Queued(j) /\ job[j].data.kind = k /\ mail[j].user = u
    <3>1. CASE marker'[k][u] = marker[k][u]
      BY <1>3, <3>1 DEF IInv, MarkerSound
    <3>2. ASSUME NEW r \in Requests, SetMarker(r), req[r].kind = k, req[r].user = u
          PROVE  \E j \in Jobs : Queued(j) /\ job[j].data.kind = k /\ mail[j].user = u
      BY <3>2 DEF IInv, RequestSound, SetMarker
    <3> QED  BY <3>1, <3>2, MarkerChanges
  <2> QED  BY <2>1, MailKept
<1> QED
  BY <1>1, <1>2, <1>3 DEF MarkerSound

(* A request goes on from CheckTtl only when no mail has set the marker within
   the last Window. *)
LEMMA CheckWaits ==
    ASSUME IInv, NEW r \in Requests, req[r].at = "CheckTtl", ~Live(req[r].kind, req[r].user)
    PROVE  Waited(now, req[r].kind, req[r].user)
<1> DEFINE k == req[r].kind
           u == req[r].user
<1>1. k \in Kinds /\ u \in Users
  BY Numbers DEF IInv, RequestSound
<1>2. marker[k][u] <= now /\ marker[k][u] \in Nat /\ now \in Nat /\ Window \in Nat
  BY <1>1, Numbers DEF Live
<1> SUFFICES ASSUME NEW j \in Jobs, Queued(j), job[j].data.kind = k, mail[j].user = u,
                    NEW m \in mail[j].marked
             PROVE  m + Window <= now
  BY DEF Waited
<1>3. m + Window <= marker[k][u] /\ m \in Nat
  BY <1>1, Numbers DEF IInv, MarkerSound
<1> QED
  BY <1>2, <1>3

LEMMA RequestUntouched ==
    ASSUME IInv, NEW x \in Requests, NEW r \in Requests, x # r,
           RequestStep(r) \/ SetMarker(r) \/ \E j \in Jobs : Add(r, j)
    PROVE  req'[x] = req[x]
BY DEF RequestStep, BeginForUser, BeginSignin, Begin, FindUser, CheckTtl, Checked,
       RequestFails, SetMarker, Ends, Add, IInv, TypeOK

(* What a request may have become: as it was, ended, begun, or one await on. *)
Became(r) ==
    \/ req'[r] = req[r]
    \/ req'[r] = EndedRequest(AnyKind)
    \/ /\ req'[r].at = "FindUser" /\ req'[r].kind = "signin" /\ req'[r].checked = 0
       /\ req'[r].address \in Emails
    \/ /\ req'[r].at = "CheckTtl" /\ req'[r].kind # "signin" /\ req'[r].checked = 0
       /\ req'[r].address = None /\ req'[r].user \in Users
    \/ /\ req[r].at = "FindUser" /\ req'[r].at = "CheckTtl" /\ req'[r].user \in Users
       /\ req'[r].kind = req[r].kind /\ req'[r].address = req[r].address
       /\ req'[r].checked = req[r].checked
    \/ /\ req[r].at = "CheckTtl" /\ req'[r].at = "Add" /\ req'[r].checked = now
       /\ req'[r].kind = req[r].kind /\ req'[r].user = req[r].user
       /\ req'[r].address = req[r].address
       /\ ~Live(req[r].kind, req[r].user)
    \/ /\ req[r].at = "Add" /\ req'[r].at = "SetMarker"
       /\ req'[r].kind = req[r].kind /\ req'[r].user = req[r].user
       /\ req'[r].address = req[r].address /\ req'[r].checked = req[r].checked
       /\ \E j \in Jobs : req'[r].job = j /\ Add(r, j)

LEMMA RequestBecomes ==
    ASSUME IInv, [Next]_vars, NEW r \in Requests
    PROVE  Became(r)
<1>0. req \in [Requests -> Request] /\ req[r] \in Request
  BY DEF IInv, TypeOK
<1>e. Ends(r) => req'[r] = EndedRequest(AnyKind)
  BY <1>0 DEF Ends, EndedRequest
<1>1. ASSUME NEW k \in Kinds \ {"signin"}, NEW u \in Users, BeginForUser(r, k, u)
      PROVE  Became(r)
  BY <1>0, <1>1 DEF BeginForUser, Begin, Became
<1>2. ASSUME NEW e \in Emails, BeginSignin(r, e) PROVE Became(r)
  BY <1>0, <1>2 DEF BeginSignin, Begin, Became
<1>3. ASSUME FindUser(r) PROVE Became(r)
  <2>1. CASE Ends(r)
    BY <1>e, <2>1 DEF Became
  <2>2. CASE ~Ends(r)
    <3>1. PICK u \in Users :
            req' = [req EXCEPT ![r] = [req[r] EXCEPT !.at = "CheckTtl", !.user = u]]
      BY <1>3, <2>2 DEF FindUser, Holders
    <3>2. /\ req'[r].at = "CheckTtl" /\ req'[r].user = u /\ req'[r].kind = req[r].kind
          /\ req'[r].address = req[r].address /\ req'[r].checked = req[r].checked
      BY <1>0, <3>1 DEF Request
    <3> QED  BY <1>3, <3>2 DEF FindUser, Became
  <2> QED  BY <2>1, <2>2
<1>4. ASSUME CheckTtl(r) PROVE Became(r)
  <2>1. CASE Live(req[r].kind, req[r].user)
    BY <1>4, <1>e, <2>1 DEF CheckTtl, Became
  <2>2. CASE ~Live(req[r].kind, req[r].user)
    <3>1. /\ req'[r].at = "Add" /\ req'[r].checked = now /\ req'[r].kind = req[r].kind
          /\ req'[r].user = req[r].user /\ req'[r].address = req[r].address
      BY ZenonT(40), <1>0, <1>4, <2>2 DEF CheckTtl, Checked, Request
    <3> QED  BY <1>4, <2>2, <3>1 DEF CheckTtl, Became
  <2> QED  BY <2>1, <2>2
<1>5. ASSUME NEW j \in Jobs, Add(r, j) PROVE Became(r)
  <2>1. /\ req'[r].at = "SetMarker" /\ req'[r].job = j /\ req'[r].kind = req[r].kind
        /\ req'[r].user = req[r].user /\ req'[r].address = req[r].address
        /\ req'[r].checked = req[r].checked
    BY <1>0, <1>5 DEF Add, Request
  <2> QED  BY <1>5, <2>1 DEF Add, Became
<1>6. ASSUME SetMarker(r) \/ RequestFails(r) PROVE Became(r)
  BY <1>6, <1>e DEF SetMarker, RequestFails, Became
<1>7. ASSUME NEW x \in Requests, x # r,
             RequestStep(x) \/ SetMarker(x) \/ \E j \in Jobs : Add(x, j)
      PROVE  Became(r)
  BY <1>7, RequestUntouched DEF Became
<1>8. CASE UNCHANGED req
  BY <1>8 DEF Became
<1> QED
  BY <1>1, <1>2, <1>3, <1>4, <1>5, <1>6, <1>7, <1>8, MailCases
     DEF RequestStep, QueueOrAccountStep, Tick, vars

LEMMA RequestSoundStep ==
    ASSUME IInv, [Next]_vars, NEW r \in Requests
    PROVE  RequestSound(r)'
<1>0. RequestSound(r) /\ Became(r)
  BY RequestBecomes DEF IInv
<1>n. /\ now \in Nat /\ now' \in Nat /\ now <= now' /\ req[r].checked \in Nat
      /\ req[r].checked <= now /\ req[r].kind \in Kinds
  BY <1>0, Numbers, TimePasses DEF RequestSound
<1>1. CASE req'[r] = req[r]
  <2>1. ASSUME req[r].at = "SetMarker"
        PROVE  /\ Queued(req[r].job)' /\ job'[req[r].job].data.kind = req[r].kind
               /\ mail'[req[r].job].user = req[r].user
    BY <1>0, <1>1, <2>1, MailKept DEF RequestSound, Queued
  <2> QED  BY <1>0, <1>1, <1>n, <2>1 DEF RequestSound, Queued
<1>2. CASE req'[r] = EndedRequest(AnyKind)
  BY <1>2, <1>n DEF RequestSound, EndedRequest
<1>3. CASE req'[r].at \in {"FindUser", "CheckTtl"} /\ req'[r] # req[r]
  BY <1>0, <1>3, <1>n DEF Became, RequestSound, EndedRequest
<1>4. CASE req[r].at = "CheckTtl" /\ req'[r].at = "Add"
  BY <1>0, <1>4, <1>n DEF Became, RequestSound, EndedRequest
<1>5. CASE req[r].at = "Add" /\ req'[r].at = "SetMarker"
  <2>1. PICK j \in Jobs : req'[r].job = j /\ Add(r, j)
    BY <1>0, <1>5 DEF Became, EndedRequest
  <2>2. job'[j].data = DataOf(r) /\ job'[j].state = "waiting" /\ mail'[j].user = req[r].user
    BY <2>1 DEF Add, Enqueue, IInv, TypeOK, QueueTypeOK, Job
  <2>3. Queued(j)' /\ job'[j].data.kind = req[r].kind
    BY <2>2 DEF Queued, DataOf
  <2> QED  BY <1>0, <1>5, <1>n, <2>1, <2>2, <2>3 DEF Became, RequestSound, Queued, EndedRequest
<1> QED
  BY <1>0, <1>1, <1>2, <1>3, <1>4, <1>5 DEF Became

LEMMA WaitedRequests ==
    ASSUME IInv, [Next]_vars, NEW r \in Requests, req'[r].at \in {"Add", "SetMarker"}
    PROVE  Waited(req[r].checked, req[r].kind, req[r].user)'
<1> DEFINE c == req'[r].checked
           k == req[r].kind
           u == req[r].user
<1>1. Became(r) /\ now \in Nat /\ req[r].checked \in Nat /\ req[r].checked <= now
  BY RequestBecomes, Numbers DEF IInv, RequestSound
<1>2. /\ req'[r].kind = k /\ req'[r].user = u /\ c \in Nat /\ c <= now
      /\ Waited(c, k, u)
  <2>1. CASE req[r].at \in {"Add", "SetMarker"}
    BY <1>1, <2>1 DEF IInv, Became, EndedRequest
  <2>2. CASE req[r].at = "CheckTtl" /\ ~Live(k, u) /\ req'[r].at = "Add"
    BY <1>1, <2>2, CheckWaits DEF Became, EndedRequest
  <2> QED  BY <1>1, <2>1, <2>2 DEF Became, EndedRequest
<1>3. PICK cc, kk, uu : cc = c /\ kk = k /\ uu = u
  OBVIOUS
<1>4. Waited(cc, kk, uu)'
  BY <1>2, <1>3, WaitedStays
<1> QED
  BY <1>2, <1>3, <1>4

LEMMA WaitedMails ==
    ASSUME IInv, [Next]_vars, NEW j \in Jobs, Queued(j)'
    PROVE  Waited(mail[j].checked, job[j].data.kind, mail[j].user)'
<1>1. PICK c, k, u :
        /\ mail'[j].checked = c /\ job'[j].data.kind = k /\ mail'[j].user = u
        /\ c \in Nat /\ c <= now /\ Waited(c, k, u)
  <2>1. CASE Queued(j)
    <3>1. /\ mail[j].checked \in Nat /\ mail[j].queued \in Nat /\ now \in Nat
          /\ mail[j].checked <= mail[j].queued /\ mail[j].queued <= now
      BY <2>1, Numbers DEF IInv, MailSound
    <3>2. Waited(mail[j].checked, job[j].data.kind, mail[j].user)
      BY <2>1 DEF IInv
    <3>3. /\ mail'[j].checked = mail[j].checked /\ mail'[j].user = mail[j].user
          /\ job'[j].data.kind = job[j].data.kind
      BY <2>1, MailKept
    <3>4. mail[j].checked <= now
      BY <3>1
    <3> QED  BY <3>1, <3>2, <3>3, <3>4
  <2>2. CASE ~Queued(j)
    <3>1. PICK r \in Requests : /\ Add(r, j) /\ job'[j].data.kind = req[r].kind
                                /\ mail'[j].user = req[r].user
                                /\ mail'[j].checked = req[r].checked
      BY <2>2, QueuedByAdd
    <3>2. /\ req[r].checked \in Nat /\ req[r].checked <= now
          /\ Waited(req[r].checked, req[r].kind, req[r].user)
      BY <3>1, Numbers DEF Add, IInv, RequestSound
    <3> QED  BY <3>1, <3>2
  <2> QED  BY <2>1, <2>2
<1>2. Waited(c, k, u)'
  BY <1>1, WaitedStays
<1> QED
  BY <1>1, <1>2

-----------------------------------------------------------------------------
LEMMA InvInit == Init => IInv
<1> SUFFICES ASSUME Init PROVE IInv
  OBVIOUS
<1>1. TypeOK /\ QueueInv
  BY MailTypeInit, QueueInvInit DEF Init
<1>2. \A r \in Requests : req[r].at = "idle" /\ req[r].checked = 0
  BY DEF Init
<1>3. \A j \in Jobs : ~Queued(j)
  BY DEF Init, QueueInit, Queued
<1>4. \A k \in Kinds, u \in Users : marker[k][u] = 0
  BY DEF Init
<1>5. now = 0 /\ Window \in Nat
  BY MailAssumption DEF Init
<1> QED
  BY <1>1, <1>2, <1>3, <1>4, <1>5
     DEF IInv, RequestSound, MailSound, MarkerSound, Waited

LEMMA InvStep == IInv /\ [Next]_vars => IInv'
<1> SUFFICES ASSUME IInv, [Next]_vars PROVE IInv'
  OBVIOUS
<1>1. TypeOK'
  BY MailTypeStep DEF IInv
<1>2. QueueInv'
  BY StepOfQueue, QueueInvStep DEF IInv
<1>3. \A r \in Requests : RequestSound(r)'
  BY RequestSoundStep
<1>4. \A j \in Jobs : MailSound(j)'
  BY MailStep
<1>5. \A k \in Kinds, u \in Users : MarkerSound(k, u)'
  BY MarkerStep
<1>6. \A r \in Requests : req'[r].at \in {"Add", "SetMarker"} =>
                            Waited(req[r].checked, req[r].kind, req[r].user)'
  BY WaitedRequests
<1>7. \A j \in Jobs : Queued(j)' => Waited(mail[j].checked, job[j].data.kind, mail[j].user)'
  BY WaitedMails
<1> QED
  BY <1>1, <1>2, <1>3, <1>4, <1>5, <1>6, <1>7 DEF IInv

LEMMA InvHolds == Spec => []IInv
BY InvInit, InvStep, PTL DEF Spec

(* The requests, their jobs and their markers keep to their types. *)
THEOREM TypeCorrect == Spec => []TypeOK
<1>1. IInv => TypeOK
  BY DEF IInv
<1> QED
  BY <1>1, InvHolds, PTL

(* Only a race between requests, or one that failed before it set the marker,
   lets two mails of a kind for a user be queued within a Window. *)
THEOREM OnlyRacesAreClose == Spec => []CloseMailsAreRaces
<1>1. IInv => CloseMailsAreRaces
  <2> SUFFICES ASSUME IInv, NEW i \in Jobs, NEW j \in Jobs, Queued(i), Queued(j),
                      SameMarker(i, j), mail[j].queued < mail[i].queued + Window,
                      NEW m \in mail[i].marked
               PROVE  mail[j].checked <= m
    BY DEF CloseMailsAreRaces
  <2>1. /\ m \in Nat /\ mail[j].checked \in Nat /\ mail[j].queued \in Nat
        /\ mail[i].queued \in Nat /\ Window \in Nat
    BY Numbers
  <2>2. m < mail[j].checked => m + Window <= mail[j].checked
    BY DEF IInv, Waited, SameMarker
  <2>3. mail[i].queued <= m /\ mail[j].checked <= mail[j].queued
    BY DEF IInv, MailSound
  <2> QED  BY <2>1, <2>2, <2>3
<1> QED
  BY <1>1, InvHolds, PTL

(* Nobody is turned away without a mail of the kind being queued for the user. *)
THEOREM MarkersAreEarned == Spec => []MarkerMeansQueued
<1>1. IInv => MarkerMeansQueued
  <2> SUFFICES ASSUME IInv, NEW k \in Kinds, NEW u \in Users, Live(k, u)
               PROVE  \E j \in Jobs : Queued(j) /\ job[j].data.kind = k /\ mail[j].user = u
    BY DEF MarkerMeansQueued
  <2>1. marker[k][u] > 0
    BY Numbers DEF Live
  <2> QED  BY <2>1 DEF IInv, MarkerSound
<1> QED
  BY <1>1, InvHolds, PTL

(* Seen from the queue, the requests and the accounts are an environment its
   own specification allows, so everything proved of QueueSpec holds here. *)
THEOREM ImplementsQueue == Spec => QueueSpec
<1>1. Init => QueueInit
  BY DEF Init
<1>2. IInv /\ [Next]_vars => [QueueNext]_queueVars
  BY StepOfQueue DEF IInv
<1> QED
  BY <1>1, <1>2, InvHolds, PTL DEF Spec, QueueSpec

(* The safety part of it, as the runs check it. *)
THEOREM DrivesQueue == Spec => DrivesQueueAsSpecified
<1>1. IInv /\ [Next]_vars => (queueVars' # queueVars => QueueNext)
  BY StepOfQueue DEF IInv
<1> QED
  BY <1>1, InvHolds, PTL DEF Spec, DrivesQueueAsSpecified
=============================================================================
