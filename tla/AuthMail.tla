------------------------------ MODULE AuthMail ------------------------------
(* The requests for mail (auth.service.ts): sendSigninMagicLink, verifyEmail and
   resetPassword.  Each reads the remaining life of a "last sent" marker in the
   cache, queues a job and sets the marker, and awaits each of the three calls;
   sendSigninMagicLink first looks the user up by address.  What the caller is
   told (404, 429, an APIError) is not kept: a request that ends is idle. *)
EXTENDS EmailQueue

CONSTANTS
    Requests,   \* slots for requests being served at the same time
    Window,     \* life of a marker: 30 s
    MaxTime     \* bound on the clock

ASSUME MailAssumption == Window \in Nat \ {0} /\ MaxTime \in Nat

VARIABLES
    marker,     \* when the marker of a kind and user expires; 0 if never set
    req,        \* the requests being served
    mail,       \* how each job came to be queued, kept for the properties only
    now

vars == <<queueVars, marker, req, mail, now>>

Request == [at : {"idle", "FindUser", "CheckTtl", "Add", "SetMarker"},
            kind : Kinds, user : Users \cup {None}, address : Emails \cup {None},
            checked : Nat, job : Jobs \cup {None}]

(* The user a mail counts for, when the marker was found dead, when the job was
   queued, and when its request set the marker, if it got there. *)
Mail == [user : Users \cup {None}, checked : Nat, queued : Nat, marked : SUBSET Nat]

Queued(j) == job[j].state # "new"

Begin(r, at, k, u, e) ==
    /\ req[r].at = "idle"
    /\ req' = [req EXCEPT ![r] = [at |-> at, kind |-> k, user |-> u, address |-> e,
                                  checked |-> 0, job |-> None]]
    /\ UNCHANGED <<queueVars, marker, mail, now>>

Ends(r) ==
    req' = [req EXCEPT ![r] = [at |-> "idle", kind |-> AnyKind, user |-> None,
                               address |-> None, checked |-> 0, job |-> None]]

-----------------------------------------------------------------------------
(* better-auth calls verifyEmail or resetPassword for a user it has found. *)
BeginForUser(r, k, u) == email[u] # None /\ Begin(r, "CheckTtl", k, u, None)

BeginSignin(r, e) == Begin(r, "FindUser", "signin", None, e)

(* Mutant: no answer for an address nobody holds. *)
FindUserUnchecked(r) ==
    LET found == Holders(req[r].address)
    IN  /\ req[r].at = "FindUser"
        /\ \E u \in IF found = {} THEN {None} ELSE found :
                req' = [req EXCEPT ![r] = [@ EXCEPT !.at = "CheckTtl", !.user = u]]
        /\ UNCHANGED <<queueVars, marker, mail, now>>

FindUser(r) ==
    LET found == Holders(req[r].address)
    IN  /\ req[r].at = "FindUser"
        /\ \/ \E u \in found :
                req' = [req EXCEPT ![r] = [@ EXCEPT !.at = "CheckTtl", !.user = u]]
           \/ found = {} /\ Ends(r)
        /\ UNCHANGED <<queueVars, marker, mail, now>>

(* Mutant: the life of the marker is given in seconds and taken for milliseconds. *)
NeverLive(k, u) == FALSE

(* getTtl gives neither null nor 0. *)
Live(k, u) == now < marker[k][u]

Checked(r) ==
    req' = [req EXCEPT ![r] = [@ EXCEPT !.at = "Add", !.checked = now]]

Marked(r) == marker' = [marker EXCEPT ![req[r].kind][req[r].user] = now + Window]

(* Mutant: the marker is set before the mail is queued. *)
CheckAndMark(r) ==
    /\ req[r].at = "CheckTtl"
    /\ IF Live(req[r].kind, req[r].user)
       THEN Ends(r) /\ UNCHANGED marker
       ELSE Checked(r) /\ Marked(r)
    /\ UNCHANGED <<queueVars, mail, now>>

CheckTtl(r) ==
    /\ req[r].at = "CheckTtl"
    /\ IF Live(req[r].kind, req[r].user) THEN Ends(r) ELSE Checked(r)
    /\ UNCHANGED <<queueVars, marker, mail, now>>

(* Mutant: every job names the address. *)
DataByAddress(r) ==
    [kind |-> req[r].kind, address |-> req[r].address, user |-> None]

(* What emailQueue.add is given: a magic link names the address, the others the
   user. *)
DataOf(r) ==
    [kind |-> req[r].kind, address |-> req[r].address,
     user |-> IF req[r].kind = "signin" THEN None ELSE req[r].user]

Add(r, j) ==
    /\ req[r].at = "Add"
    /\ Enqueue(j, DataOf(r))
    /\ req' = [req EXCEPT ![r] = [@ EXCEPT !.at = "SetMarker", !.job = j]]
    /\ mail' = [mail EXCEPT ![j] = [user |-> req[r].user, checked |-> req[r].checked,
                                    queued |-> now, marked |-> {}]]
    /\ UNCHANGED <<email, marker, now>>

SetMarker(r) ==
    /\ req[r].at = "SetMarker"
    /\ Marked(r)
    /\ mail' = [mail EXCEPT ![req[r].job].marked = {now}]
    /\ Ends(r)
    /\ UNCHANGED <<queueVars, now>>

(* Redis or Postgres fails the call a request awaits, or the server stops: the
   request ends where it is. *)
RequestFails(r) ==
    /\ req[r].at # "idle"
    /\ Ends(r)
    /\ UNCHANGED <<queueVars, marker, mail, now>>

Tick ==
    /\ now < MaxTime
    /\ now' = now + 1
    /\ UNCHANGED <<queueVars, marker, req, mail>>

-----------------------------------------------------------------------------
Init ==
    /\ QueueInit
    /\ marker = [k \in Kinds |-> [u \in Users |-> 0]]
    /\ req = [r \in Requests |-> [at |-> "idle", kind |-> AnyKind, user |-> None,
                                  address |-> None, checked |-> 0, job |-> None]]
    /\ mail = [j \in Jobs |-> [user |-> None, checked |-> 0, queued |-> 0, marked |-> {}]]
    /\ now = 0

Next ==
    \/ \E r \in Requests :
         \/ \E k \in Kinds \ {"signin"}, u \in Users : BeginForUser(r, k, u)
         \/ \E k \in Kinds \cap {"signin"}, e \in Emails : BeginSignin(r, e)
         \/ FindUser(r) \/ CheckTtl(r) \/ SetMarker(r) \/ RequestFails(r)
         \/ \E j \in Jobs : Add(r, j)
    \/ /\ \/ QueueStep /\ UNCHANGED email
          \/ AccountStep /\ UNCHANGED jobVars
       /\ UNCHANGED <<marker, req, mail, now>>
    \/ Tick

Spec == Init /\ [][Next]_vars /\ QueueFairness

TypeOK ==
    /\ QueueTypeOK
    /\ marker \in [Kinds -> [Users -> Nat]]
    /\ req \in [Requests -> Request]
    /\ mail \in [Jobs -> Mail]
    /\ now \in 0..MaxTime
    /\ \A r \in Requests :
         /\ req[r].at \in {"CheckTtl", "Add", "SetMarker"} => req[r].user \in Users
         /\ req[r].at = "SetMarker" => req[r].job \in Jobs

(* What the requests and the accounts do to the queue is what its own
   specification lets its surroundings do. *)
DrivesQueueAsSpecified == [][queueVars' # queueVars => QueueNext]_vars

-----------------------------------------------------------------------------
SameMarker(i, j) == job[i].data.kind = job[j].data.kind /\ mail[i].user = mail[j].user

(* Two mails of a kind for a user are queued less than Window apart only by a
   race or a failure: the second request looked at the marker before the first
   set it, or the first never did. *)
CloseMailsAreRaces ==
    \A i, j \in Jobs :
        Queued(i) /\ Queued(j) /\ SameMarker(i, j) /\ mail[j].queued < mail[i].queued + Window
            => \A m \in mail[i].marked : mail[j].checked <= m

(* A caller is turned away only when a mail for the user is queued: the marker
   is never ahead of the job. *)
MarkerMeansQueued ==
    \A k \in Kinds, u \in Users :
        Live(k, u) => \E j \in Jobs : Queued(j) /\ job[j].data.kind = k /\ mail[j].user = u

(* The comment "Rate limited to 1 email per 30 seconds" (auth.service.ts:39):
   two mails of a kind for a user are queued at least Window apart. *)
OneMailPerWindow ==
    \A i, j \in Jobs :
        i # j /\ Queued(i) /\ Queued(j) /\ SameMarker(i, j) =>
            \/ mail[j].queued >= mail[i].queued + Window
            \/ mail[i].queued >= mail[j].queued + Window
=============================================================================
