------------------------------- MODULE Users -------------------------------
(***************************************************************************)
(* The users' own data: the profile update, deletion and listing routes of *)
(* the user API, and signing up, with every await between two looks at the *)
(* table. What better-auth does is modelled as this code configures it.    *)
(***************************************************************************)
EXTENDS Pagination

CONSTANTS Ids,        \* user ids, numbers
          Emails, Usernames,
          Lower,      \* a user name in small letters
          Requests,
          Profiles,   \* bodies of an update that passed validation
          SignUps,    \* what users sign up with
          Limits,     \* page sizes asked for
          Instants,   \* values of createdAt
          Tables      \* what the user table may hold at first

VARIABLES rows,   \* the user table: a row for each id that has one
          gone,   \* ids that were deleted
          req     \* what each request is and how far it has come
vars == <<rows, gone, req>>

\* Fields of a body that are not there are None; null is a value of its own.
None == "none"
Null == "null"
Rows == [email : Emails, username : Usernames \cup {Null}, name : {"old", "new"},
         image : {"old", "new"}, createdAt : Instants]

ASSUME UsersAssumption ==
    /\ Ids \subseteq Nat \ {Absent} /\ IsFiniteSet(Ids)
    /\ Limits \subseteq Nat \ {0} /\ Instants \subseteq Nat
    /\ {None, Null} \cap Emails = {} /\ {None, Null} \cap Usernames = {}
    /\ Lower \in [Usernames -> Usernames]
    /\ Profiles \subseteq [email : Emails \cup {None, Null}, username : Usernames \cup {None},
                           name : {None, "new"}, image : {None, "new"}]
    /\ SignUps \subseteq [email : Emails, username : Usernames \cup {None},
                          name : {None}, image : {None}]
    /\ \A t \in Tables : DOMAIN t \subseteq Ids /\ t \in [DOMAIN t -> Rows]

Steps == {"idle", "email", "username", "auth", "authWrite", "write", "read", "page", "signUp",
          "create", "done"}
NoBody == [email |-> None, username |-> None, name |-> None, image |-> None]
Idle == [at |-> "idle", kind |-> None, user |-> Absent, channel |-> None, body |-> NoBody,
         change |-> FALSE, page |-> 1, limit |-> 1, got |-> {}, items |-> <<>>, total |-> 0,
         seen |-> <<>>, authDone |-> FALSE, disturbed |-> FALSE, failed |-> FALSE, status |-> 0]
Kinds == {None, "update", "find", "walk", "signUp"}
Channels == {None, "http", "graphql", "email", "github"}
Bodies == Profiles \cup SignUps \cup {NoBody}
Targets == Ids \cup {Absent}
Positive == Nat \ {0}
Queries == SUBSET {"items", "total"}
Lists == Seq(Ids)
Statuses == {0, 200, 400, 403, 404, 422, 500}
Request ==
    [at : Steps, kind : Kinds, user : Targets, channel : Channels, body : Bodies,
     change : BOOLEAN, page : Positive, limit : Positive, got : Queries, items : Lists,
     total : Nat, seen : Lists, authDone : BOOLEAN, disturbed : BOOLEAN, failed : BOOLEAN, status : Statuses]

Init ==
    /\ rows \in Tables
    /\ gone = {}
    /\ req = [r \in Requests |-> Idle]

-----------------------------------------------------------------------------
InProgress(q) == req[q].at \notin {"idle", "done"}
Update(r, new) == req' = [req EXCEPT ![r] = new]
Answered(status) == [Idle EXCEPT !.at = "done", !.status = status]
Answer(r, status) == Update(r, Answered(status))
\* A step that changed the table disturbs the other requests under way.
Disturbed(q) == IF InProgress(q) THEN [req[q] EXCEPT !.disturbed = TRUE] ELSE req[q]
UpdateAndDisturb(r, new) ==
    req' = [q \in Requests |-> IF q = r THEN new ELSE Disturbed(q)]
Owner(email) == {u \in DOMAIN rows : rows[u].email = email}
Without(f, u) == [v \in DOMAIN f \ {u} |-> f[v]]

\* A query fails: the database is away or too slow, or does not take the text.
Failed == [Answered(500) EXCEPT !.failed = TRUE]
QueryFails(r) ==
    /\ InProgress(r)
    /\ Update(r, Failed)
    /\ UNCHANGED <<rows, gone>>

-----------------------------------------------------------------------------
\* Signing up with better-auth, by an address and perhaps a user name or with
\* GitHub, whose login becomes the user name.
StartSignUp(r) ==
    /\ req[r].at = "idle"
    /\ \E body \in SignUps, channel \in {"email", "github"} :
         /\ channel = "github" => body.username # None
         /\ Update(r, [Idle EXCEPT !.at = "signUp", !.kind = "signUp", !.channel = channel,
                                   !.body = body])
    /\ UNCHANGED <<rows, gone>>
\* Whose row has this user name: names are stored and looked up in small letters.
Named(username) == {v \in DOMAIN rows : username # None /\ rows[v].username = Lower[username]}
\* The address is looked up, and the name only when signing up by address. One
\* who has the address at GitHub is signed in.
LookUpSignUp(r) ==
    /\ req[r].at = "signUp"
    /\ \/ /\ req[r].channel = "email"
          /\ Owner(req[r].body.email) \cup Named(req[r].body.username) # {}
          /\ Answer(r, 422)
       \/ /\ req[r].channel = "github" /\ Owner(req[r].body.email) # {}
          /\ Answer(r, 200)
       \/ /\ Owner(req[r].body.email) = {}
          /\ req[r].channel = "email" => Named(req[r].body.username) = {}
          /\ Update(r, [req[r] EXCEPT !.at = "create"])
    /\ UNCHANGED <<rows, gone>>
\* Of a GitHub login the capitals may be kept: no plugin looks at it.
StoredNames(r) ==
    LET name == req[r].body.username IN
    IF name = None THEN {Null}
    ELSE {Lower[name]} \cup (IF req[r].channel = "github" THEN {name} ELSE {})
Create(r) ==
    /\ req[r].at = "create"
    /\ \/ Owner(req[r].body.email) # {} /\ Answer(r, 500) /\ UNCHANGED rows
       \/ /\ Owner(req[r].body.email) = {}
          /\ \E u \in Ids \ (DOMAIN rows \cup gone), name \in StoredNames(r), now \in Instants :
               rows' = [v \in DOMAIN rows \cup {u} |->
                          IF v # u THEN rows[v]
                          ELSE [email |-> req[r].body.email, username |-> name, name |-> "old",
                                image |-> "old", createdAt |-> now]]
          /\ UpdateAndDisturb(r, Answered(200))
    /\ UNCHANGED gone

-----------------------------------------------------------------------------
\* UserService.updateUserProfile. A step is taken only for a field that the
\* body has.
AfterEmail(body) == IF body.username \in Usernames THEN "username"
                    ELSE IF body.image # None THEN "auth" ELSE "write"
\* Mutant: the address is not looked up first.
FirstStepWithoutEmail(body) == AfterEmail(body)
FirstStep(body) == IF body.email \in Emails THEN "email" ELSE AfterEmail(body)

\* PATCH profile for the session's user, also one that was deleted meanwhile;
\* the GraphQL mutation for any user if the session's is an admin.
StartUpdate(r) ==
    /\ req[r].at = "idle"
    /\ \E u \in DOMAIN rows \cup gone, body \in Profiles, channel \in {"http", "graphql"} :
         \/ Update(r, [Idle EXCEPT !.at = FirstStep(body), !.kind = "update", !.user = u,
                                   !.channel = channel, !.body = body])
         \/ /\ channel = "graphql"     \* neither the user nor an admin
            /\ Answer(r, 403)
    /\ UNCHANGED <<rows, gone>>
LookUpEmail(r) ==
    /\ req[r].at = "email"
    /\ IF Owner(req[r].body.email) \subseteq {req[r].user}
       THEN Update(r, [req[r] EXCEPT !.at = AfterEmail(req[r].body)])
       ELSE Answer(r, 400)
    /\ UNCHANGED <<rows, gone>>
LookUpUsername(r) ==
    /\ req[r].at = "username"
    /\ LET u == req[r].user
           change == ~(u \in DOMAIN rows /\ rows[u].username = req[r].body.username)
       IN Update(r, [req[r] EXCEPT !.change = change,
                       !.at = IF change \/ req[r].body.image # None THEN "auth" ELSE "write"])
    /\ UNCHANGED <<rows, gone>>

\* better-auth's updateUser: it looks for the session in the headers, of which
\* the GraphQL mutation passes none, and for the user name among the others.
\* Mutant: another user's name is not seen.
TakenByNobody(r) == FALSE
TakenByAnother(r) ==
    ~(Named(req[r].body.username) \subseteq {req[r].user})
AuthLookUp(r) ==
    /\ req[r].at = "auth"
    /\ \/ Answer(r, 500)
       \/ /\ req[r].channel = "http"
          /\ ~(req[r].change /\ TakenByAnother(r))
          /\ Update(r, [req[r] EXCEPT !.at = "authWrite"])
    /\ UNCHANGED <<rows, gone>>
AuthWrite(r) ==
    /\ req[r].at = "authWrite"
    /\ \/ Answer(r, 500) /\ UNCHANGED rows
       \/ LET u == req[r].user
              body == req[r].body
          IN /\ rows' = IF u \notin DOMAIN rows THEN rows
                        ELSE [rows EXCEPT ![u].image = IF body.image = None THEN @ ELSE body.image,
                                          ![u].username = IF req[r].change
                                                          THEN Lower[body.username] ELSE @]
             /\ UpdateAndDisturb(r, [req[r] EXCEPT !.at = "write", !.authDone = u \in DOMAIN rows])
    /\ UNCHANGED gone

\* PrismaUserRepository.update: it fails without the row, with an address that
\* another row has, and with a null address; an absent field is left alone.
\* Mutant: the column takes a null address.
UpdateFailsNullable(u, body) ==
    u \notin DOMAIN rows \/ ~(Owner(body.email) \subseteq {u})
UpdateFails(u, body) ==
    u \notin DOMAIN rows \/ body.email = Null \/ ~(Owner(body.email) \subseteq {u})
\* Mutant: the address is left out of the data written.
WrittenWithoutEmail(row, body) == [row EXCEPT !.name = IF body.name = None THEN @ ELSE body.name]
Written(row, body) == [row EXCEPT !.email = IF body.email = None THEN @ ELSE body.email,
                                  !.name = IF body.name = None THEN @ ELSE body.name]
\* Mutant: an upsert, that puts a missing row back.
WriteUpsert(r) ==
    /\ req[r].at = "write" /\ req[r].body.email # Null
    /\ \E row \in Rows :
         /\ req[r].user \notin DOMAIN rows
         /\ rows' = [v \in DOMAIN rows \cup {req[r].user} |->
                       IF v = req[r].user THEN Written(row, req[r].body) ELSE rows[v]]
         /\ UpdateAndDisturb(r, [req[r] EXCEPT !.at = "read"])
    /\ UNCHANGED gone
Write(r) ==
    /\ req[r].at = "write"
    /\ IF UpdateFails(req[r].user, req[r].body) THEN Answer(r, 500) /\ UNCHANGED rows
       ELSE /\ rows' = [rows EXCEPT ![req[r].user] = Written(@, req[r].body)]
            /\ UpdateAndDisturb(r, [req[r] EXCEPT !.at = "read"])
    /\ UNCHANGED gone
\* findOneUser, at the end of an update and for whoami and :id.
ReadBack(r) ==
    /\ req[r].at = "read"
    /\ Answer(r, IF req[r].user \in DOMAIN rows THEN 200 ELSE 404)
    /\ UNCHANGED <<rows, gone>>
StartFind(r) ==
    /\ req[r].at = "idle"
    /\ \E u \in Ids : Update(r, [Idle EXCEPT !.at = "read", !.kind = "find", !.user = u])
    /\ UNCHANGED <<rows, gone>>

\* deleteUser: Prisma fails without the row. The number that is returned is no
\* user, so GraphQL answers with an error after the deletion.
Delete(r) ==
    /\ req[r].at = "idle"
    /\ \E u \in Ids, channel \in {"http", "graphql"} :
         IF u \in DOMAIN rows
         THEN /\ rows' = Without(rows, u) /\ gone' = gone \cup {u}
              /\ UpdateAndDisturb(r, Answered(IF channel = "http" THEN 200 ELSE 500))
         ELSE Answer(r, 500) /\ UNCHANGED <<rows, gone>>

-----------------------------------------------------------------------------
\* GET all: a client walks the pages. The rows of a page and the number of all
\* rows are two queries started at once; rows of one instant come in any order.
Newest(s) == \A i, j \in DOMAIN s : i < j => rows[s[i]].createdAt >= rows[s[j]].createdAt
Listings == {s \in SetToSeqs(DOMAIN rows) : Newest(s)}
StartWalk(r) ==
    /\ req[r].at = "idle"
    /\ \E limit \in Limits : Update(r, [Idle EXCEPT !.at = "page", !.kind = "walk", !.limit = limit])
    /\ UNCHANGED <<rows, gone>>
QueryItems(r) ==
    /\ req[r].at = "page" /\ "items" \notin req[r].got
    /\ \E s \in Listings :
         Update(r, [req[r] EXCEPT !.got = @ \cup {"items"},
                                 !.items = OffsetPage(s, req[r].page, req[r].limit)])
    /\ UNCHANGED <<rows, gone>>
QueryTotal(r) ==
    /\ req[r].at = "page" /\ "total" \notin req[r].got
    /\ Update(r, [req[r] EXCEPT !.got = @ \cup {"total"}, !.total = Cardinality(DOMAIN rows)])
    /\ UNCHANGED <<rows, gone>>
\* The page is answered; the client goes on while there are more pages.
Pages(r) == OffsetPaginationDto(req[r].total, req[r].page, req[r].limit)
AnswerPage(r) ==
    /\ req[r].at = "page" /\ req[r].got = {"items", "total"}
    /\ IF Pages(r).currentPage < Pages(r).totalPages
       THEN Update(r, [req[r] EXCEPT !.seen = @ \o req[r].items, !.page = @ + 1,
                                     !.got = {}, !.items = <<>>, !.total = 0])
       ELSE Answer(r, 200)
    /\ UNCHANGED <<rows, gone>>

\* GET all/cursor: the query selects a column the table has not got.
UserColumns == {"id", "displayUsername", "email", "role", "firstName", "lastName", "image", "bio",
                "name", "username", "isEmailVerified", "createdAt", "updatedAt", "deletedAt"}
CursorColumns == {"id", "email", "name", "role", "status", "createdAt", "updatedAt"}
ListByCursor(r) ==
    /\ req[r].at = "idle"
    /\ Answer(r, IF CursorColumns \subseteq UserColumns THEN 200 ELSE 500)
    /\ UNCHANGED <<rows, gone>>

AllDone == (\A r \in Requests : req[r].at = "done") /\ UNCHANGED vars
Next ==
    \/ \E r \in Requests :
         \/ StartUpdate(r) \/ LookUpEmail(r) \/ LookUpUsername(r) \/ AuthLookUp(r)
         \/ AuthWrite(r) \/ Write(r) \/ ReadBack(r) \/ StartFind(r) \/ Delete(r)
         \/ StartWalk(r) \/ QueryItems(r) \/ QueryTotal(r) \/ AnswerPage(r) \/ ListByCursor(r)
         \/ StartSignUp(r) \/ LookUpSignUp(r) \/ Create(r) \/ QueryFails(r)
    \/ AllDone
Spec == Init /\ [][Next]_vars

-----------------------------------------------------------------------------
TypeOK ==
    /\ DOMAIN rows \subseteq Ids /\ rows \in [DOMAIN rows -> Rows]
    /\ gone \subseteq Ids
    /\ req \in [Requests -> Request]

\* A user that was deleted never has a row again, whatever updates of its
\* session were under way (sessions outlive the row in the cache).
DeletedStaysDeleted == gone \cap DOMAIN rows = {}

\* Two users come to have one user name only by a GitHub sign-up or by a sign-up
\* or an update that looked it up before and wrote it after another write.
Clash(t) == {p \in (DOMAIN t) \X (DOMAIN t) :
               p[1] # p[2] /\ t[p[1]].username = t[p[2]].username /\ t[p[1]].username # Null}
UsernameClashHasACause ==
    [][Clash(rows') \subseteq Clash(rows)
       \/ \E r \in Requests : /\ req[r].at \in {"authWrite", "create"}
                             /\ (req[r].disturbed \/ req[r].channel = "github")]_vars

\* The user's schema says that a user name must be unique (user.schema.ts).
UsernamesUnique == Clash(rows) = {}

\* An update whose first part, in better-auth, was written and that then failed:
\* another request came between, the address was null, or a query failed.
HalfWriteHasACause ==
    [][\A r \in Requests :
         req[r].at # "done" /\ req'[r].at = "done" /\ req[r].authDone /\ req'[r].status # 200 =>
           req[r].disturbed \/ req[r].body.email = Null \/ req'[r].failed]_vars

\* An update answered with 200 is in the table with all its parts, as long as
\* nobody else wrote; of the user name the capitals may be lost.
AnsweredUpdateIsWhole ==
    [][\A r \in Requests :
         req[r].kind = "update" /\ ~req[r].disturbed /\ req[r].at # "done" /\ req'[r].status = 200 =>
           LET row == rows[req[r].user]
               body == req[r].body
           IN /\ \A f \in {"email", "name", "image"} : body[f] # None => row[f] = body[f]
              /\ body.username # None => row.username \in {body.username, Lower[body.username]}]_vars

\* A client that walked all pages has seen every user once, if nobody wrote
\* meanwhile and no two users were created at one instant.
SameInstant == \E u, v \in DOMAIN rows : u # v /\ rows[u].createdAt = rows[v].createdAt
WalkSeesEachUserOnce ==
    [][\A r \in Requests :
         req[r].kind = "walk" /\ req[r].at # "done" /\ req'[r].status = 200
           /\ ~req[r].disturbed /\ ~SameInstant =>
             LET seen == req[r].seen \o req[r].items IN
             /\ Len(seen) = Cardinality(DOMAIN rows)
             /\ {seen[i] : i \in DOMAIN seen} = DOMAIN rows]_vars

\* For each cursor that is an id the Paginator returns the rows next to it in
\* the order asked for, and a cursor on a side exactly if rows are left there.
Below(ids, c) == {i \in ids : i < c}
Above(ids, c) == {i \in ids : i > c}
PaginatorIsExact ==
    \A limit \in Limits, c \in DOMAIN rows :
        LET ids == DOMAIN rows
            after == Paginate(ids, c, Absent, limit, "desc")
            before == Paginate(ids, Absent, c, limit, "desc")
            upper == Ordered(Above(ids, c), "desc")
        IN /\ after.data = Take(Ordered(Below(ids, c), "desc"), 1, limit)
           /\ (after.afterCursor # Absent) = (Cardinality(Below(ids, c)) > limit)
           /\ before.data = SubSeq(upper, Len(upper) - AtMost(limit, Len(upper)) + 1, Len(upper))
           /\ (before.beforeCursor # Absent) = (Len(upper) > limit)
=============================================================================
