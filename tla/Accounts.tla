------------------------------ MODULE Accounts ------------------------------
(* The user table as the mail subsystem sees it: who exists, and under which
   e-mail address.  Both servers read it; the user service changes it. *)
CONSTANTS Users, Emails, None

ASSUME AccountNone == None \notin Users \cup Emails

VARIABLE email      \* the address of each user, None when there is no such user

(* findByEmail, and findUnique by address in the worker: addresses are unique. *)
Holders(e) == {u \in Users : email[u] = e}

AccountInit ==
    email \in {f \in [Users -> Emails] : \A u, v \in Users : f[u] = f[v] => u = v}

(* A profile update moves a user to a free address. *)
ChangeEmail(u, e) ==
    /\ email[u] # None
    /\ Holders(e) = {}
    /\ email' = [email EXCEPT ![u] = e]

DeleteUser(u) ==
    /\ email[u] # None
    /\ email' = [email EXCEPT ![u] = None]
=============================================================================
