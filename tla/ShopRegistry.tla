---------------------------- MODULE ShopRegistry ----------------------------
(* What the TikTok authorization service promises its callers: a registry in
   which every existing user holds at most one shop and every shop is held by
   at most one user (prisma/schema.prisma: userId and shopId are both @unique),
   changed only by connecting a shop, disconnecting it, or removing the user.
   Tokens, TikTok's answers and the requests in flight are not visible here. *)
CONSTANTS Users, Shops, None

VARIABLES
    users,      \* the users that exist
    shopOf      \* the shop each user is connected to, or None

vars == <<users, shopOf>>

Init ==
    /\ users = Users
    /\ shopOf = [u \in Users |-> None]

(* Connecting replaces an earlier connection of the same user; a shop that
   another user holds cannot be connected. *)
Connect(u, s) ==
    /\ u \in users
    /\ \A v \in Users \ {u} : shopOf[v] # s
    /\ shopOf' = [shopOf EXCEPT ![u] = s]
    /\ UNCHANGED users

Disconnect(u) ==
    /\ shopOf[u] # None
    /\ shopOf' = [shopOf EXCEPT ![u] = None]
    /\ UNCHANGED users

Remove(u) ==
    /\ u \in users
    /\ users' = users \ {u}
    /\ shopOf' = [shopOf EXCEPT ![u] = None]

Next ==
    \E u \in Users :
        \/ \E s \in Shops : Connect(u, s)
        \/ Disconnect(u)
        \/ Remove(u)

Spec == Init /\ [][Next]_vars
=============================================================================
