------------------------ MODULE MC_SocketPresence ------------------------
(* One user on two servers and another user on the second. *)
EXTENDS SocketPresence, TLC

CONSTANTS u1, u2, s1, s2, c1, c2, c3

MCUserOf == c1 :> u1 @@ c2 :> u1 @@ c3 :> u2
MCServerOf == c1 :> s1 @@ c2 :> s2 @@ c3 :> s2
=============================================================================
