------------------------------ MODULE MC_Users ------------------------------
(* A small instance of Users for TLC. *)
EXTENDS Users
CONSTANTS r1, r2, e1, e2, e3, n1, n2, n3, Capital   \* a name with one, n3 without
Names == {n1, n2, n3, Capital}
MCLower == [n \in Names |-> IF n = Capital THEN n3 ELSE n]
Profile(email, username, name, image) ==
    [email |-> email, username |-> username, name |-> name, image |-> image]
MCProfiles == {Profile(e3, None, "new", None), Profile(None, Capital, None, None),
               Profile(e3, n3, "new", "new"), Profile(Null, n1, None, "new")}
Row(email, username, at) ==
    [email |-> email, username |-> username, name |-> "old", image |-> "old", createdAt |-> at]
MCSignUps == {Profile(e3, Capital, None, None), Profile(e3, n1, None, None),
              Profile(e2, None, None, None)}
MCTables == {(1 :> Row(e1, n1, t)) @@ (2 :> Row(e, n2, 2)) : t \in {1, 2}, e \in {e2, e3}}
            \cup {(1 :> Row(e1, n1, 1)) @@ (2 :> Row(e2, n2, t)) @@ (3 :> Row(e3, Null, 3)) : t \in {2, 3}}
MCSymmetry == Permutations(Requests)
=============================================================================
