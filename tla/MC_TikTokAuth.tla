--------------------------- MODULE MC_TikTokAuth ----------------------------
(* Instances of TikTokAuth for TLC. *)
EXTENDS TikTokAuthDocs, TLC

(* Users, shops and request slots are interchangeable. *)
Symmetry == Permutations(Users) \cup Permutations(Shops) \cup Permutations(Requests)
=============================================================================
