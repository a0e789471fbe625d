---------------------------- MODULE MC_AuthMail ----------------------------
(* Instances of the requests for mail for TLC. *)
EXTENDS AuthMail, TLC

(* Requests in flight are interchangeable, and so are jobs. *)
Symmetric == Permutations(Requests) \cup Permutations(Jobs)
=============================================================================
