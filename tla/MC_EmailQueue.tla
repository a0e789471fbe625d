--------------------------- MODULE MC_EmailQueue ---------------------------
(* Instances of the queue for TLC. *)
EXTENDS EmailQueue, TLC

(* Workers are interchangeable. *)
Symmetric == Permutations(Workers)
=============================================================================
