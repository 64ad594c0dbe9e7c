------------------------------- MODULE MCAuth -------------------------------
(* Instances of Auth for TLC. *)
EXTENDS Auth, TLC

Symmetry == Permutations(Users) \cup Permutations(Requests)
=============================================================================
