------------------------------ MODULE MCMembers ------------------------------
(* Instances of Members for TLC. *)
EXTENDS Members, TLC

CONSTANTS ann, bob, eve

\* Every server belongs to Ann.
AnnOwns == [s \in Servers |-> ann]

Symmetry == Permutations(Requests) \cup Permutations(Invites) \cup Permutations(Servers)
=============================================================================
