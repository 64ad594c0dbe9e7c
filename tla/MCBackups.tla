------------------------------- MODULE MCBackups -------------------------------
(* Instances of Backups for TLC. *)
EXTENDS Backups, TLC

Symmetry == Permutations(Tasks) \cup Permutations(Backups)
=============================================================================
