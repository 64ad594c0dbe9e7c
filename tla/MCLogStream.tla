------------------------------ MODULE MCLogStream ------------------------------
(* An instance of LogStream for TLC, without symmetry: it checks liveness. *)
EXTENDS LogStream, TLC
=============================================================================
