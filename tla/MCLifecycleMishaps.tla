-------------------------- MODULE MCLifecycleMishaps --------------------------
(* Instances of LifecycleMishaps for TLC. *)
EXTENDS LifecycleMishaps, MCLifecycle
=============================================================================
