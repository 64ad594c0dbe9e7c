----------------------------- MODULE MCLifecycle -----------------------------
(* Instances of Lifecycle for TLC. *)
EXTENDS ServerLifeRefinement, TLC

Size(cpu, mem) == [cpuCores |-> cpu, cpu_cores |-> None, memMb |-> mem, mem_mb |-> None]

Keyless == [cpuCores |-> None, cpu_cores |-> 1, memMb |-> None, mem_mb |-> 1]

OneSize == {Size(1, 1)}
TwoSizes == {Size(1, 1), Size(2, 1)}
MixedSizes == {Keyless, Size(2, 1)}
OneCapacity == {[cpu |-> 2, mem |-> 2]}

Symmetry == Permutations(Tasks) \cup Permutations(Containers)
                \cup Permutations(Servers) \cup Permutations(Nodes)
=============================================================================
