----------------------------- MODULE NodeSelector -----------------------------
(***************************************************************************)
(* The scheduler of the panel: which node receives a new game server.      *)
(* Pure operators over the rows of the tables "nodes" and "servers";       *)
(* module Lifecycle calls LeastLoaded from the provision job.              *)
(*                                                                         *)
(* CPU is counted in cores and memory in units of 1024 MB.                 *)
(***************************************************************************)
EXTENDS Naturals, FiniteSets, FiniteSetsExt

CONSTANTS
    Nodes,      \* ids of rows of "nodes", each with the host behind it
    Servers,    \* ids of rows of "servers"
    None        \* SQL NULL, Python None, a missing JSON key

ASSUME NoneAssumption == None \notin Nodes \cup Servers \cup Nat

-----------------------------------------------------------------------------
(* The JSON column servers.resources. The API stores camelCase keys when    *)
(* the request carries resources, and whatever keys the template has        *)
(* otherwise, so each of the four keys may be missing.                      *)
Resources == [cpuCores : Nat \cup {None}, cpu_cores : Nat \cup {None},
              memMb : Nat \cup {None}, mem_mb : Nat \cup {None}]

\* The statuses of a server whose resources count as used.
CountedStatuses == {"provisioning", "running"}

\* resources.get(key, resources.get(alt, 1)): what a server asks for.
FirstKey(value, alt) == IF value # None THEN value
                        ELSE IF alt # None THEN alt ELSE 1

ReqCpu(res) == FirstKey(res.cpuCores, res.cpu_cores)
ReqMem(res) == FirstKey(res.memMb, res.mem_mb)

CountedOn(n, servers) ==
    {s \in Servers : servers[s].node = n /\ servers[s].status \in CountedStatuses}

\* The SUM of f over the rows of S.
Total(f, S) == MapThenSumSet(LAMBDA s : f[s], S)

\* SUM over the rows of S ignores NULL: a row without the camelCase key adds
\* nothing.
SummedCpu(S, servers) ==
    LET summed == {s \in S : servers[s].res.cpuCores # None}
    IN  Total([s \in summed |-> servers[s].res.cpuCores], summed)

SummedMem(S, servers) ==
    LET summed == {s \in S : servers[s].res.memMb # None}
    IN  Total([s \in summed |-> servers[s].res.memMb], summed)

UsedCpu(n, servers) == SummedCpu(CountedOn(n, servers), servers)
UsedMem(n, servers) == SummedMem(CountedOn(n, servers), servers)

\* Mutant: room for what is there already, not for the new server.
FitsWithoutRequest(n, nodes, servers, res) ==
    /\ nodes[n].status = "online"
    /\ nodes[n].cpu >= UsedCpu(n, servers)
    /\ nodes[n].mem >= UsedMem(n, servers)

\* The WHERE clause: online, and enough of both resources left.
Fits(n, nodes, servers, res) ==
    /\ nodes[n].status = "online"
    /\ nodes[n].cpu >= UsedCpu(n, servers) + ReqCpu(res)
    /\ nodes[n].mem >= UsedMem(n, servers) + ReqMem(res)

\* The ORDER BY clause compares used / capacity; capacities are positive.
NoMoreLoaded(n, m, nodes, servers) ==
    UsedCpu(n, servers) * nodes[m].cpu <= UsedCpu(m, servers) * nodes[n].cpu

\* The nodes the query may return first: LIMIT 1 picks any of the equally
\* loaded ones. Empty when the query returns no row.
LeastLoaded(nodes, servers, res) ==
    LET fitting == {n \in Nodes : Fits(n, nodes, servers, res)}
    IN  {n \in fitting : \A m \in fitting : NoMoreLoaded(n, m, nodes, servers)}
=============================================================================
