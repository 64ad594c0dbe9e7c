------------------------------- MODULE NodeAgent -------------------------------
(***************************************************************************)
(* The node agent: what its HTTP operations do to the Docker containers of *)
(* its host. Pure operators over a table of containers; module Lifecycle   *)
(* holds the table and decides when a request reaches the agent.           *)
(*                                                                         *)
(* A container record is [state, srv, node]: its Docker state, the server  *)
(* whose id is in its name "gh-<server id>", and the host it lives on.     *)
(***************************************************************************)
CONSTANT Containers     \* Docker container ids

ContainerStates == {"free", "created", "running", "stopped", "removed"}

LiveStates == {"created", "running", "stopped"}

Live(ctrs, c) == ctrs[c].state \in LiveStates

\* Mutant: names that do not derive from the server's id are never taken.
NameNeverTaken(ctrs, s, n) == FALSE

\* Docker refuses a second container of the same name on one host (409).
NameTaken(ctrs, s, n) ==
    \E c \in Containers : Live(ctrs, c) /\ ctrs[c].srv = s /\ ctrs[c].node = n

Free(ctrs) == {c \in Containers : ctrs[c].state = "free"}

\* containers.run creates the container and then starts it; when the second
\* half fails the container stays behind in state "created".
AfterCreate(ctrs, c, s, n, state) ==
    [ctrs EXCEPT ![c] = [state |-> state, srv |-> s, node |-> n]]

\* start and restart leave the container running whatever it was; stop leaves
\* alone what does not run; remove uses force and takes a running container.
NewState(op, state) ==
    CASE op \in {"start", "restart"} -> "running"
      [] op = "stop" -> IF state = "running" THEN "stopped" ELSE state
      [] op = "delete" -> "removed"

\* An operation on a container id that is not there answers 404.
AfterOp(ctrs, c, op) ==
    IF Live(ctrs, c) THEN [ctrs EXCEPT ![c].state = NewState(op, @)] ELSE ctrs
=============================================================================
