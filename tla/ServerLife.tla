------------------------------ MODULE ServerLife ------------------------------
(***************************************************************************)
(* What the rest of the panel may rely on about a game server, whatever    *)
(* the lifecycle jobs do: an abstract specification. Module Lifecycle      *)
(* implements it (ServerLifeRefinement); module Backups is composed with   *)
(* it instead of with all of Lifecycle.                                    *)
(*                                                                         *)
(* Nothing here says which job writes a status or in what order; it says   *)
(* that each status is one somebody asked for, that "running" and          *)
(* "stopped" belong to a container, and that a deleted server is gone.     *)
(***************************************************************************)
EXTENDS Naturals

CONSTANTS
    Servers,    \* ids of rows of "servers"
    Asks,       \* the requests clients make in this instance, of Kinds
    MaxCrashes  \* bound, a number: how often a worker dies in the middle of a job

LifecycleKinds == {"start", "stop", "restart"}
Kinds == {"provision", "delete"} \cup LifecycleKinds

VARIABLES
    row,        \* servers.status; "none" before the commit, "gone" after the delete
    box,        \* the container on record: none, on its node, or its node was deleted
    up,         \* the servers with a container that runs
    asked,      \* the requests ever made for the server
    crashes     \* how many workers died so far; their jobs run again

life == <<row, box, up, asked, crashes>>

Statuses == {"none", "pending", "provisioning", "running",
             "stopped", "failed", "deleting", "gone"}

Exists(s) == row[s] \notin {"none", "gone"}

Init ==
    /\ row = [s \in Servers |-> "none"]
    /\ box = [s \in Servers |-> "none"]
    /\ up = {}
    /\ asked = [s \in Servers |-> {}]
    /\ crashes = 0

\* The statuses in which the API accepts a request.
Accepts(s, kind) ==
    CASE kind = "provision" -> row[s] = "none" /\ asked[s] = {}
      [] kind = "start" -> row[s] \in {"stopped", "failed"}
      [] kind \in {"stop", "restart"} -> row[s] = "running"
      [] kind = "delete" -> Exists(s) /\ row[s] # "deleting"

Ask(s, kind) ==
    /\ kind \in Asks
    /\ Accepts(s, kind)
    /\ asked' = [asked EXCEPT ![s] = @ \cup {kind}]
    /\ UNCHANGED <<row, box, up, crashes>>

\* The row becomes visible.
Appear(s) ==
    /\ row[s] = "none"
    /\ "provision" \in asked[s]
    /\ row' = [row EXCEPT ![s] = "pending"]
    /\ UNCHANGED <<box, up, asked, crashes>>

\* The statuses in which the provision job finds its server: it runs once,
\* unless its worker died.
Provisioning(s) ==
    /\ "provision" \in asked[s]
    /\ Exists(s)
    /\ row[s] \in {"pending", "provisioning", "deleting"} \/ crashes > 0

\* The provision job works on the server, or gives it up.
Provision(s) ==
    /\ Provisioning(s)
    /\ \E new \in {"provisioning", "failed"} : row' = [row EXCEPT ![s] = new]
    /\ UNCHANGED <<box, up, asked, crashes>>

\* Somebody asked for what makes containers of the server run again.
Restarted(s) == asked[s] \cap {"start", "restart"} # {}

\* A provision job runs again, or a late request of it may find that its
\* first container was removed.
Remade(s) == "delete" \in asked[s] \/ crashes > 0

\* The provision job records the container it has made, and started.
Place(s) ==
    /\ Provisioning(s)
    /\ s \in up \/ Remade(s)
    /\ row' = [row EXCEPT ![s] = "running"]
    /\ box' = [box EXCEPT ![s] = "placed"]
    /\ UNCHANGED <<up, asked, crashes>>

\* A start, stop or restart that somebody asked for is reported as done.
Switch(s, kind) ==
    /\ Exists(s)
    /\ kind \in asked[s]
    /\ box[s] # "none"
    /\ kind = "stop" /\ s \in up => Restarted(s) \/ Remade(s)
    /\ row' = [row EXCEPT ![s] = IF kind = "stop" THEN "stopped" ELSE "running"]
    /\ UNCHANGED <<box, up, asked, crashes>>

\* An agent starts a container of the server, the first one or another.
Starts(s) ==
    /\ s \notin up
    /\ \/ "provision" \in asked[s] /\ (box[s] = "none" \/ Remade(s))
       \/ Restarted(s)
    /\ up' = up \cup {s}
    /\ UNCHANGED <<row, box, asked, crashes>>

\* An agent stops or removes it.
Stops(s) ==
    /\ s \in up
    /\ asked[s] \cap {"stop", "delete"} # {}
    /\ up' = up \ {s}
    /\ UNCHANGED <<row, box, asked, crashes>>

Deleting(s) ==
    /\ Exists(s)
    /\ "delete" \in asked[s]
    /\ row' = [row EXCEPT ![s] = "deleting"]
    /\ UNCHANGED <<box, up, asked, crashes>>

\* An admin deletes the node of the servers S.
Unplace(S) ==
    /\ \A s \in S : box[s] = "placed"
    /\ box' = [s \in Servers |-> IF s \in S THEN "lost" ELSE box[s]]
    /\ UNCHANGED <<row, up, asked, crashes>>

\* The row is deleted, for good.
Gone(s) ==
    /\ Exists(s)
    /\ "delete" \in asked[s]
    /\ row' = [row EXCEPT ![s] = "gone"]
    /\ box' = [box EXCEPT ![s] = "none"]
    /\ UNCHANGED <<up, asked, crashes>>

\* A worker dies.
Crash ==
    /\ crashes < MaxCrashes
    /\ crashes' = crashes + 1
    /\ UNCHANGED <<row, box, up, asked>>

\* Every step but the deletion of a row.
Living(s) ==
    \/ \E kind \in Kinds : Ask(s, kind)
    \/ Appear(s) \/ Provision(s) \/ Place(s)
    \/ \E kind \in LifecycleKinds : Switch(s, kind)
    \/ Starts(s) \/ Stops(s) \/ Deleting(s)

Next ==
    \/ \E s \in Servers : Living(s) \/ Gone(s)
    \/ \E S \in SUBSET Servers : Unplace(S)
    \/ Crash

Spec == Init /\ [][Next]_life
=============================================================================
