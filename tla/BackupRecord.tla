----------------------------- MODULE BackupRecord -----------------------------
(***************************************************************************)
(* What a row of "backups" promises to whoever reads it: an abstract       *)
(* specification, implemented by module Backups. A backup is requested and *)
(* settles; "available" means that an upload made for this very backup was *)
(* completed under its key, and that object stays there; only the death of *)
(* a worker can change a settled outcome; and a backup that went away with *)
(* its server never comes back. What the object holds is another matter:   *)
(* the agent completes an upload wherever the output of "tar" ends, so it  *)
(* may be cut short.                                                       *)
(***************************************************************************)
EXTENDS Naturals

CONSTANT Backups    \* ids of rows of "backups"

VARIABLES
    record,     \* the status of each backup; "none" before, "gone" after its row
    stored,     \* the backups that have an object of their own in the store
    reruns      \* how many jobs were run again

record_vars == <<record, stored, reruns>>

Settled == {"available", "failed"}

Init ==
    /\ record = [b \in Backups |-> "none"]
    /\ stored = {}
    /\ reruns = 0

Request(b) ==
    /\ record[b] = "none"
    /\ record' = [record EXCEPT ![b] = "creating"]
    /\ UNCHANGED <<stored, reruns>>

\* An upload made for b is completed, in time or after everybody forgot it.
Store(b) ==
    /\ record[b] # "none"
    /\ stored' = stored \cup {b}
    /\ UNCHANGED <<record, reruns>>

Settle(b, outcome) ==
    /\ record[b] = "creating" \/ (record[b] \in Settled /\ reruns > 0)
    /\ outcome = "available" => b \in stored
    /\ record' = [record EXCEPT ![b] = outcome]
    /\ UNCHANGED <<stored, reruns>>

\* A server is deleted, and with it the rows of its backups.
Drop(S) ==
    /\ \A b \in S : record[b] \in {"creating"} \cup Settled
    /\ record' = [b \in Backups |-> IF b \in S THEN "gone" ELSE record[b]]
    /\ UNCHANGED <<stored, reruns>>

Rerun ==
    /\ reruns' = reruns + 1
    /\ UNCHANGED <<record, stored>>

Next ==
    \/ \E b \in Backups : Request(b) \/ Store(b) \/ \E o \in Settled : Settle(b, o)
    \/ \E S \in SUBSET Backups : Drop(S)
    \/ Rerun

Spec == Init /\ [][Next]_record_vars
=============================================================================
