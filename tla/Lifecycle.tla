------------------------------ MODULE Lifecycle ------------------------------
(***************************************************************************)
(* The life of a game server: the API handlers that accept a request, the  *)
(* worker's jobs that carry it out, and the node agents they call.         *)
(*                                                                         *)
(* A request is known by the id of the task it creates; the ARQ job has    *)
(* the same id, so req[t], task[t] and job[t] are the three faces of one   *)
(* request: the HTTP handler with its open database transaction, the row   *)
(* of "tasks", and the job in Redis or in a worker.                        *)
(*                                                                         *)
(* Between two actions lie the points where the code really lets others    *)
(* run: a commit, a call to an agent, and a SELECT whose result is used by *)
(* a later statement. PostgreSQL runs at READ COMMITTED: rows are visible  *)
(* once committed, and a statement that touches a row an open transaction  *)
(* has written waits for it (RowLocked, KeyLocked).                        *)
(***************************************************************************)
EXTENDS NodeSelector, NodeAgent

CONSTANTS
    Tasks,        \* ids of rows of "tasks"
    Sizes,        \* the resources a client or a template may ask for
    Capacities,   \* the capacities an admin may declare for a node
    Requests,     \* the API operations clients use in this instance
    AdminOps,     \* the node operations admins use in this instance
    Faults,       \* the failures that happen in this instance
    MaxRetries,   \* NodeAgentClient(max_retries)
    MaxJobs,      \* WorkerSettings.max_jobs over all workers
    MaxCrashes    \* bound: how often a worker dies in the middle of a job

LifecycleKinds == {"start", "stop", "restart"}
Kinds == {"provision", "delete"} \cup LifecycleKinds

ASSUME LifecycleAssumption ==
    /\ None \notin Containers
    /\ Sizes \subseteq Resources
    /\ Capacities \subseteq [cpu : Nat \ {0}, mem : Nat \ {0}]
    /\ Requests \subseteq Kinds \cup {"patch"}
    /\ AdminOps \subseteq {"create", "patch", "delete"}
    /\ Faults \subseteq {"rollback", "connect", "docker", "timeout", "transport"}
    /\ MaxRetries \in Nat \ {0}
    /\ MaxJobs \in Nat \ {0}
    /\ MaxCrashes \in Nat

VARIABLES
    srv,        \* the committed rows of "servers"
    task,       \* the committed rows of "tasks" (status, server_id)
    req,        \* the API request behind each task
    job,        \* the ARQ job of each task
    ctr,        \* the containers of all hosts
    late,       \* requests an agent holds whose caller no longer waits
    node,       \* the rows of "nodes"
    crashes     \* how many worker crashes happened so far

vars == <<srv, task, req, job, ctr, late, node, crashes>>

-----------------------------------------------------------------------------
(* State *)

ServerStatuses == {"absent", "pending", "provisioning", "running",
                   "stopped", "failed", "deleting"}
TaskStatuses == {"absent", "pending", "running", "succeeded", "failed"}

NoServer == [status |-> "absent", node |-> None, cid |-> None, res |-> None,
             patch |-> FALSE]

\* "patch" is no column: PATCH handlers have read this row as "stopped", any
\* number of them, and may still write to it.
ServerRows == [status : ServerStatuses, node : Nodes \cup {None},
               cid : Containers \cup {None}, res : Sizes \cup {None},
               patch : BOOLEAN]

TaskRows == [status : TaskStatuses, srv : Servers \cup {None}]

NodeRows == [status : {"absent", "online", "drain", "deleted"}, cpu : Nat, mem : Nat]

ContainerRows == [state : ContainerStates, srv : Servers \cup {None},
                  node : Nodes \cup {None}]

RequestStates == [pc : {"idle", "checked", "flushed", "committed", "aborted"},
                  kind : Kinds \cup {"none"}, srv : Servers \cup {None}]

\* Where a job waits for an agent, and where it goes when the call failed.
CallPcs == {"p_create", "p_inspect", "l_call", "d_call"}
ActivePcs == CallPcs \cup
    {"p_load", "p_save", "p_done", "p_fail", "p_failsave",
     "l_load", "l_find", "l_save", "l_fail", "d_load", "d_node", "d_row", "d_fail"}

JobPcs == {"none", "queued", "ended", "done"} \cup ActivePcs

\* The attempts of NodeAgentClient._retry.
Attempts == 0 .. MaxRetries - 1

\* "seen" is the status column a job has read and not used yet.
JobStates == [pc : JobPcs, srv : Servers \cup {None}, node : Nodes \cup {None},
              cid : Containers \cup {None}, att : Attempts,
              seen : ServerStatuses \cup TaskStatuses]

NoJob == [pc |-> "none", srv |-> None, node |-> None, cid |-> None,
          att |-> 0, seen |-> "absent"]

AgentOps == {"create", "delete"} \cup LifecycleKinds

\* A request in an agent's hands; "run" and "att" tell its copies apart.
AgentRequests == [task : Tasks, run : 0 .. MaxCrashes, att : Attempts,
                  op : AgentOps, srv : Servers,
                  node : Nodes, cid : Containers \cup {None}]

Init ==
    /\ srv = [s \in Servers |-> NoServer]
    /\ task = [t \in Tasks |-> [status |-> "absent", srv |-> None]]
    /\ req = [t \in Tasks |-> [pc |-> "idle", kind |-> "none", srv |-> None]]
    /\ job = [t \in Tasks |-> NoJob]
    /\ ctr = [c \in Containers |-> [state |-> "free", srv |-> None, node |-> None]]
    /\ late = {}
    /\ IF "create" \in AdminOps
       THEN node = [n \in Nodes |-> [status |-> "absent", cpu |-> 0, mem |-> 0]]
       ELSE \E cap \in Capacities :
                node = [n \in Nodes |-> [status |-> "online", cpu |-> cap.cpu,
                                         mem |-> cap.mem]]
    /\ crashes = 0

\* A transaction that inserted a task of server s, and maybe set its status.
Flushed(t, s) == req[t].pc = "flushed" /\ req[t].srv = s

\* UPDATE of a server waits for a transaction that updated it.
RowLocked(s) == \E t \in Tasks : Flushed(t, s) /\ req[t].kind = "delete"

\* DELETE of a server waits, too, for an inserted row that refers to it.
KeyLocked(s) == \E t \in Tasks : Flushed(t, s)

\* A step of job t leaves it in state r.
Becomes(t, r) == job' = [job EXCEPT ![t] = r]

Goto(t, pc) == Becomes(t, [job[t] EXCEPT !.pc = pc])

-----------------------------------------------------------------------------
(* API: each handler runs inside one transaction that get_session commits   *)
(* after the handler returned, hence after it enqueued the job.             *)

\* The task row is inserted and the job enqueued; nothing is committed yet.
FlushAndEnqueue(t, kind, s) ==
    /\ req' = [req EXCEPT ![t] = [pc |-> "flushed", kind |-> kind, srv |-> s]]
    /\ Goto(t, "queued")

\* POST /servers. The row stays invisible (status "absent") until the commit.
Create(t, s, size) ==
    /\ "provision" \in Requests
    /\ req[t].pc = "idle"
    /\ \A u \in Tasks : req[u].srv # s          \* uuid4: never used before
    /\ srv' = [srv EXCEPT ![s].res = size]
    /\ FlushAndEnqueue(t, "provision", s)
    /\ UNCHANGED <<task, ctr, late, node, crashes>>

\* Mutant: a start is accepted before the server was provisioned.
LifecycleAllowedEarly(kind) ==
    IF kind = "start" THEN {"provisioning", "stopped", "failed"} ELSE {"running"}

\* _LIFECYCLE_ALLOWED: the statuses from which an action is accepted.
LifecycleAllowed(kind) ==
    CASE kind = "start" -> {"stopped", "failed"}
      [] kind \in {"stop", "restart"} -> {"running"}

\* POST /servers/{id}/start, stop, restart. Inserting the task takes a key
\* lock on the server row only, so it does not wait for a pending delete.
RequestAction(t, s, kind) ==
    /\ kind \in Requests
    /\ req[t].pc = "idle"
    /\ srv[s].status \in LifecycleAllowed(kind)
    /\ FlushAndEnqueue(t, kind, s)
    /\ UNCHANGED <<srv, task, ctr, late, node, crashes>>

\* PATCH /servers/{id}: the handler reads a server that is stopped ...
PatchCheck(s) ==
    /\ "patch" \in Requests
    /\ srv[s].status = "stopped"
    /\ srv' = [srv EXCEPT ![s].patch = TRUE]
    /\ UNCHANGED <<task, req, job, ctr, late, node, crashes>>

\* ... and writes the new resources, whatever the status is by now. The
\* container is left as it is. If the row is gone the UPDATE matches nothing
\* and the handler fails.
Patch(s, size) ==
    /\ srv[s].patch
    /\ ~RowLocked(s)
    /\ srv' = [srv EXCEPT ![s].res = size]
    /\ UNCHANGED <<task, req, job, ctr, late, node, crashes>>

\* DELETE /servers/{id}: the handler reads the committed status ...
DeleteCheck(t, s) ==
    /\ "delete" \in Requests
    /\ req[t].pc = "idle"
    /\ srv[s].status \notin {"absent", "deleting"}
    /\ req' = [req EXCEPT ![t] = [pc |-> "checked", kind |-> "delete", srv |-> s]]
    /\ UNCHANGED <<srv, task, job, ctr, late, node, crashes>>

\* ... and then writes "deleting", whatever the row holds by now. If the row
\* is gone the UPDATE matches nothing and the handler fails (StaleDataError).
DeleteFlush(t) ==
    /\ req[t].pc = "checked"
    /\ ~RowLocked(req[t].srv)
    /\ IF srv[req[t].srv].status = "absent"
       THEN /\ req' = [req EXCEPT ![t].pc = "aborted"]
            /\ UNCHANGED job
       ELSE FlushAndEnqueue(t, "delete", req[t].srv)
    /\ UNCHANGED <<srv, task, ctr, late, node, crashes>>

\* get_session commits: the task becomes visible, and with it the new server
\* or the status "deleting".
Commit(t) ==
    /\ req[t].pc = "flushed"
    /\ req' = [req EXCEPT ![t].pc = "committed"]
    /\ task' = [task EXCEPT ![t] = [status |-> "pending", srv |-> req[t].srv]]
    /\ srv' = [srv EXCEPT ![req[t].srv].status =
                 CASE req[t].kind = "provision" -> "pending"
                   [] req[t].kind = "delete" -> "deleting"
                   [] OTHER -> @]
    /\ UNCHANGED <<job, ctr, late, node, crashes>>

\* The commit fails or the API dies before it; the job stays in the queue.
Rollback(t) ==
    /\ "rollback" \in Faults
    /\ req[t].pc = "flushed"
    /\ req' = [req EXCEPT ![t].pc = "aborted"]
    /\ srv' = IF req[t].kind = "provision"
              THEN [srv EXCEPT ![req[t].srv] = NoServer] ELSE srv
    /\ UNCHANGED <<task, job, ctr, late, node, crashes>>

-----------------------------------------------------------------------------
(* API: the registry of nodes. *)

\* POST /nodes.
NodeCreate(n, cap) ==
    /\ "create" \in AdminOps
    /\ node[n].status = "absent"
    /\ node' = [node EXCEPT ![n] = [status |-> "online", cpu |-> cap.cpu, mem |-> cap.mem]]
    /\ UNCHANGED <<srv, task, req, job, ctr, late, crashes>>

\* PATCH /nodes/{id}: the status or the capacity, without a look at the
\* servers that are placed there.
NodePatch(n, status, cap) ==
    /\ "patch" \in AdminOps
    /\ node[n].status \in {"online", "drain"}
    /\ node' = [node EXCEPT ![n] = [status |-> status, cpu |-> cap.cpu, mem |-> cap.mem]]
    /\ node' # node
    /\ UNCHANGED <<srv, task, req, job, ctr, late, crashes>>

\* DELETE /nodes/{id}: the foreign key of its servers is set to NULL. The
\* host, its agent and its containers know nothing of it.
NodeDelete(n) ==
    /\ "delete" \in AdminOps
    /\ node[n].status \in {"online", "drain"}
    /\ \A s \in Servers : srv[s].node = n => ~RowLocked(s)
    /\ node' = [node EXCEPT ![n].status = "deleted"]
    /\ srv' = [s \in Servers |->
                 IF srv[s].node = n THEN [srv[s] EXCEPT !.node = None] ELSE srv[s]]
    /\ UNCHANGED <<task, req, job, ctr, late, crashes>>

-----------------------------------------------------------------------------
(* Worker: starting and finishing a job *)

Visible(t) == task[t].status # "absent"

\* mark_running, mark_succeeded, mark_failed: silent when there is no row.
Marked(t, status) == IF Visible(t) THEN [task EXCEPT ![t].status = status] ELSE task

Busy == {t \in Tasks : job[t].pc \in ActivePcs \cup {"ended"}}

\* A worker takes the job from Redis whether the task is committed or not.
\* provision marks the task running in a transaction of its own; the other
\* jobs read the row here and use what they read in their first commit.
JobStart(t) ==
    /\ job[t].pc = "queued"
    /\ Cardinality(Busy) < MaxJobs
    /\ IF req[t].kind = "provision"
       THEN /\ Goto(t, "p_load")
            /\ task' = Marked(t, "running")
       ELSE /\ Becomes(t, [job[t] EXCEPT
                 !.pc = IF req[t].kind = "delete" THEN "d_load" ELSE "l_load",
                 !.seen = task[t].status, !.srv = task[t].srv])
            /\ UNCHANGED task
    /\ UNCHANGED <<srv, req, ctr, late, node, crashes>>

\* The coroutine returned or raised, and ARQ records the result. A job that
\* raised is not tried again.
ArqFinish(t) ==
    /\ job[t].pc = "ended"
    /\ Becomes(t, [NoJob EXCEPT !.pc = "done"])
    /\ UNCHANGED <<srv, task, req, ctr, late, node, crashes>>

-----------------------------------------------------------------------------
(* Worker: the job "provision" *)

\* The task, or its server, is not there: RuntimeError.
ProvisionMissing(t) ==
    /\ job[t].pc = "p_load"
    /\ task[t].srv = None
    /\ Goto(t, "p_fail")
    /\ UNCHANGED <<srv, task, req, ctr, late, node, crashes>>

\* least_loaded runs after set_status in the same transaction and sees it.
Candidates(s) ==
    LeastLoaded(node, [srv EXCEPT ![s].status = "provisioning"], srv[s].res)

\* NoCapacity: the transaction is rolled back, set_status with it.
ProvisionNoCapacity(t) ==
    /\ job[t].pc = "p_load"
    /\ LET s == task[t].srv IN
       /\ s # None
       /\ ~RowLocked(s)
       /\ Candidates(s) = {}
       /\ Becomes(t, [job[t] EXCEPT !.pc = "p_fail", !.srv = s])
    /\ UNCHANGED <<srv, task, req, ctr, late, node, crashes>>

\* The row is "provisioning" and a node is chosen, but servers.node_id stays
\* as it is until set_provisioned.
ProvisionPlace(t) ==
    /\ job[t].pc = "p_load"
    /\ LET s == task[t].srv IN
       /\ s # None
       /\ ~RowLocked(s)
       /\ \E n \in Candidates(s) :
             Becomes(t, [job[t] EXCEPT !.pc = "p_create", !.srv = s, !.node = n,
                                !.att = 0])
       /\ srv' = [srv EXCEPT ![s].status = "provisioning"]
    /\ UNCHANGED <<task, req, ctr, late, node, crashes>>

\* Mutant: the foreign key is not checked when the row is written.
ProvisionSaveUnchecked(t) ==
    /\ job[t].pc = "p_save"
    /\ LET s == job[t].srv IN
       /\ ~RowLocked(s)
       /\ IF srv[s].status = "absent"
          THEN Goto(t, "p_fail") /\ UNCHANGED srv
          ELSE /\ Goto(t, "p_done")
               /\ srv' = [srv EXCEPT ![s] = [@ EXCEPT !.status = "running",
                            !.node = job[t].node, !.cid = job[t].cid]]
    /\ UNCHANGED <<task, req, ctr, late, node, crashes>>

\* Mutant: an upsert, which brings a deleted row back.
ProvisionSaveUpsert(t) ==
    /\ job[t].pc = "p_save"
    /\ ~RowLocked(job[t].srv)
    /\ Goto(t, "p_done")
    /\ srv' = [srv EXCEPT ![job[t].srv] =
                 [@ EXCEPT !.status = "running", !.node = job[t].node, !.cid = job[t].cid]]
    /\ UNCHANGED <<task, req, ctr, late, node, crashes>>

\* Mutant: a job that runs again keeps the node it recorded the first time.
ProvisionSaveKeepsNode(t) ==
    /\ job[t].pc = "p_save"
    /\ LET s == job[t].srv IN
       /\ ~RowLocked(s)
       /\ IF srv[s].status = "absent"
          THEN Goto(t, "p_fail") /\ UNCHANGED srv
          ELSE /\ Goto(t, "p_done")
               /\ srv' = [srv EXCEPT ![s] = [@ EXCEPT !.status = "running", !.cid = job[t].cid,
                            !.node = IF @ = None THEN job[t].node ELSE @]]
    /\ UNCHANGED <<task, req, ctr, late, node, crashes>>

\* set_provisioned writes to the row the session read in ProvisionPlace: a
\* deleted server (StaleDataError) or a deleted node (foreign key) fails it.
ProvisionSave(t) ==
    /\ job[t].pc = "p_save"
    /\ LET s == job[t].srv IN
       /\ ~RowLocked(s)
       /\ IF srv[s].status = "absent" \/ node[job[t].node].status = "deleted"
          THEN /\ Goto(t, "p_fail")
               /\ UNCHANGED srv
          ELSE /\ Goto(t, "p_done")
               /\ srv' = [srv EXCEPT ![s] = [@ EXCEPT !.status = "running",
                            !.node = job[t].node, !.cid = job[t].cid]]
    /\ UNCHANGED <<task, req, ctr, late, node, crashes>>

ProvisionDone(t) ==
    /\ job[t].pc = "p_done"
    /\ Goto(t, "ended")
    /\ task' = Marked(t, "succeeded")
    /\ UNCHANGED <<srv, req, ctr, late, node, crashes>>

\* The except block reads the server ...
ProvisionFailFind(t) ==
    /\ job[t].pc = "p_fail"
    /\ LET s == job[t].srv IN
       IF s # None /\ srv[s].status # "absent"
       THEN /\ Becomes(t, [job[t] EXCEPT !.pc = "p_failsave", !.seen = srv[s].status])
            /\ UNCHANGED task
       ELSE /\ Goto(t, "ended")
            /\ task' = Marked(t, "failed")
    /\ UNCHANGED <<srv, req, ctr, late, node, crashes>>

\* The ORM writes a status only if it differs from the one it has read.
StatusWritten(s, seen, new) ==
    IF seen = new THEN srv ELSE [srv EXCEPT ![s].status = new]

\* ... and writes "failed" to it; if the row has gone in between, the block
\* itself fails (StaleDataError) before mark_failed.
ProvisionFailSave(t) ==
    /\ job[t].pc = "p_failsave"
    /\ LET s == job[t].srv IN
       /\ ~RowLocked(s)
       /\ IF srv[s].status = "absent"
          THEN UNCHANGED <<srv, task>>
          ELSE /\ srv' = StatusWritten(s, job[t].seen, "failed")
               /\ task' = Marked(t, "failed")
    /\ Goto(t, "ended")
    /\ UNCHANGED <<req, ctr, late, node, crashes>>

-----------------------------------------------------------------------------
(* Worker: the jobs "start", "stop" and "restart" (run_lifecycle) *)

\* Mutant: the server id travels in the job instead of being read.
LoadedTaskFromPayload(t) == [status |-> task[t].status, srv |-> req[t].srv]

\* The task as the first SELECT or, when that found none, the second saw it.
LoadedTask(t) ==
    IF job[t].seen # "absent" THEN [status |-> "running", srv |-> job[t].srv]
    ELSE task[t]

\* "task missing": mark_running is committed, mark_failed is not called.
LoadMissing(t) ==
    /\ job[t].pc \in {"l_load", "d_load"}
    /\ LoadedTask(t).srv = None
    /\ Goto(t, "ended")
    /\ task' = IF job[t].seen # "absent" THEN Marked(t, "running") ELSE task
    /\ UNCHANGED <<srv, req, ctr, late, node, crashes>>

\* Mutant: without a container there is nobody to call, only a status to set.
LifecycleUnprovisionedProceeds(t) ==
    /\ job[t].pc = "l_load"
    /\ LET s == LoadedTask(t).srv IN
       /\ s # None
       /\ srv[s].cid = None \/ srv[s].node = None
       /\ Becomes(t, [job[t] EXCEPT !.pc = "l_find", !.srv = s])
    /\ UNCHANGED <<srv, task, req, ctr, late, node, crashes>>

\* "server has no container/node". (A node deleted between the reads of the
\* server and of the node fails the task as well.)
LifecycleUnprovisioned(t) ==
    /\ job[t].pc = "l_load"
    /\ LET s == LoadedTask(t).srv IN
       /\ s # None
       /\ srv[s].cid = None \/ srv[s].node = None
    /\ Goto(t, "ended")
    /\ task' = Marked(t, "failed")
    /\ UNCHANGED <<srv, req, ctr, late, node, crashes>>

LifecycleLoad(t) ==
    /\ job[t].pc = "l_load"
    /\ LET s == LoadedTask(t).srv IN
       /\ s # None
       /\ srv[s].cid # None /\ srv[s].node # None
       /\ Becomes(t, [job[t] EXCEPT !.pc = "l_call", !.srv = s, !.att = 0,
                             !.node = srv[s].node, !.cid = srv[s].cid])
    /\ task' = [task EXCEPT ![t].status = LoadedTask(t).status]
    /\ UNCHANGED <<srv, req, ctr, late, node, crashes>>

\* Mutant: a restart ends like a stop.
TargetStatusOfRestart(kind) == IF kind = "start" THEN "running" ELSE "stopped"

TargetStatus(kind) == IF kind = "stop" THEN "stopped" ELSE "running"

\* The agent has answered: set_status reads the server ...
LifecycleFind(t) ==
    /\ job[t].pc = "l_find"
    /\ Becomes(t, [job[t] EXCEPT !.pc = "l_save", !.seen = srv[job[t].srv].status])
    /\ UNCHANGED <<srv, task, req, ctr, late, node, crashes>>

\* ... and writes the target status in the transaction that ends the task. A
\* row that was not found is skipped; one that has gone since raises.
LifecycleSave(t) ==
    /\ job[t].pc = "l_save"
    /\ LET s == job[t].srv IN
       /\ ~RowLocked(s)
       /\ \/ /\ job[t].seen = "absent"
             /\ Goto(t, "ended")
             /\ task' = Marked(t, "succeeded")
             /\ UNCHANGED srv
          \/ /\ job[t].seen # "absent" /\ srv[s].status # "absent"
             /\ Goto(t, "ended")
             /\ task' = Marked(t, "succeeded")
             /\ srv' = StatusWritten(s, job[t].seen, TargetStatus(req[t].kind))
          \/ /\ job[t].seen # "absent" /\ srv[s].status = "absent"
             /\ Goto(t, "l_fail")
             /\ UNCHANGED <<srv, task>>
    /\ UNCHANGED <<req, ctr, late, node, crashes>>

\* Mutant: the exception is raised without mark_failed.
JobFailUnmarked(t) ==
    /\ job[t].pc \in {"l_fail", "d_fail"}
    /\ Goto(t, "ended")
    /\ UNCHANGED <<srv, task, req, ctr, late, node, crashes>>

\* The except block of run_lifecycle and of delete: the server is left alone.
JobFail(t) ==
    /\ job[t].pc \in {"l_fail", "d_fail"}
    /\ Goto(t, "ended")
    /\ task' = Marked(t, "failed")
    /\ UNCHANGED <<srv, req, ctr, late, node, crashes>>

-----------------------------------------------------------------------------
(* Worker: the job "delete" *)

\* The server is gone already: the task has succeeded.
DeleteNothing(t) ==
    /\ job[t].pc = "d_load"
    /\ LET s == LoadedTask(t).srv IN s # None /\ srv[s].status = "absent"
    /\ Goto(t, "ended")
    /\ task' = Marked(t, "succeeded")
    /\ UNCHANGED <<srv, req, ctr, late, node, crashes>>

\* Mutant: only a server that is shown as running has its container removed.
DeleteLoadOnlyRunning(t) ==
    /\ job[t].pc = "d_load"
    /\ LET s == LoadedTask(t).srv
           placed == srv[s].cid # None /\ srv[s].node # None /\ srv[s].status = "running"
       IN
       /\ s # None
       /\ srv[s].status # "absent"
       /\ Becomes(t, [job[t] EXCEPT !.pc = IF placed THEN "d_node" ELSE "d_row",
                             !.srv = s, !.node = srv[s].node,
                             !.cid = IF placed THEN srv[s].cid ELSE None])
    /\ task' = [task EXCEPT ![t].status = LoadedTask(t).status]
    /\ UNCHANGED <<srv, req, ctr, late, node, crashes>>

\* A server without container or node has nothing to remove on a host.
DeleteLoad(t) ==
    /\ job[t].pc = "d_load"
    /\ LET s == LoadedTask(t).srv
           placed == srv[s].cid # None /\ srv[s].node # None
       IN
       /\ s # None
       /\ srv[s].status # "absent"
       /\ Becomes(t, [job[t] EXCEPT !.pc = IF placed THEN "d_node" ELSE "d_row",
                             !.srv = s, !.node = srv[s].node,
                             !.cid = IF placed THEN srv[s].cid ELSE None])
    /\ task' = [task EXCEPT ![t].status = LoadedTask(t).status]
    /\ UNCHANGED <<srv, req, ctr, late, node, crashes>>

\* Mutant: a drained node is not called either.
DeleteFindNodeOnline(t) ==
    /\ job[t].pc = "d_node"
    /\ IF node[job[t].node].status # "online"
       THEN Becomes(t, [job[t] EXCEPT !.pc = "d_row", !.cid = None])
       ELSE Becomes(t, [job[t] EXCEPT !.pc = "d_call", !.att = 0])
    /\ UNCHANGED <<srv, task, req, ctr, late, node, crashes>>

\* The node is read in a transaction of its own; without a row nobody is
\* called and the container is forgotten.
DeleteFindNode(t) ==
    /\ job[t].pc = "d_node"
    /\ IF node[job[t].node].status = "deleted"
       THEN Becomes(t, [job[t] EXCEPT !.pc = "d_row", !.cid = None])
       ELSE Becomes(t, [job[t] EXCEPT !.pc = "d_call", !.att = 0])
    /\ UNCHANGED <<srv, task, req, ctr, late, node, crashes>>

\* Mutant: the other tasks of the server are cancelled, ended ones included.
DeleteRowCancels(t) ==
    /\ job[t].pc = "d_row"
    /\ LET s == job[t].srv IN
       /\ ~KeyLocked(s)
       /\ srv' = [srv EXCEPT ![s] = NoServer]
       /\ task' = [u \in Tasks |->
                     IF u = t THEN [status |-> "succeeded", srv |-> None]
                     ELSE IF task[u].srv = s THEN [status |-> "failed", srv |-> None]
                     ELSE task[u]]
    /\ Goto(t, "ended")
    /\ UNCHANGED <<req, ctr, late, node, crashes>>

\* The row is deleted and the foreign key of its tasks is set to NULL.
DeleteRow(t) ==
    /\ job[t].pc = "d_row"
    /\ LET s == job[t].srv IN
       /\ ~KeyLocked(s)
       /\ srv' = [srv EXCEPT ![s] = NoServer]
       /\ task' = [u \in Tasks |->
                     [status |-> IF u = t THEN "succeeded" ELSE task[u].status,
                      srv |-> IF task[u].srv = s THEN None ELSE task[u].srv]]
    /\ Goto(t, "ended")
    /\ UNCHANGED <<req, ctr, late, node, crashes>>

-----------------------------------------------------------------------------
(* NodeAgentClient and the agent: the request job t waits for, its answer,  *)
(* and what can go wrong with it.                                           *)

Op(t) == CASE job[t].pc = "p_create" -> "create"
           [] job[t].pc = "p_inspect" -> "inspect"
           [] job[t].pc = "l_call" -> req[t].kind
           [] job[t].pc = "d_call" -> "delete"

Sent(t) == [task |-> t, run |-> crashes, att |-> job[t].att, op |-> Op(t),
            srv |-> job[t].srv, node |-> job[t].node, cid |-> job[t].cid]

FailPc(t) == CASE job[t].pc \in {"p_create", "p_inspect"} -> "p_fail"
               [] job[t].pc = "l_call" -> "l_fail"
               [] job[t].pc = "d_call" -> "d_fail"

\* Mutant: 409 is taken for "created already".
CreateRepliesAdopts(t) ==
    /\ job[t].pc = "p_create"
    /\ LET s == job[t].srv  n == job[t].node IN
       \/ /\ NameTaken(ctr, s, n)
          /\ Goto(t, "p_done")
          /\ UNCHANGED ctr
       \/ /\ ~NameTaken(ctr, s, n)
          /\ \E c \in Free(ctr) :
                /\ ctr' = AfterCreate(ctr, c, s, n, "running")
                /\ Becomes(t, [job[t] EXCEPT !.pc = "p_inspect", !.cid = c, !.att = 0])
    /\ UNCHANGED <<srv, task, req, late, node, crashes>>

\* 201 with the new container's id, or 409 when the name is taken.
CreateReplies(t) ==
    /\ job[t].pc = "p_create"
    /\ LET s == job[t].srv  n == job[t].node IN
       \/ /\ NameTaken(ctr, s, n)
          /\ Goto(t, "p_fail")
          /\ UNCHANGED ctr
       \/ /\ ~NameTaken(ctr, s, n)
          /\ \E c \in Free(ctr) :
                /\ ctr' = AfterCreate(ctr, c, s, n, "running")
                /\ Becomes(t, [job[t] EXCEPT !.pc = "p_inspect", !.cid = c, !.att = 0])
    /\ UNCHANGED <<srv, task, req, late, node, crashes>>

\* 200, or 404 when the container is gone.
InspectReplies(t) ==
    /\ job[t].pc = "p_inspect"
    /\ Goto(t, IF Live(ctr, job[t].cid) THEN "p_save" ELSE "p_fail")
    /\ UNCHANGED <<srv, task, req, ctr, late, node, crashes>>

\* 200, or 404 when the container is gone.
LifecycleReplies(t) ==
    /\ job[t].pc = "l_call"
    /\ ctr' = AfterOp(ctr, job[t].cid, Op(t))
    /\ Goto(t, IF Live(ctr, job[t].cid) THEN "l_find" ELSE "l_fail")
    /\ UNCHANGED <<srv, task, req, late, node, crashes>>

\* 204, or 404 (ContainerMissingOnAgent), which the job takes for success.
DeleteReplies(t) ==
    /\ job[t].pc = "d_call"
    /\ ctr' = AfterOp(ctr, job[t].cid, "delete")
    /\ Goto(t, "d_row")
    /\ UNCHANGED <<srv, task, req, late, node, crashes>>

\* Mutant: the loop starts over instead of giving up.
AttemptFailsForever(t) == Becomes(t, [job[t] EXCEPT !.att = (@ + 1) % MaxRetries])

\* _retry: another attempt, or the exception or 5xx answer of the last one.
AttemptFails(t) ==
    IF job[t].att + 1 < MaxRetries
    THEN Becomes(t, [job[t] EXCEPT !.att = @ + 1])
    ELSE Goto(t, FailPc(t))

\* ConnectError: the request never reached the agent.
ConnectFails(t) ==
    /\ "connect" \in Faults
    /\ job[t].pc \in CallPcs
    /\ AttemptFails(t)
    /\ UNCHANGED <<srv, task, req, ctr, late, node, crashes>>

\* What an agent may have done for request r when it does not say so.
Executed(r) ==
    IF r.op = "create"
    THEN /\ ~NameTaken(ctr, r.srv, r.node)
         /\ \E c \in Free(ctr) :
            \E state \in {"running"} \cup (IF "docker" \in Faults THEN {"created"} ELSE {}) :
               ctr' = AfterCreate(ctr, c, r.srv, r.node, state)
    ELSE /\ Live(ctr, r.cid)
         /\ ctr' = AfterOp(ctr, r.cid, r.op)

\* 503 (DockerUnavailable): Docker failed before or after it acted.
DockerFails(t) ==
    /\ "docker" \in Faults
    /\ job[t].pc \in CallPcs
    /\ \/ UNCHANGED ctr
       \/ job[t].pc # "p_inspect" /\ Executed(Sent(t))
    /\ AttemptFails(t)
    /\ UNCHANGED <<srv, task, req, late, node, crashes>>

\* A GET that is answered to nobody changes nothing.
HeldByAgent(t) == IF job[t].pc = "p_inspect" THEN {} ELSE {Sent(t)}

\* ReadTimeout: the agent has the request and will act on it at some time.
ReadTimesOut(t) ==
    /\ "timeout" \in Faults
    /\ job[t].pc \in CallPcs
    /\ late' = late \cup HeldByAgent(t)
    /\ AttemptFails(t)
    /\ UNCHANGED <<srv, task, req, ctr, node, crashes>>

\* Any other httpx error (ReadError, ConnectTimeout...) is not retried.
TransportFails(t) ==
    /\ "transport" \in Faults
    /\ job[t].pc \in CallPcs
    /\ late' \in {late, late \cup HeldByAgent(t)}
    /\ Goto(t, FailPc(t))
    /\ UNCHANGED <<srv, task, req, ctr, node, crashes>>

\* The agent gets round to a request nobody waits for; one it can no longer
\* carry out, or loses, is dropped.
LateExec(r) ==
    /\ late' = late \ {r}
    /\ Executed(r) \/ UNCHANGED ctr
    /\ UNCHANGED <<srv, task, req, job, node, crashes>>

\* The worker dies or is shut down (CancelledError passes "except Exception");
\* ARQ runs the job again from the start, even one that was just finished.
Crash(t) ==
    /\ crashes < MaxCrashes
    /\ t \in Busy
    /\ crashes' = crashes + 1
    /\ Becomes(t, [NoJob EXCEPT !.pc = "queued"])
    /\ late' \in {late} \cup
                 (IF job[t].pc \in CallPcs THEN {late \cup HeldByAgent(t)} ELSE {})
    /\ UNCHANGED <<srv, task, req, ctr, node>>

-----------------------------------------------------------------------------
(* The specification *)

RequestStep(t) == DeleteFlush(t) \/ Commit(t) \/ Rollback(t)

ProvisionStep(t) ==
    \/ ProvisionMissing(t) \/ ProvisionNoCapacity(t) \/ ProvisionPlace(t)
    \/ CreateReplies(t) \/ InspectReplies(t)
    \/ ProvisionSave(t) \/ ProvisionDone(t) \/ ProvisionFailFind(t) \/ ProvisionFailSave(t)

LifecycleStep(t) ==
    \/ LoadMissing(t) \/ LifecycleUnprovisioned(t) \/ LifecycleLoad(t)
    \/ LifecycleReplies(t) \/ LifecycleFind(t) \/ LifecycleSave(t) \/ JobFail(t)

DeleteStep(t) ==
    \/ DeleteNothing(t) \/ DeleteLoad(t) \/ DeleteFindNode(t)
    \/ DeleteReplies(t) \/ DeleteRow(t)

FaultStep(t) ==
    ConnectFails(t) \/ DockerFails(t) \/ ReadTimesOut(t) \/ TransportFails(t)

JobStep(t) ==
    \/ JobStart(t) \/ ArqFinish(t)
    \/ ProvisionStep(t) \/ LifecycleStep(t) \/ DeleteStep(t) \/ FaultStep(t)

ClientStep ==
    \/ \E t \in Tasks, s \in Servers, size \in Sizes : Create(t, s, size)
    \/ \E t \in Tasks, s \in Servers, kind \in LifecycleKinds : RequestAction(t, s, kind)
    \/ \E t \in Tasks, s \in Servers : DeleteCheck(t, s)
    \/ \E s \in Servers : PatchCheck(s) \/ \E size \in Sizes : Patch(s, size)

AdminStep ==
    \/ \E n \in Nodes, cap \in Capacities : NodeCreate(n, cap)
    \/ \E n \in Nodes, status \in {"online", "drain"}, cap \in Capacities :
          NodePatch(n, status, cap)
    \/ \E n \in Nodes : NodeDelete(n)

\* No handler and no job is under way: the panel waits for its clients.
Quiescent ==
    \A t \in Tasks : req[t].pc \notin {"checked", "flushed"} /\ job[t].pc \in {"none", "done"}

Idle == Quiescent /\ UNCHANGED vars

Next ==
    \/ ClientStep
    \/ AdminStep
    \/ \E t \in Tasks : RequestStep(t) \/ JobStep(t) \/ Crash(t)
    \/ \E r \in late : LateExec(r)
    \/ Idle

Spec == Init /\ [][Next]_vars

\* API handlers run to their end; workers take jobs and run them; an agent
\* call ends because httpx times it out. Clients, admins, crashes and what an
\* agent does after a time-out are left to chance.
Fairness == \A t \in Tasks : WF_vars(RequestStep(t)) /\ WF_vars(JobStep(t))

FairSpec == Spec /\ Fairness

-----------------------------------------------------------------------------
(* Properties *)

\* Every variable has its type.
TypeOK ==
    /\ srv \in [Servers -> ServerRows]
    /\ task \in [Tasks -> TaskRows]
    /\ req \in [Tasks -> RequestStates]
    /\ job \in [Tasks -> JobStates]
    /\ ctr \in [Containers -> ContainerRows]
    /\ late \subseteq AgentRequests
    /\ node \in [Nodes -> NodeRows]
    /\ crashes \in 0 .. MaxCrashes

\* servers.container_id always names a container made for that very server,
\* on the node servers.node_id names unless that node was deleted: retries,
\* crashes and late answers never attach the container of another server.
RecordedContainerIsOwn ==
    \A s \in Servers : srv[s].cid # None =>
        LET c == ctr[srv[s].cid] IN
        c.state # "free" /\ c.srv = s /\ srv[s].node \in {None, c.node}

\* The statuses "running" and "stopped" are only ever shown for a server that
\* has a container on record, whatever job wrote the status last.
ActiveHasContainer ==
    \A s \in Servers : srv[s].status \in {"running", "stopped"} => srv[s].cid # None

DeleteCommitted(s) ==
    \E t \in Tasks : req[t].kind = "delete" /\ req[t].srv = s /\ req[t].pc = "committed"

\* A container is removed only on behalf of a committed delete request for the
\* server it was made for: a job that ran before the commit, or a request the
\* agent carries out late, never removes the container of a server that lives.
RemovalNeedsDelete ==
    [][\A c \in Containers :
          Live(ctr, c) /\ ~Live(ctr, c)' => DeleteCommitted(ctr[c].srv)]_vars

\* Once a delete task has succeeded the server's row is gone for good: no job
\* that was already under way writes it back.
DeleteSucceededMeansGone ==
    \A t \in Tasks : req[t].kind = "delete" /\ task[t].status = "succeeded" =>
        srv[req[t].srv].status = "absent"

\* As long as nobody deletes the server, a provision task that succeeded
\* stands for a live container on record: no later retry, late request or
\* failed job takes it away.
SucceededProvisionHasContainer ==
    \A t \in Tasks :
        /\ req[t].kind = "provision" /\ task[t].status = "succeeded"
        /\ ~DeleteCommitted(req[t].srv)
        => LET c == srv[req[t].srv].cid IN c # None /\ Live(ctr, c)

\* The POST that creates a container is retried although it is not idempotent;
\* the container's name keeps the copies from making a second container.
OneLiveContainer ==
    \A c, d \in Containers :
        Live(ctr, c) /\ Live(ctr, d) /\ ctr[c].srv = ctr[d].srv => c = d

\* A task that has ended keeps its outcome (when no worker dies).
OutcomeIsFinal ==
    [][\A t \in Tasks : task[t].status \in {"succeeded", "failed"} =>
          task'[t].status = task[t].status]_vars

\* Whatever fails, every job a request has enqueued is taken and ends: no
\* row lock, full worker or retry loop holds it for ever.
JobTerminates == \A t \in Tasks : job[t].pc = "queued" ~> job[t].pc = "done"

\* A task that is shown as running is brought to an end, unless its server
\* is deleted under it.
RunningTaskEnds ==
    \A t \in Tasks : task[t].status = "running" ~>
        task[t].status \in {"succeeded", "failed"} \/ task[t].srv = None

\* servers.node_id names a node that is registered, although the job chose the
\* node before the agent call and the admin may have deleted it since.
PlacedOnKnownNode ==
    \A s \in Servers : srv[s].node # None => node[srv[s].node].status \in {"online", "drain"}

\* What the servers of S ask for is no more than node n has.
RoomFor(S, n, nodes, servers) ==
    /\ Total([s \in S |-> ReqCpu(servers[s].res)], S) <= nodes[n].cpu
    /\ Total([s \in S |-> ReqMem(servers[s].res)], S) <= nodes[n].mem

WithinCapacity(n) == RoomFor(CountedOn(n, srv), n, node, srv)

\* The statement of the documents, without an if: no node is ever given more
\* than it has.
CapacityRespected == \A n \in Nodes : WithinCapacity(n)
=============================================================================
