----------------------------- MODULE LifecycleInv -----------------------------
(***************************************************************************)
(* The inductive invariant of module Lifecycle: what the jobs, the agents  *)
(* and the rows know of each other between any two steps.  Module          *)
(* LifecycleProofs proves it, and the properties that follow from it.      *)
(***************************************************************************)
EXTENDS Lifecycle

\* The request that makes server s has been committed.
Provisioned(s) ==
    \E t \in Tasks :
        req[t].kind = "provision" /\ req[t].srv = s /\ req[t].pc = "committed"

\* A request has a server and a kind once it is more than an unused id, and a
\* job once it has enqueued one. A server is made by one request only, and
\* what else is asked of it is asked after that request was committed.
RequestInv ==
    /\ \A t \in Tasks :
        /\ req[t].pc = "idle" => req[t].srv = None /\ req[t].kind = "none"
        /\ req[t].pc # "idle" => req[t].srv \in Servers /\ req[t].kind \in Kinds
        /\ req[t].pc = "checked" => req[t].kind = "delete"
        /\ req[t].pc \in {"idle", "checked"} => job[t].pc = "none"
        /\ req[t].pc # "idle" /\ req[t].kind # "provision" => Provisioned(req[t].srv)
    /\ \A t, u \in Tasks :
        /\ req[t].kind = "provision" /\ req[u].kind = "provision"
        /\ req[t].srv = req[u].srv
        => t = u

\* A server has a row only after its commit, and the transaction of a later
\* request keeps the row in place.
RowInv ==
    /\ \A s \in Servers :
        /\ srv[s].status # "absent" => Provisioned(s)
        /\ srv[s].status = "absent" => srv[s].cid = None /\ srv[s].node = None
    /\ \A t \in Tasks :
        req[t].pc = "flushed" /\ req[t].kind # "provision" =>
            srv[req[t].srv].status # "absent"

\* A task is visible when its request is committed; its server_id names the
\* server of the request, or NULL, and never a row that is not there.
TaskInv ==
    \A t \in Tasks :
        /\ task[t].status # "absent" <=> req[t].pc = "committed"
        /\ task[t].srv # None =>
             /\ req[t].pc = "committed"
             /\ task[t].srv = req[t].srv
             /\ srv[task[t].srv].status # "absent"

\* Container c was made for server s on the host of node n.
Owns(c, s, n) ==
    c \in Containers /\ ctr[c].state # "free" /\ ctr[c].srv = s /\ ctr[c].node = n

ProvisionPcs == {"p_load", "p_create", "p_inspect", "p_save", "p_done", "p_fail", "p_failsave"}
LifecyclePcs == {"l_load", "l_call", "l_find", "l_save", "l_fail"}
DeletePcs == {"d_load", "d_node", "d_call", "d_row", "d_fail"}

\* Where a job has a server, a node, and a container in its hands.
ServerPcs == {"p_create", "p_inspect", "p_save", "p_done", "p_failsave",
              "l_call", "l_find", "l_save", "d_node", "d_call", "d_row"}
NodePcs == {"p_create", "p_inspect", "p_save", "l_call", "d_node", "d_call"}
ContainerPcs == {"p_inspect", "p_save", "l_call", "d_node", "d_call"}

\* The state j of job t fits its request: the job works on the server of the
\* request, and only after the commit; the container it names was made for
\* that server on the node it calls; and a start, stop or restart that got
\* past its load has a container on record as long as the row is there.
JobFits(t, j) ==
    /\ j.pc \in ProvisionPcs => req[t].kind = "provision"
    /\ j.pc \in LifecyclePcs => req[t].kind \in LifecycleKinds
    /\ j.pc \in DeletePcs => req[t].kind = "delete"
    /\ j.srv # None => req[t].pc = "committed" /\ j.srv = req[t].srv
    /\ j.pc \in {"l_load", "d_load"} /\ j.seen # "absent" => req[t].pc = "committed"
    /\ j.pc \in ServerPcs => j.srv # None
    /\ j.pc \in NodePcs => j.node # None
    /\ j.pc \in ContainerPcs => Owns(j.cid, j.srv, j.node)
    /\ j.pc \in {"l_call", "l_find", "l_save"} =>
         srv[j.srv].status = "absent" \/ srv[j.srv].cid # None

JobInv == \A t \in Tasks : JobFits(t, job[t])

\* What an agent still holds is about a container of the server that the
\* request was for, and a removal was asked for by a committed delete.
LateInv ==
    \A r \in late :
        /\ r.op # "create" => Owns(r.cid, r.srv, r.node)
        /\ r.op = "delete" =>
             req[r.task].kind = "delete" /\ req[r.task].pc = "committed"
             /\ req[r.task].srv = r.srv

\* All of it: every step of the panel preserves this conjunction.
IndInv ==
    /\ TypeOK
    /\ RequestInv
    /\ RowInv
    /\ TaskInv
    /\ JobInv
    /\ LateInv
    /\ RecordedContainerIsOwn
    /\ ActiveHasContainer
    /\ DeleteSucceededMeansGone

-----------------------------------------------------------------------------
(* What the rows, the containers and the requests in flight say of the past *)

\* A container or a row that is gone was deleted on request.
GoneForCause ==
    /\ \A c \in Containers : ctr[c].state = "removed" => DeleteCommitted(ctr[c].srv)
    /\ \A s \in Servers : srv[s].status = "absent" /\ Provisioned(s) => DeleteCommitted(s)

\* Once set_provisioned is done a container is on record, until the delete.
RecordHeld ==
    \A t \in Tasks :
        req[t].kind = "provision" /\ (job[t].pc = "p_done" \/ task[t].status = "succeeded") =>
            srv[req[t].srv].cid # None \/ DeleteCommitted(req[t].srv)

\* Rows name nodes that are registered, jobs nodes that are or were.
NodesKnown ==
    /\ PlacedOnKnownNode
    /\ \A t \in Tasks : job[t].node # None => node[job[t].node].status # "absent"

\* A container was made for a server, and its name is unique on its host.
OnePerHost ==
    /\ \A c \in Containers : ctr[c].state # "free" => ctr[c].srv # None
    /\ \A c, d \in Containers :
        Live(ctr, c) /\ Live(ctr, d) /\ ctr[c].srv = ctr[d].srv /\ ctr[c].node = ctr[d].node
        => c = d

\* What an agent holds was sent for the request whose task it carries.
LateAsked ==
    \A r \in late :
        /\ req[r.task].srv = r.srv
        /\ req[r.task].kind = IF r.op = "create" THEN "provision" ELSE r.op

\* The hosts where a container of server s was made, or still may be.
Sites(s) ==
    {ctr[c].node : c \in {d \in Containers : ctr[d].state # "free" /\ ctr[d].srv = s}}
    \cup {r.node : r \in {q \in late : q.op = "create" /\ q.srv = s}}
    \cup {job[t].node : t \in {u \in Tasks : job[u].pc = "p_create" /\ job[u].srv = s}}

\* The provision job of server s has chosen a node.
Placed(s) ==
    \E t \in Tasks :
        /\ req[t].kind = "provision" /\ req[t].srv = s
        /\ job[t].pc \notin {"none", "queued", "p_load"}

\* As long as no worker died a server is made on one host only.
OneHost ==
    crashes = 0 => \A s \in Servers :
        /\ \A m, n \in Sites(s) : m = n
        /\ Sites(s) # {} => Placed(s)

\* As long as no worker died the job of a task that ended has ended.
Settled ==
    crashes = 0 => \A t \in Tasks :
        task[t].status \in {"succeeded", "failed"} => job[t].pc \in {"ended", "done"}

\* The history that every state carries with it.
HistoryInv ==
    /\ GoneForCause
    /\ RecordHeld
    /\ NodesKnown
    /\ OnePerHost
    /\ LateAsked
    /\ OneHost
    /\ Settled
=============================================================================
