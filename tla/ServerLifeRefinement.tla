------------------------- MODULE ServerLifeRefinement -------------------------
(***************************************************************************)
(* Lifecycle implements ServerLife: the mapping from the rows, requests    *)
(* and containers of the panel to what ServerLife says of a server.        *)
(***************************************************************************)
EXTENDS LifecycleInv

RowOf(s) ==
    IF srv[s].status # "absent" THEN srv[s].status
    ELSE IF Provisioned(s) THEN "gone" ELSE "none"

BoxOf(s) ==
    IF srv[s].cid = None THEN "none"
    ELSE IF srv[s].node = None THEN "lost" ELSE "placed"

UpOf(s) == \E c \in Containers : ctr[c].srv = s /\ ctr[c].state = "running"

AskedOf(s) == {req[t].kind : t \in {u \in Tasks : req[u].srv = s}}

Abstract == INSTANCE ServerLife WITH
    Asks <- Requests \cap Kinds,
    row <- [s \in Servers |-> RowOf(s)],
    box <- [s \in Servers |-> BoxOf(s)],
    up <- {s \in Servers : UpOf(s)},
    asked <- [s \in Servers |-> AskedOf(s)]

\* A provision job that has not recorded a container yet.
FirstPcs == {"queued", "p_load", "p_create", "p_inspect", "p_save", "p_fail", "p_failsave"}

\* As long as no worker died, the provision job finds the row as the request
\* or a delete left it, and before it recorded the container nobody can have
\* asked for more than a delete: the container it made runs until then.
FirstRun ==
    crashes = 0 => \A t \in Tasks :
        LET s == req[t].srv IN
        req[t].kind = "provision" /\ job[t].pc \in FirstPcs
        => /\ srv[s].status \in {"absent", "pending", "provisioning", "deleting"}
           /\ srv[s].cid = None
           /\ AskedOf(s) \subseteq {"provision", "delete"}
           /\ job[t].pc \in {"p_inspect", "p_save"} /\ "delete" \notin AskedOf(s) =>
                ctr[job[t].cid].state = "running"

\* A stop that the agent confirmed has stopped the only container of the
\* server, unless somebody asked to start or to delete it.
StopHolds ==
    crashes = 0 => \A t \in Tasks :
        LET s == req[t].srv  c == job[t].cid IN
        /\ req[t].kind = "stop" /\ job[t].pc \in {"l_find", "l_save"}
        /\ AskedOf(s) \cap {"start", "restart", "delete"} = {}
        => c \in Containers /\ ctr[c].srv = s /\ ctr[c].state \in {"created", "stopped"}

\* What makes the steps of the panel steps of ServerLife.
LifeInv == FirstRun /\ StopHolds

\* Every step of the API, the worker and the agents is a step ServerLife
\* allows or leaves a server as it is: a status, a container that starts or
\* stops and a row that goes away all go back to a request for that very
\* server, and no job that was under way brings a deleted row back.
ImplementsServerLife == Abstract!Spec
=============================================================================
