--------------------------- MODULE LifecycleMishaps ---------------------------
(***************************************************************************)
(* What can bring the rows of the panel out of step with Docker and with   *)
(* the capacities of the nodes, and that nothing else can.                 *)
(*                                                                         *)
(* The code does not keep two jobs of one server apart, it does not ask an *)
(* agent again what became of a call it gave up, and it holds no room for  *)
(* a server between the choice of a node and the row that says so. Module  *)
(* Lifecycle lets all of this happen, to any server and any number of      *)
(* times. Here three history variables, which no step depends on, remember *)
(* to whom it happened; for everybody else the properties below hold.      *)
(***************************************************************************)
EXTENDS ServerLifeRefinement

VARIABLES
    crowded,    \* servers that had two of their jobs at work at the same time
    unheard,    \* servers for which an agent was called and not heard out
    overtaken   \* provision jobs that chose a node on which room was taken since

mishaps == <<crowded, unheard, overtaken>>
allVars == <<vars, mishaps>>

AtWork(s) == {t \in Tasks : req[t].srv = s /\ job[t].pc \in ActivePcs}

\* A call is given up that the agent holds, or has carried out, or the worker
\* dies with what the agent told it.
HeardNoMore(s) ==
    \/ \E r \in late' \ late : r.srv = s
    \/ \E t \in Tasks :
          req[t].srv = s /\ (Crash(t) \/ (DockerFails(t) /\ ctr' # ctr))

\* Where a provision job has chosen a node and not recorded it.
ChosenPcs == {"p_create", "p_inspect", "p_save"}

\* More is asked of node n, or of it for server s, than the query has seen:
\* another job records a server there or has one there count again, a PATCH
\* handler writes other resources, or an admin takes capacity away.
TakesRoom(s, n) ==
    \/ \E u \in Tasks :
          \/ ProvisionSave(u) /\ job[u].node = n
          \/ ProvisionPlace(u) /\ srv[task[u].srv].node = n
          \/ LifecycleSave(u) /\ srv[job[u].srv].node = n /\ req[u].kind # "stop"
    \/ \E x \in Servers, size \in Sizes :
          Patch(x, size) /\ size # srv[x].res /\ (x = s \/ srv[x].node = n)
    \/ \E status \in {"online", "drain"}, cap \in Capacities :
          /\ NodePatch(n, status, cap)
          /\ cap.cpu < node[n].cpu \/ cap.mem < node[n].mem

Remember ==
    /\ crowded' = crowded \cup {s \in Servers : \E t, u \in AtWork(s)' : t # u}
    /\ unheard' = unheard \cup {s \in Servers : HeardNoMore(s)}
    /\ overtaken' = {t \in Tasks :
                       /\ job[t].pc \in ChosenPcs /\ job'[t].pc \in ChosenPcs
                       /\ t \in overtaken \/ TakesRoom(job[t].srv, job[t].node)}

MishapInit == Init /\ crowded = {} /\ unheard = {} /\ overtaken = {}

MishapNext == Next /\ Remember

MishapSpec == MishapInit /\ [][MishapNext]_allVars

-----------------------------------------------------------------------------
(* Properties *)

Calm(s) == s \notin crowded \cup unheard

\* When no job of a server is at work, the status column agrees with Docker,
\* unless two of its jobs ever overlapped or an agent was not heard out:
\* whatever order clients sent their requests and ARQ ran them in, and
\* whatever befalls other servers and their nodes.
StatusMatchesContainer ==
    \A s \in Servers :
        /\ Calm(s) /\ AtWork(s) = {}
        /\ srv[s].status \in {"running", "stopped"}
        => ctr[srv[s].cid].state = srv[s].status

\* Nor is a container left behind then that no server knows of, unless its
\* node was deleted under it or the provision task says that it failed.
NoOrphanContainer ==
    \A c \in Containers :
        LET s == ctr[c].srv IN
        Live(ctr, c) /\ Calm(s) /\ AtWork(s) = {} =>
            \/ srv[s].cid = c
            \/ node[ctr[c].node].status = "deleted"
            \/ \E t \in Tasks : /\ req[t].kind = "provision" /\ req[t].srv = s
                                /\ task[t].status = "failed"

\* The row of a server whose node is known goes away only after its container
\* did, unless two of its jobs ever overlapped: not even when workers die,
\* calls get lost or nodes are deleted while the job runs.
RowOutlivesContainer ==
    [][\A s \in Servers \ crowded :
          /\ srv[s].status # "absent" /\ srv'[s].status = "absent"
          /\ srv[s].cid # None /\ srv[s].node # None
          => ~Live(ctr, srv[s].cid)]_allVars

\* The servers that count on node n have their resources in the keys that
\* least_loaded adds up.
SizesSummed(n) ==
    \A s \in CountedOn(n, srv) : srv[s].res.cpuCores # None /\ srv[s].res.memMb # None

\* A job records a server only where it still fits, unless it was overtaken:
\* servers that stop, fail or go away, nodes that are drained or deleted,
\* crashes and late agents never make a node too full.
PlacementFits ==
    [][\A t \in Tasks \ overtaken, s \in Servers, n \in Nodes :
          /\ job[t].pc = "p_save" /\ job[t].srv = s /\ job[t].node = n
          /\ srv[s].node # n /\ srv'[s].node = n
          /\ SizesSummed(n)'
          => WithinCapacity(n)']_allVars

-----------------------------------------------------------------------------
(* The invariant behind them *)

\* Whose jobs overlap is crowded; what an agent still holds, and what was half
\* made, belongs to somebody unheard.
MishapsKnown ==
    /\ \A t, u \in Tasks :
          t # u /\ {job[t].pc, job[u].pc} \subseteq ActivePcs /\ req[t].srv = req[u].srv
          => req[t].srv \in crowded
    /\ \A r \in late : r.srv \in unheard
    /\ \A c \in Containers : ctr[c].state = "created" => ctr[c].srv \in unheard

\* Until the provision of a server has saved, its row names no container: it
\* runs once.
RunsOnce ==
    \A t \in Tasks : LET s == req[t].srv IN
        s \notin unheard /\ req[t].kind = "provision" /\ job[t].pc \in FirstPcs
        => srv[s].cid = None

\* What job t has in its hands is how it left it: nobody else works on the
\* server, and a handler can do no more to its row than write "deleting".
Hands(t) ==
    LET s == job[t].srv  c == job[t].cid IN
    /\ job[t].pc \in ChosenPcs \cup {"p_failsave"} => srv[s].status # "absent"
    /\ job[t].pc \in {"p_inspect", "p_save"} => ctr[c].state = "running"
    /\ job[t].pc \in {"l_call", "l_find", "l_save"} => srv[s].cid \in {None, c}
    /\ job[t].pc \in {"l_find", "l_save"} =>
         /\ c \in Containers /\ ctr[c].srv = s
         /\ ctr[c].state = TargetStatus(req[t].kind)
    /\ job[t].pc = "l_save" /\ srv[s].status \in {"running", "stopped"} =>
         srv[s].status = job[t].seen

HandsInv == \A t \in Tasks : Calm(job[t].srv) => Hands(t)

\* The status is the state of the container, except between the answer of the
\* agent and the transaction that writes down what it did.
StatusShown ==
    \A s \in Servers : Calm(s) /\ srv[s].status \in {"running", "stopped"} =>
        \/ ctr[srv[s].cid].state = srv[s].status
        \/ \E t \in Tasks : job[t].srv = s /\ job[t].pc \in {"l_find", "l_save", "d_row"}

\* What a delete job has read stays true while it calls the agent, and the
\* container on record is gone before the row goes.
DeleteKnows ==
    \A t \in Tasks :
        LET s == job[t].srv IN
        s \notin crowded =>
            /\ job[t].pc \in {"d_node", "d_call"} =>
                 srv[s].cid \in {None, job[t].cid} /\ srv[s].node \in {None, job[t].node}
            /\ job[t].pc = "d_row" =>
                 srv[s].cid = None \/ srv[s].node = None \/ ~Live(ctr, srv[s].cid)

\* The container is on a host that is no longer registered.
HostGone(c) == ctr[c].node \in Nodes /\ node[ctr[c].node].status = "deleted"

\* A row loses its node, but not its container, only when the node is deleted.
NodeGone ==
    \A s \in Servers : srv[s].cid # None /\ srv[s].node = None => HostGone(srv[s].cid)

\* Provision job t of server s fails, or has failed and said so.
Fails(t, s) ==
    \/ job[t].srv = s /\ job[t].pc \in {"p_fail", "p_failsave"}
    \/ /\ req[t].kind = "provision" /\ req[t].srv = s
       /\ job[t].pc \in {"ended", "done"} /\ task[t].status = "failed"

\* Every container is on record, or on a host that is no longer registered, or
\* in the hands of the job that made it, or that job fails.
ContainerHeld ==
    \A c \in Containers : Live(ctr, c) /\ Calm(ctr[c].srv) =>
        \/ srv[ctr[c].srv].cid = c
        \/ HostGone(c)
        \/ \E t \in Tasks :
              \/ job[t].cid = c /\ job[t].pc \in {"p_inspect", "p_save"}
              \/ Fails(t, ctr[c].srv)

\* A server that is there, or is about to be, asks for something.
SizesAsked ==
    \A s \in Servers :
        srv[s].status # "absent" \/ (\E t \in Tasks : Flushed(t, s)) => srv[s].res \in Sizes

\* What the query adds up for the servers of S, and what server s asks for, is
\* no more than node n has.
RoomBeside(S, s, n) ==
    /\ SummedCpu(S, srv) + ReqCpu(srv[s].res) <= node[n].cpu
    /\ SummedMem(S, srv) + ReqMem(srv[s].res) <= node[n].mem

\* From the moment a provision job has chosen a node to the moment it records
\* it the room that was found is still there, unless the job was overtaken.
RoomHeld ==
    \A t \in Tasks \ overtaken :
        LET s == job[t].srv  n == job[t].node IN
        job[t].pc \in ChosenPcs /\ srv[s].status # "absent" =>
            RoomBeside(CountedOn(n, srv) \ {s}, s, n)

MishapInv ==
    /\ MishapsKnown
    /\ RunsOnce
    /\ HandsInv
    /\ StatusShown
    /\ DeleteKnows
    /\ NodeGone
    /\ ContainerHeld
    /\ SizesAsked
    /\ IsFiniteSet(Servers) => RoomHeld
=============================================================================
