------------------------ MODULE LifecycleHistoryProofs ------------------------
(***************************************************************************)
(* Proofs about module Lifecycle, continued: HistoryInv is an invariant,   *)
(* and with it the properties that relate a state to what happened before. *)
(*                                                                         *)
(* LifecycleProofs goes through the actions one by one. Here the proofs go *)
(* through the variables instead: the first part says once which actions   *)
(* write a variable, the second what any step does to rows, containers,    *)
(* requests and late calls; each conjunct then needs a few of these facts. *)
(***************************************************************************)
EXTENDS LifecycleProofs, FiniteSetTheorems

-----------------------------------------------------------------------------
(* Who writes what *)

\* The rows of servers.
LEMMA SrvWriters ==
    ASSUME [Next]_vars, srv' # srv
    PROVE  \/ \E t \in Tasks, s \in Servers, size \in Sizes : Create(t, s, size)
           \/ \E s \in Servers : PatchCheck(s) \/ \E size \in Sizes : Patch(s, size)
           \/ \E n \in Nodes : NodeDelete(n)
           \/ \E t \in Tasks :
                \/ Commit(t) \/ Rollback(t) \/ ProvisionPlace(t) \/ ProvisionSave(t)
                \/ ProvisionFailSave(t) \/ LifecycleSave(t) \/ DeleteRow(t)
<1>1. CASE ClientStep \/ AdminStep
  BY <1>1 DEF ClientStep, RequestAction, DeleteCheck, AdminStep, NodeCreate, NodePatch
<1>2. ASSUME NEW t \in Tasks, RequestStep(t) \/ Crash(t) \/ JobStart(t) \/ ArqFinish(t)
      PROVE  Commit(t) \/ Rollback(t)
  BY <1>2 DEF RequestStep, DeleteFlush, Crash, JobStart, ArqFinish
<1>3. ASSUME NEW t \in Tasks, ProvisionStep(t)
      PROVE  ProvisionPlace(t) \/ ProvisionSave(t) \/ ProvisionFailSave(t)
  BY <1>3 DEF ProvisionStep, ProvisionMissing, ProvisionNoCapacity, CreateReplies,
              InspectReplies, ProvisionDone, ProvisionFailFind
<1>4. ASSUME NEW t \in Tasks, LifecycleStep(t) PROVE LifecycleSave(t)
  BY <1>4 DEF LifecycleStep, LoadMissing, LifecycleUnprovisioned, LifecycleLoad,
              LifecycleReplies, LifecycleFind, JobFail
<1>5. ASSUME NEW t \in Tasks, DeleteStep(t) \/ FaultStep(t) PROVE DeleteRow(t)
  BY <1>5 DEF DeleteStep, DeleteNothing, DeleteLoad, DeleteFindNode, DeleteReplies,
              FaultStep, ConnectFails, DockerFails, ReadTimesOut, TransportFails
<1>6. ~UNCHANGED vars /\ ~Idle /\ \A r \in late : ~LateExec(r)
  BY DEF vars, Idle, LateExec
<1> QED BY <1>1, <1>2, <1>3, <1>4, <1>5, <1>6 DEF Next, JobStep

\* The requests.
LEMMA ReqWriters ==
    ASSUME [Next]_vars, req' # req
    PROVE  \/ \E t \in Tasks, s \in Servers, size \in Sizes : Create(t, s, size)
           \/ \E t \in Tasks, s \in Servers, kind \in LifecycleKinds : RequestAction(t, s, kind)
           \/ \E t \in Tasks, s \in Servers : DeleteCheck(t, s)
           \/ \E t \in Tasks : RequestStep(t)
<1>1. CASE ClientStep \/ AdminStep
  BY <1>1 DEF ClientStep, PatchCheck, Patch, AdminStep, NodeCreate, NodePatch, NodeDelete
<1>2. \A t \in Tasks : ~Crash(t) /\ ~JobStart(t) /\ ~ArqFinish(t)
  BY DEF Crash, JobStart, ArqFinish
<1>3. \A t \in Tasks : ~ProvisionStep(t)
  BY DEF ProvisionStep, ProvisionMissing, ProvisionNoCapacity, ProvisionPlace, CreateReplies,
         InspectReplies, ProvisionSave, ProvisionDone, ProvisionFailFind, ProvisionFailSave
<1>4. \A t \in Tasks : ~LifecycleStep(t)
  BY DEF LifecycleStep, LoadMissing, LifecycleUnprovisioned, LifecycleLoad,
         LifecycleReplies, LifecycleFind, LifecycleSave, JobFail
<1>5. \A t \in Tasks : ~DeleteStep(t) /\ ~FaultStep(t)
  BY DEF DeleteStep, DeleteNothing, DeleteLoad, DeleteFindNode, DeleteReplies, DeleteRow,
         FaultStep, ConnectFails, DockerFails, ReadTimesOut, TransportFails
<1>6. ~UNCHANGED vars /\ ~Idle /\ \A r \in late : ~LateExec(r)
  BY DEF vars, Idle, LateExec
<1> QED BY <1>1, <1>2, <1>3, <1>4, <1>5, <1>6 DEF Next, JobStep

\* The containers.
LEMMA CtrWriters ==
    ASSUME [Next]_vars, ctr' # ctr
    PROVE  \/ \E t \in Tasks :
                \/ CreateReplies(t) \/ LifecycleReplies(t) \/ DeleteReplies(t)
                \/ DockerFails(t)
           \/ \E r \in late : LateExec(r)
<1>1. ~ClientStep /\ ~AdminStep /\ ~UNCHANGED vars /\ ~Idle
  BY DEF ClientStep, Create, RequestAction, DeleteCheck, PatchCheck, Patch,
         AdminStep, NodeCreate, NodePatch, NodeDelete, vars, Idle
<1>2. \A t \in Tasks : ~RequestStep(t) /\ ~Crash(t) /\ ~JobStart(t) /\ ~ArqFinish(t)
  BY DEF RequestStep, DeleteFlush, Commit, Rollback, Crash, JobStart, ArqFinish
<1>3. ASSUME NEW t \in Tasks, ProvisionStep(t) PROVE CreateReplies(t)
  BY <1>3 DEF ProvisionStep, ProvisionMissing, ProvisionNoCapacity, ProvisionPlace,
              InspectReplies, ProvisionSave, ProvisionDone, ProvisionFailFind, ProvisionFailSave
<1>4. ASSUME NEW t \in Tasks, LifecycleStep(t) PROVE LifecycleReplies(t)
  BY <1>4 DEF LifecycleStep, LoadMissing, LifecycleUnprovisioned, LifecycleLoad, LifecycleFind,
              LifecycleSave, JobFail
<1>5. ASSUME NEW t \in Tasks, DeleteStep(t) \/ FaultStep(t)
      PROVE  DeleteReplies(t) \/ DockerFails(t)
  BY <1>5 DEF DeleteStep, DeleteNothing, DeleteLoad, DeleteFindNode, DeleteRow,
              FaultStep, ConnectFails, ReadTimesOut, TransportFails
<1> QED BY <1>1, <1>2, <1>3, <1>4, <1>5 DEF Next, JobStep

\* The tasks.
LEMMA TaskWriters ==
    ASSUME [Next]_vars, task' # task
    PROVE  \E t \in Tasks : Commit(t) \/ JobStep(t)
<1>1. ~ClientStep /\ ~AdminStep /\ ~UNCHANGED vars /\ ~Idle /\ \A r \in late : ~LateExec(r)
  BY DEF ClientStep, Create, RequestAction, DeleteCheck, PatchCheck, Patch,
         AdminStep, NodeCreate, NodePatch, NodeDelete, vars, Idle, LateExec
<1>2. \A t \in Tasks : ~DeleteFlush(t) /\ ~Rollback(t) /\ ~Crash(t)
  BY DEF DeleteFlush, Rollback, Crash
<1> QED BY <1>1, <1>2 DEF Next, RequestStep

\* The requests an agent holds although nobody waits: a call that was given up
\* adds its own.
LEMMA LateWriters ==
    ASSUME [Next]_vars
    PROVE  \/ late' \subseteq late
           \/ \E t \in Tasks :
                /\ job[t].pc \in CallPcs /\ late' \subseteq late \cup HeldByAgent(t)
                /\ UNCHANGED <<srv, task, req, ctr, node>>
<1>1. CASE ClientStep \/ AdminStep \/ UNCHANGED vars \/ Idle \/ \E r \in late : LateExec(r)
  BY <1>1 DEF ClientStep, Create, RequestAction, DeleteCheck, PatchCheck, Patch,
         AdminStep, NodeCreate, NodePatch, NodeDelete, vars, Idle, LateExec
<1>2. ASSUME NEW t \in Tasks, RequestStep(t) \/ JobStart(t) \/ ArqFinish(t) PROVE late' = late
  BY <1>2 DEF RequestStep, DeleteFlush, Commit, Rollback, JobStart, ArqFinish
<1>3. ASSUME NEW t \in Tasks, ProvisionStep(t) PROVE late' = late
  BY <1>3 DEF ProvisionStep, ProvisionMissing, ProvisionNoCapacity, ProvisionPlace, CreateReplies,
         InspectReplies, ProvisionSave, ProvisionDone, ProvisionFailFind, ProvisionFailSave
<1>4. ASSUME NEW t \in Tasks, LifecycleStep(t) PROVE late' = late
  BY <1>4 DEF LifecycleStep, LoadMissing, LifecycleUnprovisioned, LifecycleLoad,
         LifecycleReplies, LifecycleFind, LifecycleSave, JobFail
<1>5. ASSUME NEW t \in Tasks, DeleteStep(t) PROVE late' = late
  BY <1>5 DEF DeleteStep, DeleteNothing, DeleteLoad, DeleteFindNode, DeleteReplies, DeleteRow
<1>6. ASSUME NEW t \in Tasks, FaultStep(t) \/ Crash(t)
      PROVE  \/ late' = late
             \/ /\ job[t].pc \in CallPcs /\ late' \subseteq late \cup HeldByAgent(t)
                /\ UNCHANGED <<srv, task, req, ctr, node>>
  BY <1>6 DEF FaultStep, ConnectFails, DockerFails, ReadTimesOut, TransportFails, Crash
<1> QED BY <1>1, <1>2, <1>3, <1>4, <1>5, <1>6 DEF Next, JobStep

\* The nodes.
LEMMA NodeWriters ==
    ASSUME [Next]_vars, node' # node
    PROVE  AdminStep
<1>1. ~ClientStep /\ ~UNCHANGED vars /\ ~Idle /\ \A r \in late : ~LateExec(r)
  BY DEF ClientStep, Create, RequestAction, DeleteCheck, PatchCheck, Patch, vars, Idle, LateExec
<1>2. \A t \in Tasks : ~RequestStep(t) /\ ~Crash(t) /\ ~JobStart(t) /\ ~ArqFinish(t)
  BY DEF RequestStep, DeleteFlush, Commit, Rollback, Crash, JobStart, ArqFinish
<1>3. \A t \in Tasks : ~ProvisionStep(t)
  BY DEF ProvisionStep, ProvisionMissing, ProvisionNoCapacity, ProvisionPlace, CreateReplies,
         InspectReplies, ProvisionSave, ProvisionDone, ProvisionFailFind, ProvisionFailSave
<1>4. \A t \in Tasks : ~LifecycleStep(t)
  BY DEF LifecycleStep, LoadMissing, LifecycleUnprovisioned, LifecycleLoad,
         LifecycleReplies, LifecycleFind, LifecycleSave, JobFail
<1>5. \A t \in Tasks : ~DeleteStep(t) /\ ~FaultStep(t)
  BY DEF DeleteStep, DeleteNothing, DeleteLoad, DeleteFindNode, DeleteReplies, DeleteRow,
         FaultStep, ConnectFails, DockerFails, ReadTimesOut, TransportFails
<1> QED BY <1>1, <1>2, <1>3, <1>4, <1>5 DEF Next, JobStep

\* The job of task t: the handler that enqueues it, the worker that runs it,
\* and the death of that worker.
LEMMA JobWriters ==
    ASSUME IndInv, [Next]_vars, NEW t \in Tasks, job'[t] # job[t]
    PROVE  \/ \E s \in Servers, size \in Sizes : Create(t, s, size)
           \/ \E s \in Servers, kind \in LifecycleKinds : RequestAction(t, s, kind)
           \/ DeleteFlush(t) \/ JobStep(t) \/ Crash(t)
<1>1. ASSUME NEW u \in Tasks, u # t PROVE \A r : ~Becomes(u, r)
  BY <1>1 DEF Becomes, IndInv, TypeOK
<1>2. CASE ClientStep
  BY <1>1, <1>2 DEF ClientStep, Create, RequestAction, DeleteCheck, PatchCheck, Patch, FlushAndEnqueue, Goto
<1>3. ~AdminStep /\ ~UNCHANGED vars /\ ~Idle /\ \A r \in late : ~LateExec(r)
  BY DEF AdminStep, NodeCreate, NodePatch, NodeDelete, vars, Idle, LateExec
<1>4. ASSUME NEW u \in Tasks, RequestStep(u) PROVE u = t /\ DeleteFlush(t)
  BY <1>1, <1>4 DEF RequestStep, DeleteFlush, Commit, Rollback, FlushAndEnqueue, Goto
<1>5. ASSUME NEW u \in Tasks, JobStep(u) \/ Crash(u) PROVE u = t
  <2> SUFFICES ASSUME u # t PROVE FALSE
    OBVIOUS
  <2>1. ~Crash(u) /\ ~JobStart(u) /\ ~ArqFinish(u)
    BY <1>1 DEF Crash, JobStart, ArqFinish, Goto
  <2>2. ~ProvisionStep(u)
    BY <1>1 DEF ProvisionStep, ProvisionMissing, ProvisionNoCapacity, ProvisionPlace,
         CreateReplies, InspectReplies, ProvisionSave, ProvisionDone, ProvisionFailFind,
         ProvisionFailSave, Goto
  <2>3. ~LifecycleStep(u)
    BY <1>1 DEF LifecycleStep, LoadMissing, LifecycleUnprovisioned, LifecycleLoad,
         LifecycleReplies, LifecycleFind, LifecycleSave, JobFail, Goto
  <2>4. ~DeleteStep(u)
    BY <1>1 DEF DeleteStep, DeleteNothing, DeleteLoad, DeleteFindNode, DeleteReplies, DeleteRow,
         Goto
  <2>5. ~FaultStep(u)
    BY <1>1 DEF FaultStep, ConnectFails, DockerFails, ReadTimesOut, TransportFails,
         AttemptFails, Goto
  <2> QED BY <1>5, <2>1, <2>2, <2>3, <2>4, <2>5 DEF JobStep
<1> QED BY <1>2, <1>3, <1>4, <1>5 DEF Next

\* The number of crashes.
LEMMA CrashWriters ==
    ASSUME IndInv, [Next]_vars
    PROVE  crashes' = crashes \/ (crashes' # 0 /\ \E t \in Tasks : Crash(t))
<1>1. CASE ClientStep \/ AdminStep \/ UNCHANGED vars \/ Idle \/ \E r \in late : LateExec(r)
  BY <1>1 DEF ClientStep, Create, RequestAction, DeleteCheck, PatchCheck, Patch,
         AdminStep, NodeCreate, NodePatch, NodeDelete, vars, Idle, LateExec
<1>2. ASSUME NEW t \in Tasks, RequestStep(t) \/ JobStart(t) \/ ArqFinish(t)
      PROVE  crashes' = crashes
  BY <1>2 DEF RequestStep, DeleteFlush, Commit, Rollback, JobStart, ArqFinish
<1>3. ASSUME NEW t \in Tasks, ProvisionStep(t) PROVE crashes' = crashes
  BY <1>3 DEF ProvisionStep, ProvisionMissing, ProvisionNoCapacity, ProvisionPlace, CreateReplies,
         InspectReplies, ProvisionSave, ProvisionDone, ProvisionFailFind, ProvisionFailSave
<1>4. ASSUME NEW t \in Tasks, LifecycleStep(t) PROVE crashes' = crashes
  BY <1>4 DEF LifecycleStep, LoadMissing, LifecycleUnprovisioned, LifecycleLoad,
         LifecycleReplies, LifecycleFind, LifecycleSave, JobFail
<1>5. ASSUME NEW t \in Tasks, DeleteStep(t) \/ FaultStep(t) PROVE crashes' = crashes
  BY <1>5 DEF DeleteStep, DeleteNothing, DeleteLoad, DeleteFindNode, DeleteReplies, DeleteRow,
         FaultStep, ConnectFails, DockerFails, ReadTimesOut, TransportFails
<1>6. ASSUME NEW t \in Tasks, Crash(t) PROVE crashes' # 0
  <2>1. crashes \in Nat
    BY DEF IndInv, TypeOK
  <2> QED BY <1>6, <2>1 DEF Crash
<1> QED BY <1>1, <1>2, <1>3, <1>4, <1>5, <1>6 DEF Next, JobStep

-----------------------------------------------------------------------------
(* What any step does *)

\* A request keeps its server and its kind, and a commit is for good.
LEMMA RequestsKept ==
    ASSUME IndInv, [Next]_vars, NEW t \in Tasks, req[t].pc # "idle"
    PROVE  /\ req'[t].kind = req[t].kind /\ req'[t].srv = req[t].srv
           /\ req'[t].pc # "idle"
           /\ req[t].pc = "committed" => req'[t].pc = "committed"
<1>1. req \in [Tasks -> RequestStates]
  BY DEF IndInv, TypeOK
<1>2. CASE req' = req
  BY <1>2
<1>3. ASSUME NEW u \in Tasks, NEW s \in Servers, NEW size \in Sizes, Create(u, s, size)
      PROVE  req'[t] = req[t]
  BY <1>1, <1>3 DEF Create, FlushAndEnqueue
<1>4. ASSUME NEW u \in Tasks, NEW s \in Servers, NEW kind \in LifecycleKinds,
             RequestAction(u, s, kind)
      PROVE  req'[t] = req[t]
  BY <1>1, <1>4 DEF RequestAction, FlushAndEnqueue
<1>5. ASSUME NEW u \in Tasks, NEW s \in Servers, DeleteCheck(u, s) PROVE req'[t] = req[t]
  BY <1>1, <1>5 DEF DeleteCheck
<1>6. ASSUME NEW u \in Tasks, Commit(u) \/ Rollback(u)
      PROVE  /\ req'[t].kind = req[t].kind /\ req'[t].srv = req[t].srv
             /\ req'[t].pc # "idle"
             /\ req[t].pc = "committed" => req'[t].pc = "committed"
  BY <1>1, <1>6 DEF Commit, Rollback, RequestStates
<1>7. ASSUME NEW u \in Tasks, DeleteFlush(u)
      PROVE  /\ req'[t].kind = req[t].kind /\ req'[t].srv = req[t].srv
             /\ req'[t].pc # "idle"
             /\ req[t].pc = "committed" => req'[t].pc = "committed"
  <2>1. req[u].pc = "checked" /\ req[u].kind = "delete"
    BY <1>7 DEF DeleteFlush, IndInv, RequestInv
  <2>2. \/ req' = [req EXCEPT ![u].pc = "aborted"]
        \/ req' = [req EXCEPT ![u] = [pc |-> "flushed", kind |-> "delete", srv |-> req[u].srv]]
    BY <1>7 DEF DeleteFlush, FlushAndEnqueue
  <2> QED BY <1>1, <2>1, <2>2 DEF RequestStates
<1> QED BY <1>2, <1>3, <1>4, <1>5, <1>6, <1>7, ReqWriters DEF RequestStep

\* What was asked for, and what was committed, stays so.
LEMMA AskedKept ==
    ASSUME IndInv, [Next]_vars, NEW s \in Servers
    PROVE  /\ DeleteCommitted(s) => DeleteCommitted(s)'
           /\ Provisioned(s) => Provisioned(s)'
<1>1. \A t \in Tasks : req[t].pc = "committed" =>
        req'[t].kind = req[t].kind /\ req'[t].srv = req[t].srv /\ req'[t].pc = "committed"
  BY RequestsKept
<1> QED BY <1>1 DEF DeleteCommitted, Provisioned

\* A row, or the container on record, goes away with a committed delete only.
LEMMA RowStep ==
    ASSUME IndInv, [Next]_vars, NEW s \in Servers
    PROVE  \/ srv[s].status # "absent" /\ srv'[s].status = "absent"
           \/ srv[s].cid # None /\ srv'[s].cid = None
           => DeleteCommitted(s) /\ \E t \in Tasks : DeleteRow(t) /\ job[t].srv = s
<1>1. srv \in [Servers -> ServerRows] /\ req \in [Tasks -> RequestStates]
  BY DEF IndInv, TypeOK
<1>2. CASE srv' = srv
  BY <1>2
<1>3. ASSUME NEW t \in Tasks, NEW x \in Servers, NEW size \in Sizes, Create(t, x, size)
      PROVE  srv'[s].status = srv[s].status /\ srv'[s].cid = srv[s].cid
  BY <1>1, <1>3 DEF Create, ServerRows
<1>4. ASSUME NEW x \in Servers, PatchCheck(x) \/ \E size \in Sizes : Patch(x, size)
      PROVE  srv'[s].status = srv[s].status /\ srv'[s].cid = srv[s].cid
  BY <1>1, <1>4 DEF PatchCheck, Patch, ServerRows
<1>5. ASSUME NEW n \in Nodes, NodeDelete(n)
      PROVE  srv'[s].status = srv[s].status /\ srv'[s].cid = srv[s].cid
  BY <1>1, <1>5 DEF NodeDelete, ServerRows
<1>6. ASSUME NEW t \in Tasks, Commit(t)
      PROVE  (srv[s].status # "absent" => srv'[s].status # "absent") /\ srv'[s].cid = srv[s].cid
  BY <1>1, <1>6 DEF Commit, ServerRows
<1>7. ASSUME NEW t \in Tasks, Rollback(t)
      PROVE  srv'[s].status = srv[s].status /\ srv'[s].cid = srv[s].cid
  <2>1. req[t].kind = "provision" => srv[req[t].srv].status = "absent" /\ srv[req[t].srv].cid = None
    BY <1>7 DEF Rollback, IndInv, RequestInv, RowInv, Provisioned
  <2> QED BY <1>1, <1>7, <2>1 DEF Rollback, ServerRows, NoServer
<1>8. ASSUME NEW t \in Tasks, ProvisionPlace(t)
      PROVE  (srv'[s].status # "absent" /\ srv'[s].cid = srv[s].cid) \/ srv'[s] = srv[s]
  BY <1>1, <1>8 DEF ProvisionPlace, ServerRows
<1>9. ASSUME NEW t \in Tasks, ProvisionSave(t)
      PROVE  (srv'[s].status # "absent" /\ srv'[s].cid # None) \/ srv'[s] = srv[s]
  <2>1. job[t].cid # None
    BY <1>9, JobFacts, LifecycleAssumption DEF ProvisionSave, JobFits, ContainerPcs, Owns
  <2> QED BY <1>1, <1>9, <2>1 DEF ProvisionSave, ServerRows
<1>10. ASSUME NEW t \in Tasks, ProvisionFailSave(t) \/ LifecycleSave(t)
       PROVE  (srv'[s].status # "absent" /\ srv'[s].cid = srv[s].cid) \/ srv'[s] = srv[s]
  BY <1>1, <1>10 DEF ProvisionFailSave, LifecycleSave, StatusWritten, TargetStatus, ServerRows
<1>11. ASSUME NEW t \in Tasks, DeleteRow(t)
       PROVE  (DeleteCommitted(s) /\ job[t].srv = s) \/ srv'[s] = srv[s]
  <2>1. req[t].kind = "delete" /\ req[t].pc = "committed" /\ req[t].srv = job[t].srv
    BY <1>11, JobFacts DEF DeleteRow, JobFits, DeletePcs, ServerPcs
  <2>2. job[t].srv = s => DeleteCommitted(s)
    BY <2>1 DEF DeleteCommitted
  <2> QED BY <1>1, <1>11, <2>2 DEF DeleteRow
<1> QED
  BY <1>2, <1>3, <1>4, <1>5, <1>6, <1>7, <1>8, <1>9, <1>10, <1>11, SrvWriters

\* A job that is under way, or has a task that is not as it was committed, has
\* a request that was committed or at least enqueued it.
LEMMA JobHasRequest ==
    ASSUME IndInv, NEW t \in Tasks, job[t].pc # "none"
    PROVE  req[t].pc # "idle" /\ req[t].srv \in Servers /\ req[t].kind \in Kinds
  BY JobFacts DEF IndInv, RequestInv

\* Somebody has made a request of this kind for server s.
Asked(s, kind) == \E t \in Tasks : req[t].kind = kind /\ req[t].srv = s

\* A container is made, as somebody asked, on a host its server may be made on ...
Made(c, s, n, state) ==
    /\ s \in Servers /\ n \in Sites(s) /\ Asked(s, "provision")
    /\ state \in {"created", "running"}
    /\ c \in Free(ctr) /\ ~NameTaken(ctr, s, n)
    /\ ctr' = AfterCreate(ctr, c, s, n, state)

\* ... or started, stopped or removed as somebody asked for its server.
Operated(c, op) ==
    /\ Live(ctr, c)
    /\ ctr' = AfterOp(ctr, c, op)
    /\ Asked(ctr[c].srv, op)
    /\ op = "delete" => DeleteCommitted(ctr[c].srv)

\* What job t asks of an agent, its request has asked for.
LEMMA SentWasAsked ==
    ASSUME IndInv, NEW t \in Tasks, job[t].pc \in CallPcs \ {"p_inspect"}
    PROVE  /\ Sent(t).task = t /\ Sent(t).srv = job[t].srv /\ Sent(t).node = job[t].node
           /\ Sent(t).cid = job[t].cid
           /\ Sent(t).op = "create" <=> job[t].pc = "p_create"
           /\ req[t].srv = Sent(t).srv
           /\ req[t].kind = IF Sent(t).op = "create" THEN "provision" ELSE Sent(t).op
<1>1. /\ Sent(t).task = t /\ Sent(t).op = Op(t) /\ Sent(t).srv = job[t].srv
      /\ Sent(t).node = job[t].node /\ Sent(t).cid = job[t].cid
  BY DEF Sent
<1>2. job[t].pc \in {"p_create", "l_call", "d_call"}
  BY DEF CallPcs
<1>3. /\ job[t].pc = "p_create" => req[t].kind = "provision"
      /\ job[t].pc = "d_call" => req[t].kind = "delete"
      /\ job[t].pc = "l_call" => req[t].kind \in {"start", "stop", "restart"}
      /\ job[t].srv = req[t].srv
  BY <1>2, JobFacts DEF JobFits, ProvisionPcs, LifecyclePcs, DeletePcs, ServerPcs, LifecycleKinds
<1>4. /\ job[t].pc = "p_create" => Op(t) = "create"
      /\ job[t].pc = "d_call" => Op(t) = "delete"
      /\ job[t].pc = "l_call" => Op(t) = req[t].kind
  BY DEF Op
<1> QED BY <1>1, <1>2, <1>3, <1>4

\* What an agent does with a request is one or the other.
LEMMA ExecutedChanges ==
    ASSUME IndInv, NEW r \in AgentRequests, r.op # "create" => Owns(r.cid, r.srv, r.node),
           req[r.task].srv = r.srv,
           req[r.task].kind = IF r.op = "create" THEN "provision" ELSE r.op,
           r.op = "create" => r.node \in Sites(r.srv),
           r.op = "delete" => req[r.task].pc = "committed",
           Executed(r)
    PROVE  \/ \E c \in Containers : \E s, n, state : Made(c, s, n, state)
           \/ \E c \in Containers, op \in AgentOps \ {"create"} : Operated(c, op)
<1>1. r.task \in Tasks /\ r.srv \in Servers /\ r.op \in AgentOps
  BY DEF AgentRequests
<1>2. CASE r.op = "create"
  <2>1. PICK c \in Free(ctr), state \in {"created", "running"} :
          ctr' = AfterCreate(ctr, c, r.srv, r.node, state)
    BY <1>2 DEF Executed
  <2>2. Made(c, r.srv, r.node, state) /\ c \in Containers
    BY <1>1, <1>2, <2>1 DEF Executed, Made, Free, Asked
  <2> QED BY <2>2
<1>3. CASE r.op # "create"
  <2>1. /\ r.cid \in Containers /\ ctr[r.cid].srv = r.srv /\ req[r.task].kind = r.op
        /\ Live(ctr, r.cid) /\ ctr' = AfterOp(ctr, r.cid, r.op)
    BY <1>3 DEF Executed, Owns
  <2>2. Asked(r.srv, r.op) /\ (r.op = "delete" => DeleteCommitted(r.srv))
    BY <1>1, <2>1 DEF Asked, DeleteCommitted
  <2>3. Operated(r.cid, r.op)
    BY <2>1, <2>2 DEF Operated
  <2> QED BY <1>1, <1>3, <2>1, <2>3
<1> QED BY <1>2, <1>3

\* Every step leaves the containers alone, makes one or operates on one.
LEMMA CtrStep ==
    ASSUME IndInv, LateAsked, [Next]_vars, ctr' # ctr
    PROVE  /\ \/ \E c \in Containers : \E s, n, state : Made(c, s, n, state)
              \/ \E c \in Containers, op \in AgentOps \ {"create"} : Operated(c, op)
           /\ UNCHANGED <<srv, task, req, node, crashes>>
<1>1. ASSUME NEW t \in Tasks, CreateReplies(t)
      PROVE  \E c \in Containers : \E s, n, state : Made(c, s, n, state)
  <2>1. PICK c \in Free(ctr) :
          /\ ~NameTaken(ctr, job[t].srv, job[t].node)
          /\ ctr' = AfterCreate(ctr, c, job[t].srv, job[t].node, "running")
    BY <1>1 DEF CreateReplies
  <2>2. /\ job[t].srv \in Servers /\ job[t].node \in Sites(job[t].srv)
        /\ Asked(job[t].srv, "provision")
    BY <1>1, JobFacts DEF CreateReplies, JobFits, ProvisionPcs, ServerPcs, Sites, Asked
  <2>3. Made(c, job[t].srv, job[t].node, "running") /\ c \in Containers
    BY <2>1, <2>2 DEF Made, Free
  <2> QED BY <2>3
<1>2. ASSUME NEW t \in Tasks, LifecycleReplies(t) \/ DeleteReplies(t)
      PROVE  \E c \in Containers, op \in AgentOps \ {"create"} : Operated(c, op)
  <2>1. /\ job[t].pc \in CallPcs \ {"p_inspect"} /\ job[t].pc # "p_create"
        /\ ctr' = AfterOp(ctr, job[t].cid, Op(t))
        /\ req[t].pc = "committed" /\ Owns(job[t].cid, job[t].srv, job[t].node)
    BY <1>2, JobFacts
    DEF LifecycleReplies, DeleteReplies, CallPcs, Op, JobFits, ServerPcs, ContainerPcs
  <2>2. Op(t) \in AgentOps \ {"create"} /\ req[t].kind = Op(t) /\ req[t].srv = job[t].srv
    BY <2>1, SentWasAsked, SentIsOwned DEF Sent, AgentRequests
  <2>3. Live(ctr, job[t].cid)
    BY <2>1 DEF AfterOp
  <2>4. Operated(job[t].cid, Op(t)) /\ job[t].cid \in Containers
    BY <2>1, <2>2, <2>3 DEF Operated, Asked, DeleteCommitted, Owns
  <2> QED BY <2>2, <2>4
<1>3. ASSUME NEW t \in Tasks, DockerFails(t)
      PROVE  \/ \E c \in Containers : \E s, n, state : Made(c, s, n, state)
             \/ \E c \in Containers, op \in AgentOps \ {"create"} : Operated(c, op)
  <2>1. job[t].pc \in CallPcs \ {"p_inspect"} /\ Executed(Sent(t))
    BY <1>3 DEF DockerFails
  <2>2. PICK r \in AgentRequests : r = Sent(t)
    BY <2>1, SentIsOwned
  <2>3. /\ r.op # "create" => Owns(r.cid, r.srv, r.node)
        /\ r.op = "delete" => req[r.task].pc = "committed"
        /\ req[r.task].srv = r.srv
        /\ req[r.task].kind = IF r.op = "create" THEN "provision" ELSE r.op
    BY <2>1, <2>2, SentIsOwned, SentWasAsked
  <2>4. r.op = "create" => r.node \in Sites(r.srv)
    BY <2>1, <2>2, SentWasAsked DEF Sites
  <2>5. Executed(r)
    BY <2>1, <2>2
  <2> QED BY <2>3, <2>4, <2>5, ExecutedChanges
<1>4. ASSUME NEW r \in late, LateExec(r)
      PROVE  \/ \E c \in Containers : \E s, n, state : Made(c, s, n, state)
             \/ \E c \in Containers, op \in AgentOps \ {"create"} : Operated(c, op)
  <2>1. /\ r \in AgentRequests /\ Executed(r)
        /\ r.op # "create" => Owns(r.cid, r.srv, r.node)
        /\ r.op = "delete" => req[r.task].pc = "committed"
        /\ req[r.task].srv = r.srv
        /\ req[r.task].kind = IF r.op = "create" THEN "provision" ELSE r.op
    BY <1>4 DEF LateExec, IndInv, TypeOK, LateInv, LateAsked
  <2>2. r.op = "create" => r.node \in Sites(r.srv)
    BY DEF Sites
  <2> QED BY <2>1, <2>2, ExecutedChanges
<1>5. UNCHANGED <<srv, task, req, node, crashes>>
  BY CtrWriters DEF CreateReplies, LifecycleReplies, DeleteReplies, DockerFails, LateExec
<1> QED BY <1>1, <1>2, <1>3, <1>4, <1>5, CtrWriters

LEMMA MadeEffect ==
    ASSUME IndInv, NEW c \in Containers, NEW s, NEW n, NEW state, Made(c, s, n, state)
    PROVE  /\ ctr[c].state = "free" /\ state \in {"created", "running"}
           /\ ctr'[c].state = state /\ ctr'[c].srv = s /\ ctr'[c].node = n
           /\ \A d \in Containers : d # c => ctr'[d] = ctr[d]
  BY DEF Made, Free, AfterCreate, IndInv, TypeOK, ContainerRows

LEMMA OperatedEffect ==
    ASSUME IndInv, NEW c \in Containers, NEW op \in AgentOps \ {"create"}, Operated(c, op)
    PROVE  /\ ctr[c].state \in LiveStates
           /\ ctr'[c].state = NewState(op, ctr[c].state)
           /\ ctr'[c].state \in LiveStates \/ (op = "delete" /\ ctr'[c].state = "removed")
           /\ ctr'[c].srv = ctr[c].srv /\ ctr'[c].node = ctr[c].node
           /\ \A d \in Containers : d # c => ctr'[d] = ctr[d]
<1>1. ctr \in [Containers -> ContainerRows] /\ ctr[c].state \in LiveStates
  BY DEF Operated, Live, IndInv, TypeOK
<1>2. ctr' = [ctr EXCEPT ![c].state = NewState(op, @)]
  BY DEF Operated, AfterOp
<1>3. /\ ctr'[c].state = NewState(op, ctr[c].state)
      /\ ctr'[c].srv = ctr[c].srv /\ ctr'[c].node = ctr[c].node
      /\ \A d \in Containers : d # c => ctr'[d] = ctr[d]
  BY <1>1, <1>2 DEF ContainerRows
<1>4. NewState(op, ctr[c].state) \in LiveStates \/ (op = "delete" /\ NewState(op, ctr[c].state) = "removed")
  BY <1>1 DEF NewState, LiveStates, AgentOps, LifecycleKinds
<1> QED BY <1>1, <1>3, <1>4

\* Who a container was made for does not change.
LEMMA OwnersNeverChange ==
    ASSUME IndInv, LateAsked, [Next]_vars PROVE OwnersKept
<1>1. CASE ctr' = ctr
  BY <1>1, NothingMoved
<1>2. ASSUME NEW c \in Containers, NEW s, NEW n, NEW state, Made(c, s, n, state)
      PROVE  OwnersKept
  BY <1>2, MadeEffect DEF OwnersKept
<1>3. ASSUME NEW c \in Containers, NEW op \in AgentOps \ {"create"}, Operated(c, op)
      PROVE  OwnersKept
  BY <1>3, OperatedEffect DEF OwnersKept, LiveStates
<1> QED BY <1>1, <1>2, <1>3, CtrStep

-----------------------------------------------------------------------------
(* The conjuncts of HistoryInv, one lemma each *)

LEMMA GoneForCauseStep ==
    ASSUME IndInv, HistoryInv, [Next]_vars PROVE GoneForCause'
<1>1. GoneForCause /\ LateAsked /\ ctr \in [Containers -> ContainerRows]
  BY DEF HistoryInv, IndInv, TypeOK
<1>2. ASSUME NEW c \in Containers, ctr'[c].state = "removed"
      PROVE  DeleteCommitted(ctr[c].srv)'
  <2>1. ctr[c].state = "removed" \/ DeleteCommitted(ctr[c].srv)
    <3>1. CASE ctr' = ctr
      BY <1>2, <3>1
    <3>2. ASSUME NEW x \in Containers, NEW s, NEW n, NEW state, Made(x, s, n, state)
          PROVE  ctr[c].state = "removed"
      BY <1>2, <3>2, MadeEffect
    <3>3. ASSUME NEW x \in Containers, NEW op \in AgentOps \ {"create"}, Operated(x, op)
          PROVE  ctr[c].state = "removed" \/ DeleteCommitted(ctr[c].srv)
      BY <1>2, <3>3, OperatedEffect DEF Operated, LiveStates
    <3> QED BY <1>1, <3>1, <3>2, <3>3, CtrStep
  <2>2. DeleteCommitted(ctr[c].srv)
    BY <1>1, <2>1 DEF GoneForCause
  <2>3. ctr[c].state # "free"
    <3>1. ASSUME NEW x \in Containers, NEW s, NEW n, NEW state, Made(x, s, n, state)
          PROVE  ctr[c].state = "removed"
      BY <1>2, <3>1, MadeEffect
    <3>2. ASSUME NEW x \in Containers, NEW op \in AgentOps \ {"create"}, Operated(x, op)
          PROVE  ctr[c].state # "free"
      BY <1>2, <3>2, OperatedEffect DEF LiveStates
    <3> QED BY <1>1, <1>2, <3>1, <3>2, CtrStep
  <2>4. ctr'[c].srv = ctr[c].srv
    BY <1>1, <2>3, OwnersNeverChange DEF OwnersKept
  <2>5. \E t \in Tasks : req[t].kind = "delete" /\ req[t].srv = ctr[c].srv /\ req[t].pc = "committed"
    BY <2>2 DEF DeleteCommitted
  <2>6. \E t \in Tasks : req'[t].kind = "delete" /\ req'[t].srv = ctr[c].srv /\ req'[t].pc = "committed"
    BY <2>5, RequestsKept
  <2> QED BY <2>4, <2>6 DEF DeleteCommitted
<1>3. ASSUME NEW s \in Servers, srv'[s].status = "absent", Provisioned(s)'
      PROVE  DeleteCommitted(s)'
  <2>1. CASE Provisioned(s)
    BY <1>1, <1>3, <2>1, RowStep, AskedKept DEF GoneForCause
  <2>2. CASE ~Provisioned(s)
    <3>1. PICK t \in Tasks :
            req'[t].kind = "provision" /\ req'[t].srv = s /\ req'[t].pc = "committed"
      BY <1>3 DEF Provisioned
    <3>2. req[t].pc # "committed"
      BY <2>2, <3>1, RequestsKept DEF Provisioned
    <3>3. Commit(t) /\ req[t].kind = "provision" /\ req[t].srv = s
      <4>1. req \in [Tasks -> RequestStates] /\ req' # req
        BY <3>1, <3>2 DEF IndInv, TypeOK
      <4>2. ASSUME NEW u \in Tasks, NEW x \in Servers, NEW size \in Sizes, Create(u, x, size)
            PROVE  FALSE
        BY <3>1, <3>2, <4>1, <4>2 DEF Create, FlushAndEnqueue
      <4>3. ASSUME NEW u \in Tasks, NEW x \in Servers, NEW kind \in LifecycleKinds,
                   RequestAction(u, x, kind)
            PROVE  FALSE
        BY <3>1, <3>2, <4>1, <4>3 DEF RequestAction, FlushAndEnqueue
      <4>4. ASSUME NEW u \in Tasks, NEW x \in Servers, DeleteCheck(u, x) PROVE FALSE
        BY <3>1, <3>2, <4>1, <4>4 DEF DeleteCheck
      <4>5. ASSUME NEW u \in Tasks, DeleteFlush(u) \/ Rollback(u) PROVE FALSE
        BY <3>1, <3>2, <4>1, <4>5 DEF DeleteFlush, Rollback, FlushAndEnqueue, RequestStates
      <4>6. ASSUME NEW u \in Tasks, Commit(u)
            PROVE  u = t /\ req[t].kind = "provision" /\ req[t].srv = s
        BY <3>1, <3>2, <4>1, <4>6 DEF Commit, RequestStates
      <4> QED BY <4>1, <4>2, <4>3, <4>4, <4>5, <4>6, ReqWriters DEF RequestStep
    <3>4. srv'[s].status = "pending"
      BY <3>3 DEF Commit, IndInv, TypeOK, ServerRows
    <3> QED BY <1>3, <3>4
  <2> QED BY <2>1, <2>2
<1> QED BY <1>2, <1>3 DEF GoneForCause

LEMMA OnePerHostStep ==
    ASSUME IndInv, HistoryInv, [Next]_vars PROVE OnePerHost'
<1>1. OnePerHost /\ LateAsked
  BY DEF HistoryInv
<1>2. CASE ctr' = ctr
  BY <1>1, <1>2 DEF OnePerHost, Live
<1>3. ASSUME NEW c \in Containers, NEW s, NEW n, NEW state, Made(c, s, n, state)
      PROVE  OnePerHost'
  <2>1. ~NameTaken(ctr, s, n) /\ s # None
    BY <1>3, NoneAssumption DEF Made
  <2> QED BY <1>1, <1>3, <2>1, MadeEffect DEF OnePerHost, NameTaken, Live
<1>4. ASSUME NEW c \in Containers, NEW op \in AgentOps \ {"create"}, Operated(c, op)
      PROVE  OnePerHost'
  BY <1>1, <1>4, OperatedEffect DEF OnePerHost, Live, LiveStates
<1> QED BY <1>1, <1>2, <1>3, <1>4, CtrStep

LEMMA LateAskedStep ==
    ASSUME IndInv, HistoryInv, [Next]_vars PROVE LateAsked'
<1>1. LateAsked /\ late \subseteq AgentRequests
  BY DEF HistoryInv, IndInv, TypeOK
<1>2. ASSUME NEW r \in late
      PROVE  /\ req'[r.task].srv = r.srv
             /\ req'[r.task].kind = IF r.op = "create" THEN "provision" ELSE r.op
  <2>1. r.task \in Tasks /\ r.srv \in Servers
    BY <1>1 DEF AgentRequests
  <2>2. req[r.task].srv = r.srv
    BY <1>1 DEF LateAsked
  <2>3. req[r.task].pc # "idle"
    BY <2>1, <2>2, NoneAssumption DEF IndInv, RequestInv
  <2> QED BY <1>1, <2>1, <2>3, RequestsKept DEF LateAsked
<1>3. CASE late' \subseteq late
  BY <1>2, <1>3 DEF LateAsked
<1>4. ASSUME NEW t \in Tasks, job[t].pc \in CallPcs, late' \subseteq late \cup HeldByAgent(t),
             UNCHANGED <<srv, task, req, ctr, node>>
      PROVE  LateAsked'
  <2>1. CASE job[t].pc = "p_inspect"
    BY <1>2, <1>4, <2>1 DEF LateAsked, HeldByAgent
  <2>2. CASE job[t].pc # "p_inspect"
    <3>1. PICK x \in AgentRequests : x = Sent(t)
      BY <1>4, <2>2, SentIsOwned
    <3>2. /\ req'[x.task].srv = x.srv
          /\ req'[x.task].kind = IF x.op = "create" THEN "provision" ELSE x.op
      BY <1>4, <2>2, <3>1, SentWasAsked
    <3>3. late' \subseteq late \cup {x}
      BY <1>4, <2>2, <3>1 DEF HeldByAgent
    <3> QED BY <1>2, <3>2, <3>3 DEF LateAsked
  <2> QED BY <2>1, <2>2
<1> QED BY <1>3, <1>4, LateWriters

-----------------------------------------------------------------------------
(* How jobs move *)

\* The program counter moves from pc to new.
MovesPc(pc, new) ==
    \/ pc = "queued" /\ new \in {"p_load", "l_load", "d_load"}
    \/ pc = "p_load" /\ new \in {"p_create", "p_fail"}
    \/ pc = "p_create" /\ new \in {"p_create", "p_inspect", "p_fail"}
    \/ pc = "p_inspect" /\ new \in {"p_inspect", "p_save", "p_fail"}
    \/ pc = "p_save" /\ new \in {"p_done", "p_fail"}
    \/ pc = "p_fail" /\ new \in {"p_failsave", "ended"}
    \/ pc = "l_load" /\ new \in {"l_call", "ended"}
    \/ pc = "l_call" /\ new \in {"l_call", "l_find", "l_fail"}
    \/ pc = "l_find" /\ new = "l_save"
    \/ pc = "l_save" /\ new \in {"l_fail", "ended"}
    \/ pc = "d_load" /\ new \in {"d_node", "d_row", "ended"}
    \/ pc = "d_node" /\ new \in {"d_call", "d_row"}
    \/ pc = "d_call" /\ new \in {"d_call", "d_row", "d_fail"}
    \/ pc \in {"p_done", "p_failsave", "l_fail", "d_fail", "d_row"} /\ new = "ended"
    \/ pc = "ended" /\ new = "done"

\* A job moves from state j to state k: what it has in its hands it keeps from
\* its load to its end, except for the container that it makes or gives up.
JobMoves(j, k) ==
    /\ MovesPc(j.pc, k.pc)
    /\ j.pc \notin {"queued", "p_load", "l_load", "d_load", "ended"} =>
         k.srv = j.srv /\ k.node = j.node
    /\ j.pc \notin {"queued", "p_load", "l_load", "d_load", "ended", "p_create", "d_node"} =>
         k.cid = j.cid
    /\ j.pc \notin {"p_load", "l_load", "d_load"} \/ k.pc \in {"p_fail", "ended"} =>
         k.node \in {j.node, None}

\* A step that gives job t the state r.
LEMMA BecomesIs ==
    ASSUME IndInv, NEW t \in Tasks, NEW r, Becomes(t, r)
    PROVE  /\ job'[t] = r
           /\ \A u \in Tasks : u # t => job'[u] = job[u]
  BY DEF Becomes, IndInv, TypeOK

LEMMA GotoIs ==
    ASSUME IndInv, NEW t \in Tasks, NEW pc, Goto(t, pc)
    PROVE  /\ job'[t].pc = pc /\ job'[t].srv = job[t].srv /\ job'[t].node = job[t].node
           /\ job'[t].cid = job[t].cid
           /\ \A u \in Tasks : u # t => job'[u] = job[u]
  BY BecomesIs DEF Goto, IndInv, TypeOK, JobStates

\* A failed attempt leaves the job where it is or sends it to its except block.
LEMMA AttemptIs ==
    ASSUME IndInv, NEW t \in Tasks, AttemptFails(t) \/ Goto(t, FailPc(t)), job[t].pc \in CallPcs
    PROVE  /\ job'[t].pc \in {job[t].pc, FailPc(t)} /\ job'[t].srv = job[t].srv
           /\ job'[t].node = job[t].node /\ job'[t].cid = job[t].cid
           /\ MovesPc(job[t].pc, FailPc(t)) /\ FailPc(t) \in {"p_fail", "l_fail", "d_fail"}
           /\ \A u \in Tasks : u # t => job'[u] = job[u]
<1>1. MovesPc(job[t].pc, FailPc(t)) /\ FailPc(t) \in {"p_fail", "l_fail", "d_fail"}
  BY DEF FailPc, MovesPc, CallPcs
<1>2. CASE Goto(t, FailPc(t))
  BY <1>1, <1>2, GotoIs
<1>3. CASE Becomes(t, [job[t] EXCEPT !.att = @ + 1])
  BY <1>1, <1>3, BecomesIs, JobFacts DEF JobStates
<1> QED BY <1>2, <1>3 DEF AttemptFails

\* Every step of a job moves it so.
LEMMA JobStepMoves ==
    ASSUME IndInv, NEW t \in Tasks, JobStep(t)
    PROVE  JobMoves(job[t], job'[t])
<1>1. job \in [Tasks -> JobStates]
  BY DEF IndInv, TypeOK
<1>2. CASE JobStart(t) \/ ArqFinish(t)
  <2>1. CASE req[t].kind = "provision" /\ JobStart(t)
    BY <2>1, GotoIs DEF JobStart, MovesPc, JobMoves
  <2>2. CASE req[t].kind # "provision" /\ JobStart(t)
    <3>1. PICK pc \in {"d_load", "l_load"} :
            job' = [job EXCEPT ![t] = [job[t] EXCEPT !.pc = pc, !.seen = task[t].status,
                                                     !.srv = task[t].srv]]
      BY <2>2 DEF Becomes, JobStart
    <3> QED BY <1>1, <2>2, <3>1 DEF JobStart, MovesPc, JobMoves, JobStates
  <2>3. CASE ArqFinish(t)
    BY <1>1, <2>3 DEF Becomes, ArqFinish, MovesPc, JobMoves, NoJob
  <2> QED BY <1>2, <2>1, <2>2, <2>3
<1>3. CASE ProvisionStep(t)
  <2>1. CASE ProvisionMissing(t) \/ InspectReplies(t) \/ ProvisionSave(t) \/ ProvisionDone(t)
              \/ ProvisionFailSave(t)
    BY <2>1, GotoIs
    DEF ProvisionMissing, InspectReplies, ProvisionSave, ProvisionDone, ProvisionFailSave, MovesPc, JobMoves
  <2>2. CASE ProvisionNoCapacity(t)
    BY <1>1, <2>2 DEF Becomes, ProvisionNoCapacity, MovesPc, JobMoves, JobStates
  <2>5. CASE ProvisionPlace(t)
    <3>1. PICK n \in Nodes :
            job' = [job EXCEPT ![t] = [job[t] EXCEPT !.pc = "p_create", !.srv = task[t].srv,
                                                     !.node = n, !.att = 0]]
      BY <2>5 DEF Becomes, ProvisionPlace, Candidates, LeastLoaded
    <3> QED BY <1>1, <2>5, <3>1 DEF ProvisionPlace, MovesPc, JobMoves, JobStates
  <2>3. CASE CreateReplies(t)
    <3>1. CASE Goto(t, "p_fail")
      BY <2>3, <3>1, GotoIs DEF CreateReplies, MovesPc, JobMoves
    <3>2. CASE \E c : Becomes(t, [job[t] EXCEPT !.pc = "p_inspect", !.cid = c, !.att = 0])
      <4>1. job[t].pc = "p_create" /\ job[t] \in JobStates
        BY <1>1, <2>3 DEF CreateReplies
      <4>2. PICK c : job' = [job EXCEPT ![t] = [job[t] EXCEPT !.pc = "p_inspect", !.cid = c,
                                                             !.att = 0]]
        BY <3>2 DEF Becomes
      <4> QED BY <1>1, <4>1, <4>2 DEF MovesPc, JobMoves, JobStates
    <3> QED BY <2>3, <3>1, <3>2 DEF CreateReplies
  <2>4. CASE ProvisionFailFind(t)
    <3>1. CASE Goto(t, "ended")
      BY <2>4, <3>1, GotoIs DEF ProvisionFailFind, MovesPc, JobMoves
    <3>2. CASE \E x : Becomes(t, [job[t] EXCEPT !.pc = "p_failsave", !.seen = x])
      BY <1>1, <2>4, <3>2 DEF Becomes, ProvisionFailFind, MovesPc, JobMoves, JobStates
    <3> QED BY <2>4, <3>1, <3>2 DEF ProvisionFailFind
  <2> QED BY <1>3, <2>1, <2>2, <2>3, <2>4, <2>5 DEF ProvisionStep
<1>4. CASE LifecycleStep(t)
  <2>1. CASE LoadMissing(t) \/ LifecycleUnprovisioned(t) \/ LifecycleReplies(t)
              \/ LifecycleSave(t) \/ JobFail(t)
    BY <2>1, GotoIs
    DEF LoadMissing, LifecycleUnprovisioned, LifecycleReplies, LifecycleSave, JobFail, MovesPc, JobMoves
  <2>2. CASE LifecycleLoad(t)
    BY <1>1, <2>2 DEF Becomes, LifecycleLoad, MovesPc, JobMoves, JobStates
  <2>3. CASE LifecycleFind(t)
    BY <1>1, <2>3 DEF Becomes, LifecycleFind, MovesPc, JobMoves, JobStates
  <2> QED BY <1>4, <2>1, <2>2, <2>3 DEF LifecycleStep
<1>5. CASE DeleteStep(t)
  <2>1. CASE DeleteNothing(t) \/ DeleteReplies(t) \/ DeleteRow(t)
    BY <2>1, GotoIs DEF DeleteNothing, DeleteReplies, DeleteRow, MovesPc, JobMoves
  <2>2. CASE DeleteLoad(t)
    <3>1. PICK pc \in {"d_node", "d_row"} : \E s, n, c :
            job' = [job EXCEPT ![t] = [job[t] EXCEPT !.pc = pc, !.srv = s, !.node = n, !.cid = c]]
      BY <2>2 DEF Becomes, DeleteLoad
    <3> QED BY <1>1, <2>2, <3>1 DEF DeleteLoad, MovesPc, JobMoves, JobStates
  <2>3. CASE DeleteFindNode(t)
    <3>1. job[t].pc = "d_node" /\ job[t] \in JobStates
      BY <1>1, <2>3 DEF DeleteFindNode
    <3>2. CASE job' = [job EXCEPT ![t] = [job[t] EXCEPT !.pc = "d_row", !.cid = None]]
      BY <1>1, <3>1, <3>2 DEF MovesPc, JobMoves, JobStates
    <3>3. CASE job' = [job EXCEPT ![t] = [job[t] EXCEPT !.pc = "d_call", !.att = 0]]
      BY <1>1, <3>1, <3>3 DEF MovesPc, JobMoves, JobStates
    <3> QED BY <2>3, <3>2, <3>3 DEF Becomes, DeleteFindNode
  <2> QED BY <1>5, <2>1, <2>2, <2>3 DEF DeleteStep
<1>6. CASE FaultStep(t)
  <2>1. job[t].pc \in CallPcs /\ (AttemptFails(t) \/ Goto(t, FailPc(t)))
    BY <1>6 DEF FaultStep, ConnectFails, DockerFails, ReadTimesOut, TransportFails
  <2>2. MovesPc(job[t].pc, job[t].pc)
    BY <2>1 DEF CallPcs, MovesPc
  <2> QED BY <2>1, <2>2, AttemptIs DEF JobMoves, CallPcs
<1> QED BY <1>2, <1>3, <1>4, <1>5, <1>6 DEF JobStep

\* A job is enqueued once, for a request that had none.
LEMMA Enqueued ==
    ASSUME IndInv, NEW t \in Tasks,
           \/ \E s \in Servers, size \in Sizes : Create(t, s, size)
           \/ \E s \in Servers, kind \in LifecycleKinds : RequestAction(t, s, kind)
           \/ DeleteFlush(t)
    PROVE  job[t].pc = "none" /\ job'[t].pc \in {"none", "queued"}
           /\ job'[t].node = job[t].node /\ job'[t].srv = job[t].srv /\ job'[t].cid = job[t].cid
<1>1. job[t].pc = "none"
  BY DEF Create, RequestAction, DeleteFlush, IndInv, RequestInv
<1>2. Goto(t, "queued") \/ job' = job
  BY DEF Create, RequestAction, DeleteFlush, FlushAndEnqueue
<1> QED BY <1>1, <1>2, GotoIs

\* What the death of its worker makes of a job.
LEMMA Crashed ==
    ASSUME IndInv, NEW t \in Tasks, Crash(t)
    PROVE  /\ t \in Busy /\ job'[t] = [NoJob EXCEPT !.pc = "queued"] /\ crashes' # 0
           /\ UNCHANGED <<srv, task, req, ctr, node>>
<1>1. crashes \in Nat
  BY DEF IndInv, TypeOK
<1> QED BY <1>1, BecomesIs DEF Crash

\* The status of a task: committed as pending, marked by its own job.
LEMMA TaskStep ==
    ASSUME IndInv, [Next]_vars, NEW t \in Tasks, task'[t].status # task[t].status
    PROVE  \/ task[t].status = "absent" /\ task'[t].status = "pending"
           \/ task'[t].status = "running" /\ job[t].pc \in {"queued", "l_load", "d_load"}
           \/ /\ task'[t].status \in {"succeeded", "failed"} /\ job'[t].pc = "ended"
              /\ JobStep(t)
              /\ req[t].kind = "provision" /\ task'[t].status = "succeeded" => job[t].pc = "p_done"
<1>1. task \in [Tasks -> TaskRows] /\ task' # task
  BY DEF IndInv, TypeOK
<1>2. ASSUME NEW u \in Tasks, Commit(u)
      PROVE  task[t].status = "absent" /\ task'[t].status = "pending"
  BY <1>1, <1>2 DEF Commit, IndInv, TaskInv
<1>3. ASSUME NEW u \in Tasks, NEW st, task' = Marked(u, st) PROVE u = t /\ task'[t].status = st
  BY <1>1, <1>3 DEF Marked, TaskRows
<1>4. ASSUME NEW u \in Tasks, JobStart(u) \/ ArqFinish(u)
      PROVE  task'[t].status = "running" /\ job[t].pc \in {"queued", "l_load", "d_load"}
  BY <1>1, <1>3, <1>4 DEF JobStart, ArqFinish
<1>5. ASSUME NEW u \in Tasks, ProvisionStep(u)
      PROVE  /\ task'[t].status \in {"succeeded", "failed"} /\ job'[t].pc = "ended" /\ u = t
             /\ task'[t].status = "succeeded" => job[t].pc = "p_done"
  <2>1. \/ task' = Marked(u, "failed") /\ Goto(u, "ended")
        \/ task' = Marked(u, "succeeded") /\ Goto(u, "ended") /\ job[u].pc = "p_done"
    BY <1>1, <1>5
    DEF ProvisionStep, ProvisionMissing, ProvisionNoCapacity, ProvisionPlace, CreateReplies,
        InspectReplies, ProvisionSave, ProvisionDone, ProvisionFailFind, ProvisionFailSave
  <2> QED BY <1>3, <2>1, GotoIs
<1>6. ASSUME NEW u \in Tasks, LoadMissing(u)
      PROVE  task'[t].status = "running" /\ job[t].pc \in {"queued", "l_load", "d_load"}
  BY <1>1, <1>3, <1>6 DEF LoadMissing
<1>7. ASSUME NEW u \in Tasks, LifecycleLoad(u) \/ DeleteLoad(u)
      PROVE  task'[t].status = "running" /\ job[t].pc \in {"queued", "l_load", "d_load"}
  <2>1. /\ job[u].pc \in {"l_load", "d_load"}
        /\ task' = [task EXCEPT ![u].status = LoadedTask(u).status]
        /\ LoadedTask(u).srv # None
    BY <1>7 DEF LifecycleLoad, DeleteLoad
  <2>2. task' = task \/ task' = Marked(u, "running")
    BY <2>1, Loaded
  <2> QED BY <1>1, <1>3, <2>1, <2>2
<1>8. ASSUME NEW u \in Tasks, LifecycleStep(u), ~LoadMissing(u), ~LifecycleLoad(u)
      PROVE  /\ task'[t].status \in {"succeeded", "failed"} /\ job'[t].pc = "ended" /\ u = t
             /\ req[t].kind # "provision" \/ task'[t].status = "failed"
  <2>1. /\ task' = Marked(u, "failed") \/ task' = Marked(u, "succeeded")
        /\ Goto(u, "ended")
        /\ job[u].pc \in LifecyclePcs \/ task' = Marked(u, "failed")
    BY <1>1, <1>8
    DEF LifecycleStep, LifecycleUnprovisioned, LifecycleReplies, LifecycleFind, LifecycleSave,
        JobFail, LifecyclePcs
  <2>2. job[u].pc \in LifecyclePcs => req[u].kind # "provision"
    BY JobFacts DEF JobFits, LifecycleKinds
  <2> QED BY <1>3, <2>1, <2>2, GotoIs
<1>9. ASSUME NEW u \in Tasks, DeleteStep(u), ~DeleteLoad(u)
      PROVE  /\ task'[t].status = "succeeded" /\ job'[t].pc = "ended" /\ u = t
             /\ req[t].kind # "provision"
  <2>1. job[u].pc \in DeletePcs => req[u].kind # "provision"
    BY JobFacts DEF JobFits
  <2>2. CASE DeleteRow(u)
    <3>1. u = t /\ task'[t].status = "succeeded"
      BY <1>1, <2>2 DEF DeleteRow
    <3> QED BY <2>1, <2>2, <3>1, GotoIs DEF DeleteRow, DeletePcs
  <2>3. CASE ~DeleteRow(u)
    <3>1. task' = Marked(u, "succeeded") /\ Goto(u, "ended") /\ job[u].pc = "d_load"
      BY <1>1, <1>9, <2>3 DEF DeleteStep, DeleteNothing, DeleteFindNode, DeleteReplies
    <3> QED BY <1>3, <2>1, <3>1, GotoIs DEF DeletePcs
  <2> QED BY <2>2, <2>3
<1>10. \A u \in Tasks : ~FaultStep(u)
  BY <1>1 DEF FaultStep, ConnectFails, DockerFails, ReadTimesOut, TransportFails
<1> QED
  BY <1>1, <1>2, <1>4, <1>5, <1>6, <1>7, <1>8, <1>9, <1>10, TaskWriters DEF JobStep

\* A row is given a node and a container by set_provisioned only.
LEMMA PlaceStep ==
    ASSUME IndInv, [Next]_vars, NEW s \in Servers
    PROVE  \/ srv'[s].node \in {srv[s].node, None} /\ srv'[s].cid \in {srv[s].cid, None}
           \/ \E t \in Tasks :
                /\ ProvisionSave(t) /\ job[t].srv = s
                /\ srv'[s].cid = job[t].cid /\ srv'[s].node = job[t].node
                /\ node[job[t].node].status # "deleted"
<1>1. srv \in [Servers -> ServerRows] /\ req \in [Tasks -> RequestStates]
  BY DEF IndInv, TypeOK
<1>2. CASE srv' = srv
  BY <1>2
<1>3. ASSUME NEW t \in Tasks, NEW x \in Servers, NEW size \in Sizes, Create(t, x, size)
      PROVE  srv'[s].node = srv[s].node /\ srv'[s].cid = srv[s].cid
  BY <1>1, <1>3 DEF Create, ServerRows
<1>4. ASSUME NEW x \in Servers, PatchCheck(x) \/ \E size \in Sizes : Patch(x, size)
      PROVE  srv'[s].node = srv[s].node /\ srv'[s].cid = srv[s].cid
  BY <1>1, <1>4 DEF PatchCheck, Patch, ServerRows
<1>5. ASSUME NEW n \in Nodes, NodeDelete(n)
      PROVE  srv'[s].node \in {srv[s].node, None} /\ srv'[s].cid = srv[s].cid
  BY <1>1, <1>5 DEF NodeDelete, ServerRows
<1>6. ASSUME NEW t \in Tasks, Commit(t) \/ ProvisionPlace(t) \/ ProvisionFailSave(t)
                              \/ LifecycleSave(t)
      PROVE  srv'[s].node = srv[s].node /\ srv'[s].cid = srv[s].cid
  <2>1. ASSUME NEW x \in Servers, NEW st, srv' = [srv EXCEPT ![x].status = st]
        PROVE  srv'[s].node = srv[s].node /\ srv'[s].cid = srv[s].cid
    BY <1>1, <2>1 DEF ServerRows
  <2>2. \A x, seen, st : srv' = StatusWritten(x, seen, st) =>
          srv' = srv \/ srv' = [srv EXCEPT ![x].status = st]
    BY DEF StatusWritten
  <2>3. job[t].pc \in {"p_failsave", "l_save"} => job[t].srv \in Servers
    BY JobFacts DEF JobFits, ServerPcs
  <2>4. CASE Commit(t)
    BY <1>1, <2>1, <2>4 DEF Commit, IndInv, RequestInv
  <2>5. CASE ProvisionPlace(t)
    BY <1>1, <2>1, <2>5, JobFacts DEF ProvisionPlace
  <2>6. CASE ProvisionFailSave(t)
    BY <1>1, <2>1, <2>2, <2>3, <2>6 DEF ProvisionFailSave
  <2>7. CASE LifecycleSave(t)
    BY <1>1, <2>1, <2>2, <2>3, <2>7 DEF LifecycleSave
  <2> QED BY <1>6, <2>4, <2>5, <2>6, <2>7
<1>7. ASSUME NEW t \in Tasks, Rollback(t) \/ DeleteRow(t)
      PROVE  \/ srv'[s].node = srv[s].node /\ srv'[s].cid = srv[s].cid
             \/ srv'[s].node = None /\ srv'[s].cid = None
  BY <1>1, <1>7 DEF Rollback, DeleteRow, ServerRows, NoServer
<1>8. ASSUME NEW t \in Tasks, ProvisionSave(t)
      PROVE  \/ srv'[s] = srv[s]
             \/ /\ job[t].srv = s /\ srv'[s].cid = job[t].cid /\ srv'[s].node = job[t].node
                /\ node[job[t].node].status # "deleted"
  BY <1>1, <1>8 DEF ProvisionSave, ServerRows
<1> QED
  BY <1>2, <1>3, <1>4, <1>5, <1>6, <1>7, <1>8, SrvWriters

\* A node that was ever registered is not registered again.
LEMMA NodeStep ==
    ASSUME IndInv, [Next]_vars, NEW n \in Nodes, node[n].status # "absent"
    PROVE  /\ node'[n].status # "absent"
           /\ node[n].status = "deleted" => node'[n].status = "deleted"
           /\ node'[n].status \notin {"deleted", node[n].status} =>
                node'[n].status \in {"online", "drain"}
           /\ node'[n].status = "deleted" /\ node[n].status # "deleted" => NodeDelete(n)
<1>1. node \in [Nodes -> NodeRows]
  BY DEF IndInv, TypeOK
<1>2. CASE node' = node
  BY <1>2
<1>3. CASE AdminStep
  <2>1. ASSUME NEW m \in Nodes, NEW cap \in Capacities, NodeCreate(m, cap) PROVE node'[n] = node[n]
    BY <1>1, <2>1 DEF NodeCreate
  <2>2. ASSUME NEW m \in Nodes, NEW st \in {"online", "drain"}, NEW cap \in Capacities,
               NodePatch(m, st, cap)
        PROVE  \/ node'[n] = node[n]
               \/ node'[n].status = st /\ node[n].status \in {"online", "drain"}
    <3>1. /\ node' = [node EXCEPT ![m] = [status |-> st, cpu |-> cap.cpu, mem |-> cap.mem]]
          /\ node[m].status \in {"online", "drain"}
      BY <2>2 DEF NodePatch
    <3>2. CASE m = n
      BY <1>1, <3>1, <3>2
    <3>3. CASE m # n
      BY <1>1, <3>1, <3>3
    <3> QED BY <3>2, <3>3
  <2>3. ASSUME NEW m \in Nodes, NodeDelete(m)
        PROVE  node'[n] = node[n] \/ (m = n /\ node'[n].status = "deleted")
    <3>1. node' = [node EXCEPT ![m].status = "deleted"]
      BY <2>3 DEF NodeDelete
    <3> QED BY <1>1, <3>1 DEF NodeRows
  <2> QED BY <1>3, <2>1, <2>2, <2>3 DEF AdminStep
<1> QED BY <1>2, <1>3, NodeWriters

\* Once a job has loaded its server and gone on, these are its data.
LEMMA LoadIs ==
    ASSUME IndInv, NEW t \in Tasks
    PROVE  /\ ProvisionPlace(t) =>
                /\ job'[t].srv = task[t].srv /\ job'[t].node \in Candidates(task[t].srv)
                /\ job'[t].pc = "p_create" /\ job[t].pc = "p_load"
           /\ LifecycleLoad(t) \/ DeleteLoad(t) =>
                LET s == LoadedTask(t).srv IN
                /\ job'[t].srv = s /\ job'[t].node = srv[s].node
                /\ s \in Servers /\ srv' = srv /\ node' = node /\ ctr' = ctr
                /\ job'[t].pc \in {"l_call", "d_node"} => job'[t].cid = srv[s].cid
                /\ job'[t].pc = "d_row" => srv[s].cid = None \/ srv[s].node = None
<1>1. job \in [Tasks -> JobStates]
  BY DEF IndInv, TypeOK
<1>2. ASSUME ProvisionPlace(t)
      PROVE  /\ job'[t].srv = task[t].srv /\ job'[t].node \in Candidates(task[t].srv)
             /\ job'[t].pc = "p_create" /\ job[t].pc = "p_load"
  <2>1. PICK n \in Candidates(task[t].srv) :
          job' = [job EXCEPT ![t] = [job[t] EXCEPT !.pc = "p_create", !.srv = task[t].srv,
                                                   !.node = n, !.att = 0]]
    BY <1>2 DEF Becomes, ProvisionPlace
  <2> QED BY <1>1, <1>2, <2>1 DEF ProvisionPlace, JobStates
<1> DEFINE s == LoadedTask(t).srv
<1>3. ASSUME LifecycleLoad(t)
      PROVE  /\ job'[t].srv = s /\ job'[t].node = srv[s].node
             /\ s \in Servers /\ srv' = srv /\ node' = node /\ ctr' = ctr
             /\ job'[t].pc = "l_call" /\ job'[t].cid = srv[s].cid
  <2>1. /\ job' = [job EXCEPT ![t] = [job[t] EXCEPT !.pc = "l_call", !.srv = s, !.att = 0,
                             !.node = srv[s].node, !.cid = srv[s].cid]]
        /\ s # None /\ job[t].pc = "l_load" /\ srv' = srv /\ node' = node /\ ctr' = ctr
    BY <1>3 DEF Becomes, LifecycleLoad
  <2>2. s \in Servers
    BY <2>1, Loaded
  <2> HIDE DEF s
  <2> QED BY <1>1, <2>1, <2>2 DEF JobStates
<1>4. ASSUME DeleteLoad(t)
      PROVE  /\ job'[t].srv = s /\ job'[t].node = srv[s].node
             /\ s \in Servers /\ srv' = srv /\ node' = node /\ ctr' = ctr
             /\ job'[t].pc \in {"d_node", "d_row"}
             /\ job'[t].pc = "d_node" => job'[t].cid = srv[s].cid
             /\ job'[t].pc = "d_row" => srv[s].cid = None \/ srv[s].node = None
  <2>1. /\ \/ /\ srv[s].cid # None /\ srv[s].node # None
              /\ job' = [job EXCEPT ![t] = [job[t] EXCEPT !.pc = "d_node", !.srv = s,
                                               !.node = srv[s].node, !.cid = srv[s].cid]]
           \/ /\ srv[s].cid = None \/ srv[s].node = None
              /\ job' = [job EXCEPT ![t] = [job[t] EXCEPT !.pc = "d_row", !.srv = s,
                                               !.node = srv[s].node, !.cid = None]]
        /\ s # None /\ job[t].pc = "d_load" /\ srv' = srv /\ node' = node /\ ctr' = ctr
    BY <1>4 DEF Becomes, DeleteLoad
  <2>2. s \in Servers
    BY <2>1, Loaded
  <2> HIDE DEF s
  <2>3. CASE srv[s].cid # None /\ srv[s].node # None
    <3>1. job' = [job EXCEPT ![t] = [job[t] EXCEPT !.pc = "d_node", !.srv = s,
                                        !.node = srv[s].node, !.cid = srv[s].cid]]
      BY <2>1, <2>3
    <3>2. /\ job'[t].pc = "d_node" /\ job'[t].srv = s
          /\ job'[t].node = srv[s].node /\ job'[t].cid = srv[s].cid
      BY <1>1, <3>1 DEF JobStates
    <3> QED BY <2>1, <2>2, <3>2
  <2>4. CASE srv[s].cid = None \/ srv[s].node = None
    <3>1. job' = [job EXCEPT ![t] = [job[t] EXCEPT !.pc = "d_row", !.srv = s,
                                        !.node = srv[s].node, !.cid = None]]
      BY <2>1, <2>4
    <3>2. job'[t].pc = "d_row" /\ job'[t].srv = s /\ job'[t].node = srv[s].node
      BY <1>1, <3>1 DEF JobStates
    <3> QED BY <2>1, <2>2, <2>4, <3>2
  <2> QED BY <2>3, <2>4
<1> QED BY <1>2, <1>3, <1>4

\* A job gets to its calls, and to the row it deletes, by loading.
LEMMA LoadsFirst ==
    ASSUME IndInv, NEW t \in Tasks, JobStep(t)
    PROVE  /\ job[t].pc = "p_load" /\ job'[t].pc = "p_create" => ProvisionPlace(t)
           /\ job[t].pc = "l_load" /\ job'[t].pc = "l_call" => LifecycleLoad(t)
           /\ job[t].pc = "d_load" /\ job'[t].pc \in {"d_node", "d_row"} => DeleteLoad(t)
           /\ job[t].pc = "queued" => JobStart(t)
           /\ job[t].pc = "d_node" => DeleteFindNode(t)
           /\ job[t].pc = "d_call" /\ job'[t].pc = "d_row" => DeleteReplies(t)
           /\ job[t].pc = "p_save" => ProvisionSave(t)
<1>1. job \in [Tasks -> JobStates]
  BY DEF IndInv, TypeOK
<1>7. \A pc : Goto(t, pc) => job'[t].pc = pc
  BY GotoIs
<1>2. CASE JobStart(t) \/ ArqFinish(t)
  BY <1>2 DEF JobStart, ArqFinish
<1>3. CASE ProvisionStep(t)
  <2>1. ProvisionNoCapacity(t) => job[t].pc = "p_load" /\ job'[t].pc = "p_fail"
    BY <1>1 DEF ProvisionNoCapacity, Becomes, JobStates
  <2>2. ProvisionMissing(t) => job[t].pc = "p_load" /\ job'[t].pc = "p_fail"
    BY <1>7 DEF ProvisionMissing
  <2>3. ProvisionPlace(t) => job[t].pc = "p_load"
    BY DEF ProvisionPlace
  <2>4. CreateReplies(t) \/ InspectReplies(t) => job[t].pc \in {"p_create", "p_inspect"}
    BY DEF CreateReplies, InspectReplies
  <2>5. ProvisionSave(t) => job[t].pc = "p_save"
    BY DEF ProvisionSave
  <2>6. ProvisionDone(t) \/ ProvisionFailFind(t) \/ ProvisionFailSave(t) =>
          job[t].pc \in {"p_done", "p_fail", "p_failsave"}
    BY DEF ProvisionDone, ProvisionFailFind, ProvisionFailSave
  <2> QED BY <1>3, <2>1, <2>2, <2>3, <2>4, <2>5, <2>6 DEF ProvisionStep
<1>4. CASE LifecycleStep(t)
  <2>1. LoadMissing(t) \/ LifecycleUnprovisioned(t) =>
          job[t].pc \in {"l_load", "d_load"} /\ job'[t].pc = "ended"
    BY <1>7 DEF LoadMissing, LifecycleUnprovisioned
  <2>2. LifecycleLoad(t) => job[t].pc = "l_load"
    BY DEF LifecycleLoad
  <2>3. LifecycleReplies(t) \/ LifecycleFind(t) \/ LifecycleSave(t) \/ JobFail(t) =>
          job[t].pc \in {"l_call", "l_find", "l_save", "l_fail", "d_fail"}
    BY DEF LifecycleReplies, LifecycleFind, LifecycleSave, JobFail
  <2> QED BY <1>4, <2>1, <2>2, <2>3 DEF LifecycleStep
<1>5. CASE DeleteStep(t)
  <2>1. DeleteNothing(t) => job[t].pc = "d_load" /\ job'[t].pc = "ended"
    BY <1>7 DEF DeleteNothing
  <2>2. DeleteLoad(t) => job[t].pc = "d_load"
    BY DEF DeleteLoad
  <2>3. DeleteFindNode(t) => job[t].pc = "d_node"
    BY DEF DeleteFindNode
  <2>4. DeleteReplies(t) => job[t].pc = "d_call"
    BY DEF DeleteReplies
  <2>5. DeleteRow(t) => job[t].pc = "d_row"
    BY DEF DeleteRow
  <2> QED BY <1>5, <2>1, <2>2, <2>3, <2>4, <2>5 DEF DeleteStep
<1>6. CASE FaultStep(t)
  <2>1. job[t].pc \in CallPcs /\ (AttemptFails(t) \/ Goto(t, FailPc(t)))
    BY <1>6 DEF FaultStep, ConnectFails, DockerFails, ReadTimesOut, TransportFails
  <2> QED BY <2>1, AttemptIs DEF CallPcs
<1> QED BY <1>2, <1>3, <1>4, <1>5, <1>6 DEF JobStep

\* What becomes of job t in any step.
LEMMA JobChange ==
    ASSUME IndInv, [Next]_vars, NEW t \in Tasks
    PROVE  \/ job'[t] = job[t]
           \/ /\ job[t].pc = "none" /\ job'[t].pc \in {"none", "queued"}
              /\ job'[t].node = job[t].node
           \/ JobStep(t) /\ JobMoves(job[t], job'[t])
           \/ Crash(t) /\ job'[t].pc = "queued" /\ job'[t].node = None /\ crashes' # 0
<1>1. CASE JobStep(t)
  BY <1>1, JobStepMoves
<1>2. CASE Crash(t)
  <2>1. [NoJob EXCEPT !.pc = "queued"].pc = "queued" /\ [NoJob EXCEPT !.pc = "queued"].node = None
    BY DEF NoJob
  <2> QED BY <1>2, <2>1, Crashed
<1> QED BY <1>1, <1>2, JobWriters, Enqueued

-----------------------------------------------------------------------------
(* The other conjuncts of HistoryInv *)

LEMMA RecordHeldStep ==
    ASSUME IndInv, HistoryInv, [Next]_vars PROVE RecordHeld'
<1> SUFFICES ASSUME NEW t \in Tasks, req'[t].kind = "provision",
                    job'[t].pc = "p_done" \/ task'[t].status = "succeeded"
             PROVE  srv'[req'[t].srv].cid # None \/ DeleteCommitted(req[t].srv)'
  BY DEF RecordHeld
<1>1. req[t].pc # "idle"
  <2>1. SUFFICES ASSUME req[t].pc = "idle" PROVE FALSE
    OBVIOUS
  <2>2. job[t].pc = "none" /\ task[t].status = "absent"
    BY <2>1 DEF IndInv, RequestInv, TaskInv
  <2>3. ~JobStep(t)
    BY <2>2, JobStepMoves DEF JobMoves, MovesPc
  <2>4. job'[t].pc \in {"none", "queued"}
    BY <2>2, <2>3, JobChange
  <2>5. task'[t].status = "succeeded" => task'[t].status # task[t].status
    BY <2>2
  <2> QED BY <2>2, <2>4, <2>5, TaskStep
<1> DEFINE s == req[t].srv
<1>2. /\ s \in Servers /\ req'[t].srv = s /\ req[t].kind = "provision"
  BY <1>1, RequestsKept DEF IndInv, RequestInv
<1>3. CASE job[t].pc = "p_done" \/ task[t].status = "succeeded"
  <2>1. srv[s].cid # None \/ DeleteCommitted(s)
    BY <1>2, <1>3 DEF HistoryInv, RecordHeld
  <2>2. DeleteCommitted(s) => DeleteCommitted(s)'
    BY <1>2, AskedKept
  <2>3. srv[s].cid # None /\ srv'[s].cid = None => DeleteCommitted(s)
    BY <1>2, RowStep
  <2> HIDE DEF s
  <2> QED BY <1>2, <2>1, <2>2, <2>3 DEF s, DeleteCommitted
<1>4. CASE ~(job[t].pc = "p_done" \/ task[t].status = "succeeded")
  <2>1. task'[t].status # "succeeded"
    BY <1>2, <1>4, TaskStep
  <2>2. job[t].pc = "p_save" /\ JobStep(t)
    BY <1>4, <2>1, JobChange DEF JobMoves, MovesPc
  <2>3. ProvisionSave(t)
    BY <2>2, LoadsFirst
  <2>4. job[t].srv = s /\ job[t].cid # None /\ srv \in [Servers -> ServerRows]
    BY <2>2, JobFacts, LifecycleAssumption
    DEF JobFits, ServerPcs, ContainerPcs, Owns, IndInv, TypeOK
  <2>5. srv'[s].cid = job[t].cid
    <3>1. ~Goto(t, "p_fail")
      BY <2>1, GotoIs
    <3>2. srv' = [srv EXCEPT ![s] = [@ EXCEPT !.status = "running", !.node = job[t].node,
                                              !.cid = job[t].cid]]
      BY <2>3, <2>4, <3>1 DEF ProvisionSave
    <3> QED BY <1>2, <2>4, <3>2 DEF ServerRows
  <2> QED BY <1>2, <2>4, <2>5
<1> QED BY <1>3, <1>4

LEMMA SettledStep ==
    ASSUME IndInv, HistoryInv, [Next]_vars PROVE Settled'
<1> SUFFICES ASSUME crashes' = 0, NEW t \in Tasks, task'[t].status \in {"succeeded", "failed"}
             PROVE  job'[t].pc \in {"ended", "done"}
  BY DEF Settled
<1>1. crashes = 0
  BY CrashWriters
<1>2. CASE task'[t].status # task[t].status
  BY <1>2, TaskStep
<1>3. CASE task'[t].status = task[t].status
  <2>1. job[t].pc \in {"ended", "done"}
    BY <1>1, <1>3 DEF HistoryInv, Settled
  <2> QED BY <2>1, JobChange DEF JobMoves, MovesPc
<1> QED BY <1>2, <1>3

LEMMA NodesKnownStep ==
    ASSUME IndInv, HistoryInv, [Next]_vars PROVE NodesKnown'
<1>1. NodesKnown
  BY DEF HistoryInv
<1>2. /\ node \in [Nodes -> NodeRows] /\ node' \in [Nodes -> NodeRows]
      /\ srv \in [Servers -> ServerRows] /\ job \in [Tasks -> JobStates]
  BY NextIndInv DEF IndInv, TypeOK
<1>3. ASSUME NEW s \in Servers, srv'[s].node # None
      PROVE  node'[srv'[s].node].status \in {"online", "drain"}
  <2>1. CASE srv'[s].node \in {srv[s].node, None}
    <3>1. srv[s].node \in Nodes /\ srv'[s].node = srv[s].node
      BY <1>2, <1>3, <2>1 DEF ServerRows
    <3>2. node[srv[s].node].status \in {"online", "drain"}
      BY <1>1, <3>1, NoneAssumption DEF NodesKnown, PlacedOnKnownNode
    <3>3. ~NodeDelete(srv[s].node)
      BY <1>2, <1>3, <3>1, NoneAssumption DEF NodeDelete, ServerRows
    <3> QED BY <3>1, <3>2, <3>3, NodeStep
  <2>2. CASE srv'[s].node \notin {srv[s].node, None}
    <3>1. PICK t \in Tasks :
            /\ ProvisionSave(t) /\ srv'[s].node = job[t].node
            /\ node[job[t].node].status # "deleted"
      BY <2>2, PlaceStep
    <3>2. job[t].node \in Nodes /\ node[job[t].node].status # "absent"
      BY <1>1, <1>2, <1>3, <3>1 DEF NodesKnown, JobStates
    <3>3. node[job[t].node].status \in {"online", "drain"} /\ node' = node
      BY <1>2, <3>1, <3>2 DEF NodeRows, ProvisionSave
    <3> QED BY <3>1, <3>3
  <2> QED BY <2>1, <2>2
<1>4. ASSUME NEW t \in Tasks, job'[t].node # None
      PROVE  node'[job'[t].node].status # "absent"
  <2>1. CASE job'[t].node = job[t].node
    <3>1. job[t].node \in Nodes
      BY <1>2, <1>4, <2>1 DEF JobStates
    <3> QED BY <1>1, <1>4, <2>1, <3>1, NodeStep DEF NodesKnown
  <2>2. CASE job'[t].node # job[t].node
    <3>1. /\ JobStep(t) /\ job[t].pc \in {"p_load", "l_load", "d_load"}
          /\ job'[t].pc \notin {"p_fail", "ended"} /\ JobMoves(job[t], job'[t])
      BY <1>4, <2>2, JobChange DEF JobMoves
    <3>2. ProvisionPlace(t) \/ LifecycleLoad(t) \/ DeleteLoad(t)
      BY <3>1, LoadsFirst DEF JobMoves, MovesPc
    <3>3. CASE ProvisionPlace(t)
      <4>1. job'[t].node \in Nodes /\ node[job'[t].node].status = "online" /\ node' = node
        BY <3>3, LoadIs DEF Candidates, LeastLoaded, Fits, ProvisionPlace
      <4> QED BY <4>1
    <3>4. CASE LifecycleLoad(t) \/ DeleteLoad(t)
      <4>1. PICK s \in Servers : job'[t].node = srv[s].node /\ node' = node
        BY <3>4, LoadIs
      <4> QED BY <1>1, <1>4, <4>1 DEF NodesKnown, PlacedOnKnownNode
    <3> QED BY <3>2, <3>3, <3>4
  <2> QED BY <2>1, <2>2
<1> QED BY <1>3, <1>4 DEF NodesKnown, PlacedOnKnownNode

\* No step but the choice of a node adds a host where server s may be made.
LEMMA SitesStep ==
    ASSUME IndInv, HistoryInv, [Next]_vars, NEW s \in Servers, NEW n \in Sites(s)',
           n \notin Sites(s)
    PROVE  \E t \in Tasks :
             /\ ProvisionPlace(t) /\ task[t].srv = s /\ n = job'[t].node
             /\ UNCHANGED <<ctr, late>>
             /\ \A u \in Tasks : u # t => job'[u] = job[u]
<1>1. LateAsked /\ late \subseteq AgentRequests
  BY DEF HistoryInv, IndInv, TypeOK
<1>2. ASSUME NEW c \in Containers, ctr'[c].state # "free", ctr'[c].srv = s
      PROVE  ctr'[c].node \in Sites(s)
  <2>1. CASE ctr[c].state # "free"
    <3>1. ctr'[c].srv = ctr[c].srv /\ ctr'[c].node = ctr[c].node
      BY <1>1, <2>1, OwnersNeverChange DEF OwnersKept
    <3> QED BY <1>2, <2>1, <3>1 DEF Sites
  <2>2. CASE ctr[c].state = "free"
    <3>1. ASSUME NEW d \in Containers, NEW x, NEW m, NEW state, Made(d, x, m, state)
          PROVE  ctr'[c].node \in Sites(s)
      BY <1>2, <2>2, <3>1, MadeEffect DEF Made
    <3>2. ASSUME NEW d \in Containers, NEW op \in AgentOps \ {"create"}, Operated(d, op)
          PROVE  FALSE
      BY <1>2, <2>2, <3>2, OperatedEffect DEF LiveStates
    <3> QED BY <1>1, <1>2, <2>2, <3>1, <3>2, CtrStep
  <2> QED BY <2>1, <2>2
<1>3. ASSUME NEW r \in late', r.op = "create", r.srv = s
      PROVE  r.node \in Sites(s)
  <2>1. CASE r \in late
    BY <1>3, <2>1 DEF Sites
  <2>2. CASE r \notin late
    <3>1. PICK t \in Tasks : job[t].pc \in CallPcs /\ late' \subseteq late \cup HeldByAgent(t)
      BY <2>2, LateWriters
    <3>2. r = Sent(t) /\ job[t].pc # "p_inspect"
      BY <2>2, <3>1 DEF HeldByAgent
    <3>3. job[t].pc = "p_create" /\ job[t].srv = s /\ r.node = job[t].node
      BY <1>3, <3>1, <3>2, SentWasAsked
    <3> QED BY <3>3 DEF Sites
  <2> QED BY <2>1, <2>2
<1>4. ASSUME NEW t \in Tasks, job'[t].pc = "p_create", job'[t].srv = s,
             job'[t].node \notin Sites(s)
      PROVE  ProvisionPlace(t) /\ task[t].srv = s
  <2>1. job'[t] # job[t]
    BY <1>4 DEF Sites
  <2>2. JobStep(t) /\ JobMoves(job[t], job'[t])
    BY <1>4, <2>1, JobChange
  <2>3. job[t].pc # "p_create"
    BY <1>4, <2>2 DEF JobMoves, Sites
  <2>4. ProvisionPlace(t)
    BY <1>4, <2>2, <2>3, LoadsFirst DEF JobMoves, MovesPc
  <2> QED BY <1>4, <2>4, LoadIs
<1>5. PICK t \in Tasks : job'[t].pc = "p_create" /\ job'[t].srv = s /\ n = job'[t].node
  BY <1>2, <1>3 DEF Sites
<1>6. ProvisionPlace(t) /\ task[t].srv = s
  BY <1>4, <1>5
<1>7. \A u \in Tasks : u # t => job'[u] = job[u]
  <2>1. PICK r : Becomes(t, r)
    BY <1>6 DEF ProvisionPlace
  <2> QED BY <2>1, BecomesIs
<1> QED BY <1>5, <1>6, <1>7 DEF ProvisionPlace

\* A job that chose a node does not choose again, as long as no worker dies.
LEMMA PlacedKept ==
    ASSUME IndInv, [Next]_vars, crashes' = 0, NEW s \in Servers, Placed(s)
    PROVE  Placed(s)'
<1>1. PICK t \in Tasks :
        /\ req[t].kind = "provision" /\ req[t].srv = s
        /\ job[t].pc \notin {"none", "queued", "p_load"}
  BY DEF Placed
<1>2. req'[t].kind = "provision" /\ req'[t].srv = s
  BY <1>1, RequestsKept DEF IndInv, RequestInv
<1>3. job'[t].pc \notin {"none", "queued", "p_load"}
  BY <1>1, JobChange DEF JobMoves, MovesPc
<1> QED BY <1>2, <1>3 DEF Placed

LEMMA OneHostStep ==
    ASSUME IndInv, HistoryInv, [Next]_vars PROVE OneHost'
<1> SUFFICES ASSUME crashes' = 0, NEW s \in Servers
             PROVE  /\ \A m, n \in Sites(s)' : m = n
                    /\ Sites(s)' # {} => Placed(s)'
  BY DEF OneHost
<1>1. /\ \A m, n \in Sites(s) : m = n
      /\ Sites(s) # {} => Placed(s)
  BY CrashWriters DEF HistoryInv, OneHost
<1>2. CASE Sites(s)' \subseteq Sites(s)
  <2>1. Sites(s)' # {} => Placed(s)'
    BY <1>1, <1>2, PlacedKept
  <2> QED BY <1>1, <1>2, <2>1
<1>3. ASSUME NEW n \in Sites(s)', n \notin Sites(s)
      PROVE  /\ \A x \in Sites(s)' : x = n
             /\ Placed(s)'
  <2>1. PICK t \in Tasks : /\ ProvisionPlace(t) /\ task[t].srv = s /\ n = job'[t].node
                           /\ \A u \in Tasks : u # t => job'[u] = job[u]
    BY <1>3, SitesStep
  <2>2. /\ job[t].pc = "p_load" /\ job'[t].pc = "p_create" /\ req[t].srv = s
        /\ req[t].kind = "provision" /\ req' = req
    BY <2>1, LoadIs, JobFacts, NoneAssumption DEF ProvisionPlace, JobFits, ProvisionPcs
  <2>3. ~Placed(s)
    BY <2>2 DEF Placed, IndInv, RequestInv
  <2>4. Sites(s) = {}
    BY <1>1, <2>3
  <2>5. ASSUME NEW x \in Sites(s)' PROVE x = n
    <3>1. PICK u \in Tasks : ProvisionPlace(u) /\ task[u].srv = s /\ x = job'[u].node
      BY <2>4, <2>5, SitesStep
    <3>2. req[u].srv = s /\ req[u].kind = "provision"
      BY <3>1, JobFacts, NoneAssumption DEF ProvisionPlace, JobFits, ProvisionPcs
    <3>3. u = t
      BY <2>2, <3>2 DEF IndInv, RequestInv
    <3> QED BY <2>1, <3>1, <3>3
  <2>6. Placed(s)'
    BY <2>2 DEF Placed
  <2> QED BY <2>5, <2>6
<1> QED BY <1>2, <1>3

\* A container that was removed is not made again.
LEMMA GoneStays ==
    ASSUME IndInv, LateAsked, [Next]_vars, NEW c \in Containers, ctr[c].state = "removed"
    PROVE  ctr'[c].state = "removed"
<1>1. ASSUME NEW x \in Containers, NEW s, NEW n, NEW state, Made(x, s, n, state)
      PROVE  ctr'[c].state = "removed"
  BY <1>1, MadeEffect
<1>2. ASSUME NEW x \in Containers, NEW op \in AgentOps \ {"create"}, Operated(x, op)
      PROVE  ctr'[c].state = "removed"
  BY <1>2, OperatedEffect DEF LiveStates
<1> QED BY <1>1, <1>2, CtrStep

-----------------------------------------------------------------------------
(* The theorems *)

LEMMA InitHistoryInv ==
    ASSUME Init PROVE HistoryInv
<1>1. /\ srv = [s \in Servers |-> NoServer]
      /\ task = [t \in Tasks |-> [status |-> "absent", srv |-> None]]
      /\ req = [t \in Tasks |-> [pc |-> "idle", kind |-> "none", srv |-> None]]
      /\ job = [t \in Tasks |-> NoJob]
      /\ ctr = [c \in Containers |-> [state |-> "free", srv |-> None, node |-> None]]
      /\ late = {}
  BY DEF Init
<1>2. /\ \A s \in Servers : srv[s].status = "absent" /\ srv[s].node = None
      /\ \A t \in Tasks : /\ task[t].status = "absent" /\ req[t].kind = "none"
                          /\ job[t].pc = "none" /\ job[t].node = None
      /\ \A c \in Containers : ctr[c].state = "free"
  BY <1>1 DEF NoServer, NoJob
<1>3. GoneForCause /\ RecordHeld
  BY <1>2 DEF GoneForCause, RecordHeld, Provisioned
<1>4. NodesKnown
  BY <1>2 DEF NodesKnown, PlacedOnKnownNode
<1>5. OnePerHost /\ LateAsked /\ Settled
  BY <1>1, <1>2 DEF OnePerHost, Live, LiveStates, LateAsked, Settled
<1>6. OneHost
  BY <1>1, <1>2 DEF OneHost, Sites
<1> QED BY <1>3, <1>4, <1>5, <1>6 DEF HistoryInv

LEMMA NextHistoryInv ==
    ASSUME IndInv, HistoryInv, [Next]_vars PROVE HistoryInv'
BY GoneForCauseStep, RecordHeldStep, NodesKnownStep, OnePerHostStep, LateAskedStep,
   OneHostStep, SettledStep
DEF HistoryInv

\* The rows, the containers and the requests in flight agree about the past of
\* every server, in every state the panel can reach.
THEOREM HistoryInvariance == Spec => []HistoryInv
<1>1. Init => HistoryInv
  BY InitHistoryInv
<1>2. IndInv /\ HistoryInv /\ [Next]_vars => HistoryInv'
  BY NextHistoryInv
<1> QED BY <1>1, <1>2, Invariance, PTL DEF Spec

\* A row never names a node that was deleted or never registered, although the
\* job that writes it chose the node several transactions earlier.
THEOREM KnownNode == Spec => []PlacedOnKnownNode
<1>1. HistoryInv => PlacedOnKnownNode
  BY DEF HistoryInv, NodesKnown
<1> QED BY <1>1, HistoryInvariance, PTL

\* A provision that succeeded stands for a live container on record until a
\* delete of the server is committed, whatever is retried, late or run again.
THEOREM SucceededHasContainer == Spec => []SucceededProvisionHasContainer
<1>1. ASSUME IndInv, HistoryInv PROVE SucceededProvisionHasContainer
  <2> SUFFICES ASSUME NEW t \in Tasks, req[t].kind = "provision",
                      task[t].status = "succeeded", ~DeleteCommitted(req[t].srv)
               PROVE  srv[req[t].srv].cid # None /\ Live(ctr, srv[req[t].srv].cid)
    BY DEF SucceededProvisionHasContainer
  <2>1. req[t].srv \in Servers
    BY <1>1 DEF IndInv, RequestInv, TaskInv
  <2>2. srv[req[t].srv].cid # None
    BY <1>1 DEF HistoryInv, RecordHeld
  <2>3. PICK c \in Containers : c = srv[req[t].srv].cid
    BY <1>1, <2>1, <2>2 DEF IndInv, TypeOK, ServerRows
  <2>4. ctr[c].state # "free" /\ ctr[c].srv = req[t].srv
    BY <1>1, <2>1, <2>2, <2>3 DEF IndInv, RecordedContainerIsOwn
  <2>5. ctr[c].state # "removed"
    BY <1>1, <2>4 DEF HistoryInv, GoneForCause
  <2> QED
    BY <1>1, <2>2, <2>3, <2>4, <2>5
    DEF Live, LiveStates, IndInv, TypeOK, ContainerRows, ContainerStates
<1> QED BY <1>1, Invariance, HistoryInvariance, PTL

\* As long as no worker died, the retries of the call that creates a container
\* have not left a server with two: its job chose one host, and there the name
\* is taken. (A job that runs again may choose another host.)
THEOREM SingleContainer == Spec => [](crashes = 0 => OneLiveContainer)
<1>1. ASSUME IndInv, HistoryInv, crashes = 0 PROVE OneLiveContainer
  <2> SUFFICES ASSUME NEW c \in Containers, NEW d \in Containers,
                      Live(ctr, c), Live(ctr, d), ctr[c].srv = ctr[d].srv
               PROVE  c = d
    BY DEF OneLiveContainer
  <2>1. ctr[c].srv \in Servers /\ ctr[c].state # "free" /\ ctr[d].state # "free"
    BY <1>1 DEF IndInv, TypeOK, ContainerRows, HistoryInv, OnePerHost, Live, LiveStates
  <2>2. ctr[c].node \in Sites(ctr[c].srv) /\ ctr[d].node \in Sites(ctr[c].srv)
    BY <2>1 DEF Sites
  <2>3. ctr[c].node = ctr[d].node
    BY <1>1, <2>1, <2>2 DEF HistoryInv, OneHost
  <2> QED BY <1>1, <2>3 DEF HistoryInv, OnePerHost
<1> QED BY <1>1, Invariance, HistoryInvariance, PTL

\* As long as no worker dies, a task that ended keeps its outcome: its job is
\* over, and no other job marks it.
THEOREM OutcomeStays ==
    ASSUME MaxCrashes = 0 PROVE Spec => OutcomeIsFinal
<1>1. ASSUME IndInv, HistoryInv, [Next]_vars,
             NEW t \in Tasks, task[t].status \in {"succeeded", "failed"}
      PROVE  task'[t].status = task[t].status
  <2>1. crashes = 0
    BY <1>1 DEF IndInv, TypeOK
  <2>2. job[t].pc \in {"ended", "done"}
    BY <1>1, <2>1 DEF HistoryInv, Settled
  <2>3. job'[t].pc = "ended" => ~JobStep(t)
    BY <1>1, <2>2, JobStepMoves DEF JobMoves, MovesPc
  <2> QED BY <1>1, <2>2, <2>3, TaskStep
<1>2. IndInv /\ HistoryInv /\ [Next]_vars =>
        [\A t \in Tasks : task[t].status \in {"succeeded", "failed"} =>
            task'[t].status = task[t].status]_vars
  BY <1>1
<1> QED BY <1>2, Invariance, HistoryInvariance, PTL DEF Spec, OutcomeIsFinal
=============================================================================
