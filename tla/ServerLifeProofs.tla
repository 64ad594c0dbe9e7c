--------------------------- MODULE ServerLifeProofs ---------------------------
(***************************************************************************)
(* Module Lifecycle implements ServerLife, for every value of the          *)
(* constants: every step of the API, the worker and the agents is a step   *)
(* that ServerLife allows for a server, or is invisible there.             *)
(***************************************************************************)
EXTENDS ServerLifeRefinement, LifecycleHistoryProofs

-----------------------------------------------------------------------------
(* What a step shows *)

\* No request is made or committed.
RequestsStay ==
    \A t \in Tasks :
        /\ req'[t].kind = req[t].kind /\ req'[t].srv = req[t].srv
        /\ req'[t].pc = "committed" <=> req[t].pc = "committed"

\* What is seen of server x besides its containers stays as it is.
LEMMA RowSame ==
    ASSUME NEW x \in Servers, srv'[x].status = srv[x].status,
           Provisioned(x)' <=> Provisioned(x)
    PROVE  RowOf(x)' = RowOf(x)
  BY DEF RowOf

LEMMA BoxSame ==
    ASSUME NEW x \in Servers, srv'[x].cid = srv[x].cid, srv'[x].node = srv[x].node
    PROVE  BoxOf(x)' = BoxOf(x)
  BY DEF BoxOf

LEMMA UpSame ==
    ASSUME ctr' = ctr, NEW x
    PROVE  UpOf(x)' <=> UpOf(x)
  BY DEF UpOf

LEMMA AskedSame ==
    ASSUME RequestsStay, NEW x \in Servers
    PROVE  AskedOf(x)' = AskedOf(x) /\ (Provisioned(x)' <=> Provisioned(x))
  BY DEF RequestsStay, AskedOf, Provisioned

\* A step that leaves all four as they are is invisible.
LEMMA Invisible ==
    ASSUME \A x \in Servers :
             /\ RowOf(x)' = RowOf(x) /\ BoxOf(x)' = BoxOf(x)
             /\ UpOf(x)' <=> UpOf(x) 
             /\ AskedOf(x)' = AskedOf(x),
           crashes' = crashes
    PROVE  UNCHANGED Abstract!life
<1>1. [x \in Servers |-> RowOf(x)]' = [x \in Servers |-> RowOf(x)]
  OBVIOUS
<1>2. [x \in Servers |-> BoxOf(x)]' = [x \in Servers |-> BoxOf(x)]
  OBVIOUS
<1>3. {x \in Servers : UpOf(x)}' = {x \in Servers : UpOf(x)}
  OBVIOUS
<1>4. [x \in Servers |-> AskedOf(x)]' = [x \in Servers |-> AskedOf(x)]
  OBVIOUS
<1> QED BY <1>1, <1>2, <1>3, <1>4 DEF Abstract!life

\* Neither the rows, nor the containers, nor the requests change.
LEMMA NothingSeen ==
    ASSUME \A x \in Servers : /\ srv'[x].status = srv[x].status
                              /\ srv'[x].cid = srv[x].cid /\ srv'[x].node = srv[x].node,
           ctr' = ctr, RequestsStay, crashes' = crashes
    PROVE  UNCHANGED Abstract!life
<1>1. ASSUME NEW x \in Servers
      PROVE  /\ RowOf(x)' = RowOf(x) /\ BoxOf(x)' = BoxOf(x)
             /\ UpOf(x)' <=> UpOf(x)
             /\ AskedOf(x)' = AskedOf(x)
  BY RowSame, BoxSame, UpSame, AskedSame
<1> QED BY <1>1, Invisible

\* Only the status of server s changes.
LEMMA RowWritten ==
    ASSUME srv \in [Servers -> ServerRows], NEW s \in Servers,
           NEW new \in ServerStatuses \ {"absent"},
           srv' = [srv EXCEPT ![s].status = new], ctr' = ctr, crashes' = crashes,
           \A x \in Servers : /\ AskedOf(x)' = AskedOf(x)
                              /\ x # s => (Provisioned(x)' <=> Provisioned(x))
    PROVE  /\ [x \in Servers |-> RowOf(x)]' = [[x \in Servers |-> RowOf(x)] EXCEPT ![s] = new]
           /\ [x \in Servers |-> BoxOf(x)]' = [x \in Servers |-> BoxOf(x)]
           /\ {x \in Servers : UpOf(x)}' = {x \in Servers : UpOf(x)}
           /\ [x \in Servers |-> AskedOf(x)]' = [x \in Servers |-> AskedOf(x)]
<1>1. /\ \A x \in Servers : srv'[x].cid = srv[x].cid /\ srv'[x].node = srv[x].node
      /\ \A x \in Servers : x # s => srv'[x].status = srv[x].status
      /\ srv'[s].status = new
  BY DEF ServerRows
<1>2. \A x \in Servers : RowOf(x)' = IF x = s THEN new ELSE RowOf(x)
  <2>1. RowOf(s)' = new
    BY <1>1 DEF RowOf
  <2>2. ASSUME NEW x \in Servers, x # s PROVE RowOf(x)' = RowOf(x)
    BY <1>1, <2>2, RowSame
  <2> QED BY <2>1, <2>2
<1>3. \A x \in Servers : BoxOf(x)' = BoxOf(x)
  BY <1>1, BoxSame
<1>4. \A x \in Servers : UpOf(x)' <=> UpOf(x)
  BY UpSame
<1> QED BY <1>2, <1>3, <1>4

\* A row that is there shows its status.
LEMMA RowShown ==
    ASSUME IndInv, NEW s \in Servers
    PROVE  /\ srv[s].status # "absent" <=> RowOf(s) \notin {"none", "gone"}
           /\ srv[s].status # "absent" => RowOf(s) = srv[s].status
           /\ srv[s].status = "absent" => RowOf(s) = IF Provisioned(s) THEN "gone" ELSE "none"
           /\ srv[s].cid = None <=> BoxOf(s) = "none"
  BY DEF IndInv, TypeOK, ServerRows, ServerStatuses, RowOf, BoxOf

\* A step of one server is a step.
LEMMA LivingIs ==
    ASSUME NEW s \in Servers, Abstract!Living(s) \/ Abstract!Gone(s) \/ UNCHANGED Abstract!life
    PROVE  [Abstract!Next]_(Abstract!life)
  BY DEF Abstract!Next

-----------------------------------------------------------------------------
(* What was asked for *)

LEMMA AskedIs ==
    ASSUME NEW s, NEW kind
    PROVE  kind \in AskedOf(s) <=> Asked(s, kind)
  BY DEF AskedOf, Asked

LEMMA AskedGrows ==
    ASSUME IndInv, [Next]_vars, NEW s \in Servers
    PROVE  AskedOf(s) \subseteq AskedOf(s)'
<1>1. ASSUME NEW t \in Tasks, req[t].srv = s
      PROVE  req'[t].srv = s /\ req'[t].kind = req[t].kind
  <2>1. req[t].pc # "idle"
    BY <1>1, NoneAssumption DEF IndInv, RequestInv
  <2> QED BY <1>1, <2>1, RequestsKept
<1> QED BY <1>1 DEF AskedOf

LEMMA DeleteAsked ==
    ASSUME NEW s, DeleteCommitted(s) PROVE "delete" \in AskedOf(s)
  BY DEF DeleteCommitted, AskedOf

\* What is new among the requests, a handler has just accepted.
LEMMA AskedStep ==
    ASSUME IndInv, [Next]_vars, NEW s \in Servers, NEW kind \in AskedOf(s)',
           kind \notin AskedOf(s)
    PROVE  \/ \E t \in Tasks, size \in Sizes : Create(t, s, size) /\ kind = "provision"
           \/ kind \in LifecycleKinds /\ \E t \in Tasks : RequestAction(t, s, kind)
           \/ \E t \in Tasks : DeleteCheck(t, s) /\ kind = "delete"
<1>1. PICK t \in Tasks : req'[t].srv = s /\ req'[t].kind = kind
  BY DEF AskedOf
<1>2. req[t].srv # s \/ req[t].kind # kind
  BY DEF AskedOf
<1>3. req[t].pc = "idle" /\ req' # req /\ req \in [Tasks -> RequestStates]
  BY <1>1, <1>2, RequestsKept DEF IndInv, TypeOK
<1>4. ASSUME NEW u \in Tasks, NEW x \in Servers, NEW size \in Sizes, Create(u, x, size)
      PROVE  x = s /\ kind = "provision"
  <2>1. req' = [req EXCEPT ![u] = [pc |-> "flushed", kind |-> "provision", srv |-> x]]
    BY <1>4 DEF Create, FlushAndEnqueue
  <2> QED BY <1>1, <1>2, <1>3, <2>1
<1>5. ASSUME NEW u \in Tasks, NEW x \in Servers, NEW k \in LifecycleKinds,
             RequestAction(u, x, k)
      PROVE  x = s /\ kind = k
  <2>1. req' = [req EXCEPT ![u] = [pc |-> "flushed", kind |-> k, srv |-> x]]
    BY <1>5 DEF RequestAction, FlushAndEnqueue
  <2> QED BY <1>1, <1>2, <1>3, <2>1
<1>6. ASSUME NEW u \in Tasks, NEW x \in Servers, DeleteCheck(u, x)
      PROVE  x = s /\ kind = "delete"
  <2>1. req' = [req EXCEPT ![u] = [pc |-> "checked", kind |-> "delete", srv |-> x]]
    BY <1>6 DEF DeleteCheck
  <2> QED BY <1>1, <1>2, <1>3, <2>1
<1>7. ASSUME NEW u \in Tasks, RequestStep(u) PROVE FALSE
  <2>1. u # t
    BY <1>3, <1>7 DEF RequestStep, DeleteFlush, Commit, Rollback
  <2>2. req'[t] = req[t]
    BY <1>3, <1>7, <2>1 DEF RequestStep, DeleteFlush, Commit, Rollback, FlushAndEnqueue
  <2> QED BY <1>1, <1>2, <2>2
<1> QED BY <1>3, <1>4, <1>5, <1>6, <1>7, ReqWriters

-----------------------------------------------------------------------------
(* LifeInv *)

\* Who writes the status of server s, and what.
LEMMA StatusStep ==
    ASSUME IndInv, [Next]_vars, NEW s \in Servers, srv'[s].status # srv[s].status
    PROVE  \/ srv'[s].status \in {"absent", "pending", "provisioning", "deleting"}
           \/ \E t \in Tasks : ProvisionSave(t) /\ job[t].srv = s /\ job'[t].pc = "p_done"
           \/ \E t \in Tasks : ProvisionFailSave(t) /\ job[t].srv = s
           \/ \E t \in Tasks : LifecycleSave(t) /\ job[t].srv = s /\ srv[s].status # "absent"
<1>1. srv \in [Servers -> ServerRows] /\ req \in [Tasks -> RequestStates] /\ srv' # srv
  BY DEF IndInv, TypeOK
<1>2. ASSUME NEW t \in Tasks, NEW x \in Servers, NEW size \in Sizes, Create(t, x, size)
      PROVE  FALSE
  BY <1>1, <1>2 DEF Create, ServerRows
<1>3. ASSUME NEW x \in Servers, PatchCheck(x) \/ \E size \in Sizes : Patch(x, size)
      PROVE  FALSE
  BY <1>1, <1>3 DEF PatchCheck, Patch, ServerRows
<1>4. ASSUME NEW n \in Nodes, NodeDelete(n) PROVE FALSE
  BY <1>1, <1>4 DEF NodeDelete, ServerRows
<1>5. ASSUME NEW t \in Tasks, Commit(t) PROVE srv'[s].status \in {"pending", "deleting"}
  BY <1>1, <1>5 DEF Commit, ServerRows
<1>6. ASSUME NEW t \in Tasks, Rollback(t) \/ DeleteRow(t) PROVE srv'[s].status = "absent"
  BY <1>1, <1>6 DEF Rollback, DeleteRow, ServerRows, NoServer
<1>7. ASSUME NEW t \in Tasks, ProvisionPlace(t) PROVE srv'[s].status = "provisioning"
  BY <1>1, <1>7 DEF ProvisionPlace, ServerRows
<1>8. ASSUME NEW t \in Tasks, ProvisionSave(t) PROVE job[t].srv = s /\ job'[t].pc = "p_done"
  BY <1>1, <1>8, GotoIs DEF ProvisionSave, ServerRows
<1>9. ASSUME NEW t \in Tasks, ProvisionFailSave(t) PROVE job[t].srv = s
  BY <1>1, <1>9 DEF ProvisionFailSave, StatusWritten, ServerRows
<1>10. ASSUME NEW t \in Tasks, LifecycleSave(t)
       PROVE  job[t].srv = s /\ srv[s].status # "absent"
  <2>1. srv[job[t].srv].status # "absent"
        /\ srv' = StatusWritten(job[t].srv, job[t].seen, TargetStatus(req[t].kind))
    BY <1>1, <1>10 DEF LifecycleSave
  <2>2. job[t].srv = s
    BY <1>1, <2>1 DEF StatusWritten, ServerRows
  <2> QED BY <2>1, <2>2
<1> QED
  BY <1>1, <1>2, <1>3, <1>4, <1>5, <1>6, <1>7, <1>8, <1>9, <1>10, SrvWriters

\* A provision job under way was under way before, or its request is new.
LEMMA FirstRunSince ==
    ASSUME IndInv, [Next]_vars, crashes' = 0, NEW t \in Tasks,
           req[t].pc # "idle", req'[t].kind = "provision", job'[t].pc \in FirstPcs
    PROVE  /\ crashes = 0 /\ req[t].kind = "provision" /\ req'[t].srv = req[t].srv
           /\ job[t].pc \in FirstPcs
           /\ \/ job'[t] = job[t]
              \/ JobStep(t) /\ JobMoves(job[t], job'[t])
<1>1. req[t].kind = "provision" /\ req'[t].srv = req[t].srv /\ crashes = 0
  BY RequestsKept, CrashWriters
<1>2. CASE job'[t] = job[t]
  BY <1>1, <1>2
<1>3. CASE job'[t] # job[t]
  <2>1. \A s, size : ~Create(t, s, size)
    BY DEF Create
  <2>2. \A s, kind : ~RequestAction(t, s, kind)
    BY DEF RequestAction
  <2>3. ~DeleteFlush(t)
    BY <1>1 DEF DeleteFlush, IndInv, RequestInv
  <2>4. ~Crash(t)
    BY Crashed
  <2>5. JobStep(t) /\ JobMoves(job[t], job'[t])
    BY <1>3, <2>1, <2>2, <2>3, <2>4, JobWriters, JobStepMoves
  <2>6. job[t].pc \in ProvisionPcs \cup {"queued"}
    BY <1>1, <2>5, JobFacts
    DEF JobMoves, MovesPc, FirstPcs, JobFits, LifecyclePcs, DeletePcs, ProvisionPcs, LifecycleKinds
  <2> QED BY <1>1, <2>5, <2>6 DEF JobMoves, MovesPc, FirstPcs, ProvisionPcs
<1> QED BY <1>2, <1>3

\* The step in which a provision job gets its container.
LEMMA CreatedBy ==
    ASSUME IndInv, NEW t \in Tasks, JobStep(t), job[t].pc = "p_create", job'[t].pc = "p_inspect"
    PROVE  ctr'[job'[t].cid].state = "running"
<1>1. CASE CreateReplies(t)
  <2>1. ~Goto(t, "p_fail")
    BY GotoIs
  <2>2. PICK c \in Free(ctr) :
          /\ ctr' = AfterCreate(ctr, c, job[t].srv, job[t].node, "running")
          /\ Becomes(t, [job[t] EXCEPT !.pc = "p_inspect", !.cid = c, !.att = 0])
    BY <1>1, <2>1 DEF CreateReplies
  <2>3. job'[t].cid = c /\ c \in Containers
    <3>1. job' = [job EXCEPT ![t] = [job[t] EXCEPT !.pc = "p_inspect", !.cid = c, !.att = 0]]
      BY <2>2 DEF Becomes
    <3> QED BY <3>1 DEF IndInv, TypeOK, JobStates, Free
  <2> QED BY <2>2, <2>3 DEF AfterCreate, IndInv, TypeOK
<1>2. CASE ~CreateReplies(t)
  <2>1. ~JobStart(t) /\ ~ArqFinish(t) /\ ~LifecycleStep(t) /\ ~DeleteStep(t)
    BY DEF JobStart, ArqFinish, LifecycleStep, LoadMissing, LifecycleUnprovisioned,
           LifecycleLoad, LifecycleReplies, LifecycleFind, LifecycleSave, JobFail,
           DeleteStep, DeleteNothing, DeleteLoad, DeleteFindNode, DeleteReplies, DeleteRow
  <2>2. ~ProvisionStep(t)
    BY <1>2 DEF ProvisionStep, ProvisionMissing, ProvisionNoCapacity, ProvisionPlace,
         InspectReplies, ProvisionSave, ProvisionDone, ProvisionFailFind, ProvisionFailSave
  <2>3. ~FaultStep(t)
    <3>1. FaultStep(t) => job[t].pc \in CallPcs /\ (AttemptFails(t) \/ Goto(t, FailPc(t)))
      BY DEF FaultStep, ConnectFails, DockerFails, ReadTimesOut, TransportFails
    <3> QED BY <3>1, AttemptIs
  <2> QED BY <2>1, <2>2, <2>3 DEF JobStep
<1> QED BY <1>1, <1>2

LEMMA FirstRunStep ==
    ASSUME IndInv, HistoryInv, LifeInv, [Next]_vars PROVE FirstRun'
<1> SUFFICES ASSUME crashes' = 0, NEW t \in Tasks, req'[t].kind = "provision",
                    job'[t].pc \in FirstPcs
             PROVE  /\ srv'[req'[t].srv].status \in {"absent", "pending", "provisioning", "deleting"}
                    /\ srv'[req'[t].srv].cid = None
                    /\ AskedOf(req[t].srv)' \subseteq {"provision", "delete"}
                    /\ job'[t].pc \in {"p_inspect", "p_save"} /\ "delete" \notin AskedOf(req[t].srv)' =>
                         ctr'[job'[t].cid].state = "running"
  BY DEF FirstRun
<1>1. /\ srv \in [Servers -> ServerRows] /\ req \in [Tasks -> RequestStates]
      /\ job \in [Tasks -> JobStates] /\ ctr \in [Containers -> ContainerRows]
  BY DEF IndInv, TypeOK
<1>2. CASE req[t].pc = "idle"
  <2>1. req' # req /\ job[t].pc = "none" /\ req[t].kind = "none"
    BY <1>2 DEF IndInv, RequestInv
  <2>2. ~JobStep(t) /\ ~Crash(t)
    BY <2>1, JobStepMoves, Crashed DEF JobMoves, MovesPc, Busy, ActivePcs, CallPcs
  <2>3. job'[t] # job[t]
    BY <2>1 DEF FirstPcs
  <2>4. PICK s \in Servers, size \in Sizes : Create(t, s, size)
    <3>1. ~DeleteFlush(t)
      BY <1>2 DEF DeleteFlush
    <3>2. ASSUME NEW s \in Servers, NEW kind \in LifecycleKinds, RequestAction(t, s, kind)
          PROVE  FALSE
      BY <1>1, <3>2 DEF RequestAction, FlushAndEnqueue, LifecycleKinds
    <3> QED BY <2>2, <2>3, <3>1, <3>2, JobWriters
  <2>5. /\ req' = [req EXCEPT ![t] = [pc |-> "flushed", kind |-> "provision", srv |-> s]]
        /\ srv' = [srv EXCEPT ![s].res = size]
        /\ \A u \in Tasks : req[u].srv # s
        /\ Goto(t, "queued")
    BY <2>4 DEF Create, FlushAndEnqueue
  <2>6. req'[t].srv = s
    BY <1>1, <2>5
  <2>7. srv[s].status = "absent" /\ srv[s].cid = None
    BY <2>5 DEF IndInv, RowInv, Provisioned
  <2>8. srv'[s].status = "absent" /\ srv'[s].cid = None
    BY <1>1, <2>5, <2>7 DEF ServerRows
  <2>9. \A u \in Tasks : req'[u].srv = s => req'[u].kind = "provision"
    BY <1>1, <2>5
  <2>10. AskedOf(req[t].srv)' \subseteq {"provision"}
    BY <2>6, <2>9 DEF AskedOf
  <2>11. job'[t].pc = "queued"
    BY <2>5, GotoIs
  <2> QED BY <2>6, <2>8, <2>10, <2>11
<1>3. CASE req[t].pc # "idle"
  <2>1. PICK s \in Servers : s = req[t].srv
    BY <1>3 DEF IndInv, RequestInv
  <2>2. /\ crashes = 0 /\ req[t].kind = "provision" /\ req'[t].srv = s
        /\ job[t].pc \in FirstPcs
        /\ \/ job'[t] = job[t]
           \/ JobStep(t) /\ JobMoves(job[t], job'[t])
    BY <1>3, <2>1, FirstRunSince
  <2>3. /\ srv[s].status \in {"absent", "pending", "provisioning", "deleting"}
        /\ srv[s].cid = None
        /\ AskedOf(s) \subseteq {"provision", "delete"}
        /\ job[t].pc \in {"p_inspect", "p_save"} /\ "delete" \notin AskedOf(s) =>
             ctr[job[t].cid].state = "running"
    BY <2>2, <2>1 DEF LifeInv, FirstRun
  <2>4. AskedOf(req[t].srv)' = AskedOf(s)'
    BY <2>2 DEF AskedOf
  <2>5. ASSUME NEW u \in Tasks, job[u].srv = s, req[u].kind = "provision", job[u].pc # "none"
        PROVE  u = t
    <3>1. req[u].srv = s
      BY <2>1, <2>5, JobFacts, NoneAssumption DEF JobFits
    <3> QED BY <2>2, <2>1, <2>5, <3>1 DEF IndInv, RequestInv
  <2>6. ASSUME NEW u \in Tasks, ProvisionSave(u), job[u].srv = s
        PROVE  u = t /\ job'[t].pc = "p_fail" /\ srv' = srv
    <3>1. u = t
      BY <2>5, <2>6, JobFacts DEF ProvisionSave, JobFits, ProvisionPcs
    <3>2. ~Goto(t, "p_done")
      BY GotoIs DEF FirstPcs
    <3> QED BY <2>6, <3>1, <3>2, GotoIs DEF ProvisionSave
  <2>7. srv'[s].status \in {"absent", "pending", "provisioning", "deleting"}
    <3>1. ASSUME NEW u \in Tasks, ProvisionFailSave(u), job[u].srv = s PROVE FALSE
      <4>1. u = t
        BY <2>5, <3>1, JobFacts DEF ProvisionFailSave, JobFits, ProvisionPcs
      <4> QED BY <3>1, <4>1, GotoIs DEF ProvisionFailSave, FirstPcs
    <3>2. ASSUME NEW u \in Tasks, LifecycleSave(u), job[u].srv = s, srv[s].status # "absent"
          PROVE  FALSE
      BY <2>3, <3>2, JobFacts DEF LifecycleSave, JobFits
    <3> QED BY <2>3, <2>1, <2>6, <3>1, <3>2, StatusStep
  <2>8. srv'[s].cid = None
    BY <2>3, <2>1, <2>6, PlaceStep
  <2>9. AskedOf(s)' \subseteq {"provision", "delete"}
    <3>1. ASSUME NEW u \in Tasks, NEW kind \in LifecycleKinds, RequestAction(u, s, kind)
          PROVE  FALSE
      BY <2>3, <3>1 DEF RequestAction, LifecycleAllowed, LifecycleKinds
    <3> QED BY <2>3, <2>1, <3>1, AskedStep
  <2>10. ASSUME job'[t].pc \in {"p_inspect", "p_save"}, "delete" \notin AskedOf(s)'
         PROVE  ctr'[job'[t].cid].state = "running"
    <3>1. AskedOf(s) \subseteq {"provision"}
      BY <2>3, <2>1, <2>10, AskedGrows
    <3>2. CASE job[t].pc = "p_create"
      BY <2>2, <2>10, <3>2, CreatedBy DEF JobMoves, MovesPc
    <3>3. CASE job[t].pc # "p_create"
      <4>1. job[t].pc \in {"p_inspect", "p_save"} /\ job'[t].cid = job[t].cid
        BY <2>2, <2>10, <3>3 DEF JobMoves, MovesPc
      <4>2. PICK c \in Containers : c = job[t].cid /\ ctr[c].srv = s
        BY <2>1, <4>1, JobFacts DEF JobFits, ContainerPcs, ServerPcs, Owns
      <4>3. ctr[c].state = "running"
        BY <2>3, <3>1, <4>1, <4>2
      <4>4. ctr'[c].state = "running"
        <5>1. ASSUME NEW d \in Containers, NEW x, NEW n, NEW state, Made(d, x, n, state)
              PROVE  ctr'[c].state = "running"
          BY <4>3, <5>1, MadeEffect
        <5>2. ASSUME NEW d \in Containers, NEW op \in AgentOps \ {"create"}, Operated(d, op)
              PROVE  ctr'[c].state = "running"
          <6>1. d = c => op \in AskedOf(s)
            BY <4>2, <5>2, AskedIs DEF Operated
          <6>2. d # c
            BY <3>1, <6>1 DEF AgentOps, LifecycleKinds
          <6> QED BY <4>3, <5>2, <6>2, OperatedEffect
        <5> QED BY <4>3, <5>1, <5>2, CtrStep DEF HistoryInv
      <4> QED BY <4>1, <4>2, <4>4
    <3> QED BY <3>2, <3>3
  <2> QED BY <2>2, <2>4, <2>7, <2>8, <2>9, <2>10
<1> QED BY <1>2, <1>3

LEMMA StopHoldsStep ==
    ASSUME IndInv, HistoryInv, LifeInv, [Next]_vars PROVE StopHolds'
<1> SUFFICES ASSUME crashes' = 0, NEW t \in Tasks, req'[t].kind = "stop",
                    job'[t].pc \in {"l_find", "l_save"},
                    AskedOf(req[t].srv)' \cap {"start", "restart", "delete"} = {}
             PROVE  /\ job'[t].cid \in Containers /\ ctr'[job'[t].cid].srv = req'[t].srv
                    /\ ctr'[job'[t].cid].state \in {"created", "stopped"}
  BY DEF StopHolds
<1>1. crashes = 0 /\ ctr \in [Containers -> ContainerRows]
  BY CrashWriters DEF IndInv, TypeOK
<1>2. job'[t] = job[t] \/ (JobStep(t) /\ JobMoves(job[t], job'[t]))
  BY JobChange
<1>3. job[t].pc \in {"l_call", "l_find", "l_save"} /\ job'[t].cid = job[t].cid
  BY <1>2 DEF JobMoves, MovesPc
<1>4. req[t].pc # "idle" /\ req[t].srv \in Servers
  BY <1>3, JobHasRequest
<1>5. req[t].kind = "stop" /\ req'[t].srv = req[t].srv
  BY <1>4, RequestsKept
<1>6. PICK s \in Servers : s = req[t].srv
  BY <1>4
<1>7. AskedOf(s) \cap {"start", "restart", "delete"} = {}
  <2>1. AskedOf(req[t].srv)' = AskedOf(s)'
    BY <1>5, <1>6 DEF AskedOf
  <2>2. AskedOf(s) \subseteq AskedOf(s)'
    BY AskedGrows
  <2> QED BY <2>1, <2>2
<1>8. CASE job[t].pc = "l_call"
  <2>1. LifecycleReplies(t)
    <3>1. JobStep(t)
      BY <1>2, <1>8
    <3>2. ~JobStart(t) /\ ~ArqFinish(t) /\ ~ProvisionStep(t) /\ ~DeleteStep(t)
      BY <1>8 DEF JobStart, ArqFinish, ProvisionStep, ProvisionMissing, ProvisionNoCapacity,
             ProvisionPlace, CreateReplies, InspectReplies, ProvisionSave, ProvisionDone,
             ProvisionFailFind, ProvisionFailSave,
             DeleteStep, DeleteNothing, DeleteLoad, DeleteFindNode, DeleteReplies, DeleteRow
    <3>3. LifecycleStep(t) => LifecycleReplies(t)
      BY <1>8 DEF LifecycleStep, LoadMissing, LifecycleUnprovisioned, LifecycleLoad,
             LifecycleFind, LifecycleSave, JobFail
    <3>4. ~FaultStep(t)
      <4>1. FaultStep(t) => AttemptFails(t) \/ Goto(t, FailPc(t))
        BY DEF FaultStep, ConnectFails, DockerFails, ReadTimesOut, TransportFails
      <4> QED BY <1>8, <4>1, AttemptIs DEF CallPcs
    <3> QED BY <3>1, <3>2, <3>3, <3>4 DEF JobStep
  <2>2. Live(ctr, job[t].cid)
    <3>1. ~Goto(t, "l_fail")
      BY GotoIs
    <3> QED BY <2>1, <3>1 DEF LifecycleReplies
  <2>3. ctr' = [ctr EXCEPT ![job[t].cid].state = NewState("stop", @)]
    BY <1>5, <2>1, <2>2 DEF LifecycleReplies, Op, AfterOp
  <2>4. job[t].cid \in Containers /\ ctr[job[t].cid].srv = s
    BY <1>8, <1>6, JobFacts DEF JobFits, ContainerPcs, ServerPcs, Owns
  <2>5. NewState("stop", ctr[job[t].cid].state) \in {"created", "stopped"}
    BY <2>2 DEF NewState, Live, LiveStates
  <2>6. ctr'[job[t].cid].state = NewState("stop", ctr[job[t].cid].state)
        /\ ctr'[job[t].cid].srv = s
    BY <1>1, <2>3, <2>4 DEF ContainerRows
  <2> QED BY <1>3, <1>5, <1>6, <2>4, <2>5, <2>6
<1>9. CASE job[t].pc # "l_call"
  <2>1. PICK c \in Containers : /\ c = job[t].cid /\ ctr[c].srv = s
                                /\ ctr[c].state \in {"created", "stopped"}
    BY <1>1, <1>3, <1>5, <1>7, <1>9, <1>6 DEF LifeInv, StopHolds
  <2>2. ctr'[c].srv = s /\ ctr'[c].state \in {"created", "stopped"}
    <3>1. ASSUME NEW d \in Containers, NEW x, NEW n, NEW state, Made(d, x, n, state)
          PROVE  ctr'[c] = ctr[c]
      BY <2>1, <3>1, MadeEffect
    <3>2. ASSUME NEW d \in Containers, NEW op \in AgentOps \ {"create"}, Operated(d, op)
          PROVE  ctr'[c].srv = s /\ ctr'[c].state \in {"created", "stopped"}
      <4>1. CASE d # c
        BY <2>1, <3>2, <4>1, OperatedEffect
      <4>2. CASE d = c
        <5>1. op \in AskedOf(s)
          BY <2>1, <3>2, <4>2, AskedIs DEF Operated
        <5>2. op = "stop"
          BY <1>7, <5>1 DEF AgentOps, LifecycleKinds
        <5>3. ctr'[c].srv = s /\ ctr'[c].state = NewState("stop", ctr[c].state)
          BY <2>1, <3>2, <4>2, <5>2, OperatedEffect
        <5> QED BY <2>1, <5>3 DEF NewState
      <4> QED BY <4>1, <4>2
    <3> QED BY <2>1, <3>1, <3>2, CtrStep DEF HistoryInv
  <2> QED BY <1>3, <1>5, <1>6, <2>1, <2>2
<1> QED BY <1>8, <1>9

-----------------------------------------------------------------------------
(* The steps of the API *)

\* A handler accepts a request.
LEMMA AskRefines ==
    ASSUME IndInv, NEW t \in Tasks, NEW s \in Servers, NEW kind \in Kinds, NEW pc,
           pc # "committed", kind \in Requests, req[t].pc = "idle",
           req' = [req EXCEPT ![t] = [pc |-> pc, kind |-> kind, srv |-> s]],
           \A x \in Servers : /\ srv'[x].status = srv[x].status
                              /\ srv'[x].cid = srv[x].cid /\ srv'[x].node = srv[x].node,
           ctr' = ctr, crashes' = crashes,
           Abstract!Accepts(s, kind)
    PROVE  [Abstract!Next]_(Abstract!life)
<1>1. req \in [Tasks -> RequestStates] /\ req[t].srv = None
  BY DEF IndInv, TypeOK, RequestInv
<1>2. ASSUME NEW x \in Servers
      PROVE  /\ AskedOf(x)' = IF x = s THEN AskedOf(x) \cup {kind} ELSE AskedOf(x)
             /\ Provisioned(x)' <=> Provisioned(x)
  <2>1. \A u \in Tasks : u # t => req'[u] = req[u]
    BY <1>1
  <2>2. req'[t].pc = pc /\ req'[t].kind = kind /\ req'[t].srv = s
    BY <1>1
  <2>3. req[t].srv # x
    BY <1>1, NoneAssumption
  <2>4. Provisioned(x)' <=> Provisioned(x)
    BY <2>1, <2>2, <2>3 DEF Provisioned
  <2>5. AskedOf(x)' = IF x = s THEN AskedOf(x) \cup {kind} ELSE AskedOf(x)
    BY <2>1, <2>2, <2>3 DEF AskedOf
  <2> QED BY <2>4, <2>5
<1>3. [x \in Servers |-> AskedOf(x)]' =
        [[x \in Servers |-> AskedOf(x)] EXCEPT ![s] = @ \cup {kind}]
  BY <1>2
<1>4. /\ [x \in Servers |-> RowOf(x)]' = [x \in Servers |-> RowOf(x)]
      /\ [x \in Servers |-> BoxOf(x)]' = [x \in Servers |-> BoxOf(x)]
      /\ {x \in Servers : UpOf(x)}' = {x \in Servers : UpOf(x)}
  <2>1. \A x \in Servers : RowOf(x)' = RowOf(x) /\ BoxOf(x)' = BoxOf(x)
    BY <1>2, RowSame, BoxSame
  <2>2. \A x \in Servers : UpOf(x)' <=> UpOf(x)
    BY UpSame
  <2> QED BY <2>1, <2>2
<1>5. Abstract!Ask(s, kind)
  BY <1>3, <1>4 DEF Abstract!Ask
<1>6. kind \in Abstract!Kinds
  BY DEF Kinds, LifecycleKinds, Abstract!Kinds, Abstract!LifecycleKinds
<1> QED BY <1>5, <1>6, LivingIs DEF Abstract!Living

LEMMA CreateRefines ==
    ASSUME IndInv, NEW t \in Tasks, NEW s \in Servers, NEW size \in Sizes, Create(t, s, size)
    PROVE  [Abstract!Next]_(Abstract!life)
<1>1. /\ req[t].pc = "idle" /\ "provision" \in Requests /\ \A u \in Tasks : req[u].srv # s
      /\ req' = [req EXCEPT ![t] = [pc |-> "flushed", kind |-> "provision", srv |-> s]]
      /\ srv' = [srv EXCEPT ![s].res = size] /\ ctr' = ctr /\ crashes' = crashes
  BY DEF Create, FlushAndEnqueue
<1>2. AskedOf(s) = {} /\ ~Provisioned(s)
  BY <1>1 DEF AskedOf, Provisioned
<1>3. RowOf(s) = "none"
  BY <1>2 DEF RowOf, IndInv, RowInv
<1>4. PICK kind \in Kinds : kind = "provision"
  BY DEF Kinds
<1>5. Abstract!Accepts(s, kind)
  BY <1>2, <1>3, <1>4 DEF Abstract!Accepts
<1>6. \A x \in Servers : /\ srv'[x].status = srv[x].status
                         /\ srv'[x].cid = srv[x].cid /\ srv'[x].node = srv[x].node
  BY <1>1 DEF IndInv, TypeOK, ServerRows
<1> QED BY <1>1, <1>4, <1>5, <1>6, AskRefines

LEMMA ActionRefines ==
    ASSUME IndInv, NEW t \in Tasks, NEW s \in Servers, NEW kind \in LifecycleKinds,
           RequestAction(t, s, kind)
    PROVE  [Abstract!Next]_(Abstract!life)
<1>1. /\ req[t].pc = "idle" /\ kind \in Requests /\ srv[s].status \in LifecycleAllowed(kind)
      /\ req' = [req EXCEPT ![t] = [pc |-> "flushed", kind |-> kind, srv |-> s]]
      /\ srv' = srv /\ ctr' = ctr /\ crashes' = crashes
  BY DEF RequestAction, FlushAndEnqueue
<1>2. /\ kind = "start" => srv[s].status \in {"stopped", "failed"}
      /\ kind \in {"stop", "restart"} => srv[s].status = "running"
      /\ kind \in {"start", "stop", "restart"}
  BY <1>1 DEF LifecycleAllowed, LifecycleKinds
<1>3. RowOf(s) = srv[s].status
  BY <1>2, RowShown
<1>4. Abstract!Accepts(s, kind)
  BY <1>2, <1>3 DEF Abstract!Accepts
<1> QED BY <1>1, <1>4, AskRefines DEF Kinds

LEMMA DeleteRefines ==
    ASSUME IndInv, NEW t \in Tasks, NEW s \in Servers, DeleteCheck(t, s)
    PROVE  [Abstract!Next]_(Abstract!life)
<1>1. /\ req[t].pc = "idle" /\ "delete" \in Requests /\ srv[s].status \notin {"absent", "deleting"}
      /\ req' = [req EXCEPT ![t] = [pc |-> "checked", kind |-> "delete", srv |-> s]]
      /\ srv' = srv /\ ctr' = ctr /\ crashes' = crashes
  BY DEF DeleteCheck
<1>2. RowOf(s) \notin {"none", "gone", "deleting"}
  BY <1>1, RowShown
<1>3. PICK kind \in Kinds : kind = "delete"
  BY DEF Kinds
<1>4. Abstract!Accepts(s, kind)
  BY <1>2, <1>3 DEF Abstract!Accepts, Abstract!Exists
<1> QED BY <1>1, <1>3, <1>4, AskRefines

\* The commit makes the server, or its deletion, visible.
LEMMA CommitRefines ==
    ASSUME IndInv, NEW t \in Tasks, Commit(t)
    PROVE  [Abstract!Next]_(Abstract!life)
<1>1. /\ req \in [Tasks -> RequestStates] /\ srv \in [Servers -> ServerRows]
      /\ req[t].pc = "flushed" /\ req' = [req EXCEPT ![t].pc = "committed"]
      /\ ctr' = ctr /\ crashes' = crashes
  BY DEF Commit, IndInv, TypeOK
<1>2. PICK s \in Servers : s = req[t].srv
  BY <1>1 DEF IndInv, RequestInv
<1>3. \A u \in Tasks : /\ req'[u].kind = req[u].kind /\ req'[u].srv = req[u].srv
                       /\ u # t => req'[u].pc = req[u].pc
  BY <1>1 DEF RequestStates
<1>4. \A x \in Servers : AskedOf(x)' = AskedOf(x)
  BY <1>3 DEF AskedOf
<1>5. \A x \in Servers : x # s \/ req[t].kind # "provision" => (Provisioned(x)' <=> Provisioned(x))
  BY <1>1, <1>2, <1>3 DEF Provisioned
<1>6. CASE req[t].kind = "provision"
  <2>1. srv' = [srv EXCEPT ![s].status = "pending"]
    BY <1>2, <1>6 DEF Commit
  <2>2. ~Provisioned(s)
    BY <1>1, <1>2, <1>6 DEF Provisioned, IndInv, RequestInv
  <2>3. RowOf(s) = "none"
    BY <2>2 DEF RowOf, IndInv, RowInv
  <2>4. "provision" \in AskedOf(s)
    BY <1>2, <1>6 DEF AskedOf
  <2>5. PICK new \in ServerStatuses \ {"absent"} : new = "pending"
    BY DEF ServerStatuses
  <2>6. Abstract!Appear(s)
    BY <1>1, <1>4, <1>5, <2>1, <2>3, <2>4, <2>5, RowWritten DEF Abstract!Appear
  <2> QED BY <2>6, LivingIs DEF Abstract!Living
<1>7. CASE req[t].kind = "delete"
  <2>1. srv' = [srv EXCEPT ![s].status = "deleting"]
    BY <1>2, <1>7 DEF Commit
  <2>2. srv[s].status # "absent"
    BY <1>1, <1>2, <1>7 DEF IndInv, RowInv
  <2>3. RowOf(s) \notin {"none", "gone"}
    BY <2>2, RowShown
  <2>4. "delete" \in AskedOf(s)
    BY <1>2, <1>7 DEF AskedOf
  <2>5. PICK new \in ServerStatuses \ {"absent"} : new = "deleting"
    BY DEF ServerStatuses
  <2>6. Abstract!Deleting(s)
    BY <1>1, <1>4, <1>5, <2>1, <2>3, <2>4, <2>5, RowWritten DEF Abstract!Deleting, Abstract!Exists
  <2> QED BY <2>6, LivingIs DEF Abstract!Living
<1>8. CASE req[t].kind \notin {"provision", "delete"}
  <2>1. srv' = [srv EXCEPT ![s].status = srv[s].status]
    BY <1>2, <1>8 DEF Commit
  <2>2. \A x \in Servers : /\ srv'[x].status = srv[x].status
                           /\ srv'[x].cid = srv[x].cid /\ srv'[x].node = srv[x].node
    BY <1>1, <2>1 DEF ServerRows
  <2>3. \A x \in Servers : RowOf(x)' = RowOf(x) /\ BoxOf(x)' = BoxOf(x)
    BY <1>5, <1>8, <2>2, RowSame, BoxSame
  <2>4. \A x \in Servers : UpOf(x)' <=> UpOf(x)
    BY <1>1, UpSame
  <2> QED BY <1>1, <1>4, <2>3, <2>4, Invisible
<1> QED BY <1>6, <1>7, <1>8

\* A transaction that is rolled back was never seen.
LEMMA RollbackRefines ==
    ASSUME IndInv, NEW t \in Tasks, Rollback(t) \/ DeleteFlush(t)
    PROVE  UNCHANGED Abstract!life
<1>1. req \in [Tasks -> RequestStates] /\ srv \in [Servers -> ServerRows]
  BY DEF IndInv, TypeOK
<1>2. CASE DeleteFlush(t)
  <2>1. req[t].kind = "delete" /\ req[t].pc = "checked"
    BY <1>2 DEF DeleteFlush, IndInv, RequestInv
  <2>2. \/ req' = [req EXCEPT ![t].pc = "aborted"]
        \/ req' = [req EXCEPT ![t] = [pc |-> "flushed", kind |-> "delete", srv |-> req[t].srv]]
    BY <1>2 DEF DeleteFlush, FlushAndEnqueue
  <2>3. RequestsStay
    BY <1>1, <2>1, <2>2 DEF RequestsStay, RequestStates
  <2> QED BY <1>2, <2>3, NothingSeen DEF DeleteFlush
<1>3. CASE Rollback(t)
  <2>1. RequestsStay
    BY <1>1, <1>3 DEF Rollback, RequestsStay, RequestStates
  <2>2. \A x \in Servers : /\ srv'[x].status = srv[x].status
                           /\ srv'[x].cid = srv[x].cid /\ srv'[x].node = srv[x].node
    <3>1. CASE req[t].kind # "provision"
      BY <1>3, <3>1 DEF Rollback
    <3>2. CASE req[t].kind = "provision"
      <4>1. PICK s \in Servers : s = req[t].srv
        BY <1>3 DEF Rollback, IndInv, RequestInv
      <4>2. ~Provisioned(s)
        BY <1>3, <3>2, <4>1 DEF Rollback, Provisioned, IndInv, RequestInv
      <4>3. srv[s].status = "absent" /\ srv[s].cid = None /\ srv[s].node = None
        BY <4>2 DEF IndInv, RowInv
      <4>4. srv' = [srv EXCEPT ![s] = NoServer]
        BY <1>3, <3>2, <4>1 DEF Rollback
      <4> QED BY <1>1, <4>3, <4>4 DEF NoServer
    <3> QED BY <3>1, <3>2
  <2> QED BY <1>3, <2>1, <2>2, NothingSeen DEF Rollback
<1> QED BY <1>2, <1>3

\* An admin deletes a node.
LEMMA NodeRefines ==
    ASSUME IndInv, NEW n \in Nodes, NodeDelete(n)
    PROVE  [Abstract!Next]_(Abstract!life)
<1> DEFINE S == {x \in Servers : srv[x].node = n /\ srv[x].cid # None}
<1>1. srv \in [Servers -> ServerRows]
  BY DEF IndInv, TypeOK
<1>2. \A x \in Servers :
        /\ srv'[x].status = srv[x].status /\ srv'[x].cid = srv[x].cid
        /\ srv'[x].node = IF srv[x].node = n THEN None ELSE srv[x].node
  BY <1>1 DEF NodeDelete, ServerRows
<1>3. RequestsStay /\ ctr' = ctr /\ crashes' = crashes
  BY DEF NodeDelete, RequestsStay
<1>4. \A x \in Servers : BoxOf(x)' = IF x \in S THEN "lost" ELSE BoxOf(x)
  BY <1>2, NoneAssumption DEF BoxOf
<1>5. \A x \in S : BoxOf(x) = "placed"
  BY NoneAssumption DEF BoxOf
<1>6. /\ [x \in Servers |-> RowOf(x)]' = [x \in Servers |-> RowOf(x)]
      /\ {x \in Servers : UpOf(x)}' = {x \in Servers : UpOf(x)}
      /\ [x \in Servers |-> AskedOf(x)]' = [x \in Servers |-> AskedOf(x)]
  <2>1. \A x \in Servers : RowOf(x)' = RowOf(x) /\ AskedOf(x)' = AskedOf(x)
    BY <1>2, <1>3, RowSame, AskedSame
  <2>2. \A x \in Servers : UpOf(x)' <=> UpOf(x)
    BY <1>3, UpSame
  <2> QED BY <2>1, <2>2
<1>7. PICK T \in SUBSET Servers : T = S
  OBVIOUS
<1> HIDE DEF S
<1>8. [x \in Servers |-> BoxOf(x)]' =
        [x \in Servers |-> IF x \in T THEN "lost" ELSE [y \in Servers |-> BoxOf(y)][x]]
  BY <1>4, <1>7
<1>9. Abstract!Unplace(T)
  BY <1>3, <1>5, <1>6, <1>7, <1>8 DEF Abstract!Unplace
<1> QED BY <1>9 DEF Abstract!Next

-----------------------------------------------------------------------------
(* The steps of the jobs *)

\* The provision job finds its server as ServerLife says.
LEMMA ProvisioningIs ==
    ASSUME IndInv, LifeInv, NEW t \in Tasks, job[t].pc \in FirstPcs,
           req[t].kind = "provision", NEW s \in Servers, req[t].srv = s,
           srv[s].status # "absent"
    PROVE  Abstract!Provisioning(s)
<1>1. "provision" \in AskedOf(s)
  BY DEF AskedOf
<1>2. RowOf(s) = srv[s].status /\ RowOf(s) \notin {"none", "gone"}
  BY RowShown
<1>3. crashes = 0 \/ crashes > 0
  BY DEF IndInv, TypeOK
<1>4. crashes = 0 => srv[s].status \in {"pending", "provisioning", "deleting"}
  BY DEF LifeInv, FirstRun
<1> QED BY <1>1, <1>2, <1>3, <1>4 DEF Abstract!Provisioning, Abstract!Exists

LEMMA PlaceRefines ==
    ASSUME IndInv, LifeInv, NEW t \in Tasks, ProvisionPlace(t)
    PROVE  [Abstract!Next]_(Abstract!life)
<1>1. /\ job[t].pc = "p_load" /\ task[t].srv # None /\ req' = req /\ ctr' = ctr /\ crashes' = crashes
      /\ srv' = [srv EXCEPT ![task[t].srv].status = "provisioning"]
  BY DEF ProvisionPlace
<1>2. PICK s \in Servers : /\ s = task[t].srv /\ req[t].srv = s /\ srv[s].status # "absent"
                           /\ req[t].kind = "provision"
  BY <1>1, JobFacts DEF JobFits, ProvisionPcs
<1>3. Abstract!Provisioning(s)
  BY <1>1, <1>2, ProvisioningIs DEF FirstPcs
<1>4. PICK new \in ServerStatuses \ {"absent"} : new = "provisioning"
  BY DEF ServerStatuses
<1>5. RequestsStay /\ srv \in [Servers -> ServerRows]
  BY <1>1 DEF RequestsStay, IndInv, TypeOK
<1>6. Abstract!Provision(s)
  BY <1>1, <1>2, <1>3, <1>4, <1>5, AskedSame, RowWritten DEF Abstract!Provision
<1> QED BY <1>6, LivingIs DEF Abstract!Living

LEMMA FailRefines ==
    ASSUME IndInv, LifeInv, NEW t \in Tasks, ProvisionFailSave(t)
    PROVE  [Abstract!Next]_(Abstract!life)
<1>1. /\ job[t].pc = "p_failsave" /\ req' = req /\ ctr' = ctr /\ crashes' = crashes
      /\ RequestsStay /\ srv \in [Servers -> ServerRows]
  BY DEF ProvisionFailSave, RequestsStay, IndInv, TypeOK
<1>2. PICK s \in Servers : s = job[t].srv /\ req[t].srv = s /\ req[t].kind = "provision"
  BY <1>1, JobFacts DEF JobFits, ProvisionPcs, ServerPcs
<1>3. CASE srv' = srv
  BY <1>1, <1>3, NothingSeen
<1>4. CASE srv' # srv
  <2>1. srv[s].status # "absent" /\ srv' = [srv EXCEPT ![s].status = "failed"]
    BY <1>2, <1>4 DEF ProvisionFailSave, StatusWritten
  <2>2. Abstract!Provisioning(s)
    BY <1>1, <1>2, <2>1, ProvisioningIs DEF FirstPcs
  <2>3. PICK new \in ServerStatuses \ {"absent"} : new = "failed"
    BY DEF ServerStatuses
  <2>4. Abstract!Provision(s)
    BY <1>1, <2>1, <2>2, <2>3, AskedSame, RowWritten DEF Abstract!Provision
  <2> QED BY <2>4, LivingIs DEF Abstract!Living
<1> QED BY <1>3, <1>4

LEMMA SaveRefines ==
    ASSUME IndInv, LifeInv, NEW t \in Tasks, ProvisionSave(t)
    PROVE  [Abstract!Next]_(Abstract!life)
<1>1. /\ job[t].pc = "p_save" /\ req' = req /\ ctr' = ctr /\ crashes' = crashes
      /\ RequestsStay /\ srv \in [Servers -> ServerRows]
  BY DEF ProvisionSave, RequestsStay, IndInv, TypeOK
<1>2. PICK s \in Servers :
        /\ s = job[t].srv /\ req[t].srv = s /\ req[t].kind = "provision"
        /\ job[t].node # None /\ Owns(job[t].cid, s, job[t].node)
  BY <1>1, JobFacts DEF JobFits, ProvisionPcs, ServerPcs, NodePcs, ContainerPcs
<1>3. CASE srv' = srv
  BY <1>1, <1>3, NothingSeen
<1>4. CASE srv' # srv
  <2>1. /\ srv[s].status # "absent"
        /\ srv' = [srv EXCEPT ![s] = [@ EXCEPT !.status = "running", !.node = job[t].node,
                                              !.cid = job[t].cid]]
    BY <1>2, <1>4 DEF ProvisionSave
  <2>2. job[t].cid \in Containers /\ ctr[job[t].cid].srv = s
    BY <1>2 DEF Owns
  <2>3. /\ srv'[s].status = "running" /\ srv'[s].node = job[t].node /\ srv'[s].cid = job[t].cid
        /\ \A x \in Servers : x # s => srv'[x] = srv[x]
    BY <1>1, <2>1 DEF ServerRows
  <2>4. \A x \in Servers : RowOf(x)' = IF x = s THEN "running" ELSE RowOf(x)
    <3>1. RowOf(s)' = "running"
      BY <2>3 DEF RowOf
    <3>2. ASSUME NEW x \in Servers, x # s PROVE RowOf(x)' = RowOf(x)
      BY <1>1, <2>3, <3>2, RowSame, AskedSame
    <3> QED BY <3>1, <3>2
  <2>5. \A x \in Servers : BoxOf(x)' = IF x = s THEN "placed" ELSE BoxOf(x)
    <3>1. BoxOf(s)' = "placed"
      BY <1>2, <2>2, <2>3, LifecycleAssumption DEF BoxOf
    <3>2. ASSUME NEW x \in Servers, x # s PROVE BoxOf(x)' = BoxOf(x)
      BY <2>3, <3>2, BoxSame
    <3> QED BY <3>1, <3>2
  <2>6. /\ {x \in Servers : UpOf(x)}' = {x \in Servers : UpOf(x)}
        /\ [x \in Servers |-> AskedOf(x)]' = [x \in Servers |-> AskedOf(x)]
    <3>1. \A x \in Servers : AskedOf(x)' = AskedOf(x)
      BY <1>1, AskedSame
    <3>2. \A x \in Servers : UpOf(x)' <=> UpOf(x)
      BY <1>1, UpSame
    <3> QED BY <3>1, <3>2
  <2>7. s \in {x \in Servers : UpOf(x)} \/ Abstract!Remade(s)
    <3>1. crashes = 0 \/ crashes > 0
      BY DEF IndInv, TypeOK
    <3>2. crashes = 0 /\ "delete" \notin AskedOf(s) => ctr[job[t].cid].state = "running"
      BY <1>1, <1>2 DEF LifeInv, FirstRun, FirstPcs
    <3>3. ctr[job[t].cid].state = "running" => UpOf(s)
      BY <2>2 DEF UpOf
    <3> QED BY <3>1, <3>2, <3>3 DEF Abstract!Remade
  <2>8. Abstract!Provisioning(s)
    BY <1>1, <1>2, <2>1, ProvisioningIs DEF FirstPcs
  <2>9. /\ [x \in Servers |-> RowOf(x)]' = [[x \in Servers |-> RowOf(x)] EXCEPT ![s] = "running"]
        /\ [x \in Servers |-> BoxOf(x)]' = [[x \in Servers |-> BoxOf(x)] EXCEPT ![s] = "placed"]
    BY <2>4, <2>5
  <2>10. Abstract!Place(s)
    BY <1>1, <2>6, <2>7, <2>8, <2>9 DEF Abstract!Place
  <2> QED BY <2>10, LivingIs DEF Abstract!Living
<1> QED BY <1>3, <1>4

\* After a stop that the agent confirmed nothing of the server runs, unless
\* ServerLife allows it.
LEMMA StoppedIs ==
    ASSUME IndInv, HistoryInv, LifeInv, NEW t \in Tasks, job[t].pc = "l_save",
           req[t].kind = "stop", NEW s \in Servers, req[t].srv = s, UpOf(s)
    PROVE  Abstract!Restarted(s) \/ Abstract!Remade(s)
<1> SUFFICES ASSUME crashes = 0, AskedOf(s) \cap {"start", "restart", "delete"} = {}
             PROVE  FALSE
  <2>1. crashes = 0 \/ crashes > 0
    BY DEF IndInv, TypeOK
  <2> QED BY <2>1 DEF Abstract!Restarted, Abstract!Remade
<1>1. PICK c \in Containers : ctr[c].srv = s /\ ctr[c].state \in {"created", "stopped"}
  BY DEF LifeInv, StopHolds
<1>2. PICK d \in Containers : ctr[d].srv = s /\ ctr[d].state = "running"
  BY DEF UpOf
<1>3. ctr[c].node \in Sites(s) /\ ctr[d].node \in Sites(s)
  BY <1>1, <1>2 DEF Sites
<1>4. ctr[c].node = ctr[d].node
  BY <1>3 DEF HistoryInv, OneHost
<1>5. c = d
  BY <1>1, <1>2, <1>4 DEF HistoryInv, OnePerHost, Live, LiveStates
<1> QED BY <1>1, <1>2, <1>5

LEMMA SwitchRefines ==
    ASSUME IndInv, HistoryInv, LifeInv, NEW t \in Tasks, LifecycleSave(t)
    PROVE  [Abstract!Next]_(Abstract!life)
<1>1. /\ job[t].pc = "l_save" /\ req' = req /\ ctr' = ctr /\ crashes' = crashes
      /\ RequestsStay /\ srv \in [Servers -> ServerRows]
  BY DEF LifecycleSave, RequestsStay, IndInv, TypeOK
<1>2. PICK s \in Servers :
        /\ s = job[t].srv /\ req[t].srv = s /\ req[t].kind \in LifecycleKinds
        /\ srv[s].status = "absent" \/ srv[s].cid # None
  BY <1>1, JobFacts DEF JobFits, LifecyclePcs, ServerPcs
<1>3. CASE srv' = srv
  BY <1>1, <1>3, NothingSeen
<1>4. CASE srv' # srv
  <2>1. PICK new \in ServerStatuses \ {"absent"} :
          new = IF req[t].kind = "stop" THEN "stopped" ELSE "running"
    BY DEF ServerStatuses
  <2>2. srv[s].status # "absent" /\ srv' = [srv EXCEPT ![s].status = new]
    BY <1>2, <1>4, <2>1 DEF LifecycleSave, StatusWritten, TargetStatus
  <2>3. PICK kind \in LifecycleKinds : kind = req[t].kind
    BY <1>2
  <2>4. kind \in AskedOf(s)
    BY <1>2, <2>3 DEF AskedOf
  <2>5. RowOf(s) \notin {"none", "gone"} /\ BoxOf(s) # "none"
    BY <1>2, <2>2, RowShown
  <2>6. kind = "stop" /\ s \in {x \in Servers : UpOf(x)} =>
          Abstract!Restarted(s) \/ Abstract!Remade(s)
    BY <1>1, <1>2, <2>3, StoppedIs
  <2>7. /\ [x \in Servers |-> RowOf(x)]' =
             [[x \in Servers |-> RowOf(x)] EXCEPT ![s] = IF kind = "stop" THEN "stopped" ELSE "running"]
        /\ [x \in Servers |-> BoxOf(x)]' = [x \in Servers |-> BoxOf(x)]
        /\ {x \in Servers : UpOf(x)}' = {x \in Servers : UpOf(x)}
        /\ [x \in Servers |-> AskedOf(x)]' = [x \in Servers |-> AskedOf(x)]
    BY <1>1, <2>1, <2>2, <2>3, AskedSame, RowWritten
  <2>8. Abstract!Switch(s, kind)
    BY <1>1, <2>4, <2>5, <2>6, <2>7 DEF Abstract!Switch, Abstract!Exists
  <2>9. kind \in Abstract!LifecycleKinds
    BY DEF LifecycleKinds, Abstract!LifecycleKinds
  <2> QED BY <2>8, <2>9, LivingIs DEF Abstract!Living
<1> QED BY <1>3, <1>4

LEMMA RowGone ==
    ASSUME IndInv, NEW t \in Tasks, DeleteRow(t)
    PROVE  [Abstract!Next]_(Abstract!life)
<1>1. /\ job[t].pc = "d_row" /\ req' = req /\ ctr' = ctr /\ crashes' = crashes
      /\ RequestsStay /\ srv \in [Servers -> ServerRows]
  BY DEF DeleteRow, RequestsStay, IndInv, TypeOK
<1>2. PICK s \in Servers : s = job[t].srv /\ req[t].srv = s /\ req[t].kind = "delete"
  BY <1>1, JobFacts DEF JobFits, DeletePcs, ServerPcs
<1>3. srv' = [srv EXCEPT ![s] = NoServer]
  BY <1>2 DEF DeleteRow
<1>4. /\ srv'[s].status = "absent" /\ srv'[s].cid = None /\ srv'[s].node = None
      /\ \A x \in Servers : x # s => srv'[x] = srv[x]
  BY <1>1, <1>3 DEF NoServer
<1>5. CASE srv[s].status = "absent"
  <2>1. srv[s].cid = None /\ srv[s].node = None
    BY <1>5 DEF IndInv, RowInv
  <2> QED BY <1>1, <1>4, <1>5, <2>1, NothingSeen
<1>6. CASE srv[s].status # "absent"
  <2>1. \A x \in Servers : RowOf(x)' = IF x = s THEN "gone" ELSE RowOf(x)
    <3>1. Provisioned(s) /\ (Provisioned(s)' <=> Provisioned(s))
      BY <1>1, <1>6, AskedSame DEF IndInv, RowInv
    <3>2. RowOf(s)' = "gone"
      BY <1>4, <3>1 DEF RowOf
    <3>3. ASSUME NEW x \in Servers, x # s PROVE RowOf(x)' = RowOf(x)
      BY <1>1, <1>4, <3>3, RowSame, AskedSame
    <3> QED BY <3>2, <3>3
  <2>2. \A x \in Servers : BoxOf(x)' = IF x = s THEN "none" ELSE BoxOf(x)
    <3>1. BoxOf(s)' = "none"
      BY <1>4 DEF BoxOf
    <3>2. ASSUME NEW x \in Servers, x # s PROVE BoxOf(x)' = BoxOf(x)
      BY <1>4, <3>2, BoxSame
    <3> QED BY <3>1, <3>2
  <2>3. /\ {x \in Servers : UpOf(x)}' = {x \in Servers : UpOf(x)}
        /\ [x \in Servers |-> AskedOf(x)]' = [x \in Servers |-> AskedOf(x)]
    <3>1. \A x \in Servers : AskedOf(x)' = AskedOf(x)
      BY <1>1, AskedSame
    <3>2. \A x \in Servers : UpOf(x)' <=> UpOf(x)
      BY <1>1, UpSame
    <3> QED BY <3>1, <3>2
  <2>4. /\ [x \in Servers |-> RowOf(x)]' = [[x \in Servers |-> RowOf(x)] EXCEPT ![s] = "gone"]
        /\ [x \in Servers |-> BoxOf(x)]' = [[x \in Servers |-> BoxOf(x)] EXCEPT ![s] = "none"]
    BY <2>1, <2>2
  <2>5. RowOf(s) \notin {"none", "gone"} /\ "delete" \in AskedOf(s)
    BY <1>2, <1>6, RowShown DEF AskedOf
  <2>6. Abstract!Gone(s)
    BY <1>1, <2>3, <2>4, <2>5 DEF Abstract!Gone, Abstract!Exists
  <2> QED BY <2>6, LivingIs
<1> QED BY <1>5, <1>6

-----------------------------------------------------------------------------
(* The steps of the agents *)

\* A step that at most starts or stops containers of server x, as ServerLife
\* allows, is a step of ServerLife or invisible.
LEMMA ContainersSeen ==
    ASSUME NEW x \in Servers, srv' = srv, req' = req, crashes' = crashes,
           \A y \in Servers : y # x => (UpOf(y)' <=> UpOf(y)),
           UpOf(x)' /\ ~UpOf(x) =>
             \/ "provision" \in AskedOf(x) /\ (BoxOf(x) = "none" \/ Abstract!Remade(x))
             \/ Abstract!Restarted(x),
           UpOf(x) /\ ~UpOf(x)' => AskedOf(x) \cap {"stop", "delete"} # {}
    PROVE  [Abstract!Next]_(Abstract!life)
<1>1. RequestsStay
  BY DEF RequestsStay
<1>2. \A y \in Servers : /\ RowOf(y)' = RowOf(y) /\ BoxOf(y)' = BoxOf(y)
                         /\ AskedOf(y)' = AskedOf(y)
  BY <1>1, RowSame, BoxSame, AskedSame
<1>3. /\ [y \in Servers |-> RowOf(y)]' = [y \in Servers |-> RowOf(y)]
      /\ [y \in Servers |-> BoxOf(y)]' = [y \in Servers |-> BoxOf(y)]
      /\ [y \in Servers |-> AskedOf(y)]' = [y \in Servers |-> AskedOf(y)]
  BY <1>2
<1>4. CASE UpOf(x)' <=> UpOf(x)
  BY <1>2, <1>4, Invisible
<1>5. CASE UpOf(x)' /\ ~UpOf(x)
  <2>1. {y \in Servers : UpOf(y)}' = {y \in Servers : UpOf(y)} \cup {x}
    BY <1>5
  <2>2. x \notin {y \in Servers : UpOf(y)}
    BY <1>5
  <2>3. Abstract!Starts(x)
    BY <1>3, <1>5, <2>1, <2>2 DEF Abstract!Starts
  <2> QED BY <2>3, LivingIs DEF Abstract!Living
<1>6. CASE UpOf(x) /\ ~UpOf(x)'
  <2>1. {y \in Servers : UpOf(y)}' = {y \in Servers : UpOf(y)} \ {x}
    BY <1>6
  <2>2. x \in {y \in Servers : UpOf(y)}
    BY <1>6
  <2>3. Abstract!Stops(x)
    BY <1>3, <1>6, <2>1, <2>2 DEF Abstract!Stops
  <2> QED BY <2>3, LivingIs DEF Abstract!Living
<1> QED BY <1>4, <1>5, <1>6

\* A server that has its container on record gets no second one, unless its
\* deletion was asked for or a worker died.
LEMMA RecordedOnce ==
    ASSUME IndInv, HistoryInv, NEW c, NEW s, NEW n, NEW state, Made(c, s, n, state)
    PROVE  BoxOf(s) = "none" \/ Abstract!Remade(s)
<1> SUFFICES ASSUME crashes = 0, "delete" \notin AskedOf(s), srv[s].cid # None PROVE FALSE
  <2>1. crashes = 0 \/ crashes > 0
    BY DEF IndInv, TypeOK
  <2> QED BY <2>1 DEF BoxOf, Abstract!Remade, Made
<1>1. s \in Servers /\ n \in Sites(s) /\ ~NameTaken(ctr, s, n)
  BY DEF Made
<1>2. PICK d \in Containers : d = srv[s].cid /\ ctr[d].state # "free" /\ ctr[d].srv = s
  BY <1>1 DEF IndInv, TypeOK, ServerRows, RecordedContainerIsOwn
<1>3. ~DeleteCommitted(s)
  BY DeleteAsked
<1>4. ctr[d].state # "removed"
  BY <1>2, <1>3 DEF HistoryInv, GoneForCause
<1>5. Live(ctr, d)
  BY <1>2, <1>4 DEF Live, LiveStates, ContainerStates, IndInv, TypeOK, ContainerRows
<1>6. ctr[d].node = n
  <2>1. ctr[d].node \in Sites(s)
    BY <1>2 DEF Sites
  <2> QED BY <1>1, <2>1 DEF HistoryInv, OneHost
<1> QED BY <1>1, <1>2, <1>5, <1>6 DEF NameTaken

LEMMA AgentRefines ==
    ASSUME IndInv, HistoryInv, [Next]_vars, ctr' # ctr
    PROVE  [Abstract!Next]_(Abstract!life)
<1>1. srv' = srv /\ req' = req /\ crashes' = crashes
  BY CtrStep DEF HistoryInv
<1>2. ASSUME NEW c \in Containers, NEW s, NEW n, NEW state, Made(c, s, n, state)
      PROVE  [Abstract!Next]_(Abstract!life)
  <2>1. PICK x \in Servers : x = s
    BY <1>2 DEF Made
  <2>2. /\ ctr[c].state = "free" /\ ctr'[c].srv = x
        /\ \A d \in Containers : d # c => ctr'[d] = ctr[d]
    BY <1>2, <2>1, MadeEffect
  <2>3. \A y \in Servers : y # x => (UpOf(y)' <=> UpOf(y))
    BY <2>2 DEF UpOf
  <2>4. UpOf(x) => UpOf(x)'
    BY <2>2 DEF UpOf
  <2>5. "provision" \in AskedOf(x) /\ (BoxOf(x) = "none" \/ Abstract!Remade(x))
    BY <1>2, <2>1, RecordedOnce, AskedIs DEF Made
  <2> QED BY <1>1, <2>3, <2>4, <2>5, ContainersSeen
<1>3. ASSUME NEW c \in Containers, NEW op \in AgentOps \ {"create"}, Operated(c, op)
      PROVE  [Abstract!Next]_(Abstract!life)
  <2>1. /\ ctr[c].state \in LiveStates /\ ctr'[c].state = NewState(op, ctr[c].state)
        /\ ctr'[c].srv = ctr[c].srv /\ \A d \in Containers : d # c => ctr'[d] = ctr[d]
    BY <1>3, OperatedEffect
  <2>2. PICK x \in Servers : x = ctr[c].srv
    BY <2>1 DEF HistoryInv, OnePerHost, LiveStates, IndInv, TypeOK, ContainerRows
  <2>3. \A y \in Servers : y # x => (UpOf(y)' <=> UpOf(y))
    BY <2>1, <2>2 DEF UpOf
  <2>4. op \in AskedOf(x)
    BY <1>3, <2>2, AskedIs DEF Operated
  <2>5. op \in {"start", "stop", "restart", "delete"}
    BY DEF AgentOps, LifecycleKinds
  <2>6. UpOf(x)' /\ ~UpOf(x) => Abstract!Restarted(x)
    <3>1. op \in {"stop", "delete"} /\ UpOf(x)' => UpOf(x)
      <4>1. op \in {"stop", "delete"} => (ctr'[c].state = "running" => ctr[c].state = "running")
        BY <2>1 DEF NewState
      <4> QED BY <2>1, <2>2, <4>1 DEF UpOf
    <3> QED BY <2>4, <2>5, <3>1 DEF Abstract!Restarted
  <2>7. UpOf(x) /\ ~UpOf(x)' => AskedOf(x) \cap {"stop", "delete"} # {}
    <3>1. op \in {"start", "restart"} => UpOf(x)'
      <4>1. op \in {"start", "restart"} => ctr'[c].state = "running"
        BY <2>1 DEF NewState
      <4> QED BY <2>1, <2>2, <4>1 DEF UpOf
    <3> QED BY <2>4, <2>5, <3>1
  <2> QED BY <1>1, <2>3, <2>6, <2>7, ContainersSeen
<1> QED BY <1>2, <1>3, CtrStep DEF HistoryInv

-----------------------------------------------------------------------------
(* The theorems *)

LEMMA InitLifeInv ==
    ASSUME Init PROVE LifeInv
<1>1. \A t \in Tasks : req[t].kind = "none"
  BY DEF Init
<1> QED BY <1>1 DEF LifeInv, FirstRun, StopHolds

\* As long as no worker died, the provision job finds the row as its request
\* or a delete left it, and a stop that was confirmed stays in force.
THEOREM LifeInvariance == Spec => []LifeInv
<1>1. Init => LifeInv
  BY InitLifeInv
<1>2. IndInv /\ HistoryInv /\ LifeInv /\ [Next]_vars => LifeInv'
  BY FirstRunStep, StopHoldsStep DEF LifeInv
<1> QED BY <1>1, <1>2, Invariance, HistoryInvariance, PTL DEF Spec

LEMMA InitRefines ==
    ASSUME Init PROVE Abstract!Init
<1>1. /\ \A s \in Servers : srv[s].status = "absent" /\ srv[s].cid = None
      /\ \A t \in Tasks : req[t].kind = "none" /\ req[t].srv = None
      /\ \A c \in Containers : ctr[c].state = "free"
      /\ crashes = 0
  BY DEF Init, NoServer
<1>2. ASSUME NEW s \in Servers
      PROVE  RowOf(s) = "none" /\ BoxOf(s) = "none" /\ ~UpOf(s) /\ AskedOf(s) = {}
  BY <1>1, NoneAssumption DEF RowOf, BoxOf, UpOf, AskedOf, Provisioned
<1> QED BY <1>1, <1>2 DEF Abstract!Init

\* A step that changes neither rows, nor containers, nor requests, nor crashes.
LEMMA NothingShown ==
    ASSUME srv' = srv, ctr' = ctr, req' = req, crashes' = crashes
    PROVE  UNCHANGED Abstract!life
  BY NothingSeen DEF RequestsStay

LEMMA NextRefines ==
    ASSUME IndInv, HistoryInv, LifeInv, [Next]_vars
    PROVE  [Abstract!Next]_(Abstract!life)
<1>1. CASE ctr' # ctr
  BY <1>1, AgentRefines
<1>2. ASSUME NEW t \in Tasks, NEW s \in Servers, NEW size \in Sizes, Create(t, s, size)
      PROVE  [Abstract!Next]_(Abstract!life)
  BY <1>2, CreateRefines
<1>3. ASSUME NEW t \in Tasks, NEW s \in Servers, NEW kind \in LifecycleKinds,
             RequestAction(t, s, kind)
      PROVE  [Abstract!Next]_(Abstract!life)
  BY <1>3, ActionRefines
<1>4. ASSUME NEW t \in Tasks, NEW s \in Servers, DeleteCheck(t, s)
      PROVE  [Abstract!Next]_(Abstract!life)
  BY <1>4, DeleteRefines
<1>5. ASSUME NEW s \in Servers, PatchCheck(s) \/ \E size \in Sizes : Patch(s, size)
      PROVE  [Abstract!Next]_(Abstract!life)
  <2>1. \A x \in Servers : /\ srv'[x].status = srv[x].status
                           /\ srv'[x].cid = srv[x].cid /\ srv'[x].node = srv[x].node
    BY <1>5 DEF PatchCheck, Patch, IndInv, TypeOK, ServerRows
  <2> QED BY <1>5, <2>1, NothingSeen DEF PatchCheck, Patch, RequestsStay
<1>6. ASSUME NEW n \in Nodes, NodeDelete(n) PROVE [Abstract!Next]_(Abstract!life)
  BY <1>6, NodeRefines
<1>7. ASSUME NEW t \in Tasks, Commit(t) \/ Rollback(t) \/ DeleteFlush(t)
      PROVE  [Abstract!Next]_(Abstract!life)
  BY <1>7, CommitRefines, RollbackRefines
<1>8. ASSUME NEW t \in Tasks,
             \/ ProvisionPlace(t) \/ ProvisionSave(t) \/ ProvisionFailSave(t)
             \/ LifecycleSave(t) \/ DeleteRow(t)
      PROVE  [Abstract!Next]_(Abstract!life)
  BY <1>8, PlaceRefines, SaveRefines, FailRefines, SwitchRefines, RowGone
<1>9. CASE srv' # srv
  BY <1>2, <1>5, <1>6, <1>7, <1>8, <1>9, SrvWriters
<1>10. CASE req' # req
  BY <1>2, <1>3, <1>4, <1>7, <1>10, ReqWriters DEF RequestStep
<1>11. ASSUME NEW t \in Tasks, Crash(t) PROVE [Abstract!Next]_(Abstract!life)
  <2>1. /\ crashes < MaxCrashes /\ crashes' = crashes + 1
        /\ srv' = srv /\ req' = req /\ ctr' = ctr
    BY <1>11 DEF Crash
  <2>2. RequestsStay
    BY <2>1 DEF RequestsStay
  <2>3. \A x \in Servers : /\ RowOf(x)' = RowOf(x) /\ BoxOf(x)' = BoxOf(x)
                           /\ UpOf(x)' <=> UpOf(x)
                           /\ AskedOf(x)' = AskedOf(x)
    BY <2>1, <2>2, RowSame, BoxSame, UpSame, AskedSame
  <2>4. Abstract!Crash
    BY <2>1, <2>3 DEF Abstract!Crash
  <2> QED BY <2>4 DEF Abstract!Next
<1>12. CASE srv' = srv /\ req' = req /\ ctr' = ctr
  BY <1>11, <1>12, CrashWriters, NothingShown
<1> QED BY <1>1, <1>9, <1>10, <1>12

\* The API, the worker and the agents together keep what ServerLife promises:
\* every status, every start or stop of a container and every row that goes
\* away goes back to a request for that very server, and no deleted row comes
\* back.
THEOREM LifecycleImplementsServerLife == Spec => ImplementsServerLife
<1>1. Init => Abstract!Init
  BY InitRefines
<1>2. IndInv /\ HistoryInv /\ LifeInv /\ [Next]_vars => [Abstract!Next]_(Abstract!life)
  BY NextRefines
<1>3. Spec => Abstract!Init /\ [][Abstract!Next]_(Abstract!life)
  BY <1>1, <1>2, Invariance, HistoryInvariance, LifeInvariance, PTL DEF Spec
<1> QED BY <1>3 DEF ImplementsServerLife, Abstract!Spec
=============================================================================
