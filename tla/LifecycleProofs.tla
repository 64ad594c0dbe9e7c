--------------------------- MODULE LifecycleProofs ---------------------------
(***************************************************************************)
(* Proofs about module Lifecycle, for every value of its constants:        *)
(* IndInv is an inductive invariant, and the safety properties follow.     *)
(***************************************************************************)
EXTENDS LifecycleInv, TLAPS

-----------------------------------------------------------------------------
(* Constants *)

\* Every program counter the actions name is one.
LEMMA PcsAreJobPcs ==
    /\ {"none", "queued", "ended", "done"} \subseteq JobPcs
    /\ ProvisionPcs \subseteq JobPcs
    /\ LifecyclePcs \subseteq JobPcs
    /\ DeletePcs \subseteq JobPcs
  BY DEF JobPcs, ActivePcs, CallPcs, ProvisionPcs, LifecyclePcs, DeletePcs

\* A call starts with attempt 0, which max_retries >= 1 allows.
LEMMA FirstAttempt == 0 \in Attempts
  BY LifecycleAssumption DEF Attempts

LEMMA NoJobType == NoJob \in JobStates
  BY PcsAreJobPcs, FirstAttempt DEF NoJob, JobStates, ServerStatuses

-----------------------------------------------------------------------------
(* Frames: what follows when a step touches one job only *)

\* A container that was made keeps its server and its host.
OwnersKept ==
    \A c \in Containers : ctr[c].state # "free" =>
        ctr'[c].state # "free" /\ ctr'[c].srv = ctr[c].srv /\ ctr'[c].node = ctr[c].node

\* A row that is gone, or has a container on record, stays so.
CidKept(s) ==
    srv[s].status = "absent" \/ srv[s].cid # None =>
        srv'[s].status = "absent" \/ srv'[s].cid # None

CidsKept == \A s \in Servers : CidKept(s)

\* The state r of job t is well typed and so is every other job.
LEMMA BecomesJob ==
    ASSUME job \in [Tasks -> JobStates], NEW t \in Tasks, NEW r \in JobStates, Becomes(t, r)
    PROVE  /\ job' \in [Tasks -> JobStates]
           /\ job'[t] = r
           /\ \A u \in Tasks : u # t => job'[u] = job[u]
  BY DEF Becomes

\* A container that was made for s on n still is.
LEMMA OwnsKept ==
    ASSUME OwnersKept, NEW c, NEW s, NEW n, Owns(c, s, n)
    PROVE  Owns(c, s, n)'
  BY DEF OwnersKept, Owns

\* A job that does not move still fits its request when rows and containers
\* are kept in the sense above.
LEMMA FitsKept ==
    ASSUME IndInv, NEW u \in Tasks, job'[u] = job[u], req'[u] = req[u], OwnersKept,
           job[u].pc \in LifecyclePcs /\ job[u].srv # None => CidKept(job[u].srv)
    PROVE  JobFits(u, job[u])'
<1> DEFINE j == job[u]
<1>1. JobFits(u, j) /\ j \in JobStates
  BY DEF IndInv, TypeOK, JobInv
<1>2. j.pc \in ContainerPcs => Owns(j.cid, j.srv, j.node)'
  BY <1>1, OwnsKept DEF JobFits
<1>3. j.pc \in {"l_call", "l_find", "l_save"} =>
        srv'[j.srv].status = "absent" \/ srv'[j.srv].cid # None
  BY <1>1 DEF JobFits, JobStates, ServerPcs, LifecyclePcs, CidKept
<1> QED
  BY <1>1, <1>2, <1>3 DEF JobFits, Owns

\* A step of job t that leaves the requests alone keeps JobInv and RequestInv
\* when the new state of the job fits.
LEMMA JobFrame ==
    ASSUME IndInv, NEW t \in Tasks, NEW r \in JobStates, Becomes(t, r), req' = req,
           job[t].pc # "none", OwnersKept, CidsKept, JobFits(t, r)'
    PROVE  job' \in [Tasks -> JobStates] /\ JobInv' /\ RequestInv'
<1>1. /\ job' \in [Tasks -> JobStates]
      /\ job'[t] = r
      /\ \A u \in Tasks : u # t => job'[u] = job[u]
  BY BecomesJob DEF IndInv, TypeOK
<1>2. JobInv'
  <2> SUFFICES ASSUME NEW u \in Tasks PROVE JobFits(u, job[u])'
    BY DEF JobInv
  <2>1. CASE u = t
    BY <2>1, <1>1
  <2>2. CASE u # t
    <3>1. job[u].srv # None => CidKept(job[u].srv)
      BY DEF IndInv, TypeOK, JobStates, CidsKept
    <3> QED BY <2>2, <3>1, <1>1, FitsKept
  <2> QED BY <2>1, <2>2
<1>3. RequestInv'
  BY <1>1 DEF IndInv, RequestInv, Provisioned
<1> QED BY <1>1, <1>2, <1>3

\* Rows come and go by nothing but a commit and the delete job: every other
\* step leaves absent rows alone and takes no container off the record.
RowsKept ==
    \A s \in Servers :
        /\ srv[s].status = "absent" => srv'[s] = srv[s]
        /\ srv[s].status # "absent" =>
             srv'[s].status # "absent" /\ (srv[s].cid # None => srv'[s].cid # None)

\* The outcomes a step of a job may write to its task.
Outcomes == {"pending", "running", "succeeded", "failed"}

\* A step of job t preserves the invariant if the new state of the job fits,
\* rows and owners are kept, and success of a delete is written only when the
\* row is gone. All steps of the worker but DeleteRow are of this form.
LEMMA WorkerFrame ==
    ASSUME IndInv, NEW t \in Tasks, NEW r \in JobStates, NEW st \in Outcomes,
           Becomes(t, r), job[t].pc # "none", JobFits(t, r)',
           task' = task \/ task' = Marked(t, st),
           req[t].kind = "delete" /\ st = "succeeded" => srv[req[t].srv].status = "absent",
           RowsKept, srv' \in [Servers -> ServerRows],
           RecordedContainerIsOwn', ActiveHasContainer',
           OwnersKept, ctr' \in [Containers -> ContainerRows],
           late' \subseteq AgentRequests, LateInv',
           req' = req, node' = node, crashes' \in 0 .. MaxCrashes
    PROVE  IndInv'
<1>1. CidsKept
  BY DEF RowsKept, CidsKept, CidKept
<1>2. job' \in [Tasks -> JobStates] /\ JobInv' /\ RequestInv'
  BY <1>1, JobFrame
<1>3. /\ task' \in [Tasks -> TaskRows]
      /\ \A u \in Tasks : /\ task'[u].srv = task[u].srv
                          /\ task'[u].status = "absent" <=> task[u].status = "absent"
                          /\ task'[u].status # task[u].status =>
                                u = t /\ task'[u].status = st
  BY DEF IndInv, TypeOK, TaskRows, TaskStatuses, Marked, Visible, Outcomes
<1>4. TypeOK'
  BY <1>2, <1>3 DEF IndInv, TypeOK
<1>5. RowInv'
  BY DEF IndInv, TypeOK, RowInv, RequestInv, RowsKept, Provisioned
<1>6. TaskInv'
  BY <1>3 DEF IndInv, TypeOK, TaskInv, TaskRows, RowsKept
<1>7. DeleteSucceededMeansGone'
  BY <1>3 DEF IndInv, TypeOK, DeleteSucceededMeansGone, RequestInv, RowsKept, Kinds
<1> QED BY <1>2, <1>4, <1>5, <1>6, <1>7 DEF IndInv

\* A request the agent holds stays right when owners are kept.
LEMMA LateKept ==
    ASSUME IndInv, OwnersKept, req' = req, late' \subseteq late
    PROVE  LateInv' /\ late' \subseteq AgentRequests
  BY OwnsKept DEF IndInv, TypeOK, LateInv

\* A server's record of its container stays right when owners are kept.
LEMMA RecordKept ==
    ASSUME IndInv, OwnersKept, srv' = srv
    PROVE  RecordedContainerIsOwn' /\ ActiveHasContainer'
  BY DEF IndInv, TypeOK, ServerRows, RecordedContainerIsOwn, ActiveHasContainer, OwnersKept

LEMMA NothingMoved ==
    /\ ctr' = ctr => OwnersKept
    /\ srv' = srv => RowsKept
  BY DEF OwnersKept, RowsKept

\* The special case of a step that moves the job and may end the task.
LEMMA JobAndTask ==
    ASSUME IndInv, NEW t \in Tasks, NEW r \in JobStates, NEW st \in Outcomes,
           Becomes(t, r), job[t].pc # "none", JobFits(t, r),
           task' = task \/ task' = Marked(t, st),
           req[t].kind = "delete" /\ st = "succeeded" => srv[req[t].srv].status = "absent",
           UNCHANGED <<srv, req, ctr, late, node, crashes>>
    PROVE  IndInv'
<1>1. OwnersKept /\ RowsKept
  BY NothingMoved
<1>2. JobFits(t, r)'
  BY DEF JobFits, Owns
<1>3. /\ srv' \in [Servers -> ServerRows] /\ ctr' \in [Containers -> ContainerRows]
      /\ crashes' \in 0 .. MaxCrashes
  BY DEF IndInv, TypeOK
<1>4. LateInv' /\ late' \subseteq AgentRequests
  BY <1>1, LateKept
<1>5. RecordedContainerIsOwn' /\ ActiveHasContainer'
  BY <1>1, RecordKept
<1> QED BY <1>1, <1>2, <1>3, <1>4, <1>5, WorkerFrame

\* The special case of a step that moves the job only.
LEMMA JobOnly ==
    ASSUME IndInv, NEW t \in Tasks, NEW r \in JobStates, Becomes(t, r),
           job[t].pc # "none", JobFits(t, r),
           UNCHANGED <<srv, task, req, ctr, late, node, crashes>>
    PROVE  IndInv'
  BY JobAndTask, "running" \in Outcomes DEF Outcomes

-----------------------------------------------------------------------------
(* The steps of the worker *)

\* What the invariant says of one job, ready for use.
LEMMA JobFacts ==
    ASSUME IndInv, NEW t \in Tasks
    PROVE  /\ job[t] \in JobStates
           /\ JobFits(t, job[t])
           /\ task[t] \in TaskRows
           /\ req[t] \in RequestStates
           /\ job[t].pc # "none" => req[t].srv \in Servers /\ req[t].kind \in Kinds
           /\ job[t].srv # None => job[t].srv \in Servers
           /\ task[t].srv # None =>
                /\ task[t].srv \in Servers /\ task[t].srv = req[t].srv
                /\ req[t].pc = "committed" /\ srv[task[t].srv].status # "absent"
           /\ task[t].status # "absent" => req[t].pc = "committed"
  BY DEF IndInv, TypeOK, JobInv, RequestInv, TaskInv, JobStates, TaskRows

\* Moving the program counter keeps the type of a job.
LEMMA PcType ==
    ASSUME NEW j \in JobStates, NEW pc \in JobPcs
    PROVE  /\ [j EXCEPT !.pc = pc] \in JobStates
           /\ [j EXCEPT !.pc = pc].pc = pc
           /\ [j EXCEPT !.pc = pc].srv = j.srv
           /\ [j EXCEPT !.pc = pc].node = j.node
           /\ [j EXCEPT !.pc = pc].cid = j.cid
           /\ [j EXCEPT !.pc = pc].seen = j.seen
  BY DEF JobStates

\* Starting a job.
LEMMA JobStartStep ==
    ASSUME IndInv, NEW t \in Tasks, JobStart(t) PROVE IndInv'
<1> USE DEF ProvisionPcs, LifecyclePcs, DeletePcs, ServerPcs, NodePcs, ContainerPcs
<1>1. CASE req[t].kind = "provision"
  <2>1. PICK r \in JobStates : r = [job[t] EXCEPT !.pc = "p_load"]
    BY JobFacts, PcType, PcsAreJobPcs
  <2>2. JobFits(t, r)
    BY <1>1, <2>1, JobFacts, PcType, PcsAreJobPcs DEF JobFits
  <2> QED
    BY <1>1, <2>1, <2>2, JobAndTask DEF JobStart, Goto, Outcomes
<1>2. CASE req[t].kind # "provision"
  <2>1. PICK r \in JobStates :
          r = [job[t] EXCEPT !.pc = IF req[t].kind = "delete" THEN "d_load" ELSE "l_load",
                             !.seen = task[t].status, !.srv = task[t].srv]
    BY JobFacts, PcsAreJobPcs DEF JobStates, TaskRows
  <2>2. JobFits(t, r)
    BY <1>2, <2>1, JobFacts DEF JobFits, JobStart, Kinds, JobStates
  <2> QED
    BY <1>2, <2>1, <2>2, JobOnly DEF JobStart
<1> QED BY <1>1, <1>2

\* ARQ records the end of a job.
LEMMA ArqFinishStep ==
    ASSUME IndInv, NEW t \in Tasks, ArqFinish(t) PROVE IndInv'
<1>1. PICK r \in JobStates : r = [NoJob EXCEPT !.pc = "done"]
  BY PcType, NoJobType, PcsAreJobPcs
<1>2. JobFits(t, r)
  BY <1>1, JobFacts, PcType, NoJobType, PcsAreJobPcs
  DEF JobFits, NoJob, ProvisionPcs, LifecyclePcs, DeletePcs, ServerPcs, NodePcs, ContainerPcs
<1> QED
  BY <1>1, <1>2, JobOnly DEF ArqFinish

\* A job may end or fail wherever it is.
LEMMA LooseEnd ==
    ASSUME IndInv, NEW t \in Tasks, NEW pc,
           \/ pc = "ended"
           \/ pc = "p_fail" /\ job[t].pc \in ProvisionPcs
           \/ pc = "l_fail" /\ job[t].pc \in LifecyclePcs
           \/ pc = "d_fail" /\ job[t].pc \in DeletePcs
    PROVE  \E r \in JobStates : r = [job[t] EXCEPT !.pc = pc] /\ JobFits(t, r)
<1>1. pc \in JobPcs
  BY PcsAreJobPcs DEF ProvisionPcs, LifecyclePcs, DeletePcs
<1>2. [job[t] EXCEPT !.pc = pc] \in JobStates
  BY <1>1, PcType, JobFacts
<1>3. PICK r \in JobStates : r = [job[t] EXCEPT !.pc = pc]
  BY <1>2
<1>4. JobFits(t, r)
  BY <1>1, <1>3, JobFacts, PcType
  DEF JobFits, ProvisionPcs, LifecyclePcs, DeletePcs, ServerPcs, NodePcs, ContainerPcs
<1> QED BY <1>3, <1>4

LEMMA ProvisionMissingStep ==
    ASSUME IndInv, NEW t \in Tasks, ProvisionMissing(t) PROVE IndInv'
<1>1. PICK r \in JobStates : r = [job[t] EXCEPT !.pc = "p_fail"] /\ JobFits(t, r)
  BY LooseEnd DEF ProvisionMissing, ProvisionPcs
<1> QED
  BY <1>1, JobOnly DEF ProvisionMissing, Goto

LEMMA ProvisionNoCapacityStep ==
    ASSUME IndInv, NEW t \in Tasks, ProvisionNoCapacity(t) PROVE IndInv'
<1>1. PICK r \in JobStates : r = [job[t] EXCEPT !.pc = "p_fail", !.srv = task[t].srv]
  BY JobFacts, PcsAreJobPcs DEF JobStates, TaskRows, ProvisionPcs
<1>2. JobFits(t, r)
  BY <1>1, JobFacts
  DEF JobFits, JobStates, ProvisionNoCapacity,
      ProvisionPcs, LifecyclePcs, DeletePcs, ServerPcs, NodePcs, ContainerPcs
<1> QED
  BY <1>1, <1>2, JobOnly DEF ProvisionNoCapacity

\* A step that writes a status to a row that is there.
LEMMA StatusKept ==
    ASSUME IndInv, NEW s \in Servers, srv[s].status # "absent",
           NEW st \in ServerStatuses \ {"absent"}, srv' = [srv EXCEPT ![s].status = st],
           st \in {"running", "stopped"} => srv[s].cid # None, ctr' = ctr
    PROVE  /\ RowsKept /\ srv' \in [Servers -> ServerRows]
           /\ RecordedContainerIsOwn' /\ ActiveHasContainer'
<1>1. RowsKept /\ srv' \in [Servers -> ServerRows]
  BY DEF IndInv, TypeOK, ServerRows, RowsKept
<1>2. ActiveHasContainer'
  BY DEF IndInv, TypeOK, ServerRows, ActiveHasContainer
<1>3. RecordedContainerIsOwn'
  BY DEF IndInv, TypeOK, ServerRows, RecordedContainerIsOwn
<1> QED BY <1>1, <1>2, <1>3

LEMMA ProvisionPlaceStep ==
    ASSUME IndInv, NEW t \in Tasks, ProvisionPlace(t) PROVE IndInv'
<1> DEFINE s == task[t].srv
<1>1. PICK n \in Nodes :
        Becomes(t, [job[t] EXCEPT !.pc = "p_create", !.srv = s, !.node = n, !.att = 0])
  BY DEF ProvisionPlace, Candidates, LeastLoaded
<1>2. /\ s \in Servers /\ srv[s].status # "absent"
      /\ srv' = [srv EXCEPT ![s].status = "provisioning"]
      /\ UNCHANGED <<task, req, ctr, late, node, crashes>>
      /\ job[t].pc = "p_load" /\ s = req[t].srv /\ req[t].pc = "committed"
  BY JobFacts DEF ProvisionPlace
<1>3. PICK r \in JobStates :
        r = [job[t] EXCEPT !.pc = "p_create", !.srv = s, !.node = n, !.att = 0]
  BY <1>2, JobFacts, PcsAreJobPcs, FirstAttempt DEF JobStates, ProvisionPcs
<1>4. JobFits(t, r)'
  BY <1>2, <1>3, JobFacts, NoneAssumption
  DEF JobFits, JobStates,
      ProvisionPcs, LifecyclePcs, DeletePcs, ServerPcs, NodePcs, ContainerPcs
<1>5. OwnersKept
  BY <1>2, NothingMoved
<1>6. LateInv' /\ late' \subseteq AgentRequests
  BY <1>2, <1>5, LateKept
<1>7. /\ RowsKept /\ srv' \in [Servers -> ServerRows]
      /\ RecordedContainerIsOwn' /\ ActiveHasContainer'
  <2>1. "provisioning" \in ServerStatuses \ {"absent"} /\ ctr' = ctr
    BY <1>2 DEF ServerStatuses
  <2> HIDE DEF s
  <2> QED BY <1>2, <2>1, StatusKept
<1>8. ctr' \in [Containers -> ContainerRows] /\ crashes' \in 0 .. MaxCrashes
  BY <1>2 DEF IndInv, TypeOK
<1>9. "running" \in Outcomes
  BY DEF Outcomes
<1> HIDE DEF s
<1> QED
  BY <1>1, <1>2, <1>3, <1>4, <1>5, <1>6, <1>7, <1>8, <1>9, WorkerFrame

LEMMA ProvisionSaveStep ==
    ASSUME IndInv, NEW t \in Tasks, ProvisionSave(t) PROVE IndInv'
<1> DEFINE s == job[t].srv
<1>1. /\ job[t].pc = "p_save" /\ s \in Servers /\ job[t].node \in Nodes
      /\ Owns(job[t].cid, s, job[t].node) /\ s = req[t].srv /\ req[t].pc = "committed"
      /\ UNCHANGED <<task, req, ctr, late, node, crashes>>
  BY JobFacts DEF ProvisionSave, JobFits, JobStates, ServerPcs, NodePcs, ContainerPcs
<1>2. CASE srv[s].status = "absent" \/ node[job[t].node].status = "deleted"
  <2>1. PICK r \in JobStates : r = [job[t] EXCEPT !.pc = "p_fail"] /\ JobFits(t, r)
    BY <1>1, LooseEnd DEF ProvisionPcs
  <2> QED
    BY <1>2, <2>1, JobOnly DEF ProvisionSave, Goto
<1>3. CASE ~(srv[s].status = "absent" \/ node[job[t].node].status = "deleted")
  <2>1. /\ Becomes(t, [job[t] EXCEPT !.pc = "p_done"])
        /\ srv' = [srv EXCEPT ![s] = [@ EXCEPT !.status = "running",
                            !.node = job[t].node, !.cid = job[t].cid]]
    BY <1>3 DEF ProvisionSave, Goto
  <2>2. PICK r \in JobStates : r = [job[t] EXCEPT !.pc = "p_done"]
    BY JobFacts, PcType, PcsAreJobPcs DEF ProvisionPcs
  <2>3. JobFits(t, r)'
    BY <1>1, <2>2, JobFacts, PcType, PcsAreJobPcs
    DEF JobFits, ProvisionPcs, LifecyclePcs, DeletePcs, ServerPcs, NodePcs, ContainerPcs
  <2>4. job[t].cid \in Containers /\ job[t].cid # None
    BY <1>1, LifecycleAssumption DEF Owns
  <2>5. RowsKept /\ srv' \in [Servers -> ServerRows]
    BY <1>1, <1>3, <2>1, <2>4 DEF IndInv, TypeOK, ServerRows, ServerStatuses, RowsKept
  <2>6. RecordedContainerIsOwn'
    BY <1>1, <2>1, <2>4 DEF IndInv, TypeOK, ServerRows, RecordedContainerIsOwn, Owns
  <2>7. ActiveHasContainer'
    BY <1>1, <2>1, <2>4 DEF IndInv, TypeOK, ServerRows, ActiveHasContainer
  <2>8. OwnersKept
    BY <1>1, NothingMoved
  <2>9. LateInv' /\ late' \subseteq AgentRequests
    BY <1>1, <2>8, LateKept
  <2>10. /\ ctr' \in [Containers -> ContainerRows] /\ crashes' \in 0 .. MaxCrashes
         /\ "running" \in Outcomes
    BY <1>1 DEF IndInv, TypeOK, Outcomes
  <2> HIDE DEF s
  <2> QED
    BY <1>1, <2>1, <2>2, <2>3, <2>5, <2>6, <2>7, <2>8, <2>9, <2>10, WorkerFrame
<1> QED BY <1>2, <1>3

LEMMA ProvisionDoneStep ==
    ASSUME IndInv, NEW t \in Tasks, ProvisionDone(t) PROVE IndInv'
<1>1. PICK r \in JobStates : r = [job[t] EXCEPT !.pc = "ended"] /\ JobFits(t, r)
  BY LooseEnd
<1>2. req[t].kind # "delete"
  BY JobFacts DEF ProvisionDone, JobFits, ProvisionPcs
<1> QED
  BY <1>1, <1>2, JobAndTask DEF ProvisionDone, Goto, Outcomes

LEMMA ProvisionFailFindStep ==
    ASSUME IndInv, NEW t \in Tasks, ProvisionFailFind(t) PROVE IndInv'
<1> DEFINE s == job[t].srv
<1>1. CASE s # None /\ srv[s].status # "absent"
  <2>1. PICK r \in JobStates : r = [job[t] EXCEPT !.pc = "p_failsave", !.seen = srv[s].status]
    BY <1>1, JobFacts, PcsAreJobPcs DEF IndInv, TypeOK, JobStates, ServerRows, ProvisionPcs
  <2>2. JobFits(t, r)
    BY <1>1, <2>1, JobFacts
    DEF JobFits, JobStates, ProvisionFailFind,
        ProvisionPcs, LifecyclePcs, DeletePcs, ServerPcs, NodePcs, ContainerPcs
  <2> QED
    BY <1>1, <2>1, <2>2, JobOnly DEF ProvisionFailFind
<1>2. CASE ~(s # None /\ srv[s].status # "absent")
  <2>1. PICK r \in JobStates : r = [job[t] EXCEPT !.pc = "ended"] /\ JobFits(t, r)
    BY LooseEnd
  <2> QED
    BY <1>2, <2>1, JobAndTask DEF ProvisionFailFind, Goto, Outcomes
<1> QED BY <1>1, <1>2

\* StatusWritten leaves the rows alone or writes to a row that is there.
LEMMA WrittenKept ==
    ASSUME IndInv, NEW s \in Servers, srv[s].status # "absent", NEW seen,
           NEW st \in ServerStatuses \ {"absent"}, srv' = StatusWritten(s, seen, st),
           st \in {"running", "stopped"} => srv[s].cid # None, ctr' = ctr
    PROVE  /\ RowsKept /\ srv' \in [Servers -> ServerRows]
           /\ RecordedContainerIsOwn' /\ ActiveHasContainer'
<1>1. CASE seen = st
  BY <1>1, NothingMoved, RecordKept DEF StatusWritten, IndInv, TypeOK
<1>2. CASE seen # st
  BY <1>2, StatusKept DEF StatusWritten
<1> QED BY <1>1, <1>2

\* A job that ends by writing a status to a row that is there.
LEMMA EndWithStatus ==
    ASSUME IndInv, NEW t \in Tasks, Goto(t, "ended"), job[t].pc # "none",
           NEW s \in Servers, srv[s].status # "absent", NEW seen,
           NEW st \in ServerStatuses \ {"absent"}, srv' = StatusWritten(s, seen, st),
           st \in {"running", "stopped"} => srv[s].cid # None,
           NEW outcome \in Outcomes, task' = Marked(t, outcome), req[t].kind # "delete",
           UNCHANGED <<req, ctr, late, node, crashes>>
    PROVE  IndInv'
<1>1. PICK r \in JobStates : r = [job[t] EXCEPT !.pc = "ended"] /\ JobFits(t, r)
  BY LooseEnd
<1>2. r.pc = "ended" /\ r.srv = job[t].srv
  BY <1>1, JobFacts, PcType, PcsAreJobPcs
<1>3. JobFits(t, r)'
  BY <1>1, <1>2
  DEF JobFits, ProvisionPcs, LifecyclePcs, DeletePcs, ServerPcs, NodePcs, ContainerPcs
<1>4. OwnersKept
  BY NothingMoved
<1>5. LateInv' /\ late' \subseteq AgentRequests
  BY <1>4, LateKept
<1>6. /\ RowsKept /\ srv' \in [Servers -> ServerRows]
      /\ RecordedContainerIsOwn' /\ ActiveHasContainer'
  BY WrittenKept
<1>7. ctr' \in [Containers -> ContainerRows] /\ crashes' \in 0 .. MaxCrashes
  BY DEF IndInv, TypeOK
<1> QED
  BY <1>1, <1>3, <1>4, <1>5, <1>6, <1>7, WorkerFrame DEF Goto

LEMMA ProvisionFailSaveStep ==
    ASSUME IndInv, NEW t \in Tasks, ProvisionFailSave(t) PROVE IndInv'
<1>1. /\ job[t].pc = "p_failsave" /\ job[t].srv \in Servers /\ Goto(t, "ended")
      /\ req[t].kind # "delete" /\ UNCHANGED <<req, ctr, late, node, crashes>>
  BY JobFacts DEF ProvisionFailSave, JobFits, ServerPcs, ProvisionPcs
<1>2. CASE srv[job[t].srv].status = "absent"
  <2>1. PICK r \in JobStates : r = [job[t] EXCEPT !.pc = "ended"] /\ JobFits(t, r)
    BY LooseEnd
  <2> QED
    BY <1>1, <1>2, <2>1, JobOnly DEF ProvisionFailSave, Goto
<1>3. CASE srv[job[t].srv].status # "absent"
  <2>1. /\ srv' = StatusWritten(job[t].srv, job[t].seen, "failed")
        /\ task' = Marked(t, "failed")
    BY <1>3 DEF ProvisionFailSave
  <2>2. /\ "failed" \in ServerStatuses \ {"absent"}
        /\ "failed" \notin {"running", "stopped"} /\ "failed" \in Outcomes
    BY DEF ServerStatuses, Outcomes
  <2> QED
    BY <1>1, <1>3, <2>1, <2>2, EndWithStatus
<1> QED BY <1>2, <1>3

LEMMA LoadMissingStep ==
    ASSUME IndInv, NEW t \in Tasks, LoadMissing(t) PROVE IndInv'
<1>1. PICK r \in JobStates : r = [job[t] EXCEPT !.pc = "ended"] /\ JobFits(t, r)
  BY LooseEnd
<1>2. task' = task \/ task' = Marked(t, "running")
  BY DEF LoadMissing
<1> QED
  BY <1>1, <1>2, JobAndTask DEF LoadMissing, Goto, Outcomes

LEMMA LifecycleUnprovisionedStep ==
    ASSUME IndInv, NEW t \in Tasks, LifecycleUnprovisioned(t) PROVE IndInv'
<1>1. PICK r \in JobStates : r = [job[t] EXCEPT !.pc = "ended"] /\ JobFits(t, r)
  BY LooseEnd
<1> QED
  BY <1>1, JobAndTask DEF LifecycleUnprovisioned, Goto, Outcomes

\* The server that a job loads is the one of its request, which is committed,
\* and the task is marked running or left as it is.
LEMMA Loaded ==
    ASSUME IndInv, NEW t \in Tasks, job[t].pc \in {"l_load", "d_load"},
           LoadedTask(t).srv # None
    PROVE  /\ LoadedTask(t).srv \in Servers /\ LoadedTask(t).srv = req[t].srv
           /\ req[t].pc = "committed"
           /\ LET new == [task EXCEPT ![t].status = LoadedTask(t).status] IN
              new = task \/ new = Marked(t, "running")
<1>1. CASE job[t].seen # "absent"
  <2>1. LoadedTask(t) = [status |-> "running", srv |-> job[t].srv]
    BY <1>1 DEF LoadedTask
  <2>2. job[t].srv # None
    BY <2>1
  <2>3. req[t].pc = "committed" /\ job[t].srv = req[t].srv /\ job[t].srv \in Servers
    BY <2>2, JobFacts DEF JobFits
  <2>4. Visible(t)
    BY <2>3 DEF Visible, IndInv, TaskInv
  <2> QED BY <2>1, <2>3, <2>4 DEF Marked
<1>2. CASE job[t].seen = "absent"
  <2>1. LoadedTask(t) = task[t]
    BY <1>2 DEF LoadedTask
  <2>2. [task EXCEPT ![t].status = task[t].status] = task
    BY JobFacts DEF IndInv, TypeOK, TaskRows
  <2> QED BY <2>1, <2>2, JobFacts
<1> QED BY <1>1, <1>2

LEMMA LifecycleLoadStep ==
    ASSUME IndInv, NEW t \in Tasks, LifecycleLoad(t) PROVE IndInv'
<1> DEFINE s == LoadedTask(t).srv
<1>1. /\ job[t].pc = "l_load" /\ s # None /\ srv[s].cid # None /\ srv[s].node # None
      /\ Becomes(t, [job[t] EXCEPT !.pc = "l_call", !.srv = s, !.att = 0,
                             !.node = srv[s].node, !.cid = srv[s].cid])
      /\ task' = [task EXCEPT ![t].status = LoadedTask(t).status]
      /\ UNCHANGED <<srv, req, ctr, late, node, crashes>>
  BY DEF LifecycleLoad
<1>2. /\ s \in Servers /\ s = req[t].srv /\ req[t].pc = "committed"
      /\ task' = task \/ task' = Marked(t, "running")
  BY <1>1, Loaded
<1>3. srv[s] \in ServerRows /\ Owns(srv[s].cid, s, srv[s].node)
  BY <1>1, <1>2 DEF IndInv, TypeOK, ServerRows, RecordedContainerIsOwn, Owns
<1>4. PICK r \in JobStates :
        r = [job[t] EXCEPT !.pc = "l_call", !.srv = s, !.att = 0,
                           !.node = srv[s].node, !.cid = srv[s].cid]
  BY <1>2, <1>3, JobFacts, PcsAreJobPcs, FirstAttempt DEF JobStates, ServerRows, LifecyclePcs
<1>5. JobFits(t, r)
  BY <1>1, <1>2, <1>3, <1>4, JobFacts
  DEF JobFits, JobStates, ProvisionPcs, LifecyclePcs, DeletePcs, ServerPcs, NodePcs, ContainerPcs
<1>6. req[t].kind # "delete"
  BY <1>1, JobFacts DEF JobFits, LifecyclePcs, LifecycleKinds
<1> HIDE DEF s
<1> QED
  BY <1>1, <1>2, <1>4, <1>5, <1>6, JobAndTask, "running" \in Outcomes DEF Outcomes

LEMMA LifecycleFindStep ==
    ASSUME IndInv, NEW t \in Tasks, LifecycleFind(t) PROVE IndInv'
<1>1. job[t].pc = "l_find" /\ job[t].srv \in Servers
  BY JobFacts DEF LifecycleFind, JobFits, ServerPcs
<1>2. PICK r \in JobStates :
        r = [job[t] EXCEPT !.pc = "l_save", !.seen = srv[job[t].srv].status]
  BY <1>1, JobFacts, PcsAreJobPcs DEF IndInv, TypeOK, JobStates, ServerRows, LifecyclePcs
<1>3. JobFits(t, r)
  BY <1>1, <1>2, JobFacts
  DEF JobFits, JobStates, ProvisionPcs, LifecyclePcs, DeletePcs, ServerPcs, NodePcs, ContainerPcs
<1> QED
  BY <1>1, <1>2, <1>3, JobOnly DEF LifecycleFind

LEMMA LifecycleSaveStep ==
    ASSUME IndInv, NEW t \in Tasks, LifecycleSave(t) PROVE IndInv'
<1> DEFINE s == job[t].srv
<1>1. /\ job[t].pc = "l_save" /\ s \in Servers /\ req[t].kind # "delete"
      /\ srv[s].status = "absent" \/ srv[s].cid # None
      /\ UNCHANGED <<req, ctr, late, node, crashes>>
  BY JobFacts DEF LifecycleSave, JobFits, ServerPcs, LifecyclePcs, LifecycleKinds
<1>2. CASE job[t].seen = "absent"
  <2>1. PICK r \in JobStates : r = [job[t] EXCEPT !.pc = "ended"] /\ JobFits(t, r)
    BY LooseEnd
  <2> QED
    BY <1>1, <1>2, <2>1, JobAndTask DEF LifecycleSave, Goto, Outcomes
<1>3. CASE job[t].seen # "absent" /\ srv[s].status # "absent"
  <2>1. /\ srv' = StatusWritten(s, job[t].seen, TargetStatus(req[t].kind))
        /\ task' = Marked(t, "succeeded") /\ Goto(t, "ended")
    BY <1>3 DEF LifecycleSave
  <2>2. /\ TargetStatus(req[t].kind) \in ServerStatuses \ {"absent"}
        /\ "succeeded" \in Outcomes
    BY DEF TargetStatus, ServerStatuses, Outcomes
  <2> HIDE DEF s
  <2> QED BY <1>1, <1>3, <2>1, <2>2, EndWithStatus
<1>4. CASE job[t].seen # "absent" /\ srv[s].status = "absent"
  <2>1. PICK r \in JobStates : r = [job[t] EXCEPT !.pc = "l_fail"] /\ JobFits(t, r)
    BY <1>1, LooseEnd DEF LifecyclePcs
  <2> QED
    BY <1>1, <1>4, <2>1, JobOnly DEF LifecycleSave, Goto
<1> QED BY <1>2, <1>3, <1>4

LEMMA JobFailStep ==
    ASSUME IndInv, NEW t \in Tasks, JobFail(t) PROVE IndInv'
<1>1. PICK r \in JobStates : r = [job[t] EXCEPT !.pc = "ended"] /\ JobFits(t, r)
  BY LooseEnd
<1> QED
  BY <1>1, JobAndTask DEF JobFail, Goto, Outcomes

LEMMA DeleteNothingStep ==
    ASSUME IndInv, NEW t \in Tasks, DeleteNothing(t) PROVE IndInv'
<1>1. PICK r \in JobStates : r = [job[t] EXCEPT !.pc = "ended"] /\ JobFits(t, r)
  BY LooseEnd
<1>2. srv[req[t].srv].status = "absent"
  BY Loaded DEF DeleteNothing
<1> QED
  BY <1>1, <1>2, JobAndTask DEF DeleteNothing, Goto, Outcomes

LEMMA DeleteLoadStep ==
    ASSUME IndInv, NEW t \in Tasks, DeleteLoad(t) PROVE IndInv'
<1> DEFINE s == LoadedTask(t).srv
           placed == srv[s].cid # None /\ srv[s].node # None
           new == [job[t] EXCEPT !.pc = IF placed THEN "d_node" ELSE "d_row",
                             !.srv = s, !.node = srv[s].node,
                             !.cid = IF placed THEN srv[s].cid ELSE None]
<1>1. /\ job[t].pc = "d_load" /\ s # None /\ Becomes(t, new)
      /\ task' = [task EXCEPT ![t].status = LoadedTask(t).status]
      /\ UNCHANGED <<srv, req, ctr, late, node, crashes>>
  BY DEF DeleteLoad
<1>2. /\ s \in Servers /\ s = req[t].srv /\ req[t].pc = "committed"
      /\ task' = task \/ task' = Marked(t, "running")
  BY <1>1, Loaded
<1>3. srv[s] \in ServerRows /\ (placed => Owns(srv[s].cid, s, srv[s].node))
  BY <1>1, <1>2 DEF IndInv, TypeOK, ServerRows, RecordedContainerIsOwn, Owns
<1>4. PICK r \in JobStates : r = new
  BY <1>2, <1>3, JobFacts, PcsAreJobPcs DEF JobStates, ServerRows, DeletePcs
<1>5. JobFits(t, r)
  BY <1>1, <1>2, <1>3, <1>4, JobFacts
  DEF JobFits, JobStates, ProvisionPcs, LifecyclePcs, DeletePcs, ServerPcs, NodePcs, ContainerPcs
<1> HIDE DEF new, s, placed
<1> QED
  BY <1>1, <1>2, <1>4, <1>5, JobAndTask, "running" \in Outcomes DEF Outcomes

LEMMA DeleteFindNodeStep ==
    ASSUME IndInv, NEW t \in Tasks, DeleteFindNode(t) PROVE IndInv'
<1>1. CASE node[job[t].node].status = "deleted"
  <2>1. PICK r \in JobStates : r = [job[t] EXCEPT !.pc = "d_row", !.cid = None]
    BY JobFacts, PcsAreJobPcs DEF JobStates, DeletePcs
  <2>2. JobFits(t, r)
    BY <2>1, JobFacts
    DEF DeleteFindNode, JobFits, JobStates,
        ProvisionPcs, LifecyclePcs, DeletePcs, ServerPcs, NodePcs, ContainerPcs
  <2> QED BY <1>1, <2>1, <2>2, JobOnly DEF DeleteFindNode
<1>2. CASE node[job[t].node].status # "deleted"
  <2>1. PICK r \in JobStates : r = [job[t] EXCEPT !.pc = "d_call", !.att = 0]
    BY JobFacts, PcsAreJobPcs, FirstAttempt DEF JobStates, DeletePcs
  <2>2. JobFits(t, r)
    BY <2>1, JobFacts
    DEF DeleteFindNode, JobFits, JobStates,
        ProvisionPcs, LifecyclePcs, DeletePcs, ServerPcs, NodePcs, ContainerPcs
  <2> QED BY <1>2, <2>1, <2>2, JobOnly DEF DeleteFindNode
<1> QED BY <1>1, <1>2

\* The one step that takes a row away: no open transaction refers to it, and
\* every task lets go of it.
LEMMA DeleteRowStep ==
    ASSUME IndInv, NEW t \in Tasks, DeleteRow(t) PROVE IndInv'
<1> DEFINE s == job[t].srv
<1>1. /\ job[t].pc = "d_row" /\ s \in Servers /\ s = req[t].srv /\ req[t].pc = "committed"
      /\ ~KeyLocked(s) /\ srv' = [srv EXCEPT ![s] = NoServer] /\ Goto(t, "ended")
      /\ task' = [u \in Tasks |->
                     [status |-> IF u = t THEN "succeeded" ELSE task[u].status,
                      srv |-> IF task[u].srv = s THEN None ELSE task[u].srv]]
      /\ UNCHANGED <<req, ctr, late, node, crashes>>
  BY JobFacts DEF DeleteRow, JobFits, ServerPcs
<1>2. PICK r \in JobStates : r = [job[t] EXCEPT !.pc = "ended"] /\ JobFits(t, r)
  BY LooseEnd
<1>3. JobFits(t, r)'
  BY <1>1, <1>2, JobFacts, PcType, PcsAreJobPcs
  DEF JobFits, ProvisionPcs, LifecyclePcs, DeletePcs, ServerPcs, NodePcs, ContainerPcs
<1>4. srv' \in [Servers -> ServerRows] /\ CidsKept
  BY <1>1 DEF IndInv, TypeOK, NoServer, ServerRows, ServerStatuses, CidsKept, CidKept
<1>5. OwnersKept
  BY <1>1, NothingMoved
<1>6. job' \in [Tasks -> JobStates] /\ JobInv' /\ RequestInv'
  BY <1>1, <1>2, <1>3, <1>4, <1>5, JobFrame DEF Goto
<1>7. task' \in [Tasks -> TaskRows]
  BY <1>1 DEF IndInv, TypeOK, TaskRows, TaskStatuses
<1>8. TypeOK'
  BY <1>1, <1>4, <1>6, <1>7 DEF IndInv, TypeOK
<1>9. RowInv'
  BY <1>1 DEF IndInv, TypeOK, RowInv, RequestInv, Provisioned, NoServer, KeyLocked, Flushed,
              ServerRows
<1>10. TaskInv'
  BY <1>1 DEF IndInv, TypeOK, TaskInv, TaskRows, NoServer, ServerRows
<1>11. LateInv'
  BY <1>1, <1>5, LateKept
<1>12. RecordedContainerIsOwn' /\ ActiveHasContainer'
  BY <1>1 DEF IndInv, TypeOK, RecordedContainerIsOwn, ActiveHasContainer, NoServer
<1>13. DeleteSucceededMeansGone'
  BY <1>1 DEF IndInv, TypeOK, DeleteSucceededMeansGone, NoServer, TaskInv, TaskRows, RequestInv
<1> QED
  BY <1>6, <1>8, <1>9, <1>10, <1>11, <1>12, <1>13 DEF IndInv

-----------------------------------------------------------------------------
(* The agents *)

\* A new container takes an id that was free.
LEMMA CreateKeepsOwners ==
    ASSUME IndInv, NEW c \in Free(ctr), NEW s \in Servers, NEW n \in Nodes,
           NEW state \in {"created", "running"}, ctr' = AfterCreate(ctr, c, s, n, state)
    PROVE  OwnersKept /\ ctr' \in [Containers -> ContainerRows] /\ Owns(c, s, n)'
  BY DEF IndInv, TypeOK, Free, AfterCreate, ContainerRows, ContainerStates, OwnersKept, Owns

\* An operation changes the state of a container and nothing else.
LEMMA OpKeepsOwners ==
    ASSUME IndInv, NEW c \in Containers, NEW op \in AgentOps \ {"create"},
           ctr' = AfterOp(ctr, c, op)
    PROVE  OwnersKept /\ ctr' \in [Containers -> ContainerRows]
<1>1. Live(ctr, c) => NewState(op, ctr[c].state) \in ContainerStates \ {"free"}
  BY DEF Live, LiveStates, NewState, ContainerStates, AgentOps, LifecycleKinds
<1> QED
  BY <1>1 DEF IndInv, TypeOK, AfterOp, ContainerRows, OwnersKept

\* A step that moves a job and a container.
LEMMA JobAndContainer ==
    ASSUME IndInv, NEW t \in Tasks, NEW r \in JobStates, Becomes(t, r),
           job[t].pc # "none", JobFits(t, r)', OwnersKept,
           ctr' \in [Containers -> ContainerRows],
           UNCHANGED <<srv, task, req, late, node, crashes>>
    PROVE  IndInv'
<1>1. RowsKept
  BY NothingMoved
<1>2. LateInv' /\ late' \subseteq AgentRequests
  BY LateKept
<1>3. RecordedContainerIsOwn' /\ ActiveHasContainer'
  BY RecordKept
<1>4. /\ srv' \in [Servers -> ServerRows] /\ crashes' \in 0 .. MaxCrashes
      /\ "running" \in Outcomes
  BY DEF IndInv, TypeOK, Outcomes
<1> QED BY <1>1, <1>2, <1>3, <1>4, WorkerFrame

\* A state that fits a request still does when containers change state.
LEMMA FitsMoved ==
    ASSUME NEW t \in Tasks, NEW r \in JobStates, JobFits(t, r), OwnersKept,
           srv' = srv, req' = req
    PROVE  JobFits(t, r)'
  BY OwnsKept DEF JobFits

LEMMA CreateRepliesStep ==
    ASSUME IndInv, NEW t \in Tasks, CreateReplies(t) PROVE IndInv'
<1>1. PICK s \in Servers, n \in Nodes : s = job[t].srv /\ n = job[t].node
  BY JobFacts DEF CreateReplies, JobFits, JobStates, ServerPcs, NodePcs
<1>2. /\ job[t].pc = "p_create" /\ s = req[t].srv
      /\ req[t].pc = "committed" /\ req[t].kind = "provision"
      /\ UNCHANGED <<srv, task, req, late, node, crashes>>
  BY <1>1, JobFacts, NoneAssumption DEF CreateReplies, JobFits, ProvisionPcs
<1>3. CASE NameTaken(ctr, s, n)
  <2>1. PICK r \in JobStates : r = [job[t] EXCEPT !.pc = "p_fail"] /\ JobFits(t, r)
    BY <1>2, LooseEnd DEF ProvisionPcs
  <2> QED
    BY <1>1, <1>2, <1>3, <2>1, JobOnly DEF CreateReplies, Goto
<1>4. CASE ~NameTaken(ctr, s, n)
  <2>1. PICK c \in Free(ctr) :
          /\ ctr' = AfterCreate(ctr, c, s, n, "running")
          /\ Becomes(t, [job[t] EXCEPT !.pc = "p_inspect", !.cid = c, !.att = 0])
    BY <1>1, <1>4 DEF CreateReplies
  <2>2. "running" \in {"created", "running"}
    OBVIOUS
  <2>3. OwnersKept /\ ctr' \in [Containers -> ContainerRows] /\ Owns(c, s, n)'
    BY <2>1, <2>2, CreateKeepsOwners
  <2>4. PICK r \in JobStates : r = [job[t] EXCEPT !.pc = "p_inspect", !.cid = c, !.att = 0]
    BY JobFacts, PcsAreJobPcs, FirstAttempt DEF JobStates, ProvisionPcs, Free
  <2>5. r.pc = "p_inspect" /\ r.cid = c /\ r.srv = s /\ r.node = n
    BY <1>1, <2>4, JobFacts DEF JobStates
  <2>6. JobFits(t, r)'
    BY <1>2, <2>3, <2>5, NoneAssumption
    DEF JobFits, ProvisionPcs, LifecyclePcs, DeletePcs, ServerPcs, NodePcs, ContainerPcs
  <2> QED
    BY <1>2, <2>1, <2>3, <2>4, <2>6, JobAndContainer
<1> QED BY <1>3, <1>4

LEMMA InspectRepliesStep ==
    ASSUME IndInv, NEW t \in Tasks, InspectReplies(t) PROVE IndInv'
<1>1. CASE Live(ctr, job[t].cid)
  <2>1. PICK r \in JobStates : r = [job[t] EXCEPT !.pc = "p_save"]
    BY JobFacts, PcType, PcsAreJobPcs DEF ProvisionPcs
  <2>2. /\ r.pc = "p_save" /\ r.srv = job[t].srv /\ r.node = job[t].node
        /\ r.cid = job[t].cid
    BY <2>1, JobFacts, PcType, PcsAreJobPcs DEF ProvisionPcs
  <2>3. JobFits(t, r)
    BY <2>2, JobFacts
    DEF InspectReplies, JobFits,
        ProvisionPcs, LifecyclePcs, DeletePcs, ServerPcs, NodePcs, ContainerPcs
  <2> QED BY <1>1, <2>1, <2>3, JobOnly DEF InspectReplies, Goto
<1>2. CASE ~Live(ctr, job[t].cid)
  <2>1. PICK r \in JobStates : r = [job[t] EXCEPT !.pc = "p_fail"] /\ JobFits(t, r)
    BY LooseEnd DEF InspectReplies, ProvisionPcs
  <2> QED BY <1>2, <2>1, JobOnly DEF InspectReplies, Goto
<1> QED BY <1>1, <1>2

LEMMA LifecycleRepliesStep ==
    ASSUME IndInv, NEW t \in Tasks, LifecycleReplies(t) PROVE IndInv'
<1>1. /\ job[t].pc = "l_call" /\ job[t].cid \in Containers
      /\ req[t].kind \in AgentOps \ {"create"} /\ Op(t) = req[t].kind
      /\ ctr' = AfterOp(ctr, job[t].cid, Op(t))
      /\ UNCHANGED <<srv, task, req, late, node, crashes>>
  BY JobFacts
  DEF LifecycleReplies, JobFits, ContainerPcs, Owns, LifecyclePcs, LifecycleKinds, AgentOps, Op
<1>2. OwnersKept /\ ctr' \in [Containers -> ContainerRows]
  BY <1>1, OpKeepsOwners
<1>3. PICK r \in JobStates :
        /\ r = [job[t] EXCEPT !.pc = IF Live(ctr, job[t].cid) THEN "l_find" ELSE "l_fail"]
        /\ JobFits(t, r)
  <2> DEFINE pc == IF Live(ctr, job[t].cid) THEN "l_find" ELSE "l_fail"
  <2>1. pc \in JobPcs
    BY PcsAreJobPcs DEF LifecyclePcs
  <2>2. PICK r \in JobStates : r = [job[t] EXCEPT !.pc = pc]
    BY <2>1, JobFacts, PcType
  <2>3. r.pc = pc /\ r.srv = job[t].srv
    BY <2>1, <2>2, JobFacts, PcType
  <2>4. JobFits(t, r)
    BY <1>1, <2>3, JobFacts
    DEF JobFits, ProvisionPcs, LifecyclePcs, DeletePcs, ServerPcs, NodePcs, ContainerPcs
  <2> QED BY <2>2, <2>4
<1>4. JobFits(t, r)'
  BY <1>1, <1>2, <1>3, FitsMoved
<1> QED
  BY <1>1, <1>2, <1>3, <1>4, JobAndContainer DEF LifecycleReplies, Goto

LEMMA DeleteRepliesStep ==
    ASSUME IndInv, NEW t \in Tasks, DeleteReplies(t) PROVE IndInv'
<1>1. /\ job[t].pc = "d_call" /\ job[t].cid \in Containers /\ "delete" \in AgentOps \ {"create"}
      /\ UNCHANGED <<srv, task, req, late, node, crashes>>
  BY JobFacts DEF DeleteReplies, JobFits, ContainerPcs, Owns, AgentOps
<1>2. OwnersKept /\ ctr' \in [Containers -> ContainerRows]
  BY <1>1, OpKeepsOwners DEF DeleteReplies
<1>3. PICK r \in JobStates : r = [job[t] EXCEPT !.pc = "d_row"]
  BY JobFacts, PcType, PcsAreJobPcs DEF DeletePcs
<1>4. JobFits(t, r)
  BY <1>1, <1>3, JobFacts, PcType, PcsAreJobPcs
  DEF JobFits, ProvisionPcs, LifecyclePcs, DeletePcs, ServerPcs, NodePcs, ContainerPcs
<1>5. JobFits(t, r)'
  BY <1>1, <1>2, <1>4, FitsMoved
<1> QED
  BY <1>1, <1>2, <1>3, <1>5, JobAndContainer DEF DeleteReplies, Goto

-----------------------------------------------------------------------------
(* Failures *)

\* A failed attempt leaves the call where it is or ends it; what the job
\* holds stays the same.
LEMMA AttemptFits ==
    ASSUME IndInv, NEW t \in Tasks, job[t].pc \in CallPcs,
           AttemptFails(t) \/ Goto(t, FailPc(t))
    PROVE  \E r \in JobStates : Becomes(t, r) /\ JobFits(t, r)
<1>1. CASE Goto(t, FailPc(t))
  <2>1. PICK r \in JobStates : r = [job[t] EXCEPT !.pc = FailPc(t)] /\ JobFits(t, r)
    BY LooseEnd DEF FailPc, CallPcs, ProvisionPcs, LifecyclePcs, DeletePcs
  <2> QED BY <1>1, <2>1 DEF Goto
<1>2. CASE ~Goto(t, FailPc(t))
  <2>1. /\ job[t].att + 1 < MaxRetries
        /\ Becomes(t, [job[t] EXCEPT !.att = @ + 1])
    BY <1>2 DEF AttemptFails
  <2>2. job[t].att + 1 \in Attempts
    BY <2>1, JobFacts, LifecycleAssumption DEF JobStates, Attempts
  <2>3. PICK r \in JobStates : r = [job[t] EXCEPT !.att = @ + 1]
    BY <2>2, JobFacts DEF JobStates
  <2>4. /\ r.pc = job[t].pc /\ r.srv = job[t].srv /\ r.node = job[t].node
        /\ r.cid = job[t].cid /\ r.seen = job[t].seen
    BY <2>3, JobFacts DEF JobStates
  <2>5. JobFits(t, r)
    BY <2>4, JobFacts DEF JobFits
  <2> QED BY <2>1, <2>3, <2>5
<1> QED BY <1>1, <1>2

\* A request that never reached the agent.
LEMMA ConnectFailsStep ==
    ASSUME IndInv, NEW t \in Tasks, ConnectFails(t) PROVE IndInv'
<1>1. PICK r \in JobStates : Becomes(t, r) /\ JobFits(t, r)
  BY AttemptFits DEF ConnectFails
<1> QED BY <1>1, JobOnly DEF ConnectFails, CallPcs

\* What an agent request says is what the job of its task holds.
LEMMA SentIsOwned ==
    ASSUME IndInv, NEW t \in Tasks, job[t].pc \in CallPcs \ {"p_inspect"}
    PROVE  /\ Sent(t) \in AgentRequests
           /\ Sent(t).op # "create" => Owns(Sent(t).cid, Sent(t).srv, Sent(t).node)
           /\ Sent(t).op = "delete" =>
                /\ req[Sent(t).task].kind = "delete" /\ req[Sent(t).task].pc = "committed"
                /\ req[Sent(t).task].srv = Sent(t).srv
<1>1. /\ job[t] \in JobStates /\ crashes \in 0 .. MaxCrashes
      /\ job[t].srv \in Servers /\ job[t].node \in Nodes
      /\ job[t].srv = req[t].srv /\ req[t].pc = "committed"
  BY JobFacts DEF IndInv, TypeOK, JobFits, JobStates, CallPcs, ServerPcs, NodePcs
<1>2. /\ Op(t) \in AgentOps
      /\ Op(t) = "create" <=> job[t].pc = "p_create"
      /\ Op(t) = "delete" <=> job[t].pc = "d_call"
  BY JobFacts DEF Op, CallPcs, JobFits, LifecyclePcs, AgentOps, LifecycleKinds
<1>3. Op(t) # "create" => Owns(job[t].cid, job[t].srv, job[t].node)
  BY <1>2, JobFacts DEF JobFits, CallPcs, ContainerPcs
<1>4. Op(t) = "delete" => req[t].kind = "delete"
  BY <1>2, JobFacts DEF JobFits, DeletePcs
<1>5. Sent(t) \in AgentRequests
  BY <1>1, <1>2 DEF Sent, AgentRequests, JobStates
<1>6. /\ Sent(t).task = t /\ Sent(t).op = Op(t) /\ Sent(t).srv = job[t].srv
      /\ Sent(t).node = job[t].node /\ Sent(t).cid = job[t].cid
  BY DEF Sent
<1> QED BY <1>1, <1>3, <1>4, <1>5, <1>6

\* Whatever an agent does for a request, containers keep their owners.
LEMMA ExecutedKeepsOwners ==
    ASSUME IndInv, NEW r \in AgentRequests, r.op # "create" => r.cid \in Containers,
           Executed(r)
    PROVE  OwnersKept /\ ctr' \in [Containers -> ContainerRows]
<1>1. r.srv \in Servers /\ r.node \in Nodes /\ r.op \in AgentOps
  BY DEF AgentRequests
<1>2. CASE r.op = "create"
  <2>1. PICK c \in Free(ctr), state \in {"created", "running"} :
          ctr' = AfterCreate(ctr, c, r.srv, r.node, state)
    BY <1>2 DEF Executed
  <2> QED BY <1>1, <2>1, CreateKeepsOwners
<1>3. CASE r.op # "create"
  BY <1>1, <1>3, OpKeepsOwners DEF Executed
<1> QED BY <1>2, <1>3

\* Docker failed, before or after it acted.
LEMMA DockerFailsStep ==
    ASSUME IndInv, NEW t \in Tasks, DockerFails(t) PROVE IndInv'
<1>1. PICK r \in JobStates : Becomes(t, r) /\ JobFits(t, r)
  BY AttemptFits DEF DockerFails
<1>2. CASE UNCHANGED ctr
  BY <1>1, <1>2, JobOnly DEF DockerFails, CallPcs
<1>3. CASE job[t].pc # "p_inspect" /\ Executed(Sent(t))
  <2>1. Sent(t) \in AgentRequests /\ (Sent(t).op # "create" => Sent(t).cid \in Containers)
    BY <1>3, SentIsOwned DEF DockerFails, Owns
  <2>2. OwnersKept /\ ctr' \in [Containers -> ContainerRows]
    BY <1>3, <2>1, ExecutedKeepsOwners
  <2>3. JobFits(t, r)'
    BY <1>1, <2>2, FitsMoved DEF DockerFails
  <2> QED BY <1>1, <2>2, <2>3, JobAndContainer DEF DockerFails, CallPcs
<1> QED BY <1>2, <1>3 DEF DockerFails

\* What LateInv says of the requests an agent holds also holds for the one a
\* job has sent.
LEMMA LateGrows ==
    ASSUME IndInv, NEW t \in Tasks, job[t].pc \in CallPcs, req' = req, ctr' = ctr,
           late' \in {late, late \cup HeldByAgent(t)}
    PROVE  LateInv' /\ late' \subseteq AgentRequests
<1>1. CASE late' = late \/ job[t].pc = "p_inspect"
  <2>1. late' \subseteq late
    BY <1>1 DEF HeldByAgent
  <2> QED BY <2>1, LateKept, NothingMoved
<1>2. CASE late' = late \cup {Sent(t)} /\ job[t].pc # "p_inspect"
  <2>1. PICK x \in AgentRequests : x = Sent(t)
    BY <1>2, SentIsOwned
  <2>2. /\ x.op # "create" => Owns(x.cid, x.srv, x.node)
        /\ x.op = "delete" => /\ req[x.task].kind = "delete"
                              /\ req[x.task].pc = "committed" /\ req[x.task].srv = x.srv
    BY <1>2, <2>1, SentIsOwned
  <2>3. late' = late \cup {x}
    BY <1>2, <2>1
  <2> QED BY <2>2, <2>3 DEF IndInv, TypeOK, LateInv, Owns
<1> QED BY <1>1, <1>2 DEF HeldByAgent

\* A step that moves a job and leaves its request with the agent.
LEMMA JobAndLate ==
    ASSUME IndInv, NEW t \in Tasks, NEW r \in JobStates, Becomes(t, r),
           job[t].pc # "none", JobFits(t, r), LateInv', late' \subseteq AgentRequests,
           crashes' \in 0 .. MaxCrashes, UNCHANGED <<srv, task, req, ctr, node>>
    PROVE  IndInv'
<1>1. OwnersKept /\ RowsKept
  BY NothingMoved
<1>2. JobFits(t, r)'
  BY <1>1, FitsMoved
<1>3. RecordedContainerIsOwn' /\ ActiveHasContainer'
  BY <1>1, RecordKept
<1>4. /\ srv' \in [Servers -> ServerRows] /\ ctr' \in [Containers -> ContainerRows]
      /\ "running" \in Outcomes
  BY DEF IndInv, TypeOK, Outcomes
<1> QED BY <1>1, <1>2, <1>3, <1>4, WorkerFrame

\* The caller stops waiting for an agent that has the request.
LEMMA ReadTimesOutStep ==
    ASSUME IndInv, NEW t \in Tasks, ReadTimesOut(t) PROVE IndInv'
<1>1. PICK r \in JobStates : Becomes(t, r) /\ JobFits(t, r)
  BY AttemptFits DEF ReadTimesOut
<1>2. LateInv' /\ late' \subseteq AgentRequests
  BY LateGrows DEF ReadTimesOut
<1>3. crashes' \in 0 .. MaxCrashes
  BY DEF ReadTimesOut, IndInv, TypeOK
<1> QED BY <1>1, <1>2, <1>3, JobAndLate DEF ReadTimesOut, CallPcs

\* An error that is not retried.
LEMMA TransportFailsStep ==
    ASSUME IndInv, NEW t \in Tasks, TransportFails(t) PROVE IndInv'
<1>1. PICK r \in JobStates : Becomes(t, r) /\ JobFits(t, r)
  BY AttemptFits DEF TransportFails
<1>2. LateInv' /\ late' \subseteq AgentRequests
  BY LateGrows DEF TransportFails
<1>3. crashes' \in 0 .. MaxCrashes
  BY DEF TransportFails, IndInv, TypeOK
<1> QED BY <1>1, <1>2, <1>3, JobAndLate DEF TransportFails, CallPcs

\* A worker dies and the job starts anew.
LEMMA CrashStep ==
    ASSUME IndInv, NEW t \in Tasks, Crash(t) PROVE IndInv'
<1>1. PICK r \in JobStates : r = [NoJob EXCEPT !.pc = "queued"]
  BY PcType, NoJobType, PcsAreJobPcs
<1>2. JobFits(t, r)
  BY <1>1, PcType, NoJobType, PcsAreJobPcs
  DEF JobFits, NoJob, ProvisionPcs, LifecyclePcs, DeletePcs, ServerPcs, NodePcs, ContainerPcs
<1>3. LateInv' /\ late' \subseteq AgentRequests
  <2>1. CASE job[t].pc \in CallPcs
    BY <2>1, LateGrows DEF Crash
  <2>2. CASE job[t].pc \notin CallPcs
    BY <2>2, LateKept, NothingMoved DEF Crash
  <2> QED BY <2>1, <2>2
<1>4. crashes' \in 0 .. MaxCrashes
  BY LifecycleAssumption DEF Crash, IndInv, TypeOK
<1>5. job[t].pc # "none"
  BY DEF Crash, Busy, ActivePcs, CallPcs
<1> QED BY <1>1, <1>2, <1>3, <1>4, <1>5, JobAndLate DEF Crash

\* An agent carries out, or drops, a request nobody waits for.
LEMMA LateExecStep ==
    ASSUME IndInv, NEW r \in late, LateExec(r) PROVE IndInv'
<1>1. r \in AgentRequests /\ (r.op # "create" => r.cid \in Containers)
  BY DEF IndInv, TypeOK, LateInv, Owns
<1>2. OwnersKept /\ ctr' \in [Containers -> ContainerRows]
  <2>1. CASE Executed(r)
    BY <1>1, <2>1, ExecutedKeepsOwners
  <2>2. CASE UNCHANGED ctr
    BY <2>2, NothingMoved DEF IndInv, TypeOK
  <2> QED BY <2>1, <2>2 DEF LateExec
<1>3. LateInv' /\ late' \subseteq AgentRequests
  BY <1>2, LateKept DEF LateExec
<1>4. RecordedContainerIsOwn' /\ ActiveHasContainer'
  BY <1>2, RecordKept DEF LateExec
<1>5. JobInv'
  <2>1. req' = req /\ job' = job /\ srv' = srv
    BY DEF LateExec
  <2> QED BY <1>2, <2>1, FitsKept DEF JobInv, CidKept
<1> QED
  BY <1>2, <1>3, <1>4, <1>5
  DEF LateExec, IndInv, TypeOK, RequestInv, RowInv, TaskInv, DeleteSucceededMeansGone, Provisioned

-----------------------------------------------------------------------------
(* The API *)

\* As long as a request is not committed its job has nothing in hand, so it
\* fits whatever becomes of the request.
LEMMA UncommittedFits ==
    ASSUME IndInv, NEW t \in Tasks, req[t].pc # "committed", NEW r \in JobStates,
           r.pc = job[t].pc \/ r.pc = "queued", r.srv = job[t].srv, r.seen = job[t].seen,
           req'[t].kind = req[t].kind \/ job[t].pc = "none"
    PROVE  JobFits(t, r)'
<1>1. r.srv = None /\ r.pc \notin ServerPcs
  BY JobFacts DEF JobFits, ServerPcs
<1>2. r.pc \in {"l_load", "d_load"} => r.seen = "absent"
  BY JobFacts DEF JobFits
<1> QED
  BY <1>1, <1>2, JobFacts
  DEF JobFits, ProvisionPcs, LifecyclePcs, DeletePcs, ServerPcs, NodePcs, ContainerPcs

\* A step of a request that is not committed keeps what the invariant says of
\* the jobs and of the agents, if the rows that jobs have loaded are kept.
LEMMA RequestFrame ==
    ASSUME IndInv, NEW t \in Tasks, req[t].pc # "committed",
           \A u \in Tasks : u # t => req'[u] = req[u],
           req[t].pc # "idle" => req'[t].kind = req[t].kind,
           job' = job \/ Goto(t, "queued"), ctr' = ctr, late' = late,
           \A u \in Tasks : u # t /\ job[u].pc \in LifecyclePcs /\ job[u].srv # None =>
               CidKept(job[u].srv)
    PROVE  job' \in [Tasks -> JobStates] /\ JobInv' /\ LateInv'
<1>1. PICK r \in JobStates :
        /\ r.pc = job[t].pc \/ r.pc = "queued"
        /\ r.srv = job[t].srv /\ r.seen = job[t].seen /\ job'[t] = r
        /\ job' \in [Tasks -> JobStates]
        /\ \A u \in Tasks : u # t => job'[u] = job[u]
  <2>1. CASE job' = job
    BY <2>1, JobFacts DEF IndInv, TypeOK
  <2>2. CASE Goto(t, "queued")
    <3>1. PICK r \in JobStates : r = [job[t] EXCEPT !.pc = "queued"]
      BY JobFacts, PcType, PcsAreJobPcs
    <3>2. r.pc = "queued" /\ r.srv = job[t].srv /\ r.seen = job[t].seen
      BY <3>1, JobFacts, PcType, PcsAreJobPcs
    <3>3. job \in [Tasks -> JobStates] /\ Becomes(t, r)
      BY <2>2, <3>1 DEF Goto, IndInv, TypeOK
    <3> QED BY <3>2, <3>3, BecomesJob
  <2> QED BY <2>1, <2>2
<1>2. JobFits(t, r)'
  BY <1>1, UncommittedFits DEF IndInv, RequestInv
<1>3. JobInv'
  <2> SUFFICES ASSUME NEW u \in Tasks PROVE JobFits(u, job[u])'
    BY DEF JobInv
  <2>1. CASE u = t
    BY <2>1, <1>1, <1>2
  <2>2. CASE u # t
    BY <2>2, <1>1, NothingMoved, FitsKept
  <2> QED BY <2>1, <2>2
<1>4. LateInv'
  <2> SUFFICES ASSUME NEW x \in late
               PROVE  /\ x.op # "create" => Owns(x.cid, x.srv, x.node)'
                      /\ x.op = "delete" => /\ req'[x.task].kind = "delete"
                                            /\ req'[x.task].pc = "committed"
                                            /\ req'[x.task].srv = x.srv
    BY DEF LateInv
  <2>1. x.task \in Tasks
    BY DEF IndInv, TypeOK, AgentRequests
  <2> QED BY <2>1 DEF IndInv, LateInv, Owns
<1> QED BY <1>1, <1>3, <1>4

\* POST /servers uses an id that no request has used.
LEMMA CreateStep ==
    ASSUME IndInv, NEW t \in Tasks, NEW s \in Servers, NEW size \in Sizes, Create(t, s, size)
    PROVE  IndInv'
<1>1. /\ req[t].pc = "idle" /\ \A u \in Tasks : req[u].srv # s
      /\ srv' = [srv EXCEPT ![s].res = size] /\ Goto(t, "queued")
      /\ req' = [req EXCEPT ![t] = [pc |-> "flushed", kind |-> "provision", srv |-> s]]
      /\ UNCHANGED <<task, ctr, late, node, crashes>>
  BY DEF Create, FlushAndEnqueue
<1>2. /\ srv' \in [Servers -> ServerRows]
      /\ \A x \in Servers : /\ srv'[x].status = srv[x].status
                            /\ srv'[x].cid = srv[x].cid /\ srv'[x].node = srv[x].node
  BY <1>1 DEF IndInv, TypeOK, ServerRows
<1>3. /\ req' \in [Tasks -> RequestStates]
      /\ \A u \in Tasks : u # t => req'[u] = req[u]
      /\ req'[t].kind = "provision" /\ req'[t].srv = s /\ req'[t].pc = "flushed"
  BY <1>1 DEF IndInv, TypeOK, RequestStates, Kinds
<1>4. job' \in [Tasks -> JobStates] /\ JobInv' /\ LateInv'
  BY <1>1, <1>2, <1>3, RequestFrame DEF CidKept, IndInv, TypeOK, JobStates
<1>5. TypeOK'
  BY <1>1, <1>2, <1>3, <1>4 DEF IndInv, TypeOK
<1>6. \A u \in Tasks : u # t => job'[u] = job[u]
  BY <1>1 DEF Goto, Becomes, IndInv, TypeOK
<1>7. \A x \in Servers : Provisioned(x) => Provisioned(x)'
  BY <1>1, <1>3 DEF Provisioned
<1>8. RequestInv'
  BY <1>1, <1>3, <1>6, <1>7 DEF IndInv, TypeOK, RequestInv, Kinds
<1>9. RowInv'
  BY <1>1, <1>2, <1>3, <1>7 DEF IndInv, TypeOK, RowInv, RequestInv
<1>10. TaskInv'
  BY <1>1, <1>2, <1>3 DEF IndInv, TypeOK, TaskInv, TaskRows
<1>11. RecordedContainerIsOwn' /\ ActiveHasContainer'
  BY <1>1, <1>2 DEF IndInv, RecordedContainerIsOwn, ActiveHasContainer
<1>12. DeleteSucceededMeansGone'
  BY <1>1, <1>2, <1>3 DEF IndInv, TypeOK, DeleteSucceededMeansGone, RequestInv
<1> QED BY <1>4, <1>5, <1>8, <1>9, <1>10, <1>11, <1>12 DEF IndInv

\* A request for a server whose row is there, in a transaction that is not
\* committed: it fails, or is checked, or is flushed with its job enqueued.
LEMMA OpenRequest ==
    ASSUME IndInv, NEW t \in Tasks, NEW s \in Servers, NEW kind \in Kinds \ {"provision"},
           NEW pc \in {"checked", "flushed", "aborted"}, pc = "checked" => kind = "delete",
           req[t].pc = "idle" \/ (req[t].pc = "checked" /\ req[t].kind = kind),
           Provisioned(s), pc = "flushed" => srv[s].status # "absent",
           req' = [req EXCEPT ![t] = [pc |-> pc, kind |-> kind, srv |-> s]],
           job' = job \/ (Goto(t, "queued") /\ pc = "flushed"),
           UNCHANGED <<srv, task, ctr, late, node, crashes>>
    PROVE  IndInv'
<1>1. /\ req' \in [Tasks -> RequestStates]
      /\ \A u \in Tasks : u # t => req'[u] = req[u]
      /\ req'[t].kind = kind /\ req'[t].srv = s /\ req'[t].pc = pc
  BY DEF IndInv, TypeOK, RequestStates
<1>2. job' \in [Tasks -> JobStates] /\ JobInv' /\ LateInv'
  BY <1>1, RequestFrame DEF CidKept
<1>3. TypeOK'
  BY <1>1, <1>2 DEF IndInv, TypeOK
<1>4. \A u \in Tasks : u # t => job'[u] = job[u]
  BY DEF Goto, Becomes, IndInv, TypeOK
<1>5. \A x \in Servers : Provisioned(x) => Provisioned(x)'
  BY <1>1 DEF Provisioned
<1>6. RequestInv'
  BY <1>1, <1>4, <1>5 DEF IndInv, TypeOK, RequestInv, Kinds
<1>7. RowInv'
  BY <1>1, <1>5 DEF IndInv, TypeOK, RowInv
<1>8. TaskInv'
  BY <1>1 DEF IndInv, TypeOK, TaskInv
<1>9. RecordedContainerIsOwn' /\ ActiveHasContainer'
  BY DEF IndInv, RecordedContainerIsOwn, ActiveHasContainer
<1>10. DeleteSucceededMeansGone'
  BY <1>1 DEF IndInv, TypeOK, DeleteSucceededMeansGone, TaskInv
<1> QED BY <1>2, <1>3, <1>6, <1>7, <1>8, <1>9, <1>10 DEF IndInv

\* POST /servers/{id}/start, stop, restart.
LEMMA RequestActionStep ==
    ASSUME IndInv, NEW t \in Tasks, NEW s \in Servers, NEW kind \in LifecycleKinds,
           RequestAction(t, s, kind)
    PROVE  IndInv'
<1>1. srv[s].status # "absent" /\ Provisioned(s)
  BY DEF RequestAction, LifecycleAllowed, LifecycleKinds, IndInv, RowInv
<1>2. kind \in Kinds \ {"provision"} /\ "flushed" \in {"checked", "flushed", "aborted"}
  BY DEF Kinds, LifecycleKinds
<1> QED BY <1>1, <1>2, OpenRequest DEF RequestAction, FlushAndEnqueue

\* DELETE /servers/{id}, first half.
LEMMA DeleteCheckStep ==
    ASSUME IndInv, NEW t \in Tasks, NEW s \in Servers, DeleteCheck(t, s) PROVE IndInv'
<1>1. srv[s].status # "absent" /\ Provisioned(s)
  BY DEF DeleteCheck, IndInv, RowInv
<1>2. "delete" \in Kinds \ {"provision"} /\ "checked" \in {"checked", "flushed", "aborted"}
  BY DEF Kinds, LifecycleKinds
<1> QED BY <1>1, <1>2, OpenRequest DEF DeleteCheck

\* DELETE /servers/{id}, second half.
LEMMA DeleteFlushStep ==
    ASSUME IndInv, NEW t \in Tasks, DeleteFlush(t) PROVE IndInv'
<1>1. PICK s \in Servers : s = req[t].srv
  BY DEF DeleteFlush, IndInv, RequestInv
<1>2. /\ "delete" \in Kinds \ {"provision"} /\ "flushed" \in {"checked", "flushed", "aborted"}
      /\ "aborted" \in {"checked", "flushed", "aborted"}
  BY DEF Kinds, LifecycleKinds
<1>3. req[t].pc = "checked" /\ req[t].kind = "delete" /\ Provisioned(s)
  BY <1>1 DEF DeleteFlush, IndInv, RequestInv
<1>4. CASE srv[s].status = "absent"
  <2>1. req' = [req EXCEPT ![t] = [pc |-> "aborted", kind |-> "delete", srv |-> s]]
    BY <1>1, <1>3, <1>4 DEF DeleteFlush, IndInv, TypeOK, RequestStates
  <2> QED BY <1>1, <1>2, <1>3, <1>4, <2>1, OpenRequest DEF DeleteFlush
<1>5. CASE srv[s].status # "absent"
  BY <1>1, <1>2, <1>3, <1>5, OpenRequest DEF DeleteFlush, FlushAndEnqueue
<1> QED BY <1>4, <1>5

\* The end of an open transaction: nothing but the request's own server and
\* task can change, and no committed request is disturbed.
LEMMA ClosedRequest ==
    ASSUME IndInv, NEW t \in Tasks, NEW pc \in {"committed", "aborted"},
           req[t].pc = "flushed", req' = [req EXCEPT ![t].pc = pc],
           task' \in [Tasks -> TaskRows], \A u \in Tasks : u # t => task'[u] = task[u],
           task'[t] = IF pc = "committed" THEN [status |-> "pending", srv |-> req[t].srv]
                      ELSE task[t],
           srv' \in [Servers -> ServerRows],
           \A x \in Servers : x # req[t].srv => srv'[x] = srv[x],
           srv'[req[t].srv].status # "absent" => req[t].kind # "provision" \/ pc = "committed",
           req[t].kind # "provision" \/ pc = "committed" => srv'[req[t].srv].status # "absent",
           srv'[req[t].srv].cid = srv[req[t].srv].cid,
           srv'[req[t].srv].node = srv[req[t].srv].node,
           srv'[req[t].srv].status \in {"running", "stopped"} =>
               srv'[req[t].srv].status = srv[req[t].srv].status,
           UNCHANGED <<job, ctr, late, node, crashes>>
    PROVE  IndInv'
<1>1. PICK s \in Servers : s = req[t].srv
  BY DEF IndInv, RequestInv
<1>2. /\ req' \in [Tasks -> RequestStates]
      /\ \A u \in Tasks : u # t => req'[u] = req[u]
      /\ req'[t].kind = req[t].kind /\ req'[t].srv = s /\ req'[t].pc = pc
  BY <1>1 DEF IndInv, TypeOK, RequestStates
<1>3. /\ req[t].kind = "provision" => ~Provisioned(s)
      /\ req[t].kind # "provision" => Provisioned(s) /\ srv[s].status # "absent"
  BY <1>1 DEF IndInv, RequestInv, RowInv, Provisioned
<1>4. \A u \in Tasks : u # t /\ job[u].pc \in LifecyclePcs /\ job[u].srv # None =>
         CidKept(job[u].srv)
  <2> SUFFICES ASSUME NEW u \in Tasks, u # t, job[u].pc \in LifecyclePcs, job[u].srv # None
               PROVE  CidKept(job[u].srv)
    OBVIOUS
  <2>1. /\ job[u].srv \in Servers /\ job[u].srv = req[u].srv /\ req[u].pc = "committed"
        /\ req[u].kind # "provision"
    BY JobFacts DEF JobFits, LifecycleKinds
  <2>2. Provisioned(job[u].srv)
    BY <2>1 DEF IndInv, RequestInv
  <2>3. CASE job[u].srv = s
    BY <1>1, <1>3, <2>2, <2>3 DEF CidKept
  <2>4. CASE job[u].srv # s
    BY <1>1, <2>1, <2>4 DEF CidKept
  <2> QED BY <2>3, <2>4
<1>5. job' \in [Tasks -> JobStates] /\ JobInv' /\ LateInv'
  BY <1>2, <1>4, RequestFrame
<1>6. TypeOK'
  BY <1>2, <1>5 DEF IndInv, TypeOK
<1>7. \A x \in Servers : Provisioned(x) => Provisioned(x)'
  BY <1>2 DEF Provisioned
<1>8. RequestInv'
  BY <1>1, <1>2, <1>7 DEF IndInv, TypeOK, RequestInv
<1>9. RowInv'
  <2>1. \A x \in Servers : srv'[x].status # "absent" => Provisioned(x)'
    <3>1. srv'[s].status # "absent" => Provisioned(s)'
      <4>1. CASE req[t].kind # "provision"
        BY <1>3, <1>7, <4>1
      <4>2. CASE req[t].kind = "provision"
        BY <1>1, <1>2, <4>2 DEF Provisioned
      <4> QED BY <4>1, <4>2
    <3> QED BY <1>1, <1>7, <3>1 DEF IndInv, RowInv
  <2>2. \A x \in Servers : srv'[x].status = "absent" => srv'[x].cid = None /\ srv'[x].node = None
    <3>1. srv'[s].status = "absent" => srv[s].status = "absent"
      BY <1>1, <1>3 DEF IndInv, RowInv
    <3> QED BY <1>1, <3>1 DEF IndInv, RowInv
  <2>3. \A u \in Tasks : req'[u].pc = "flushed" /\ req'[u].kind # "provision" =>
            srv'[req'[u].srv].status # "absent"
    <3> SUFFICES ASSUME NEW u \in Tasks, req'[u].pc = "flushed", req'[u].kind # "provision"
                 PROVE  srv'[req'[u].srv].status # "absent"
      OBVIOUS
    <3>1. u # t /\ req'[u] = req[u]
      BY <1>2
    <3>2. req[u].srv \in Servers /\ srv[req[u].srv].status # "absent" /\ Provisioned(req[u].srv)
      BY <3>1 DEF IndInv, RowInv, RequestInv
    <3> QED BY <1>1, <1>3, <3>1, <3>2
  <2> QED BY <2>1, <2>2, <2>3 DEF RowInv
<1>10. TaskInv'
  <2> SUFFICES ASSUME NEW u \in Tasks
               PROVE  /\ task'[u].status # "absent" <=> req'[u].pc = "committed"
                      /\ task'[u].srv # None =>
                           /\ req'[u].pc = "committed" /\ task'[u].srv = req'[u].srv
                           /\ srv'[task'[u].srv].status # "absent"
    BY DEF TaskInv
  <2>1. CASE u = t
    BY <1>1, <1>2, <2>1 DEF IndInv, TaskInv
  <2>2. CASE u # t
    <3>1. task'[u] = task[u] /\ req'[u] = req[u] /\ task[u] \in TaskRows
      BY <1>2, <2>2 DEF IndInv, TypeOK
    <3>2. task[u].srv = s => srv'[s].status # "absent"
      <4> SUFFICES ASSUME task[u].srv = s PROVE srv'[s].status # "absent"
        OBVIOUS
      <4>1. srv[s].status # "absent"
        BY NoneAssumption DEF IndInv, TaskInv
      <4>2. Provisioned(s)
        BY <4>1 DEF IndInv, RowInv
      <4> QED BY <1>1, <1>3, <4>2
    <3> QED BY <1>1, <3>1, <3>2 DEF IndInv, TaskInv, TaskRows
  <2> QED BY <2>1, <2>2
<1>11. RecordedContainerIsOwn'
  BY <1>1 DEF IndInv, RecordedContainerIsOwn
<1>12. ActiveHasContainer'
  BY <1>1 DEF IndInv, ActiveHasContainer
<1>13. DeleteSucceededMeansGone'
  <2> SUFFICES ASSUME NEW u \in Tasks, req'[u].kind = "delete", task'[u].status = "succeeded"
               PROVE  srv'[req'[u].srv].status = "absent"
    BY DEF DeleteSucceededMeansGone
  <2>1. u # t /\ req'[u] = req[u] /\ task'[u] = task[u]
    BY <1>2 DEF IndInv, TaskInv
  <2>2. srv[req[u].srv].status = "absent" /\ req[u].srv \in Servers /\ Provisioned(req[u].srv)
    BY <2>1 DEF IndInv, DeleteSucceededMeansGone, RequestInv
  <2> QED BY <1>1, <1>3, <2>1, <2>2
<1> QED BY <1>5, <1>6, <1>8, <1>9, <1>10, <1>11, <1>12, <1>13 DEF IndInv

\* get_session commits.
LEMMA CommitStep ==
    ASSUME IndInv, NEW t \in Tasks, Commit(t) PROVE IndInv'
<1>1. PICK s \in Servers : s = req[t].srv
  BY DEF Commit, IndInv, RequestInv
<1>2. srv[s] \in ServerRows /\ (req[t].kind # "provision" => srv[s].status # "absent")
  BY <1>1 DEF Commit, IndInv, TypeOK, RowInv
<1>3. PICK st \in ServerStatuses \ {"absent"} :
        /\ srv' = [srv EXCEPT ![s].status = st]
        /\ st \in {"running", "stopped"} => st = srv[s].status
  <2> DEFINE new == CASE req[t].kind = "provision" -> "pending"
                      [] req[t].kind = "delete" -> "deleting"
                      [] OTHER -> srv[s].status
  <2>1. srv' = [srv EXCEPT ![s].status = new]
    BY <1>1 DEF Commit
  <2>2. new \in ServerStatuses \ {"absent"} /\ (new \in {"running", "stopped"} => new = srv[s].status)
    BY <1>2 DEF ServerRows, ServerStatuses
  <2> QED BY <2>1, <2>2
<1>4. /\ srv' \in [Servers -> ServerRows]
      /\ \A x \in Servers : x # s => srv'[x] = srv[x]
      /\ srv'[s].status = st /\ srv'[s].cid = srv[s].cid /\ srv'[s].node = srv[s].node
  BY <1>3 DEF IndInv, TypeOK, ServerRows
<1>5. /\ task' \in [Tasks -> TaskRows]
      /\ \A u \in Tasks : u # t => task'[u] = task[u]
      /\ task'[t] = [status |-> "pending", srv |-> s]
  BY <1>1 DEF Commit, IndInv, TypeOK, TaskRows, TaskStatuses
<1>6. "committed" \in {"committed", "aborted"}
  OBVIOUS
<1> QED BY <1>1, <1>3, <1>4, <1>5, <1>6, ClosedRequest DEF Commit

\* The transaction is rolled back.
LEMMA RollbackStep ==
    ASSUME IndInv, NEW t \in Tasks, Rollback(t) PROVE IndInv'
<1>1. PICK s \in Servers : s = req[t].srv
  BY DEF Rollback, IndInv, RequestInv
<1>2. /\ req[t].kind = "provision" =>
           srv[s].status = "absent" /\ srv[s].cid = None /\ srv[s].node = None
      /\ req[t].kind # "provision" => srv[s].status # "absent"
  BY <1>1 DEF Rollback, IndInv, RequestInv, RowInv, Provisioned
<1>3. /\ srv' \in [Servers -> ServerRows]
      /\ \A x \in Servers : x # s => srv'[x] = srv[x]
      /\ srv'[s].status = srv[s].status
      /\ srv'[s].cid = srv[s].cid /\ srv'[s].node = srv[s].node
  BY <1>1, <1>2 DEF Rollback, IndInv, TypeOK, ServerRows, ServerStatuses, NoServer
<1>4. task' \in [Tasks -> TaskRows] /\ task' = task
  BY DEF Rollback, IndInv, TypeOK
<1>5. "aborted" \in {"committed", "aborted"}
  OBVIOUS
<1> QED BY <1>1, <1>2, <1>3, <1>4, <1>5, ClosedRequest DEF Rollback

\* A step that changes neither requests nor jobs, and of the rows of servers
\* neither status nor container, and takes nodes off them at most.
LEMMA RowsOnly ==
    ASSUME IndInv, srv' \in [Servers -> ServerRows], node' \in [Nodes -> NodeRows],
           \A s \in Servers : /\ srv'[s].status = srv[s].status /\ srv'[s].cid = srv[s].cid
                              /\ srv'[s].node \in {srv[s].node, None},
           UNCHANGED <<task, req, job, ctr, late, crashes>>
    PROVE  IndInv'
<1>1. TypeOK'
  BY DEF IndInv, TypeOK
<1>2. RequestInv' /\ LateInv'
  BY DEF IndInv, RequestInv, LateInv, Provisioned, Owns
<1>3. RowInv'
  BY DEF IndInv, RowInv, Provisioned, RequestInv
<1>4. TaskInv'
  BY DEF IndInv, TypeOK, TaskInv, TaskRows
<1>5. JobInv'
  <2> SUFFICES ASSUME NEW u \in Tasks PROVE JobFits(u, job[u])'
    BY DEF JobInv
  <2> QED BY JobFacts, NothingMoved, FitsKept DEF CidKept
<1>6. RecordedContainerIsOwn' /\ ActiveHasContainer'
  BY DEF IndInv, RecordedContainerIsOwn, ActiveHasContainer
<1>7. DeleteSucceededMeansGone'
  BY DEF IndInv, TypeOK, DeleteSucceededMeansGone, RequestInv, TaskInv, TaskRows
<1> QED BY <1>1, <1>2, <1>3, <1>4, <1>5, <1>6, <1>7 DEF IndInv

\* PATCH /servers/{id}.
LEMMA PatchCheckStep ==
    ASSUME IndInv, NEW s \in Servers, PatchCheck(s) PROVE IndInv'
<1>1. /\ srv' \in [Servers -> ServerRows] /\ node' \in [Nodes -> NodeRows]
      /\ \A x \in Servers : /\ srv'[x].status = srv[x].status /\ srv'[x].cid = srv[x].cid
                            /\ srv'[x].node = srv[x].node
  BY DEF PatchCheck, IndInv, TypeOK, ServerRows
<1> QED BY <1>1, RowsOnly DEF PatchCheck

LEMMA PatchStep ==
    ASSUME IndInv, NEW s \in Servers, NEW size \in Sizes, Patch(s, size) PROVE IndInv'
<1>1. /\ srv' \in [Servers -> ServerRows] /\ node' \in [Nodes -> NodeRows]
      /\ \A x \in Servers : /\ srv'[x].status = srv[x].status /\ srv'[x].cid = srv[x].cid
                            /\ srv'[x].node = srv[x].node
  BY DEF Patch, IndInv, TypeOK, ServerRows
<1> QED BY <1>1, RowsOnly DEF Patch

\* The registry of nodes: a deleted node is taken off its servers.
LEMMA AdminSteps ==
    ASSUME IndInv, AdminStep PROVE IndInv'
<1>1. CASE \E n \in Nodes, cap \in Capacities : NodeCreate(n, cap)
  <2>1. PICK n \in Nodes, cap \in Capacities : NodeCreate(n, cap)
    BY <1>1
  <2>2. cap.cpu \in Nat /\ cap.mem \in Nat
    BY LifecycleAssumption
  <2>3. srv' \in [Servers -> ServerRows] /\ node' \in [Nodes -> NodeRows]
    BY <2>1, <2>2 DEF NodeCreate, IndInv, TypeOK, NodeRows
  <2> QED BY <2>1, <2>3, RowsOnly DEF NodeCreate
<1>2. CASE \E n \in Nodes, status \in {"online", "drain"}, cap \in Capacities :
              NodePatch(n, status, cap)
  <2>1. PICK n \in Nodes, status \in {"online", "drain"}, cap \in Capacities :
              NodePatch(n, status, cap)
    BY <1>2
  <2>2. cap.cpu \in Nat /\ cap.mem \in Nat
    BY LifecycleAssumption
  <2>3. srv' \in [Servers -> ServerRows] /\ node' \in [Nodes -> NodeRows]
    BY <2>1, <2>2 DEF NodePatch, IndInv, TypeOK, NodeRows
  <2> QED BY <2>1, <2>3, RowsOnly DEF NodePatch
<1>3. CASE \E n \in Nodes : NodeDelete(n)
  <2>1. PICK n \in Nodes : NodeDelete(n)
    BY <1>3
  <2>2. node' \in [Nodes -> NodeRows]
    BY <2>1 DEF NodeDelete, IndInv, TypeOK, NodeRows
  <2>3. /\ srv' \in [Servers -> ServerRows]
        /\ \A s \in Servers : /\ srv'[s].status = srv[s].status /\ srv'[s].cid = srv[s].cid
                              /\ srv'[s].node \in {srv[s].node, None}
    BY <2>1 DEF NodeDelete, IndInv, TypeOK, ServerRows
  <2> QED BY <2>1, <2>2, <2>3, RowsOnly DEF NodeDelete
<1> QED BY <1>1, <1>2, <1>3 DEF AdminStep

-----------------------------------------------------------------------------
(* The invariant and its consequences *)

\* The empty panel satisfies the invariant.
LEMMA InitIndInv ==
    ASSUME Init PROVE IndInv
<1>1. TypeOK
  <2>1. /\ NoServer \in ServerRows
        /\ [status |-> "absent", srv |-> None] \in TaskRows
        /\ [pc |-> "idle", kind |-> "none", srv |-> None] \in RequestStates
        /\ [state |-> "free", srv |-> None, node |-> None] \in ContainerRows
        /\ crashes \in 0 .. MaxCrashes
    BY LifecycleAssumption
    DEF Init, NoServer, ServerRows, ServerStatuses, TaskRows, TaskStatuses, RequestStates,
        ContainerRows, ContainerStates
  <2>2. node \in [Nodes -> NodeRows]
    BY LifecycleAssumption DEF Init, NodeRows
  <2> QED BY <2>1, <2>2, NoJobType DEF Init, TypeOK
<1>2. RequestInv /\ RowInv /\ TaskInv /\ LateInv
  BY DEF Init, RequestInv, RowInv, TaskInv, LateInv, NoServer, NoJob
<1>3. JobInv
  BY DEF Init, JobInv, JobFits, NoJob,
         ProvisionPcs, LifecyclePcs, DeletePcs, ServerPcs, NodePcs, ContainerPcs
<1>4. RecordedContainerIsOwn /\ ActiveHasContainer /\ DeleteSucceededMeansGone
  BY DEF Init, RecordedContainerIsOwn, ActiveHasContainer, DeleteSucceededMeansGone, NoServer
<1> QED BY <1>1, <1>2, <1>3, <1>4 DEF IndInv

\* Every step of the panel preserves the invariant.
LEMMA NextIndInv ==
    ASSUME IndInv, [Next]_vars PROVE IndInv'
<1>1. CASE ClientStep
  BY <1>1, CreateStep, RequestActionStep, DeleteCheckStep, PatchCheckStep, PatchStep
  DEF ClientStep
<1>2. CASE AdminStep
  BY <1>2, AdminSteps
<1>3. ASSUME NEW t \in Tasks, RequestStep(t) PROVE IndInv'
  BY <1>3, DeleteFlushStep, CommitStep, RollbackStep DEF RequestStep
<1>4. ASSUME NEW t \in Tasks, JobStep(t) PROVE IndInv'
  <2>1. CASE JobStart(t) \/ ArqFinish(t)
    BY <2>1, JobStartStep, ArqFinishStep
  <2>2. CASE ProvisionStep(t)
    BY <2>2, ProvisionMissingStep, ProvisionNoCapacityStep, ProvisionPlaceStep,
       CreateRepliesStep, InspectRepliesStep, ProvisionSaveStep, ProvisionDoneStep,
       ProvisionFailFindStep, ProvisionFailSaveStep
    DEF ProvisionStep
  <2>3. CASE LifecycleStep(t)
    BY <2>3, LoadMissingStep, LifecycleUnprovisionedStep, LifecycleLoadStep,
       LifecycleRepliesStep, LifecycleFindStep, LifecycleSaveStep, JobFailStep
    DEF LifecycleStep
  <2>4. CASE DeleteStep(t)
    BY <2>4, DeleteNothingStep, DeleteLoadStep, DeleteFindNodeStep, DeleteRepliesStep,
       DeleteRowStep
    DEF DeleteStep
  <2>5. CASE FaultStep(t)
    BY <2>5, ConnectFailsStep, DockerFailsStep, ReadTimesOutStep, TransportFailsStep
    DEF FaultStep
  <2> QED BY <1>4, <2>1, <2>2, <2>3, <2>4, <2>5 DEF JobStep
<1>5. CASE UNCHANGED vars
  <2>1. /\ srv' \in [Servers -> ServerRows] /\ node' \in [Nodes -> NodeRows]
        /\ UNCHANGED <<srv, task, req, job, ctr, late, crashes>>
    BY <1>5 DEF vars, IndInv, TypeOK
  <2> QED BY <2>1, RowsOnly
<1> QED
  BY <1>1, <1>2, <1>3, <1>4, <1>5, CrashStep, LateExecStep DEF Next, Idle

\* The invariant holds in every state of every run of the panel, with any
\* number of servers, nodes, tasks, workers, retries, crashes and failures.
THEOREM Invariance == Spec => []IndInv
<1>1. Init => IndInv
  BY InitIndInv
<1>2. IndInv /\ [Next]_vars => IndInv'
  BY NextIndInv
<1> QED BY <1>1, <1>2, PTL DEF Spec

\* Type correctness.
THEOREM TypeCorrect == Spec => []TypeOK
<1>1. IndInv => TypeOK
  BY DEF IndInv
<1> QED BY <1>1, Invariance, PTL

\* No retry, crash, re-run or late request attaches the container of another
\* server, or of another host, to a row of "servers".
THEOREM RecordedContainer == Spec => []RecordedContainerIsOwn
<1>1. IndInv => RecordedContainerIsOwn
  BY DEF IndInv
<1> QED BY <1>1, Invariance, PTL

\* "running" and "stopped" are shown only for servers with a container.
THEOREM ActiveContainer == Spec => []ActiveHasContainer
<1>1. IndInv => ActiveHasContainer
  BY DEF IndInv
<1> QED BY <1>1, Invariance, PTL

\* A server whose delete task succeeded never comes back.
THEOREM DeletedStaysGone == Spec => []DeleteSucceededMeansGone
<1>1. IndInv => DeleteSucceededMeansGone
  BY DEF IndInv
<1> QED BY <1>1, Invariance, PTL

\* Only the removal that an agent carries out takes a container away.
LEMMA ExecutedRemoves ==
    ASSUME IndInv, NEW r \in AgentRequests, r.op # "create" => Owns(r.cid, r.srv, r.node),
           Executed(r), NEW c \in Containers, Live(ctr, c), ~Live(ctr', c)
    PROVE  r.op = "delete" /\ r.cid = c
<1>1. r.op \in AgentOps
  BY DEF AgentRequests
<1>2. r.op # "create"
  BY DEF Executed, Free, AfterCreate, Live, LiveStates, IndInv, TypeOK
<1>3. r.cid = c
  BY <1>2 DEF Executed, AfterOp, Live, IndInv, TypeOK
<1>4. ctr'[c].state = NewState(r.op, ctr[c].state)
  BY <1>2, <1>3 DEF Executed, AfterOp, IndInv, TypeOK, ContainerRows
<1> QED
  BY <1>1, <1>2, <1>3, <1>4 DEF AgentOps, LifecycleKinds, NewState, Live, LiveStates

\* The same of the answer to a start, stop or restart.
LEMMA OpRemoves ==
    ASSUME IndInv, NEW d \in Containers, NEW op \in LifecycleKinds,
           ctr' = AfterOp(ctr, d, op), NEW c \in Containers, Live(ctr, c)
    PROVE  Live(ctr', c)
  BY DEF IndInv, TypeOK, ContainerRows, AfterOp, Live, LiveStates, NewState, LifecycleKinds

\* What job t asks for in a delete is asked for by a committed request.
LEMMA DeleteJobCommitted ==
    ASSUME IndInv, NEW t \in Tasks, job[t].pc = "d_call"
    PROVE  /\ job[t].cid \in Containers /\ ctr[job[t].cid].srv = req[t].srv
           /\ DeleteCommitted(req[t].srv)
  BY JobFacts DEF JobFits, ContainerPcs, ServerPcs, DeletePcs, Owns, DeleteCommitted

\* A step that takes a container away has a committed delete behind it.
LEMMA RemovalStep ==
    ASSUME IndInv, [Next]_vars, NEW c \in Containers, Live(ctr, c), ~Live(ctr', c)
    PROVE  DeleteCommitted(ctr[c].srv)
<1>1. ctr' # ctr
  OBVIOUS
<1>2. ASSUME NEW t \in Tasks, CreateReplies(t) PROVE FALSE
  BY <1>1, <1>2 DEF CreateReplies, Free, AfterCreate, Live, LiveStates, IndInv, TypeOK
<1>3. ASSUME NEW t \in Tasks, LifecycleReplies(t) PROVE FALSE
  <2>1. job[t].cid \in Containers /\ req[t].kind \in LifecycleKinds /\ Op(t) = req[t].kind
    BY <1>3, JobFacts DEF LifecycleReplies, JobFits, ContainerPcs, Owns, LifecyclePcs, Op
  <2> QED BY <1>3, <2>1, OpRemoves DEF LifecycleReplies
<1>4. ASSUME NEW t \in Tasks, DeleteReplies(t) PROVE DeleteCommitted(ctr[c].srv)
  <2>1. job[t].cid = c
    BY <1>4, DeleteJobCommitted DEF DeleteReplies, AfterOp, Live, IndInv, TypeOK
  <2> QED BY <1>4, <2>1, DeleteJobCommitted DEF DeleteReplies
<1>5. ASSUME NEW t \in Tasks, DockerFails(t) PROVE DeleteCommitted(ctr[c].srv)
  <2>1. job[t].pc \in CallPcs \ {"p_inspect"} /\ Executed(Sent(t))
    BY <1>1, <1>5 DEF DockerFails
  <2>2. Sent(t).op = "delete" /\ Sent(t).cid = c
    BY <2>1, SentIsOwned, ExecutedRemoves
  <2>3. job[t].pc = "d_call" /\ job[t].cid = c
    BY <2>1, <2>2, JobFacts DEF Sent, Op, CallPcs, JobFits, LifecyclePcs, LifecycleKinds
  <2> QED BY <2>3, DeleteJobCommitted
<1>6. ASSUME NEW r \in late, LateExec(r) PROVE DeleteCommitted(ctr[c].srv)
  <2>1. /\ r \in AgentRequests /\ r.task \in Tasks
        /\ r.op # "create" => Owns(r.cid, r.srv, r.node)
        /\ r.op = "delete" => req[r.task].kind = "delete" /\ req[r.task].pc = "committed"
                              /\ req[r.task].srv = r.srv
    BY DEF IndInv, TypeOK, LateInv, AgentRequests
  <2>2. r.op = "delete" /\ r.cid = c
    BY <1>1, <1>6, <2>1, ExecutedRemoves DEF LateExec
  <2> QED BY <2>1, <2>2 DEF DeleteCommitted, Owns
<1>7. ASSUME NEW t \in Tasks, RequestStep(t) \/ Crash(t) \/ JobStart(t) \/ ArqFinish(t)
      PROVE  FALSE
  BY <1>1, <1>7 DEF RequestStep, DeleteFlush, Commit, Rollback, Crash, JobStart, ArqFinish
<1>8. ASSUME NEW t \in Tasks, ProvisionStep(t) PROVE FALSE
  BY <1>1, <1>2, <1>8
  DEF ProvisionStep, ProvisionMissing, ProvisionNoCapacity, ProvisionPlace, InspectReplies,
      ProvisionSave, ProvisionDone, ProvisionFailFind, ProvisionFailSave
<1>9. ASSUME NEW t \in Tasks, LifecycleStep(t) PROVE FALSE
  BY <1>1, <1>3, <1>9
  DEF LifecycleStep, LoadMissing, LifecycleUnprovisioned, LifecycleLoad, LifecycleFind,
      LifecycleSave, JobFail
<1>10. ASSUME NEW t \in Tasks, DeleteStep(t) PROVE DeleteCommitted(ctr[c].srv)
  BY <1>1, <1>4, <1>10
  DEF DeleteStep, DeleteNothing, DeleteLoad, DeleteFindNode, DeleteRow
<1>11. ASSUME NEW t \in Tasks, FaultStep(t) PROVE DeleteCommitted(ctr[c].srv)
  BY <1>1, <1>5, <1>11 DEF FaultStep, ConnectFails, ReadTimesOut, TransportFails
<1>12. ~ClientStep /\ ~AdminStep /\ ~UNCHANGED vars
  BY <1>1 DEF ClientStep, Create, RequestAction, DeleteCheck, PatchCheck, Patch,
              AdminStep, NodeCreate, NodePatch, NodeDelete, vars
<1> QED
  BY <1>6, <1>7, <1>8, <1>9, <1>10, <1>11, <1>12 DEF Next, JobStep, Idle

\* A container is removed only for a committed delete of its own server, also
\* when jobs run before the commit and agents act late.
THEOREM RemovalIsWanted == Spec => RemovalNeedsDelete
<1>1. IndInv /\ [Next]_vars =>
        [\A c \in Containers :
            Live(ctr, c) /\ ~Live(ctr, c)' => DeleteCommitted(ctr[c].srv)]_vars
  BY RemovalStep DEF Live
<1> QED BY <1>1, Invariance, PTL DEF Spec, RemovalNeedsDelete
=============================================================================
