---------------------------- MODULE BackupsProofs ----------------------------
(***************************************************************************)
(* Proofs about module Backups, for every set of servers, backups, tasks   *)
(* and failures and every number of retries and crashes: IndInv is an      *)
(* inductive invariant, the safety properties follow from it, and what     *)
(* clients see of a backup is what BackupRecord promises.                  *)
(***************************************************************************)
EXTENDS Backups, TLAPS

-----------------------------------------------------------------------------
(* State *)

\* A request that has a job, or is past its first statement, names a backup.
LEMMA NamesBackup ==
    ASSUME IndInv, NEW t \in Tasks, job[t].pc # "none" \/ req[t].kind # "none"
    PROVE  /\ req[t].kind \in {"backup", "restore"}
           /\ req[t].bak \in Backups
           /\ req[t].pc # "idle"
  BY DEF IndInv, TypeOK, RequestOK, Requests

\* The job after Goto.
LEMMA GotoState ==
    ASSUME IndInv, NEW t \in Tasks,
           NEW pc \in {"none", "queued", "ended", "done"} \cup ActivePcs, Goto(t, pc)
    PROVE  LET x == [job[t] EXCEPT !.pc = pc] IN
           /\ x \in Jobs /\ job' = [job EXCEPT ![t] = x]
           /\ x.pc = pc /\ x.srv = job[t].srv /\ x.seen = job[t].seen /\ x.end = job[t].end
  BY DEF IndInv, TypeOK, Goto, Becomes, Jobs

\* A key is the id of its backup, and is there.
LEMMA KeyOf ==
    ASSUME NEW b \in Backups, NEW s PROVE Key(b, s) = b /\ b \in Backups \cup Servers /\ b # None
  BY BackupsAssumption DEF Key

-----------------------------------------------------------------------------
(* Frames *)

\* A step of job t that waits for no agent preserves the invariant if it
\* leaves the job in order, marks at most its own task and its own backup, and
\* marks a backup "available" only with its archive.
LEMMA JobFrame ==
    ASSUME IndInv, NEW t \in Tasks, NEW x \in Jobs, job' = [job EXCEPT ![t] = x],
           job[t].pc \notin {"none", "wait"},
           UNCHANGED <<server, crashes, req, work, obj>>,
           task' = task \/ \E st \in TaskStatuses : task' = [task EXCEPT ![t].status = st],
           \/ bak' = bak
           \/ /\ req[t].kind = "backup"
              /\ \E st \in {"available", "failed"} :
                    /\ bak' = MarkedBackup(req[t].bak, st)
                    /\ st = "available" => obj[req[t].bak] = req[t].bak,
           JobOK(t)',
           req[t].kind = "backup" /\ Exists(req[t].bak)' =>
             /\ task'[t].status = "succeeded" => bak'[req[t].bak].status = "available"
             /\ task'[t].status = "failed" => bak'[req[t].bak].status = "failed"
    PROVE  IndInv'
<1>1. /\ job' \in [Tasks -> Jobs] /\ job'[t] = x
      /\ \A u \in Tasks : u # t => job'[u] = job[u]
      /\ req[t].bak \in Backups /\ req' = req /\ work' = work /\ obj' = obj
      /\ crashes' = crashes
  BY NamesBackup DEF IndInv, TypeOK
<1>2. /\ task' \in [Tasks -> TaskRows]
      /\ \A u \in Tasks : u # t => task'[u] = task[u]
  BY DEF IndInv, TypeOK, TaskRows
<1>3. /\ bak' \in [Backups -> BackupRows]
      /\ \A b \in Backups :
            /\ Exists(b)' <=> Exists(b)
            /\ bak'[b].srv = bak[b].srv
            /\ bak'[b] # bak[b] =>
                 /\ req[t].kind = "backup" /\ b = req[t].bak
                 /\ bak'[b].status = "available" => obj[b] = b
  BY <1>1 DEF IndInv, TypeOK, BackupRows, BackupStatuses, MarkedBackup, Exists
<1>4. ASSUME NEW b PROVE Committed(b)' <=> Committed(b)
  BY <1>1 DEF Committed
<1>5. TypeOK'
  BY <1>1, <1>2, <1>3 DEF IndInv, TypeOK, server
<1>6. ASSUME NEW u \in Tasks PROVE RequestOK(u)'
  <2>1. CASE u = t BY <2>1, <1>1 DEF IndInv, RequestOK
  <2>2. CASE u # t BY <2>2, <1>1 DEF IndInv, RequestOK
  <2> QED BY <2>1, <2>2
<1>7. ASSUME NEW u \in Tasks PROVE JobOK(u)'
  <2>1. CASE u # t
    <3>1. job'[u] = job[u] /\ JobOK(u) /\ MadeOnce
      BY <2>1, <1>1 DEF IndInv
    <3>2. req[u].kind = "backup" => req[u].bak \in Backups /\ bak'[req[u].bak] = bak[req[u].bak]
      BY <2>1, <3>1, <1>3, NamesBackup DEF MadeOnce
    <3> QED BY <3>1, <3>2, <1>1, <1>4 DEF JobOK
  <2> QED BY <2>1
<1>8. ASSUME NEW b \in Backups PROVE RowOK(b)'
  BY <1>1, <1>3, <1>4 DEF IndInv, RowOK
<1>9. ASSUME NEW w \in work' PROVE WorkOK(w)'
  <2>1. w \in work /\ w.task \in Tasks /\ WorkOK(w)
    BY <1>1 DEF IndInv, TypeOK, AgentWork
  <2> QED BY <2>1, <1>1, <1>4 DEF WorkOK
<1>10. MadeOnce' /\ KeysOwned' /\ OneHeard'
  BY <1>1 DEF IndInv, MadeOnce, KeysOwned, OneHeard, Awaited
<1>11. TaskMatchesBackup'
  <2> SUFFICES ASSUME NEW u \in Tasks, req[u].kind = "backup", Exists(req[u].bak)'
               PROVE  /\ task'[u].status = "succeeded" => bak'[req[u].bak].status = "available"
                      /\ task'[u].status = "failed" => bak'[req[u].bak].status = "failed"
    BY <1>1 DEF TaskMatchesBackup
  <2>1. CASE u # t
    <3>1. task'[u] = task[u] /\ MadeOnce /\ TaskMatchesBackup
      BY <2>1, <1>2 DEF IndInv
    <3>2. req[u].bak \in Backups /\ bak'[req[u].bak] = bak[req[u].bak] /\ Exists(req[u].bak)
      BY <2>1, <3>1, <1>3, NamesBackup DEF MadeOnce, Exists
    <3> QED BY <3>1, <3>2 DEF TaskMatchesBackup
  <2> QED BY <2>1
<1> QED BY <1>5, <1>6, <1>7, <1>8, <1>9, <1>10, <1>11 DEF IndInv

\* A step of job t and of the agent that works for it preserves the invariant
\* if it leaves both in order and takes no archive out of the store.
LEMMA AgentFrame ==
    ASSUME IndInv, NEW t \in Tasks, NEW x \in Jobs, job' = [job EXCEPT ![t] = x],
           job[t].pc # "none" \/ x = job[t], UNCHANGED <<server, bak, task, req>>,
           crashes' \in 0 .. MaxCrashes, crashes' >= crashes,
           DOMAIN obj' = Backups \cup Servers,
           \A k \in Backups \cup Servers : obj'[k] = obj[k] \/ (k \in Backups /\ obj'[k] = k),
           obj' \in [Backups \cup Servers -> Backups \cup {None}],
           JobOK(t)', work' \subseteq AgentWork,
           \A w \in work' : \/ w \in work /\ (w.task # t \/ ~w.heard)
                            \/ w.task = t /\ WorkOK(w)',
           \A v, w \in work' : v.task = t /\ w.task = t /\ v.heard /\ w.heard => v = w
    PROVE  IndInv'
<1>1. /\ job' \in [Tasks -> Jobs] /\ job'[t] = x
      /\ \A u \in Tasks : u # t => job'[u] = job[u]
      /\ req' = req /\ bak' = bak /\ task' = task
  BY DEF IndInv, TypeOK
<1>2. \A b \in Backups : obj[b] = b => obj'[b] = b
  OBVIOUS
<1>3. ASSUME NEW b PROVE Committed(b)' <=> Committed(b)
  BY <1>1 DEF Committed
<1>4. TypeOK'
  BY <1>1 DEF IndInv, TypeOK, server
<1>5. ASSUME NEW u \in Tasks PROVE RequestOK(u)'
  <2>1. req[u].kind = "restore" => obj'[req[u].bak] = req[u].bak
    BY <1>2, NamesBackup DEF IndInv, RequestOK
  <2>2. CASE u = t BY <2>1, <2>2, <1>1 DEF IndInv, RequestOK
  <2>3. CASE u # t BY <2>1, <2>3, <1>1 DEF IndInv, RequestOK
  <2> QED BY <2>2, <2>3
<1>6. ASSUME NEW u \in Tasks PROVE JobOK(u)'
  <2>1. CASE u # t
    <3>1. job'[u] = job[u] /\ JobOK(u)
      BY <2>1, <1>1 DEF IndInv
    <3>2. job[u].pc # "none" => req[u].bak \in Backups
      BY NamesBackup
    <3>3. crashes' = 0 => crashes = 0
      BY DEF IndInv, TypeOK
    <3>4. job[u].pc \in {"save", "save_write"} => obj'[req[u].bak] = req[u].bak
      BY <3>1, <3>2, <1>2 DEF JobOK
    <3> QED BY <3>1, <3>3, <3>4, <1>1, <1>3 DEF JobOK
  <2> QED BY <2>1
<1>7. ASSUME NEW b \in Backups PROVE RowOK(b)'
  BY <1>1, <1>2, <1>3 DEF IndInv, RowOK, Exists
<1>8. ASSUME NEW w \in work' PROVE WorkOK(w)'
  <2>1. CASE w \in work /\ (w.task # t \/ ~w.heard)
    <3>1. WorkOK(w) /\ w.task \in Tasks /\ w.bak \in Backups
      BY <2>1 DEF IndInv, TypeOK, AgentWork
    <3>2. w.stage = "moved" => obj'[w.bak] = w.bak
      BY <3>1, <1>2 DEF WorkOK
    <3>3. w.heard => job'[w.task].pc = "wait"
      BY <3>1, <2>1, <1>1 DEF WorkOK
    <3> QED BY <3>1, <3>2, <3>3, <1>1, <1>3 DEF WorkOK
  <2> QED BY <2>1
<1>9. MadeOnce' /\ KeysOwned' /\ TaskMatchesBackup'
  BY <1>1 DEF IndInv, MadeOnce, KeysOwned, TaskMatchesBackup, Exists
<1>10. OneHeard'
  <2> SUFFICES ASSUME NEW u \in Tasks, NEW v \in work', NEW w \in work',
                      v.task = u, w.task = u, v.heard, w.heard
               PROVE  v = w
    BY DEF OneHeard, Awaited
  <2>1. CASE u # t
    <3>1. v \in work /\ w \in work
      BY <2>1
    <3> QED BY <3>1 DEF IndInv, OneHeard, Awaited
  <2> QED BY <2>1
<1> QED BY <1>4, <1>5, <1>6, <1>7, <1>8, <1>9, <1>10 DEF IndInv

\* What is left of the work when nobody waits for job t any more.
LEMMA NobodyWaits ==
    ASSUME IndInv, NEW t \in Tasks, work' \in {Unheard(t), work \ Awaited(t)},
           obj' = obj, req' = req
    PROVE  /\ work' \subseteq AgentWork
           /\ \A w \in work' : \/ w \in work /\ (w.task # t \/ ~w.heard)
                               \/ w.task = t /\ ~w.heard /\ WorkOK(w)'
<1>1. ASSUME NEW v \in Awaited(t), NEW w, w = [v EXCEPT !.heard = FALSE]
      PROVE  w \in AgentWork /\ w.task = t /\ ~w.heard /\ WorkOK(w)'
  <2>1. v \in AgentWork /\ WorkOK(v) /\ v.task = t
    BY DEF IndInv, TypeOK, Awaited
  <2>2. /\ w \in AgentWork /\ w.task = v.task /\ w.kind = v.kind /\ w.bak = v.bak
        /\ w.stage = v.stage /\ ~w.heard
    BY <1>1, <2>1 DEF AgentWork
  <2>3. Committed(w.bak)' <=> Committed(v.bak)
    BY <2>2 DEF Committed
  <2> QED BY <2>1, <2>2, <2>3 DEF WorkOK
<1>2. work \subseteq AgentWork
  BY DEF IndInv, TypeOK
<1>3. ASSUME NEW w \in work' PROVE w \in work \ Awaited(t) \/ \E v \in Awaited(t) : w = [v EXCEPT !.heard = FALSE]
  BY DEF Unheard
<1> QED BY <1>1, <1>2, <1>3 DEF Awaited

\* A step of the server alone, or the death of a worker of its own jobs.
LEMMA ServerFrame ==
    ASSUME IndInv, UNCHANGED <<panel, work, obj>>,
           row' \in [Servers -> Life!Statuses],
           box' \in [Servers -> {"none", "placed", "lost"}],
           up' \subseteq Servers,
           asked' \in [Servers -> SUBSET Life!Kinds],
           crashes' \in 0 .. MaxCrashes, crashes' >= crashes
    PROVE  IndInv'
<1>1. bak' = bak /\ task' = task /\ req' = req /\ job' = job /\ work' = work /\ obj' = obj
  BY DEF panel
<1>2. crashes' = 0 => crashes = 0
  BY DEF IndInv, TypeOK
<1>3. ASSUME NEW b PROVE Committed(b)' <=> Committed(b)
  BY <1>1 DEF Committed
<1>4. TypeOK' /\ MadeOnce' /\ KeysOwned' /\ OneHeard' /\ TaskMatchesBackup'
  BY <1>1 DEF IndInv, TypeOK, MadeOnce, KeysOwned, OneHeard, Awaited, TaskMatchesBackup, Exists
<1>5. ASSUME NEW t \in Tasks PROVE RequestOK(t)' /\ JobOK(t)'
  BY <1>1, <1>2, <1>3 DEF IndInv, RequestOK, JobOK
<1>6. ASSUME NEW b \in Backups PROVE RowOK(b)'
  BY <1>1, <1>3 DEF IndInv, RowOK, Exists
<1>7. ASSUME NEW w \in work' PROVE WorkOK(w)'
  BY <1>1, <1>3 DEF IndInv, WorkOK
<1> QED BY <1>4, <1>5, <1>6, <1>7 DEF IndInv

\* A step of a request preserves the invariant if it leaves the request and
\* its job in order and makes no backup that another request makes.
LEMMA RequestFrame ==
    ASSUME IndInv, NEW t \in Tasks, NEW q \in Requests, req' = [req EXCEPT ![t] = q],
           NEW x \in Jobs, job' = [job EXCEPT ![t] = x], x.pc \in {job[t].pc, "queued"},
           UNCHANGED <<server, crashes, bak, task, work, obj>>,
           req[t].pc # "committed",
           req[t].kind = "none" \/ (q.kind = req[t].kind /\ q.bak = req[t].bak),
           req[t].pc \in {"idle", "found"} \/ x = job[t],
           RequestOK(t)',
           q.kind = "backup" /\ req[t].kind # "backup" =>
                ~Exists(q.bak) /\ \A u \in Tasks : req[u].bak # q.bak
    PROVE  IndInv'
<1>1. /\ job' \in [Tasks -> Jobs] /\ job'[t] = x
      /\ req' \in [Tasks -> Requests] /\ req'[t] = q
      /\ \A u \in Tasks : u # t => job'[u] = job[u] /\ req'[u] = req[u]
      /\ bak' = bak /\ task' = task /\ work' = work /\ obj' = obj /\ crashes' = crashes
  BY DEF IndInv, TypeOK
<1>2. TypeOK'
  BY <1>1 DEF IndInv, TypeOK, server
<1>3. ASSUME NEW b, Committed(b) PROVE Committed(b)'
  BY <1>3, <1>1 DEF Committed
<1>4. ASSUME NEW u \in Tasks PROVE RequestOK(u)'
  BY <1>1 DEF IndInv, RequestOK
<1>5. ASSUME NEW u \in Tasks PROVE JobOK(u)'
  <2>1. CASE u # t
    BY <2>1, <1>1, <1>3 DEF IndInv, JobOK
  <2>2. CASE u = t /\ req[t].pc \notin {"idle", "found"}
    <3>1. x = job[t] /\ JobOK(t) /\ req[t].kind # "none"
      BY <2>2 DEF IndInv, RequestOK, TypeOK, Requests
    <3> QED BY <3>1, <2>2, <1>1, <1>3 DEF JobOK
  <2>3. CASE u = t /\ req[t].pc \in {"idle", "found"}
    <3>1. x.pc \in {"none", "queued"} /\ JobOK(t)
      BY <2>3 DEF IndInv, RequestOK
    <3>2. q.kind = "backup" => bak[q.bak].status \in {"absent", "creating"} \/ crashes # 0
      <4>1. CASE q.kind = "backup" /\ req[t].kind # "backup"
        BY <4>1 DEF Exists
      <4>2. CASE req[t].kind = "backup"
        <5>1. job[t].pc = "none"
          BY <2>3 DEF IndInv, RequestOK
        <5> QED BY <4>2, <5>1, <3>1 DEF JobOK
      <4> QED BY <4>1, <4>2
    <3> QED BY <3>1, <3>2, <2>3, <1>1 DEF JobOK, ActivePcs
  <2> QED BY <2>1, <2>2, <2>3
<1>6. ASSUME NEW b \in Backups PROVE RowOK(b)'
  BY <1>1, <1>3 DEF IndInv, RowOK, Exists
<1>7. ASSUME NEW w \in work' PROVE WorkOK(w)'
  <2>1. w \in work /\ w.task \in Tasks /\ WorkOK(w) /\ w.kind \in {"backup", "restore"}
    BY <1>1 DEF IndInv, TypeOK, AgentWork
  <2>2. CASE w.task # t
    BY <2>1, <2>2, <1>1, <1>3 DEF WorkOK
  <2>3. CASE w.task = t
    <3>1. req[t].kind # "none" /\ q.kind = req[t].kind /\ q.bak = req[t].bak
      BY <2>1, <2>3 DEF WorkOK
    <3>2. w.heard => x = job[t]
      BY <2>1, <2>3 DEF WorkOK, IndInv, RequestOK
    <3> QED BY <2>1, <2>3, <3>1, <3>2, <1>1, <1>3 DEF WorkOK
  <2> QED BY <2>2, <2>3
<1>8. MadeOnce'
  <2> SUFFICES ASSUME NEW u \in Tasks, NEW v \in Tasks, u # v,
                      req'[u].kind = "backup", req'[v].kind = "backup",
                      req'[u].bak = req'[v].bak
               PROVE  FALSE
    BY DEF MadeOnce
  <2>1. CASE u # t /\ v # t
    BY <2>1, <1>1 DEF IndInv, MadeOnce
  <2>2. CASE u = t
    BY <2>2, <1>1 DEF IndInv, MadeOnce
  <2>3. CASE v = t
    BY <2>3, <1>1 DEF IndInv, MadeOnce
  <2> QED BY <2>1, <2>2, <2>3
<1>9. KeysOwned' /\ OneHeard'
  BY <1>1 DEF IndInv, KeysOwned, OneHeard, Awaited
<1>10. TaskMatchesBackup'
  <2> SUFFICES ASSUME NEW u \in Tasks, req'[u].kind = "backup", Exists(req'[u].bak)
               PROVE  /\ task[u].status = "succeeded" => bak[req'[u].bak].status = "available"
                      /\ task[u].status = "failed" => bak[req'[u].bak].status = "failed"
    BY <1>1 DEF TaskMatchesBackup, Exists
  <2>1. req[u].kind = "backup" /\ req'[u].bak = req[u].bak
    BY <1>1
  <2> QED BY <2>1 DEF IndInv, TaskMatchesBackup
<1> QED BY <1>2, <1>4, <1>5, <1>6, <1>7, <1>8, <1>9, <1>10 DEF IndInv

-----------------------------------------------------------------------------
(* Requests *)

\* create_pending: no request has named the new backup, so it has no row.
LEMMA CreatePendingStep ==
    ASSUME IndInv, NEW t \in Tasks, NEW b \in Backups, NEW s \in Servers, CreatePending(t, b, s)
    PROVE  IndInv'
<1> DEFINE q == [pc |-> "flushed", kind |-> "backup", bak |-> b, srv |-> s]
           x == [job[t] EXCEPT !.pc = "queued"]
<1>1. x \in Jobs /\ job' = [job EXCEPT ![t] = x] /\ x.pc = "queued"
  BY GotoState DEF CreatePending, FlushAndEnqueue
<1>2. q \in Requests /\ req' = [req EXCEPT ![t] = q]
  <2>1. q = [[pc |-> "idle", kind |-> "backup", bak |-> b, srv |-> s] EXCEPT !.pc = "flushed"]
    OBVIOUS
  <2>2. req' = [req EXCEPT ![t] = q]
    BY <2>1, Zenon DEF CreatePending, FlushAndEnqueue
  <2> QED BY <2>2 DEF Requests
<1>3. req[t].pc = "idle" /\ req[t].kind = "none"
  BY DEF CreatePending, IndInv, RequestOK
<1>4. ~Exists(b) /\ \A u \in Tasks : req[u].bak # b
  BY DEF CreatePending, IndInv, RowOK, Committed
<1>5. RequestOK(t)'
  BY <1>2 DEF IndInv, TypeOK, RequestOK
<1>6. UNCHANGED <<server, crashes, bak, task, work, obj>>
  BY DEF CreatePending
<1>7. q.kind = "backup" /\ q.bak = b
  OBVIOUS
<1> HIDE DEF q, x
<1>8. /\ req[t].pc # "committed" /\ x.pc \in {job[t].pc, "queued"}
      /\ req[t].kind = "none" \/ (q.kind = req[t].kind /\ q.bak = req[t].bak)
      /\ req[t].pc \in {"idle", "found"} \/ x = job[t]
  BY <1>1, <1>3
<1>9. q.kind = "backup" /\ req[t].kind # "backup" =>
        ~Exists(q.bak) /\ \A u \in Tasks : req[u].bak # q.bak
  BY <1>4, <1>7
<1> QED BY <1>1, <1>2, <1>5, <1>6, <1>8, <1>9, RequestFrame, Zenon

\* The restore handler finds an available backup: its archive is in the store.
LEMMA RequestRestoreFindStep ==
    ASSUME IndInv, NEW t \in Tasks, NEW b \in Backups, RequestRestoreFind(t, b)
    PROVE  IndInv'
<1> DEFINE q == [pc |-> "found", kind |-> "restore", bak |-> b, srv |-> bak[b].srv]
<1>1. job[t] \in Jobs /\ job' = [job EXCEPT ![t] = job[t]] /\ job' = job
  BY DEF RequestRestoreFind, IndInv, TypeOK
<1>2. q \in Requests /\ req' = [req EXCEPT ![t] = q]
  BY DEF RequestRestoreFind, Requests, IndInv, TypeOK, BackupRows
<1>3. req[t].pc = "idle" /\ req[t].kind = "none" /\ obj[b] = b
  BY DEF RequestRestoreFind, IndInv, RequestOK, RowOK
<1>4. UNCHANGED <<server, crashes, bak, task, work, obj>>
  BY DEF RequestRestoreFind
<1>5. RequestOK(t)'
  BY <1>1, <1>2, <1>3, <1>4 DEF IndInv, TypeOK, RequestOK
<1>6. q.kind = "restore"
  OBVIOUS
<1> HIDE DEF q
<1>7. /\ req[t].pc # "committed" /\ job[t].pc \in {job[t].pc, "queued"}
      /\ req[t].kind = "none" \/ (q.kind = req[t].kind /\ q.bak = req[t].bak)
      /\ req[t].pc \in {"idle", "found"} \/ job[t] = job[t]
  BY <1>3
<1>8. q.kind = "backup" /\ req[t].kind # "backup" =>
        ~Exists(q.bak) /\ \A u \in Tasks : req[u].bak # q.bak
  BY <1>6
<1> QED BY <1>1, <1>2, <1>4, <1>5, <1>7, <1>8, RequestFrame, Zenon

\* A request goes on, with or without a job.
LEMMA RequestRestoreStep ==
    ASSUME IndInv, NEW t \in Tasks, RequestRestore(t) PROVE IndInv'
<1>1. PICK pc \in {"flushed", "aborted"} :
        /\ req' = [req EXCEPT ![t] = [req[t] EXCEPT !.pc = pc]]
        /\ IF pc = "flushed" THEN Goto(t, "queued") ELSE job' = job
  BY DEF RequestRestore, FlushAndEnqueue, IndInv, TypeOK, Requests
<1> DEFINE q == [req[t] EXCEPT !.pc = pc]
           x == IF pc = "flushed" THEN [job[t] EXCEPT !.pc = "queued"] ELSE job[t]
<1>2. /\ q \in Requests /\ q.pc = pc /\ q.kind = req[t].kind /\ q.bak = req[t].bak
      /\ req' = [req EXCEPT ![t] = q] /\ req'[t] = q
  BY <1>1 DEF IndInv, TypeOK, Requests
<1>3. x \in Jobs /\ job' = [job EXCEPT ![t] = x] /\ x.pc \in {job[t].pc, "queued"}
  BY <1>1, GotoState DEF IndInv, TypeOK
<1>4. req[t].pc = "found" /\ UNCHANGED <<server, crashes, bak, task, work, obj>>
  BY DEF RequestRestore
<1> HIDE DEF q, x
<1>5. RequestOK(t)'
  <2>1. req[t].kind # "none" /\ req[t].bak \in Backups /\ obj' = obj
    BY <1>4 DEF IndInv, RequestOK
  <2> QED BY <1>2, <2>1 DEF IndInv, RequestOK
<1> QED BY <1>2, <1>3, <1>4, <1>5, RequestFrame

LEMMA RollbackStep ==
    ASSUME IndInv, NEW t \in Tasks, Rollback(t) PROVE IndInv'
<1> DEFINE q == [req[t] EXCEPT !.pc = "aborted"]
<1>1. job[t] \in Jobs /\ job' = [job EXCEPT ![t] = job[t]] /\ job' = job
  BY DEF Rollback, IndInv, TypeOK
<1>2. /\ q \in Requests /\ q.pc = "aborted" /\ q.kind = req[t].kind /\ q.bak = req[t].bak
      /\ req' = [req EXCEPT ![t] = q] /\ req'[t] = q
  BY DEF Rollback, IndInv, TypeOK, Requests
<1>3. req[t].pc = "flushed" /\ UNCHANGED <<server, crashes, bak, task, work, obj>>
  BY DEF Rollback
<1>4. RequestOK(t)'
  BY <1>1, <1>2, <1>3 DEF IndInv, RequestOK
<1> HIDE DEF q
<1> QED BY <1>1, <1>2, <1>3, <1>4, RequestFrame

\* The task, and the backup of a request that makes one, become visible.
LEMMA CommitStep ==
    ASSUME IndInv, NEW t \in Tasks, Commit(t) PROVE IndInv'
<1> DEFINE q == [req[t] EXCEPT !.pc = "committed"]
<1>1. /\ q \in Requests /\ q.pc = "committed" /\ q.kind = req[t].kind
      /\ q.bak = req[t].bak /\ q.srv = req[t].srv
      /\ req' = [req EXCEPT ![t] = q] /\ req' \in [Tasks -> Requests] /\ req'[t] = q
      /\ \A u \in Tasks : u # t => req'[u] = req[u]
      /\ req[t] \in Requests /\ req[t].pc = "flushed"
  BY DEF Commit, IndInv, TypeOK, Requests
<1> HIDE DEF q
<1>2. /\ UNCHANGED <<server, crashes>> /\ job' = job /\ work' = work /\ obj' = obj
      /\ crashes' = crashes
  BY DEF Commit
<1>3. \A u \in Tasks : /\ req'[u].kind = req[u].kind /\ req'[u].bak = req[u].bak
                       /\ req[u].pc = "committed" => req'[u].pc = "committed"
  BY <1>1
<1>4. req[t].kind \in {"backup", "restore"} /\ req[t].bak \in Backups
  BY <1>1, NamesBackup DEF IndInv, RequestOK, Requests
<1>5. /\ task' \in [Tasks -> TaskRows] /\ task'[t].status = "pending"
      /\ \A u \in Tasks : u # t => task'[u] = task[u]
  BY <1>1 DEF Commit, IndInv, TypeOK, TaskRows, TaskStatuses, Requests
<1>6. /\ bak' \in [Backups -> BackupRows]
      /\ req[t].kind # "backup" => bak' = bak
      /\ req[t].kind = "backup" => bak'[req[t].bak].status = "creating"
      /\ \A b \in Backups : b # req[t].bak => bak'[b] = bak[b]
  BY <1>1, <1>4 DEF Commit, IndInv, TypeOK, BackupRows, BackupStatuses, Requests
<1>7. ASSUME NEW b, Committed(b) PROVE Committed(b)'
  BY <1>3, <1>7 DEF Committed
<1>8. ASSUME NEW b, req[t].kind = "backup", b = req[t].bak PROVE Committed(b)'
  BY <1>1, <1>8 DEF Committed
<1>9. TypeOK'
  BY <1>1, <1>2, <1>5, <1>6 DEF IndInv, TypeOK, server
<1>10. ASSUME NEW u \in Tasks PROVE RequestOK(u)'
  BY <1>1, <1>2, <1>4 DEF IndInv, RequestOK
<1>11. ASSUME NEW u \in Tasks PROVE JobOK(u)'
  <2>1. JobOK(u)
    BY DEF IndInv
  <2>2. ASSUME crashes = 0, req[u].kind = "backup", job[u].pc \notin {"ended", "done"}
        PROVE  bak'[req[u].bak].status \in {"absent", "creating"}
    <3>1. CASE req[t].kind = "backup" /\ req[u].bak = req[t].bak
      BY <3>1, <1>6
    <3>2. CASE req[t].kind # "backup"
      BY <3>2, <2>1, <2>2, <1>6 DEF JobOK
    <3>3. CASE req[u].bak # req[t].bak
      BY <3>3, <2>1, <2>2, <1>6, NamesBackup DEF JobOK
    <3> QED BY <3>1, <3>2, <3>3
  <2> QED BY <2>1, <2>2, <1>2, <1>3, <1>7 DEF JobOK
<1>12. ASSUME NEW b \in Backups PROVE RowOK(b)'
  <2>1. CASE req[t].kind = "backup" /\ b = req[t].bak
    BY <2>1, <1>6, <1>8 DEF RowOK, Exists
  <2>2. CASE bak'[b] = bak[b]
    BY <2>2, <1>2, <1>3, <1>7 DEF IndInv, RowOK, Exists
  <2> QED BY <2>1, <2>2, <1>6
<1>13. ASSUME NEW w \in work' PROVE WorkOK(w)'
  <2>1. w \in work /\ w.task \in Tasks /\ WorkOK(w)
    BY <1>2 DEF IndInv, TypeOK, AgentWork
  <2> QED BY <2>1, <1>2, <1>3, <1>7 DEF WorkOK
<1>14. MadeOnce' /\ KeysOwned' /\ OneHeard'
  BY <1>2, <1>3 DEF IndInv, MadeOnce, KeysOwned, OneHeard, Awaited
<1>15. TaskMatchesBackup'
  <2> SUFFICES ASSUME NEW u \in Tasks, req[u].kind = "backup",
                      bak'[req[u].bak].status # "absent"
               PROVE  /\ task'[u].status = "succeeded" => bak'[req[u].bak].status = "available"
                      /\ task'[u].status = "failed" => bak'[req[u].bak].status = "failed"
    BY <1>3 DEF TaskMatchesBackup, Exists
  <2>1. CASE u # t
    <3>1. bak'[req[u].bak] = bak[req[u].bak]
      BY <2>1, <1>6, NamesBackup DEF IndInv, MadeOnce
    <3> QED BY <2>1, <3>1, <1>5 DEF IndInv, TaskMatchesBackup, Exists
  <2>2. CASE u = t
    BY <2>2, <1>5
  <2> QED BY <2>1, <2>2
<1> QED BY <1>9, <1>10, <1>11, <1>12, <1>13, <1>14, <1>15 DEF IndInv

-----------------------------------------------------------------------------
(* Jobs *)

\* A job that goes on by itself without a mark.
LEMMA JobMoves ==
    ASSUME IndInv, NEW t \in Tasks, NEW x \in Jobs, job' = [job EXCEPT ![t] = x],
           job[t].pc \notin {"none", "wait"},
           UNCHANGED <<server, crashes, bak, task, req, work, obj>>,
           x.pc \in ActivePcs \ {"load"} => x.srv \in Servers /\ Committed(req[t].bak),
           x.pc \in {"save", "save_write"} => job[t].pc \in {"save", "save_write"},
           x.pc \in {"save_write", "fail_write"} => req[t].kind = "backup",
           job[t].pc \in {"ended", "done"} => x.pc \in {"ended", "done"}
    PROVE  IndInv'
<1>1. /\ job'[t] = x /\ bak' = bak /\ task' = task /\ req' = req /\ obj' = obj
      /\ crashes' = crashes
  BY DEF IndInv, TypeOK
<1>2. Committed(req[t].bak)' <=> Committed(req[t].bak)
  BY <1>1 DEF Committed
<1>3. JobOK(t)'
  BY <1>1, <1>2 DEF IndInv, JobOK
<1>4. UNCHANGED <<server, crashes, req, work, obj>>
  OBVIOUS
<1>5. req[t].kind = "backup" /\ Exists(req[t].bak)' =>
        /\ task'[t].status = "succeeded" => bak'[req[t].bak].status = "available"
        /\ task'[t].status = "failed" => bak'[req[t].bak].status = "failed"
  BY <1>1 DEF IndInv, TaskMatchesBackup, Exists
<1> QED BY <1>1, <1>3, <1>4, <1>5, JobFrame

\* A job that ends and marks its task, and its backup if it makes one.
LEMMA JobEnds ==
    ASSUME IndInv, NEW t \in Tasks, Goto(t, "ended"), job[t].pc \notin {"none", "wait"},
           UNCHANGED <<server, crashes, req, work, obj>>,
           NEW st \in {"succeeded", "failed"}, task' = Marked(t, st),
           NEW bst \in {"available", "failed"}, (st = "succeeded") <=> (bst = "available"),
           bak' = IF req[t].kind = "backup" THEN MarkedBackup(req[t].bak, bst) ELSE bak,
           req[t].kind = "backup" /\ bst = "available" => obj[req[t].bak] = req[t].bak
    PROVE  IndInv'
<1> DEFINE x == [job[t] EXCEPT !.pc = "ended"]
<1>1. x \in Jobs /\ job' = [job EXCEPT ![t] = x] /\ x.pc = "ended"
  BY GotoState
<1> HIDE DEF x
<1>2. job'[t].pc = "ended" /\ req' = req
  BY <1>1 DEF IndInv, TypeOK
<1>3. JobOK(t)'
  BY <1>2 DEF JobOK, ActivePcs
<1>4. task' = task \/ \E y \in TaskStatuses : task' = [task EXCEPT ![t].status = y]
  BY DEF Marked, TaskStatuses
<1>5. task'[t].status \in {"absent", st}
  BY DEF IndInv, TypeOK, TaskRows, Marked, Visible
<1>6. req[t].kind = "backup" /\ Exists(req[t].bak)' => bak'[req[t].bak].status = bst
  BY <1>2, NamesBackup DEF IndInv, TypeOK, BackupRows, MarkedBackup, Exists
<1>7. req[t].kind = "backup" /\ Exists(req[t].bak)' =>
        /\ task'[t].status = "succeeded" => bak'[req[t].bak].status = "available"
        /\ task'[t].status = "failed" => bak'[req[t].bak].status = "failed"
  BY <1>5, <1>6
<1>8. \/ bak' = bak
      \/ /\ req[t].kind = "backup"
         /\ \E y \in {"available", "failed"} :
               /\ bak' = MarkedBackup(req[t].bak, y)
               /\ y = "available" => obj[req[t].bak] = req[t].bak
  OBVIOUS
<1> QED BY <1>1, <1>3, <1>4, <1>7, <1>8, JobFrame

\* What a job that has loaded its rows may rely on.
LEMMA JobLoaded ==
    ASSUME IndInv, NEW t \in Tasks, job[t].pc \in ActivePcs \ {"load"}
    PROVE  job[t].srv \in Servers /\ Committed(req[t].bak)
  BY DEF IndInv, JobOK

\* Another attempt, or the end of the call.
LEMMA AttemptFailsState ==
    ASSUME IndInv, NEW t \in Tasks, AttemptFails(t)
    PROVE  \E x \in Jobs : /\ job' = [job EXCEPT ![t] = x]
                           /\ x.pc \in {"call", "fail"} /\ x.srv = job[t].srv
<1>1. CASE job[t].att + 1 < MaxRetries
  <2> DEFINE x == [job[t] EXCEPT !.pc = "call", !.att = @ + 1]
  <2>1. job' = [job EXCEPT ![t] = x] /\ x.pc = "call" /\ x.srv = job[t].srv
    BY <1>1 DEF AttemptFails, Becomes, IndInv, TypeOK, Jobs
  <2>2. job[t].att + 1 \in 0 .. MaxRetries - 1
    BY <1>1, BackupsAssumption DEF IndInv, TypeOK, Jobs
  <2>3. x \in Jobs
    BY <2>2 DEF IndInv, TypeOK, Jobs, ActivePcs
  <2> QED BY <2>1, <2>3
<1>2. CASE ~(job[t].att + 1 < MaxRetries)
  <2>1. PICK pc \in {"fail"} : Goto(t, pc)
    BY <1>2 DEF AttemptFails
  <2> DEFINE x == [job[t] EXCEPT !.pc = pc]
  <2>2. pc \in {"none", "queued", "ended", "done"} \cup ActivePcs
    BY DEF ActivePcs
  <2>3. x \in Jobs /\ job' = [job EXCEPT ![t] = x] /\ x.pc = "fail" /\ x.srv = job[t].srv
    BY <2>1, <2>2, GotoState
  <2> HIDE DEF x
  <2> QED BY <2>3
<1> QED BY <1>1, <1>2

LEMMA JobStartStep ==
    ASSUME IndInv, NEW t \in Tasks, JobStart(t) PROVE IndInv'
<1> DEFINE x == [job[t] EXCEPT !.pc = "load", !.seen = task[t].status]
<1>1. x \in Jobs /\ x.pc = "load" /\ job[t].pc = "queued"
  BY DEF JobStart, IndInv, TypeOK, Jobs, TaskRows, ActivePcs
<1>2. job' = [job EXCEPT ![t] = x]
  BY DEF JobStart, Becomes
<1>3. UNCHANGED <<server, crashes, bak, task, req, work, obj>>
  BY DEF JobStart
<1> HIDE DEF x
<1> QED BY <1>1, <1>2, <1>3, JobMoves DEF ActivePcs

LEMMA LoadMissingStep ==
    ASSUME IndInv, NEW t \in Tasks, LoadMissing(t) PROVE IndInv'
<1> DEFINE x == [job[t] EXCEPT !.pc = "ended", !.end = "early"]
<1>1. x \in Jobs /\ x.pc = "ended" /\ job[t].pc = "load"
  BY DEF LoadMissing, IndInv, TypeOK, Jobs
<1>2. job' = [job EXCEPT ![t] = x]
  BY DEF LoadMissing, Becomes
<1>3. UNCHANGED <<server, crashes, bak, task, req, work, obj>>
  BY DEF LoadMissing
<1> HIDE DEF x
<1> QED BY <1>1, <1>2, <1>3, JobMoves DEF ActivePcs

\* A job that may not work, or finds no node, marks the failure.
LEMMA FailedBeforeCallStep ==
    ASSUME IndInv, NEW t \in Tasks, LoadFails(t) \/ NodeMissing(t) PROVE IndInv'
<1>1. /\ Goto(t, "ended") /\ job[t].pc \in {"load", "no_node"}
      /\ UNCHANGED <<server, crashes, req, work, obj>>
      /\ task' = Marked(t, "failed")
      /\ bak' = IF req[t].kind = "backup" THEN MarkedBackup(req[t].bak, "failed") ELSE bak
  BY DEF LoadFails, NodeMissing
<1>2. PICK st \in {"succeeded", "failed"} : st = "failed"
  OBVIOUS
<1>3. PICK bst \in {"available", "failed"} : bst = "failed"
  OBVIOUS
<1> QED BY <1>1, <1>2, <1>3, JobEnds

\* The rows a job needs are there: the backup is committed.
LEMMA LoadStep ==
    ASSUME IndInv, NEW t \in Tasks, Load(t) PROVE IndInv'
<1> DEFINE x == [job[t] EXCEPT !.pc = "node", !.srv = task[t].srv]
<1>1. x \in Jobs /\ x.pc = "node" /\ x.srv \in Servers /\ job[t].pc = "load"
  BY DEF Load, Ready, IndInv, TypeOK, Jobs, TaskRows, ActivePcs
<1>2. job' = [job EXCEPT ![t] = x]
  BY DEF Load, Becomes
<1>3. UNCHANGED <<server, crashes, bak, task, req, work, obj>>
  BY DEF Load
<1>4. Committed(req[t].bak)
  BY <1>1, NamesBackup DEF Load, Ready, IndInv, RowOK
<1> HIDE DEF x
<1> QED BY <1>1, <1>2, <1>3, <1>4, JobMoves

\* The node is found or not; the task, if it was there at first, runs.
LEMMA FindNodeStep ==
    ASSUME IndInv, NEW t \in Tasks, FindNode(t) PROVE IndInv'
<1>1. PICK pc \in {"no_node", "call"} : job' = [job EXCEPT ![t] = [job[t] EXCEPT !.att = 0, !.pc = pc]]
  BY DEF FindNode, Becomes
<1> DEFINE x == [job[t] EXCEPT !.att = 0, !.pc = pc]
<1>2. 0 \in 0 .. MaxRetries - 1
  BY BackupsAssumption
<1>3. x \in Jobs /\ x.pc = pc /\ x.srv = job[t].srv /\ job' = [job EXCEPT ![t] = x]
  BY <1>1, <1>2 DEF IndInv, TypeOK, Jobs, ActivePcs
<1> HIDE DEF x
<1>4. /\ job[t].pc = "node" /\ UNCHANGED <<server, crashes, req, work, obj>>
      /\ req' = req /\ crashes' = crashes /\ bak' = bak
      /\ task' \in {task, Marked(t, "running")}
  BY DEF FindNode
<1>5. job'[t] = x
  BY <1>3 DEF IndInv, TypeOK
<1>6. job[t].srv \in Servers /\ Committed(req[t].bak)
  BY <1>4, JobLoaded DEF ActivePcs
<1>7. JobOK(t)'
  <2>1. Committed(req[t].bak)'
    BY <1>4, <1>6 DEF Committed
  <2>2. JobOK(t)
    BY DEF IndInv
  <2> QED BY <2>1, <2>2, <1>3, <1>4, <1>5, <1>6 DEF JobOK
<1>8. /\ task' = task \/ \E st \in TaskStatuses : task' = [task EXCEPT ![t].status = st]
      /\ task' = task \/ task'[t].status = "running"
  BY <1>4 DEF Marked, TaskStatuses, IndInv, TypeOK, TaskRows
<1>9. req[t].kind = "backup" /\ Exists(req[t].bak)' =>
        /\ task'[t].status = "succeeded" => bak'[req[t].bak].status = "available"
        /\ task'[t].status = "failed" => bak'[req[t].bak].status = "failed"
  BY <1>4, <1>8 DEF IndInv, TaskMatchesBackup, Exists
<1> QED BY <1>3, <1>4, <1>7, <1>8, <1>9, JobFrame

\* The answer is saved: a restore ends here, a backup reads its row.
LEMMA SaveStep ==
    ASSUME IndInv, NEW t \in Tasks, Save(t) PROVE IndInv'
<1>1. /\ job[t].pc = "save" /\ UNCHANGED <<server, crashes, req, work, obj>>
      /\ bak' = bak
  BY DEF Save
<1>2. CASE req[t].kind = "restore"
  <2>1. Goto(t, "ended") /\ task' = Marked(t, "succeeded")
    BY <1>2 DEF Save
  <2>2. PICK st \in {"succeeded", "failed"} : st = "succeeded"
    OBVIOUS
  <2>3. PICK bst \in {"available", "failed"} : bst = "available"
    OBVIOUS
  <2> QED BY <1>1, <1>2, <2>1, <2>2, <2>3, JobEnds
<1>3. CASE req[t].kind # "restore"
  <2> DEFINE x == [job[t] EXCEPT !.pc = "save_write", !.seen = bak[req[t].bak].status]
  <2>1. job' = [job EXCEPT ![t] = x]
    BY <1>3 DEF Save, Becomes
  <2>2. /\ req[t].bak \in Backups /\ job[t].srv \in Servers /\ Committed(req[t].bak)
        /\ req[t].kind = "backup"
    BY <1>1, <1>3, NamesBackup, JobLoaded DEF ActivePcs
  <2>3. x \in Jobs /\ x.pc = "save_write" /\ x.srv = job[t].srv
    BY <2>2 DEF IndInv, TypeOK, Jobs, BackupRows, ActivePcs
  <2>4. UNCHANGED <<server, crashes, bak, task, req, work, obj>>
    BY <1>3 DEF Save
  <2> HIDE DEF x
  <2> QED BY <1>1, <2>1, <2>2, <2>3, <2>4, JobMoves
<1> QED BY <1>2, <1>3

\* mark_available, unless the row has gone.
LEMMA SaveWriteStep ==
    ASSUME IndInv, NEW t \in Tasks, SaveWrite(t) PROVE IndInv'
<1>1. /\ job[t].pc = "save_write" /\ UNCHANGED <<server, crashes, req, work, obj>>
      /\ job[t].srv \in Servers /\ Committed(req[t].bak) /\ obj[req[t].bak] = req[t].bak
  BY JobLoaded DEF SaveWrite, ActivePcs, IndInv, JobOK
<1>2. CASE Stale(t)
  <2> DEFINE x == [job[t] EXCEPT !.pc = "fail"]
  <2>1. x \in Jobs /\ job' = [job EXCEPT ![t] = x] /\ x.pc = "fail" /\ x.srv = job[t].srv
    BY <1>2, GotoState DEF SaveWrite, ActivePcs
  <2>2. UNCHANGED <<server, crashes, bak, task, req, work, obj>>
    BY <1>2 DEF SaveWrite
  <2> HIDE DEF x
  <2> QED BY <1>1, <2>1, <2>2, JobMoves
<1>3. CASE ~Stale(t)
  <2>1. /\ Goto(t, "ended") /\ task' = Marked(t, "succeeded")
        /\ bak' = MarkedBackup(req[t].bak, "available")
    BY <1>3 DEF SaveWrite
  <2>2. req[t].kind = "backup"
    BY <1>1 DEF IndInv, JobOK
  <2>3. PICK st \in {"succeeded", "failed"} : st = "succeeded"
    OBVIOUS
  <2>4. PICK bst \in {"available", "failed"} : bst = "available"
    OBVIOUS
  <2> QED BY <1>1, <2>1, <2>2, <2>3, <2>4, JobEnds
<1> QED BY <1>2, <1>3

\* The except block: a restore ends here, a backup reads its row.
LEMMA FailStep ==
    ASSUME IndInv, NEW t \in Tasks, Fail(t) PROVE IndInv'
<1>1. /\ job[t].pc = "fail" /\ UNCHANGED <<server, crashes, req, work, obj>>
      /\ bak' = bak
  BY DEF Fail
<1>2. CASE req[t].kind = "restore"
  <2>1. Goto(t, "ended") /\ task' = Marked(t, "failed")
    BY <1>2 DEF Fail
  <2>2. PICK st \in {"succeeded", "failed"} : st = "failed"
    OBVIOUS
  <2>3. PICK bst \in {"available", "failed"} : bst = "failed"
    OBVIOUS
  <2> QED BY <1>1, <1>2, <2>1, <2>2, <2>3, JobEnds
<1>3. CASE req[t].kind # "restore"
  <2> DEFINE x == [job[t] EXCEPT !.pc = "fail_write", !.seen = bak[req[t].bak].status]
  <2>1. job' = [job EXCEPT ![t] = x]
    BY <1>3 DEF Fail, Becomes
  <2>2. /\ req[t].bak \in Backups /\ job[t].srv \in Servers /\ Committed(req[t].bak)
        /\ req[t].kind = "backup"
    BY <1>1, <1>3, NamesBackup, JobLoaded DEF ActivePcs
  <2>3. x \in Jobs /\ x.pc = "fail_write" /\ x.srv = job[t].srv
    BY <2>2 DEF IndInv, TypeOK, Jobs, BackupRows, ActivePcs
  <2>4. UNCHANGED <<server, crashes, bak, task, req, work, obj>>
    BY <1>3 DEF Fail
  <2> HIDE DEF x
  <2> QED BY <1>1, <2>1, <2>2, <2>3, <2>4, JobMoves
<1> QED BY <1>2, <1>3

\* mark_failed, unless the row has gone: then nothing is marked.
LEMMA FailWriteStep ==
    ASSUME IndInv, NEW t \in Tasks, FailWrite(t) PROVE IndInv'
<1>1. /\ job[t].pc = "fail_write" /\ UNCHANGED <<server, crashes, req, work, obj>>
      /\ Goto(t, "ended") /\ req[t].kind = "backup"
  BY DEF FailWrite, IndInv, JobOK
<1>2. CASE Stale(t)
  <2> DEFINE x == [job[t] EXCEPT !.pc = "ended"]
  <2>1. x \in Jobs /\ job' = [job EXCEPT ![t] = x] /\ x.pc = "ended"
    BY <1>1, GotoState
  <2>2. UNCHANGED <<server, crashes, bak, task, req, work, obj>>
    BY <1>2 DEF FailWrite
  <2> HIDE DEF x
  <2> QED BY <1>1, <2>1, <2>2, JobMoves DEF ActivePcs
<1>3. CASE ~Stale(t)
  <2>1. task' = Marked(t, "failed") /\ bak' = MarkedBackup(req[t].bak, "failed")
    BY <1>3 DEF FailWrite
  <2>2. PICK st \in {"succeeded", "failed"} : st = "failed"
    OBVIOUS
  <2>3. PICK bst \in {"available", "failed"} : bst = "failed"
    OBVIOUS
  <2> QED BY <1>1, <2>1, <2>2, <2>3, JobEnds
<1> QED BY <1>2, <1>3

LEMMA ArqFinishStep ==
    ASSUME IndInv, NEW t \in Tasks, ArqFinish(t) PROVE IndInv'
<1> DEFINE x == [NoJob EXCEPT !.pc = "done", !.end = job[t].end]
<1>1. 0 \in 0 .. MaxRetries - 1
  BY BackupsAssumption
<1>2. x \in Jobs /\ x.pc = "done" /\ job[t].pc = "ended"
  BY <1>1 DEF ArqFinish, NoJob, IndInv, TypeOK, Jobs, BackupStatuses
<1>3. job' = [job EXCEPT ![t] = x]
  BY DEF ArqFinish, Becomes
<1>4. UNCHANGED <<server, crashes, bak, task, req, work, obj>>
  BY DEF ArqFinish
<1> HIDE DEF x
<1> QED BY <1>2, <1>3, <1>4, JobMoves DEF ActivePcs

-----------------------------------------------------------------------------
(* Calls and agents *)

LEMMA ConnectFailsStep ==
    ASSUME IndInv, NEW t \in Tasks, ConnectFails(t) PROVE IndInv'
<1>1. PICK x \in Jobs : /\ job' = [job EXCEPT ![t] = x]
                        /\ x.pc \in {"call", "fail"} /\ x.srv = job[t].srv
  BY AttemptFailsState DEF ConnectFails
<1>2. job[t].pc = "call" /\ UNCHANGED <<server, crashes, bak, task, req, work, obj>>
  BY DEF ConnectFails
<1>3. job[t].srv \in Servers /\ Committed(req[t].bak)
  BY <1>2, JobLoaded DEF ActivePcs
<1> QED BY <1>1, <1>2, <1>3, JobMoves

\* AgentFrame for a step that leaves the store and the workers alone.
LEMMA CallFrame ==
    ASSUME IndInv, NEW t \in Tasks, NEW x \in Jobs, job' = [job EXCEPT ![t] = x],
           job[t].pc # "none" \/ x = job[t], UNCHANGED <<server, crashes, bak, task, req, obj>>,
           JobOK(t)', work' \subseteq AgentWork,
           \A w \in work' : \/ w \in work /\ (w.task # t \/ ~w.heard)
                            \/ w.task = t /\ WorkOK(w)',
           \A v, w \in work' : v.task = t /\ w.task = t /\ v.heard /\ w.heard => v = w
    PROVE  IndInv'
<1>1. UNCHANGED <<server, bak, task, req>> /\ crashes' = crashes /\ obj' = obj
  OBVIOUS
<1>2. /\ crashes' \in 0 .. MaxCrashes /\ crashes' >= crashes
      /\ DOMAIN obj' = Backups \cup Servers
      /\ obj' \in [Backups \cup Servers -> Backups \cup {None}]
  BY <1>1 DEF IndInv, TypeOK
<1>3. \A k \in Backups \cup Servers : obj'[k] = obj[k] \/ (k \in Backups /\ obj'[k] = k)
  BY <1>1
<1> QED BY <1>1, <1>2, <1>3, AgentFrame

\* A job whose call has ended is in order where it goes.
LEMMA JobAfterCall ==
    ASSUME IndInv, NEW t \in Tasks, NEW x \in Jobs, job' = [job EXCEPT ![t] = x],
           UNCHANGED <<crashes, bak, req, obj>>, job[t].pc \in {"call", "wait"},
           x.pc \in {"call", "wait", "fail", "save", "ended"},
           x.pc # "ended" => x.srv = job[t].srv,
           x.pc = "save" => obj[req[t].bak] = req[t].bak
    PROVE  JobOK(t)'
<1>1. job[t].srv \in Servers /\ Committed(req[t].bak) /\ JobOK(t)
  BY JobLoaded DEF ActivePcs, IndInv
<1>2. Committed(req[t].bak)'
  BY <1>1 DEF Committed
<1>3. job'[t] = x
  BY DEF IndInv, TypeOK
<1> QED BY <1>1, <1>2, <1>3 DEF JobOK, ActivePcs

\* A request reaches its agent: nobody was heard, one is heard now.
LEMMA SendStep ==
    ASSUME IndInv, NEW t \in Tasks, Send(t) PROVE IndInv'
<1> DEFINE x == [job[t] EXCEPT !.pc = "wait"]
           y == [task |-> t, run |-> crashes, kind |-> req[t].kind, bak |-> req[t].bak,
                 srv |-> job[t].srv, stage |-> "open", heard |-> TRUE]
<1>1. x \in Jobs /\ job' = [job EXCEPT ![t] = x] /\ x.pc = "wait" /\ x.srv = job[t].srv
  BY GotoState DEF Send, ActivePcs
<1>2. /\ job[t].pc = "call" /\ work' = work \cup {y}
      /\ UNCHANGED <<server, crashes, bak, task, req, obj>>
  BY DEF Send
<1>3. /\ job[t].srv \in Servers /\ Committed(req[t].bak)
      /\ req[t].bak \in Backups /\ req[t].kind \in {"backup", "restore"}
  BY <1>2, JobLoaded, NamesBackup DEF ActivePcs
<1>4. y \in AgentWork
  BY <1>3 DEF AgentWork, IndInv, TypeOK
<1>5. PICK w0 \in AgentWork :
        /\ work' = work \cup {w0} /\ w0.task = t /\ w0.stage = "open"
        /\ w0.kind = req[t].kind /\ w0.bak = req[t].bak
  BY <1>2, <1>4
<1> HIDE DEF x, y
<1>6. JobOK(t)'
  BY <1>1, <1>2, JobAfterCall
<1>7. WorkOK(w0)'
  <2>1. Committed(w0.bak)'
    BY <1>2, <1>3, <1>5 DEF Committed
  <2>2. job'[t].pc = "wait"
    BY <1>1 DEF IndInv, TypeOK
  <2> QED BY <1>2, <1>5, <2>1, <2>2 DEF WorkOK
<1>8. \A w \in work : w.task = t => ~w.heard
  BY <1>2 DEF IndInv, WorkOK
<1>9. work' \subseteq AgentWork
  BY <1>5 DEF IndInv, TypeOK
<1>10. /\ \A w \in work' : \/ w \in work /\ (w.task # t \/ ~w.heard)
                           \/ w.task = t /\ WorkOK(w)'
       /\ \A v, w \in work' : v.task = t /\ w.task = t /\ v.heard /\ w.heard => v = w
  BY <1>5, <1>7, <1>8
<1> QED BY <1>1, <1>2, <1>6, <1>9, <1>10, CallFrame

\* The job that goes on from a piece of work: the one that waits for it, or none.
LEMMA HeardJob ==
    ASSUME IndInv, NEW w \in work
    PROVE  /\ w \in AgentWork /\ w.task \in Tasks /\ w.bak \in Backups /\ w.srv \in Servers
           /\ WorkOK(w) /\ req[w.task].bak = w.bak /\ req[w.task].kind = w.kind
           /\ Committed(w.bak) /\ job[w.task] \in Jobs
           /\ w.heard => /\ job[w.task].pc = "wait"
                         /\ \A v \in work : v.task = w.task /\ v.heard => v = w
<1>1. w \in AgentWork /\ w.task \in Tasks /\ w.bak \in Backups /\ w.srv \in Servers /\ WorkOK(w)
  BY DEF IndInv, TypeOK, AgentWork
<1>2. \A v \in work : v.task = w.task /\ v.heard /\ w.heard => v = w
  BY <1>1 DEF IndInv, OneHeard, Awaited
<1>3. job[w.task] \in Jobs
  BY <1>1 DEF IndInv, TypeOK
<1> QED BY <1>1, <1>2, <1>3 DEF WorkOK

\* A piece of work that is done, or given up, goes away; its caller goes on.
LEMMA WorkEnds ==
    ASSUME IndInv, NEW w \in work, work' = work \ {w},
           UNCHANGED <<server, crashes, bak, task, req, obj>>,
           NEW x \in Jobs, job' = [job EXCEPT ![w.task] = x],
           \/ /\ w.heard /\ x.pc \in {"call", "fail", "save"} /\ x.srv = job[w.task].srv
              /\ x.pc = "save" => w.stage = "moved"
           \/ ~w.heard /\ x = job[w.task]
    PROVE  IndInv'
<1>1. /\ w.task \in Tasks /\ req[w.task].bak = w.bak /\ WorkOK(w)
      /\ w.heard => /\ job[w.task].pc = "wait"
                    /\ \A v \in work : v.task = w.task /\ v.heard => v = w
  BY HeardJob
<1>2. JobOK(w.task)'
  <2>1. PICK t \in Tasks : t = w.task
    BY <1>1
  <2>2. CASE w.heard
    <3>1. x.pc = "save" => obj[req[t].bak] = req[t].bak
      BY <1>1, <2>1, <2>2 DEF WorkOK
    <3> QED BY <1>1, <2>1, <2>2, <3>1, JobAfterCall
  <2>3. CASE ~w.heard
    <3>1. job' = job /\ JobOK(t) /\ req' = req /\ obj' = obj /\ bak' = bak /\ crashes' = crashes
      BY <2>1, <2>3 DEF IndInv, TypeOK
    <3>2. Committed(req[t].bak)' <=> Committed(req[t].bak)
      BY <3>1 DEF Committed
    <3> QED BY <2>1, <3>1, <3>2 DEF JobOK
  <2> QED BY <2>2, <2>3
<1>3. ASSUME NEW v \in work'
      PROVE  \/ v \in work /\ (v.task # w.task \/ ~v.heard)
             \/ v.task = w.task /\ WorkOK(v)'
  <2>1. v \in work /\ v # w
    OBVIOUS
  <2>2. CASE w.heard
    BY <2>1, <2>2, <1>1
  <2>3. CASE ~w.heard
    <3>1. job' = job /\ req' = req /\ obj' = obj /\ WorkOK(v)
      BY <2>1, <2>3 DEF IndInv, TypeOK
    <3>2. Committed(v.bak)' <=> Committed(v.bak)
      BY <3>1 DEF Committed
    <3> QED BY <2>1, <3>1, <3>2 DEF WorkOK
  <2> QED BY <2>2, <2>3
<1>4. \A u, v \in work' : u.task = w.task /\ v.task = w.task /\ u.heard /\ v.heard => u = v
  BY <1>1 DEF IndInv, OneHeard, Awaited
<1>5. work' \subseteq AgentWork
  BY DEF IndInv, TypeOK
<1>6. job[w.task].pc # "none" \/ x = job[w.task]
  BY <1>1
<1> QED BY <1>1, <1>2, <1>3, <1>4, <1>5, <1>6, CallFrame

LEMMA AnswerStep ==
    ASSUME IndInv, NEW w \in work, Answer(w) PROVE IndInv'
<1>1. /\ w.stage = "moved" /\ work' = work \ {w} /\ w.task \in Tasks /\ job[w.task] \in Jobs
      /\ UNCHANGED <<server, crashes, bak, task, req, obj>>
  BY HeardJob DEF Answer
<1>2. CASE w.heard
  <2> DEFINE x == [job[w.task] EXCEPT !.pc = "save"]
  <2>1. x \in Jobs /\ job' = [job EXCEPT ![w.task] = x] /\ x.pc = "save" /\ x.srv = job[w.task].srv
    BY <1>1, <1>2, GotoState DEF Answer, ActivePcs
  <2> HIDE DEF x
  <2> QED BY <1>1, <1>2, <2>1, WorkEnds
<1>3. CASE ~w.heard
  <2>1. job' = [job EXCEPT ![w.task] = job[w.task]]
    BY <1>1, <1>3 DEF Answer, IndInv, TypeOK
  <2> QED BY <1>1, <1>3, <2>1, WorkEnds
<1> QED BY <1>2, <1>3

LEMMA AgentFailsStep ==
    ASSUME IndInv, NEW w \in work, AgentFails(w) PROVE IndInv'
<1>1. /\ work' = work \ {w} /\ w.task \in Tasks /\ job[w.task] \in Jobs
      /\ UNCHANGED <<server, crashes, bak, task, req, obj>>
  BY HeardJob DEF AgentFails
<1>2. CASE w.heard
  <2>1. PICK x \in Jobs : /\ job' = [job EXCEPT ![w.task] = x]
                          /\ x.pc \in {"call", "fail"} /\ x.srv = job[w.task].srv
    BY <1>1, <1>2, AttemptFailsState DEF AgentFails
  <2> QED BY <1>1, <1>2, <2>1, WorkEnds
<1>3. CASE ~w.heard
  <2>1. job' = [job EXCEPT ![w.task] = job[w.task]]
    BY <1>1, <1>3 DEF AgentFails, IndInv, TypeOK
  <2> QED BY <1>1, <1>3, <2>1, WorkEnds
<1> QED BY <1>2, <1>3

LEMMA AgentRefusesStep ==
    ASSUME IndInv, NEW w \in work, AgentRefuses(w) PROVE IndInv'
<1>1. /\ work' = work \ {w} /\ w.task \in Tasks /\ job[w.task] \in Jobs
      /\ UNCHANGED <<server, crashes, bak, task, req, obj>>
  BY HeardJob DEF AgentRefuses
<1>2. CASE w.heard
  <2> DEFINE x == [job[w.task] EXCEPT !.pc = "fail"]
  <2>1. x \in Jobs /\ job' = [job EXCEPT ![w.task] = x] /\ x.pc = "fail" /\ x.srv = job[w.task].srv
    BY <1>1, <1>2, GotoState DEF AgentRefuses, ActivePcs
  <2> HIDE DEF x
  <2> QED BY <1>1, <1>2, <2>1, WorkEnds
<1>3. CASE ~w.heard
  <2>1. job' = [job EXCEPT ![w.task] = job[w.task]]
    BY <1>1, <1>3 DEF AgentRefuses, IndInv, TypeOK
  <2> QED BY <1>1, <1>3, <2>1, WorkEnds
<1> QED BY <1>2, <1>3

\* The data of a request has moved: an upload puts the archive into the store
\* under the backup's own key, a restore reads it from there.
LEMMA MoveStep ==
    ASSUME IndInv, NEW w \in work, Upload(w) \/ Download(w) PROVE IndInv'
<1> DEFINE y == [w EXCEPT !.stage = "moved"]
<1>1. /\ w \in AgentWork /\ w.task \in Tasks /\ w.bak \in Backups /\ WorkOK(w)
      /\ req[w.task].bak = w.bak /\ req[w.task].kind = w.kind
      /\ w.heard => \A v \in work : v.task = w.task /\ v.heard => v = w
  BY HeardJob
<1>2. /\ work' = Moved(w) /\ bak' = bak /\ task' = task /\ req' = req /\ job' = job
      /\ UNCHANGED server /\ crashes' = crashes /\ work' = (work \ {w}) \cup {y}
  BY DEF Upload, Download, panel, Moved
<1>3. PICK w0 \in AgentWork :
        /\ w0 = y /\ w0.task = w.task /\ w0.kind = w.kind /\ w0.bak = w.bak
        /\ w0.heard <=> w.heard
  <2>1. y \in AgentWork /\ y.task = w.task /\ y.kind = w.kind /\ y.bak = w.bak
    BY <1>1 DEF AgentWork
  <2>2. y.heard <=> w.heard
    BY <1>1 DEF AgentWork
  <2> HIDE DEF y
  <2> QED BY <2>1, <2>2
<1> HIDE DEF y
<1>4. /\ DOMAIN obj' = Backups \cup Servers
      /\ obj' \in [Backups \cup Servers -> Backups \cup {None}]
      /\ obj'[w.bak] = w.bak
      /\ \A k \in Backups \cup Servers : obj'[k] = obj[k] \/ (k \in Backups /\ obj'[k] = k)
  <2>1. Key(w.bak, w.srv) = w.bak /\ w.bak \in Backups \cup Servers
    BY <1>1, KeyOf
  <2>2. CASE Upload(w)
    <3>1. obj' = [obj EXCEPT ![w.bak] = w.bak]
      BY <2>1, <2>2 DEF Upload
    <3> QED BY <2>1, <3>1, <1>1 DEF IndInv, TypeOK
  <2>3. CASE Download(w)
    <3>1. obj' = obj /\ obj[w.bak] = w.bak
      BY <2>1, <2>3, <1>1 DEF Download, IndInv, KeysOwned
    <3> QED BY <3>1 DEF IndInv, TypeOK
  <2> QED BY <2>2, <2>3
<1>5. \A b \in Backups : obj[b] = b => obj'[b] = b
  BY <1>4
<1>6. PICK t \in Tasks : t = w.task
  BY <1>1
<1>7. job[t] \in Jobs /\ job' = [job EXCEPT ![t] = job[t]] /\ job'[t] = job[t]
  BY <1>2 DEF IndInv, TypeOK
<1>8. ASSUME NEW b PROVE Committed(b)' <=> Committed(b)
  BY <1>2 DEF Committed
<1>9. JobOK(t)'
  BY <1>1, <1>2, <1>5, <1>6, <1>8 DEF IndInv, JobOK
<1>10. ASSUME NEW v \in work'
       PROVE  \/ v \in work /\ (v.task # t \/ ~v.heard)
              \/ v.task = t /\ WorkOK(v)'
  <2>1. CASE v = w0
    <3>1. WorkOK(w0)'
      BY <1>1, <1>2, <1>3, <1>4, <1>8 DEF WorkOK
    <3> QED BY <2>1, <3>1, <1>3, <1>6
  <2>2. CASE v \in work /\ v.task = t
    <3>1. WorkOK(v) /\ v.bak \in Backups
      BY <2>2, HeardJob
    <3> QED BY <2>2, <3>1, <1>2, <1>5, <1>8 DEF WorkOK
  <2>3. CASE v \in work /\ v.task # t
    BY <2>3
  <2> QED BY <2>1, <2>2, <2>3, <1>2, <1>3
<1>11. ASSUME NEW u \in work', NEW v \in work', u.task = t, v.task = t, u.heard, v.heard
       PROVE  u = v
  <2>1. CASE u = w0 \/ v = w0
    <3>1. w.heard /\ \A z \in work \ {w} : ~(z.task = t /\ z.heard)
      BY <2>1, <1>1, <1>3, <1>6, <1>11
    <3> QED BY <3>1, <2>1, <1>2, <1>3, <1>11
  <2>2. CASE u \in work /\ v \in work
    BY <2>2, <1>11 DEF IndInv, OneHeard, Awaited
  <2> QED BY <2>1, <2>2, <1>2, <1>3
<1>12. work' \subseteq AgentWork /\ crashes' \in 0 .. MaxCrashes /\ crashes' >= crashes
  BY <1>2, <1>3 DEF IndInv, TypeOK
<1> QED BY <1>2, <1>4, <1>7, <1>9, <1>10, <1>11, <1>12, AgentFrame

\* The connection breaks, and nobody waits any more.
LEMMA TransportFailsStep ==
    ASSUME IndInv, NEW t \in Tasks, TransportFails(t) PROVE IndInv'
<1> DEFINE x == [job[t] EXCEPT !.pc = "fail"]
<1>1. x \in Jobs /\ job' = [job EXCEPT ![t] = x] /\ x.pc = "fail" /\ x.srv = job[t].srv
  BY GotoState DEF TransportFails, ActivePcs
<1> HIDE DEF x
<1>2. /\ job[t].pc = "wait" /\ work' \in {Unheard(t), work \ Awaited(t)}
      /\ UNCHANGED <<server, crashes, bak, task, req, obj>>
      /\ obj' = obj /\ req' = req
  BY DEF TransportFails
<1>3. JobOK(t)'
  BY <1>1, <1>2, JobAfterCall
<1>4. /\ work' \subseteq AgentWork
      /\ \A w \in work' : \/ w \in work /\ (w.task # t \/ ~w.heard)
                          \/ w.task = t /\ ~w.heard /\ WorkOK(w)'
  BY <1>2, NobodyWaits
<1> QED BY <1>1, <1>2, <1>3, <1>4, CallFrame

\* ARQ's timeout: the job ends where it is, unmarked.
LEMMA JobTimeoutStep ==
    ASSUME IndInv, NEW t \in Tasks, JobTimeout(t) PROVE IndInv'
<1> DEFINE x == [NoJob EXCEPT !.pc = "ended", !.end = "killed"]
<1>1. x \in Jobs /\ x.pc = "ended"
  <2>1. 0 \in 0 .. MaxRetries - 1
    BY BackupsAssumption
  <2> QED BY <2>1 DEF NoJob, Jobs, BackupStatuses
<1>2. job' = [job EXCEPT ![t] = x]
  BY DEF JobTimeout, Becomes
<1> HIDE DEF x
<1>3. /\ job[t].pc \in ActivePcs /\ work' \in {Unheard(t), work \ Awaited(t)}
      /\ UNCHANGED <<server, crashes, bak, task, req, obj>>
      /\ obj' = obj /\ req' = req
  BY DEF JobTimeout
<1>4. job'[t].pc = "ended" /\ job[t].pc # "none"
  BY <1>1, <1>2, <1>3 DEF IndInv, TypeOK, ActivePcs
<1>5. JobOK(t)'
  BY <1>4 DEF JobOK, ActivePcs
<1>6. /\ work' \subseteq AgentWork
      /\ \A w \in work' : \/ w \in work /\ (w.task # t \/ ~w.heard)
                          \/ w.task = t /\ ~w.heard /\ WorkOK(w)'
  BY <1>3, NobodyWaits
<1> QED BY <1>1, <1>2, <1>3, <1>4, <1>5, <1>6, CallFrame

\* A worker dies: its job is queued again.
LEMMA CrashStep ==
    ASSUME IndInv, NEW t \in Tasks, Crash(t) PROVE IndInv'
<1> DEFINE x == [NoJob EXCEPT !.pc = "queued"]
<1>1. x \in Jobs /\ x.pc = "queued"
  <2>1. 0 \in 0 .. MaxRetries - 1
    BY BackupsAssumption
  <2> QED BY <2>1 DEF NoJob, Jobs, BackupStatuses
<1>2. job' = [job EXCEPT ![t] = x]
  BY DEF Crash, Becomes
<1> HIDE DEF x
<1>3. /\ job[t].pc \in ActivePcs \cup {"ended"} /\ work' \in {Unheard(t), work \ Awaited(t)}
      /\ UNCHANGED <<server, bak, task, req>> /\ obj' = obj /\ req' = req
      /\ crashes < MaxCrashes /\ crashes' = crashes + 1
  BY DEF Crash, Life!Crash, server
<1>4. /\ crashes' \in 0 .. MaxCrashes /\ crashes' >= crashes /\ crashes' # 0
      /\ DOMAIN obj' = Backups \cup Servers
      /\ obj' \in [Backups \cup Servers -> Backups \cup {None}]
      /\ \A k \in Backups \cup Servers : obj'[k] = obj[k] \/ (k \in Backups /\ obj'[k] = k)
  BY <1>3, BackupsAssumption DEF IndInv, TypeOK
<1>5. job'[t].pc = "queued" /\ job[t].pc # "none"
  BY <1>1, <1>2, <1>3 DEF IndInv, TypeOK, ActivePcs
<1>6. JobOK(t)'
  BY <1>4, <1>5 DEF JobOK, ActivePcs
<1>7. /\ work' \subseteq AgentWork
      /\ \A w \in work' : \/ w \in work /\ (w.task # t \/ ~w.heard)
                          \/ w.task = t /\ ~w.heard /\ WorkOK(w)'
  BY <1>3, NobodyWaits
<1> QED BY <1>1, <1>2, <1>3, <1>4, <1>5, <1>6, <1>7, AgentFrame

-----------------------------------------------------------------------------
(* The server's own life *)

\* Whatever the server does, its variables keep their types.
LEMMA LivingTypes ==
    ASSUME IndInv, NEW s \in Servers, Life!Living(s)
    PROVE  /\ row' \in [Servers -> Life!Statuses]
           /\ box' \in [Servers -> {"none", "placed", "lost"}]
           /\ up' \subseteq Servers
           /\ asked' \in [Servers -> SUBSET Life!Kinds]
           /\ crashes' = crashes
<1> USE DEF Life!Statuses
<1>1. /\ row \in [Servers -> Life!Statuses] /\ box \in [Servers -> {"none", "placed", "lost"}]
      /\ up \subseteq Servers /\ asked \in [Servers -> SUBSET Life!Kinds]
  BY DEF IndInv, TypeOK
<1>2. ASSUME NEW kind \in Life!Kinds, Life!Ask(s, kind)
      PROVE  /\ asked' \in [Servers -> SUBSET Life!Kinds]
             /\ row' = row /\ box' = box /\ up' = up /\ crashes' = crashes
  <2>1. asked[s] \cup {kind} \in SUBSET Life!Kinds
    BY <1>1
  <2> QED BY <1>1, <1>2, <2>1 DEF Life!Ask
<1>3. CASE Life!Appear(s) \/ Life!Provision(s) \/ Life!Deleting(s)
  BY <1>1, <1>3 DEF Life!Appear, Life!Provision, Life!Deleting
<1>4. CASE Life!Place(s)
  BY <1>1, <1>4 DEF Life!Place
<1>5. ASSUME NEW kind \in Life!LifecycleKinds, Life!Switch(s, kind)
      PROVE  /\ row' \in [Servers -> Life!Statuses]
             /\ box' = box /\ up' = up /\ asked' = asked /\ crashes' = crashes
  BY <1>1, <1>5 DEF Life!Switch
<1>6. CASE Life!Starts(s) \/ Life!Stops(s)
  BY <1>1, <1>6 DEF Life!Starts, Life!Stops
<1> QED BY <1>1, <1>2, <1>3, <1>4, <1>5, <1>6 DEF Life!Living

LEMMA ServerLivesStep ==
    ASSUME IndInv, NEW s \in Servers, ServerLives(s) PROVE IndInv'
<1>1. UNCHANGED <<panel, work, obj>> /\ Life!Living(s)
  BY DEF ServerLives
<1>2. crashes \in 0 .. MaxCrashes
  BY DEF IndInv, TypeOK
<1> QED BY <1>1, <1>2, LivingTypes, ServerFrame

LEMMA NodeDeletedStep ==
    ASSUME IndInv, NodeDeleted PROVE IndInv'
<1>1. /\ UNCHANGED <<panel, work, obj>> /\ row' = row /\ up' = up /\ asked' = asked
      /\ crashes' = crashes /\ box' \in [Servers -> {"none", "placed", "lost"}]
  BY DEF NodeDeleted, Life!Unplace, IndInv, TypeOK
<1>2. /\ row \in [Servers -> Life!Statuses] /\ up \subseteq Servers
      /\ asked \in [Servers -> SUBSET Life!Kinds] /\ crashes \in 0 .. MaxCrashes
  BY DEF IndInv, TypeOK
<1> QED BY <1>1, <1>2, ServerFrame

LEMMA LifecycleCrashStep ==
    ASSUME IndInv, LifecycleCrash PROVE IndInv'
<1>1. /\ UNCHANGED <<panel, work, obj>> /\ row' = row /\ up' = up /\ asked' = asked
      /\ box' = box /\ crashes' = crashes + 1 /\ crashes < MaxCrashes
  BY DEF LifecycleCrash, Life!Crash
<1>2. /\ row \in [Servers -> Life!Statuses] /\ box \in [Servers -> {"none", "placed", "lost"}]
      /\ up \subseteq Servers
      /\ asked \in [Servers -> SUBSET Life!Kinds] /\ crashes \in 0 .. MaxCrashes
  BY DEF IndInv, TypeOK
<1>3. crashes' \in 0 .. MaxCrashes /\ crashes' >= crashes
  BY <1>1, <1>2, BackupsAssumption
<1> QED BY <1>1, <1>2, <1>3, ServerFrame

\* The rows of the server's backups go, and nothing else changes for them.
LEMMA ServerGoneStep ==
    ASSUME IndInv, NEW s \in Servers, ServerGone(s) PROVE IndInv'
<1>1. /\ req' = req /\ job' = job /\ work' = work /\ obj' = obj /\ crashes' = crashes
      /\ up' = up /\ asked' = asked
  BY DEF ServerGone, Life!Gone
<1>2. /\ row' \in [Servers -> Life!Statuses] /\ box' \in [Servers -> {"none", "placed", "lost"}]
  BY DEF ServerGone, Life!Gone, Life!Statuses, IndInv, TypeOK
<1>3. /\ bak' \in [Backups -> BackupRows]
      /\ \A b \in Backups :
            bak'[b] = bak[b] \/ (bak'[b].status = "absent" /\ bak'[b].srv = None)
  BY DEF ServerGone, IndInv, TypeOK, BackupRows, BackupStatuses
<1>4. /\ task' \in [Tasks -> TaskRows]
      /\ \A t \in Tasks : task'[t].status = task[t].status
  BY DEF ServerGone, IndInv, TypeOK, TaskRows
<1>5. ASSUME NEW b PROVE Committed(b)' <=> Committed(b)
  BY <1>1 DEF Committed
<1>6. TypeOK'
  BY <1>1, <1>2, <1>3, <1>4 DEF IndInv, TypeOK
<1>7. ASSUME NEW t \in Tasks PROVE RequestOK(t)' /\ JobOK(t)'
  <2>1. RequestOK(t) /\ JobOK(t)
    BY DEF IndInv
  <2>2. req[t].kind = "backup" => req[t].bak \in Backups
    BY NamesBackup
  <2>3. req[t].kind = "backup" =>
          \/ bak'[req[t].bak] = bak[req[t].bak]
          \/ bak'[req[t].bak].status = "absent"
    BY <2>2, <1>3
  <2>4. RequestOK(t)'
    BY <2>1, <1>1 DEF RequestOK
  <2>5. JobOK(t)'
    BY <2>1, <2>3, <1>1, <1>5 DEF JobOK
  <2> QED BY <2>4, <2>5
<1>8. ASSUME NEW b \in Backups PROVE RowOK(b)'
  BY <1>1, <1>3, <1>5 DEF IndInv, RowOK, Exists
<1>9. ASSUME NEW w \in work' PROVE WorkOK(w)'
  BY <1>1, <1>5 DEF IndInv, WorkOK
<1>10. MadeOnce' /\ KeysOwned' /\ OneHeard'
  BY <1>1 DEF IndInv, MadeOnce, KeysOwned, OneHeard, Awaited
<1>11. TaskMatchesBackup'
  <2> SUFFICES ASSUME NEW t \in Tasks, req[t].kind = "backup",
                      bak'[req[t].bak].status # "absent"
               PROVE  /\ task'[t].status = "succeeded" => bak'[req[t].bak].status = "available"
                      /\ task'[t].status = "failed" => bak'[req[t].bak].status = "failed"
    BY <1>1 DEF TaskMatchesBackup, Exists
  <2>1. bak'[req[t].bak] = bak[req[t].bak]
    BY <1>3, NamesBackup
  <2> QED BY <2>1, <1>4 DEF IndInv, TaskMatchesBackup, Exists
<1> QED BY <1>6, <1>7, <1>8, <1>9, <1>10, <1>11 DEF IndInv

-----------------------------------------------------------------------------
(* The invariant *)

LEMMA InitIndInv == Init => IndInv
<1> SUFFICES ASSUME Init PROVE IndInv
  OBVIOUS
<1>1. 0 \in 0 .. MaxRetries - 1 /\ 0 \in 0 .. MaxCrashes
  BY BackupsAssumption
<1>2. NoJob \in Jobs /\ NoJob.pc = "none"
  BY <1>1 DEF NoJob, Jobs, BackupStatuses
<1>3. TypeOK
  BY <1>1, <1>2 DEF Init, Life!Init, Life!Statuses, TypeOK, BackupRows, BackupStatuses,
     TaskRows, TaskStatuses, Requests
<1>4. ASSUME NEW t \in Tasks PROVE RequestOK(t) /\ JobOK(t)
  BY <1>2 DEF Init, RequestOK, JobOK, ActivePcs
<1>5. ASSUME NEW b \in Backups PROVE RowOK(b)
  BY DEF Init, RowOK, Exists
<1>6. MadeOnce /\ KeysOwned /\ OneHeard /\ TaskMatchesBackup /\ work = {}
  BY DEF Init, MadeOnce, KeysOwned, OneHeard, Awaited, TaskMatchesBackup
<1> QED BY <1>3, <1>4, <1>5, <1>6 DEF IndInv

\* Every step preserves it.
LEMMA NextIndInv == IndInv /\ [Next]_vars => IndInv'
<1> SUFFICES ASSUME IndInv, [Next]_vars PROVE IndInv'
  OBVIOUS
<1>1. CASE ClientStep
  BY <1>1, CreatePendingStep, RequestRestoreFindStep DEF ClientStep
<1>2. ASSUME NEW t \in Tasks, RequestStep(t) PROVE IndInv'
  BY <1>2, RequestRestoreStep, CommitStep, RollbackStep DEF RequestStep
<1>3. ASSUME NEW t \in Tasks, JobStep(t) PROVE IndInv'
  BY <1>3, JobStartStep, LoadMissingStep, FailedBeforeCallStep, LoadStep, FindNodeStep,
     SendStep, SaveStep, SaveWriteStep, FailStep, FailWriteStep, ArqFinishStep,
     ConnectFailsStep, TransportFailsStep, JobTimeoutStep DEF JobStep
<1>4. ASSUME NEW t \in Tasks, Crash(t) PROVE IndInv'
  BY <1>4, CrashStep
<1>5. ASSUME NEW w \in work, WorkStep(w) PROVE IndInv'
  BY <1>5, MoveStep, AnswerStep, AgentFailsStep, AgentRefusesStep DEF WorkStep
<1>6. CASE ServerStep
  BY <1>6, ServerLivesStep, ServerGoneStep, NodeDeletedStep, LifecycleCrashStep DEF ServerStep
<1>7. CASE UNCHANGED vars
  <2>1. UNCHANGED <<panel, work, obj>> /\ crashes' = crashes
    BY <1>7 DEF vars, panel
  <2>2. row' = row /\ box' = box /\ up' = up /\ asked' = asked
    BY <1>7 DEF vars
  <2> QED BY <2>1, <2>2, ServerFrame DEF IndInv, TypeOK
<1> QED BY <1>1, <1>2, <1>3, <1>4, <1>5, <1>6, <1>7 DEF Next

\* Requests, rows, jobs, agents and the store agree, whatever fails or dies.
THEOREM BackupsInvariant == Spec => []IndInv
  BY InitIndInv, NextIndInv, PTL DEF Spec

\* Every variable has its type; no worker counts more attempts than allowed.
THEOREM TypeCorrect == Spec => []TypeOK
<1>1. IndInv => TypeOK
  BY DEF IndInv
<1> QED BY <1>1, BackupsInvariant, PTL

\* BackupOps.restore: the archive a restore asks the store for is there, and
\* it is that of the backup the owner chose.
THEOREM RestoresFindTheirArchive == Spec => []RestoreFindsArchive
<1>1. ASSUME IndInv PROVE RestoreFindsArchive
  <2> SUFFICES ASSUME NEW w \in work, w.kind = "restore" PROVE obj[Key(w.bak, w.srv)] = w.bak
    BY DEF RestoreFindsArchive
  <2>1. /\ w.task \in Tasks /\ w.bak \in Backups /\ req[w.task].bak = w.bak
        /\ req[w.task].kind = w.kind
    BY <1>1, HeardJob
  <2> QED BY <1>1, <2>1, KeyOf DEF IndInv, RequestOK
<1> QED BY <1>1, BackupsInvariant, PTL

\* backup_server: a task that has succeeded or failed and the row of its backup
\* agree.
THEOREM TasksMatchBackups == Spec => []TaskMatchesBackup
<1>1. IndInv => TaskMatchesBackup
  BY DEF IndInv
<1> QED BY <1>1, BackupsInvariant, PTL

-----------------------------------------------------------------------------
(* Module Backups implements BackupRecord: what clients see of a backup     *)
(* goes the way the abstract specification allows, step by step. A commit   *)
(* requests a backup, a completed upload stores it, the marks of a job      *)
(* settle it, the deletion of its server drops it, and every other step is  *)
(* invisible.                                                               *)

-----------------------------------------------------------------------------
(* What a step shows *)

\* Only a commit and a step that writes rows change what is seen of a backup.
LEMMA RecordFrame ==
    ASSUME NEW b, bak'[b] = bak[b], Committed(b)' <=> Committed(b)
    PROVE  RecordOf(b)' = RecordOf(b)
  BY DEF RecordOf, Exists

\* A backup that was committed is seen, one that has a row was committed.
LEMMA RecordSeen ==
    ASSUME IndInv, NEW b \in Backups
    PROVE  /\ Committed(b) => RecordOf(b) # "none"
           /\ Exists(b) => RecordOf(b) = bak[b].status
           /\ RecordOf(b) \in {"none", "creating", "available", "failed", "gone"}
           /\ ~Committed(b) => RecordOf(b) = "none"
  BY DEF IndInv, TypeOK, BackupRows, BackupStatuses, RowOK, RecordOf, Exists

\* The archives in the store are those that lie under their own key.
LEMMA StoredIs ==
    ASSUME IndInv, NEW b \in Backups PROVE b \in Stored <=> obj[b] = b
  BY BackupsAssumption DEF IndInv, TypeOK, KeysOwned, Stored

\* A step that touches no row, no commit and no archive is invisible.
LEMMA Invisible ==
    ASSUME bak' = bak, obj' = obj, crashes' = crashes,
           \A t \in Tasks : \/ req'[t] = req[t]
                            \/ req[t].pc # "committed" /\ req'[t].pc # "committed"
    PROVE  UNCHANGED Record!record_vars
<1>1. ASSUME NEW b \in Backups PROVE RecordOf(b)' = RecordOf(b)
  <2>1. Committed(b)' <=> Committed(b)
    BY DEF Committed
  <2> QED BY <2>1, RecordFrame
<1>2. Stored' = Stored
  BY DEF Stored
<1> QED BY <1>1, <1>2 DEF Record!record_vars

LEMMA InitRefines == Init => Record!Init
<1> SUFFICES ASSUME Init PROVE Record!Init
  OBVIOUS
<1>1. ASSUME NEW b \in Backups PROVE RecordOf(b) = "none"
  BY DEF Init, RecordOf, Exists, Committed
<1>2. Stored = {}
  BY BackupsAssumption DEF Init, Stored
<1> QED BY <1>1, <1>2 DEF Init, Life!Init, Record!Init

-----------------------------------------------------------------------------
(* The visible steps *)

\* The commit of a backup requests it; that of a restore is invisible.
LEMMA CommitRefines ==
    ASSUME IndInv, NEW t \in Tasks, Commit(t)
    PROVE  [Record!Next]_(Record!record_vars)
<1> DEFINE c == req[t].bak
<1>1. /\ req[t].pc = "flushed" /\ obj' = obj /\ crashes' = crashes
      /\ req' = [req EXCEPT ![t].pc = "committed"]
      /\ req[t].kind \in {"backup", "restore"} /\ c \in Backups
  BY NamesBackup DEF Commit, IndInv, RequestOK, TypeOK, Requests
<1>2. \A u \in Tasks : /\ req'[u].kind = req[u].kind /\ req'[u].bak = req[u].bak
                       /\ u # t => req'[u].pc = req[u].pc
                       /\ req'[t].pc = "committed"
  BY <1>1 DEF IndInv, TypeOK, Requests
<1>3. PICK b \in Backups : b = c
  BY <1>1
<1>4. CASE req[t].kind = "backup"
  <2>1. bak' = [bak EXCEPT ![b] = [status |-> "creating", srv |-> req[t].srv]]
    BY <1>3, <1>4 DEF Commit
  <2>2. RecordOf(b) = "none"
    <3>1. ~Committed(b)
      BY <1>1, <1>3, <1>4 DEF Committed, IndInv, MadeOnce
    <3> QED BY <3>1, RecordSeen
  <2>3. RecordOf(b)' = "creating"
    BY <2>1 DEF RecordOf, Exists, IndInv, TypeOK
  <2>4. ASSUME NEW a \in Backups, a # b PROVE RecordOf(a)' = RecordOf(a)
    <3>1. bak'[a] = bak[a]
      BY <2>1, <2>4 DEF IndInv, TypeOK
    <3>2. Committed(a)' <=> Committed(a)
      BY <1>2, <1>3, <2>4 DEF Committed
    <3> QED BY <3>1, <3>2, RecordFrame
  <2>5. Stored' = Stored
    BY <1>1 DEF Stored
  <2>6. Record!Request(b)
    BY <1>1, <2>2, <2>3, <2>4, <2>5 DEF Record!Request
  <2> QED BY <2>6 DEF Record!Next
<1>5. CASE req[t].kind = "restore"
  <2>1. bak' = bak
    BY <1>5 DEF Commit
  <2>2. ASSUME NEW a \in Backups PROVE RecordOf(a)' = RecordOf(a)
    <3>1. Committed(a)' <=> Committed(a)
      BY <1>2, <1>5 DEF Committed
    <3> QED BY <2>1, <3>1, RecordFrame
  <2>3. Stored' = Stored
    BY <1>1 DEF Stored
  <2> QED BY <1>1, <2>2, <2>3 DEF Record!record_vars
<1> QED BY <1>1, <1>4, <1>5

\* A completed upload stores a backup that was requested.
LEMMA UploadRefines ==
    ASSUME IndInv, NEW w \in work, Upload(w)
    PROVE  [Record!Next]_(Record!record_vars)
<1>1. PICK b \in Backups : b = w.bak
  BY HeardJob
<1>2. /\ obj' = [obj EXCEPT ![b] = b] /\ bak' = bak /\ req' = req /\ crashes' = crashes
      /\ b \in Backups \cup Servers
  BY <1>1, KeyOf DEF Upload, panel
<1>3. RecordOf(b) # "none"
  BY <1>1, HeardJob, RecordSeen
<1>4. ASSUME NEW a \in Backups PROVE RecordOf(a)' = RecordOf(a)
  BY <1>2, RecordFrame DEF Committed
<1>5. Stored' = Stored \cup {b}
  <2>1. /\ obj \in [Backups \cup Servers -> Backups \cup {None}]
        /\ \A k \in Backups \cup Servers : obj[k] \in {None, k} /\ obj'[k] \in {None, k}
        /\ None \notin Backups /\ obj'[b] = b
        /\ \A k \in Backups \cup Servers : k # b => obj'[k] = obj[k]
        /\ DOMAIN obj' = DOMAIN obj
    BY <1>2, BackupsAssumption DEF IndInv, TypeOK, KeysOwned
  <2>2. ASSUME NEW a \in Backups PROVE a \in Stored' <=> a \in Stored \cup {b}
    BY <2>1 DEF Stored
  <2> QED BY <2>2 DEF Stored
<1>6. Record!Store(b)
  BY <1>2, <1>3, <1>4, <1>5 DEF Record!Store
<1> QED BY <1>6 DEF Record!Next

\* A mark settles a backup: for the first time, unless a worker has died.
LEMMA MarkRefines ==
    ASSUME IndInv, NEW t \in Tasks, req[t].kind = "backup",
           job[t].pc \notin {"none", "ended", "done"},
           NEW st \in {"available", "failed"}, bak' = MarkedBackup(req[t].bak, st),
           st = "available" => obj[req[t].bak] = req[t].bak,
           req' = req, obj' = obj, crashes' = crashes
    PROVE  [Record!Next]_(Record!record_vars)
<1>1. PICK b \in Backups : b = req[t].bak
  BY NamesBackup
<1>2. Stored' = Stored
  BY DEF Stored
<1>3. ASSUME NEW a PROVE Committed(a)' <=> Committed(a)
  BY DEF Committed
<1>4. CASE Exists(b)
  <2>1. bak' = [bak EXCEPT ![b].status = st]
    BY <1>1, <1>4 DEF MarkedBackup
  <2>2. RecordOf(b)' = st
    BY <2>1 DEF RecordOf, Exists, IndInv, TypeOK, BackupRows
  <2>3. ASSUME NEW a \in Backups, a # b PROVE RecordOf(a)' = RecordOf(a)
    <3>1. bak'[a] = bak[a]
      BY <2>1, <2>3 DEF IndInv, TypeOK
    <3> QED BY <3>1, <1>3, RecordFrame
  <2>4. RecordOf(b) = "creating" \/ (RecordOf(b) \in Record!Settled /\ crashes > 0)
    <3>1. RecordOf(b) \in {"creating", "available", "failed"} /\ RecordOf(b) = bak[b].status
      BY <1>4, RecordSeen DEF Exists, IndInv, TypeOK, BackupRows, BackupStatuses
    <3>2. crashes = 0 => bak[b].status \in {"absent", "creating"}
      BY <1>1 DEF IndInv, JobOK
    <3>3. crashes = 0 \/ crashes > 0
      BY BackupsAssumption DEF IndInv, TypeOK
    <3> QED BY <3>1, <3>2, <3>3 DEF Record!Settled
  <2>5. st = "available" => b \in Stored
    BY <1>1, StoredIs
  <2>6. st \in Record!Settled
    BY DEF Record!Settled
  <2>7. Record!Settle(b, st)
    BY <1>2, <2>2, <2>3, <2>4, <2>5 DEF Record!Settle
  <2> QED BY <2>6, <2>7 DEF Record!Next
<1>5. CASE ~Exists(b)
  <2>1. bak' = bak
    BY <1>1, <1>5 DEF MarkedBackup
  <2> QED BY <2>1, Invisible
<1> QED BY <1>4, <1>5

\* The deletion of a server drops the backups that have a row of it.
LEMMA ServerGoneRefines ==
    ASSUME IndInv, NEW s \in Servers, ServerGone(s)
    PROVE  [Record!Next]_(Record!record_vars)
<1>1. PICK S \in SUBSET Backups : S = {b \in Backups : bak[b].srv = s}
  OBVIOUS
<1>2. req' = req /\ obj' = obj /\ crashes' = crashes
  BY DEF ServerGone, Life!Gone
<1>3. ASSUME NEW a PROVE Committed(a)' <=> Committed(a)
  BY <1>2 DEF Committed
<1>4. ASSUME NEW b \in S
      PROVE  RecordOf(b) \in {"creating"} \cup Record!Settled /\ RecordOf(b)' = "gone"
  <2>1. Exists(b) /\ Committed(b) /\ b \in Backups /\ bak[b].srv = s
    BY <1>1, BackupsAssumption DEF IndInv, RowOK
  <2>2. bak'[b].status = "absent"
    BY <2>1 DEF ServerGone
  <2>3. RecordOf(b) = bak[b].status /\ bak[b].status \in {"creating", "available", "failed"}
    BY <2>1 DEF RecordOf, Exists, IndInv, TypeOK, BackupRows, BackupStatuses
  <2>4. RecordOf(b)' = "gone"
    BY <1>3, <2>1, <2>2 DEF RecordOf, Exists
  <2> QED BY <2>3, <2>4 DEF Record!Settled
<1>5. ASSUME NEW b \in Backups, b \notin S PROVE RecordOf(b)' = RecordOf(b)
  <2>1. bak'[b] = bak[b]
    BY <1>1, <1>5 DEF ServerGone
  <2> QED BY <1>3, <2>1, RecordFrame
<1>6. Stored' = Stored
  BY <1>2 DEF Stored
<1>7. Record!Drop(S)
  BY <1>2, <1>4, <1>5, <1>6 DEF Record!Drop
<1> QED BY <1>7 DEF Record!Next

\* The death of a worker is all that lets an outcome change.
LEMMA CrashRefines ==
    ASSUME IndInv, LifecycleCrash \/ \E t \in Tasks : Crash(t)
    PROVE  [Record!Next]_(Record!record_vars)
<1>1. bak' = bak /\ req' = req /\ obj' = obj /\ crashes' = crashes + 1
  BY DEF LifecycleCrash, Crash, Life!Crash, panel
<1>2. ASSUME NEW b \in Backups PROVE RecordOf(b)' = RecordOf(b)
  BY <1>1, RecordFrame DEF Committed
<1>3. Stored' = Stored
  BY <1>1 DEF Stored
<1>4. Record!Rerun
  BY <1>1, <1>2, <1>3 DEF Record!Rerun
<1> QED BY <1>4 DEF Record!Next

-----------------------------------------------------------------------------
(* The refinement *)

\* What the other requests write is not yet, or never, committed.
LEMMA RequestInvisible ==
    ASSUME IndInv, NEW t \in Tasks, RequestRestore(t) \/ Rollback(t)
    PROVE  UNCHANGED Record!record_vars
<1>1. PICK pc \in {"flushed", "aborted"} : req' = [req EXCEPT ![t] = [req[t] EXCEPT !.pc = pc]]
  BY DEF RequestRestore, FlushAndEnqueue, Rollback, IndInv, TypeOK, Requests
<1>2. /\ bak' = bak /\ obj' = obj /\ crashes' = crashes
      /\ req[t].pc # "committed"
  BY DEF RequestRestore, Rollback
<1>3. \A u \in Tasks : \/ req'[u] = req[u]
                       \/ req[u].pc # "committed" /\ req'[u].pc # "committed"
  BY <1>1, <1>2 DEF IndInv, TypeOK, Requests
<1> QED BY <1>2, <1>3, Invisible

LEMMA ClientInvisible ==
    ASSUME IndInv, ClientStep PROVE UNCHANGED Record!record_vars
<1>1. PICK t \in Tasks, q \in Requests :
        /\ req' = [req EXCEPT ![t] = q] /\ q.pc # "committed" /\ req[t].pc # "committed"
        /\ bak' = bak /\ obj' = obj /\ crashes' = crashes
  <2>1. ASSUME NEW t \in Tasks, NEW b \in Backups, NEW s \in Servers, CreatePending(t, b, s)
        PROVE  \E q \in Requests :
                 /\ req' = [req EXCEPT ![t] = q] /\ q.pc # "committed" /\ req[t].pc # "committed"
                 /\ bak' = bak /\ obj' = obj /\ crashes' = crashes
    <3> DEFINE q == [pc |-> "flushed", kind |-> "backup", bak |-> b, srv |-> s]
    <3>1. q = [[pc |-> "idle", kind |-> "backup", bak |-> b, srv |-> s] EXCEPT !.pc = "flushed"]
      OBVIOUS
    <3>2. req' = [req EXCEPT ![t] = q]
      BY <2>1, <3>1, Zenon DEF CreatePending, FlushAndEnqueue
    <3>3. q \in Requests /\ q.pc # "committed"
      BY DEF Requests
    <3>4. req[t].pc # "committed" /\ bak' = bak /\ obj' = obj /\ crashes' = crashes
      BY <2>1 DEF CreatePending
    <3> HIDE DEF q
    <3> QED BY <3>2, <3>3, <3>4
  <2>2. ASSUME NEW t \in Tasks, NEW b \in Backups, RequestRestoreFind(t, b)
        PROVE  \E q \in Requests :
                 /\ req' = [req EXCEPT ![t] = q] /\ q.pc # "committed" /\ req[t].pc # "committed"
                 /\ bak' = bak /\ obj' = obj /\ crashes' = crashes
    <3> DEFINE q == [pc |-> "found", kind |-> "restore", bak |-> b, srv |-> bak[b].srv]
    <3>1. q \in Requests /\ q.pc # "committed"
      BY DEF Requests, IndInv, TypeOK, BackupRows
    <3>2. /\ req' = [req EXCEPT ![t] = q] /\ req[t].pc # "committed"
          /\ bak' = bak /\ obj' = obj /\ crashes' = crashes
      BY <2>2 DEF RequestRestoreFind
    <3> HIDE DEF q
    <3> QED BY <3>1, <3>2
  <2> QED BY <2>1, <2>2 DEF ClientStep
<1>2. \A u \in Tasks : \/ req'[u] = req[u]
                       \/ req[u].pc # "committed" /\ req'[u].pc # "committed"
  BY <1>1 DEF IndInv, TypeOK
<1> QED BY <1>1, <1>2, Invisible

\* A step of a job settles its backup or is invisible.
LEMMA JobRefines ==
    ASSUME IndInv, NEW t \in Tasks, JobStep(t)
    PROVE  [Record!Next]_(Record!record_vars)
<1>1. req' = req /\ obj' = obj /\ crashes' = crashes
  BY DEF JobStep, JobStart, LoadMissing, LoadFails, Load, FindNode, NodeMissing, Send, Save,
     SaveWrite, Fail, FailWrite, ArqFinish, ConnectFails, TransportFails, JobTimeout
<1>2. CASE bak' = bak
  BY <1>1, <1>2, Invisible
<1>3. CASE LoadFails(t) \/ NodeMissing(t)
  <2>1. /\ job[t].pc \in {"load", "no_node"}
        /\ bak' = IF req[t].kind = "backup" THEN MarkedBackup(req[t].bak, "failed") ELSE bak
    BY <1>3 DEF LoadFails, NodeMissing
  <2>2. PICK st \in {"available", "failed"} : st = "failed"
    OBVIOUS
  <2> QED BY <1>1, <1>2, <2>1, <2>2, MarkRefines
<1>4. CASE SaveWrite(t)
  <2>1. /\ job[t].pc = "save_write" /\ req[t].kind = "backup" /\ obj[req[t].bak] = req[t].bak
        /\ bak' = bak \/ bak' = MarkedBackup(req[t].bak, "available")
    BY <1>4 DEF SaveWrite, IndInv, JobOK
  <2>2. PICK st \in {"available", "failed"} : st = "available"
    OBVIOUS
  <2> QED BY <1>1, <1>2, <2>1, <2>2, MarkRefines
<1>5. CASE FailWrite(t)
  <2>1. /\ job[t].pc = "fail_write" /\ req[t].kind = "backup"
        /\ bak' = bak \/ bak' = MarkedBackup(req[t].bak, "failed")
    BY <1>5 DEF FailWrite, IndInv, JobOK
  <2>2. PICK st \in {"available", "failed"} : st = "failed"
    OBVIOUS
  <2> QED BY <1>1, <1>2, <2>1, <2>2, MarkRefines
<1>6. CASE Save(t) \/ Fail(t)
  BY <1>2, <1>6 DEF Save, Fail
<1>7. \/ bak' = bak \/ LoadFails(t) \/ NodeMissing(t) \/ SaveWrite(t) \/ FailWrite(t)
  BY DEF JobStep, JobStart, LoadMissing, Load, FindNode, Send, Save, Fail, ArqFinish,
     ConnectFails, TransportFails, JobTimeout
<1> QED BY <1>2, <1>3, <1>4, <1>5, <1>7

\* An agent's step stores a backup or is invisible.
LEMMA WorkRefines ==
    ASSUME IndInv, NEW w \in work, WorkStep(w)
    PROVE  [Record!Next]_(Record!record_vars)
<1>1. CASE Upload(w)
  BY <1>1, UploadRefines
<1>2. CASE Download(w) \/ Answer(w) \/ AgentFails(w) \/ AgentRefuses(w)
  <2>1. bak' = bak /\ req' = req /\ obj' = obj /\ crashes' = crashes
    BY <1>2 DEF Download, Answer, AgentFails, AgentRefuses, panel
  <2> QED BY <2>1, Invisible
<1> QED BY <1>1, <1>2 DEF WorkStep

LEMMA ServerRefines ==
    ASSUME IndInv, ServerStep PROVE [Record!Next]_(Record!record_vars)
<1>1. ASSUME NEW s \in Servers, ServerLives(s) PROVE [Record!Next]_(Record!record_vars)
  <2>1. bak' = bak /\ req' = req /\ obj' = obj /\ crashes' = crashes
    BY <1>1, LivingTypes DEF ServerLives, panel
  <2> QED BY <2>1, Invisible
<1>2. CASE NodeDeleted
  <2>1. bak' = bak /\ req' = req /\ obj' = obj /\ crashes' = crashes
    BY <1>2 DEF NodeDeleted, Life!Unplace, panel
  <2> QED BY <2>1, Invisible
<1> QED BY <1>1, <1>2, ServerGoneRefines, CrashRefines DEF ServerStep

LEMMA NextRefines ==
    IndInv /\ [Next]_vars => [Record!Next]_(Record!record_vars)
<1> SUFFICES ASSUME IndInv, [Next]_vars PROVE [Record!Next]_(Record!record_vars)
  OBVIOUS
<1>1. CASE ClientStep
  BY <1>1, ClientInvisible
<1>2. ASSUME NEW t \in Tasks, RequestStep(t) PROVE [Record!Next]_(Record!record_vars)
  BY <1>2, RequestInvisible, CommitRefines DEF RequestStep
<1>3. ASSUME NEW t \in Tasks, JobStep(t) \/ Crash(t)
      PROVE  [Record!Next]_(Record!record_vars)
  BY <1>3, JobRefines, CrashRefines
<1>4. ASSUME NEW w \in work, WorkStep(w) PROVE [Record!Next]_(Record!record_vars)
  BY <1>4, WorkRefines
<1>5. CASE ServerStep
  BY <1>5, ServerRefines
<1>6. CASE UNCHANGED vars
  <2>1. bak' = bak /\ req' = req /\ obj' = obj /\ crashes' = crashes
    BY <1>6 DEF vars
  <2> QED BY <2>1, Invisible
<1> QED BY <1>1, <1>2, <1>3, <1>4, <1>5, <1>6 DEF Next

\* BackupService and the jobs backup_server and restore_backup keep what a row
\* of "backups" promises: available only with an upload of its own, no outcome
\* changed but after the death of a worker, and no return of a deleted backup.
THEOREM BackupsImplementRecord == Spec => ImplementsBackupRecord
<1>1. Spec => Record!Init /\ [][Record!Next]_(Record!record_vars)
  BY InitRefines, NextRefines, BackupsInvariant, PTL DEF Spec
<1> QED BY <1>1 DEF ImplementsBackupRecord, Record!Spec
=============================================================================
