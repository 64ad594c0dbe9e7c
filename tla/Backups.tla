-------------------------------- MODULE Backups --------------------------------
(***************************************************************************)
(* Backups of a server's volume: the API that records and enqueues them,   *)
(* the worker's jobs backup_server and restore_backup, the node agent that *)
(* moves the data between the volume and the object store, and the server  *)
(* itself, which goes on living (module ServerLife) while they work.       *)
(*                                                                         *)
(* As in Lifecycle a request, its task and its ARQ job share one id, each  *)
(* API handler is one transaction that enqueues before it commits, and a   *)
(* step ends where the code lets others run.                               *)
(***************************************************************************)
EXTENDS Naturals, FiniteSets

CONSTANTS
    None,         \* SQL NULL, Python None
    Servers,      \* ids of rows of "servers"
    Backups,      \* ids of rows of "backups"
    Tasks,        \* ids of rows of "tasks"
    Asks,         \* the requests clients make about servers, as in ServerLife
    Faults,       \* the failures that happen in this instance
    MaxRetries,   \* NodeAgentClient(max_retries)
    MaxCrashes    \* bound: how often a worker dies in the middle of a job

ASSUME BackupsAssumption ==
    /\ None \notin Servers \cup Backups
    /\ Servers \cap Backups = {}
    /\ Asks \subseteq {"provision", "start", "stop", "restart", "delete"}
    /\ Faults \subseteq {"rollback", "connect", "agent", "transport", "job_timeout", "node"}
    /\ MaxRetries \in Nat \ {0}
    /\ MaxCrashes \in Nat

VARIABLES
    row, box, up, asked,    \* the server, as ServerLife has it
    crashes,                \* how many workers died so far
    bak,        \* the committed rows of "backups"
    task,       \* the committed rows of "tasks" of these two kinds
    req,        \* the API request behind each task
    job,        \* the ARQ job of each task
    work,       \* what agents are working on
    obj         \* the object store: whose archive is under a key

Life == INSTANCE ServerLife

server == <<row, box, up, asked>>
panel == <<bak, task, req, job>>
vars == <<row, box, up, asked, crashes, bak, task, req, job, work, obj>>

-----------------------------------------------------------------------------
(* State *)

BackupStatuses == {"absent", "creating", "available", "failed"}
TaskStatuses == {"absent", "pending", "running", "succeeded", "failed"}

BackupRows == [status : BackupStatuses, srv : Servers \cup {None}]
TaskRows == [status : TaskStatuses, srv : Servers \cup {None}]

Requests == [pc : {"idle", "found", "flushed", "committed", "aborted"},
             kind : {"none", "backup", "restore"},
             bak : Backups \cup {None}, srv : Servers \cup {None}]

ActivePcs == {"load", "node", "no_node", "call", "wait",
              "save", "save_write", "fail", "fail_write"}

\* "seen" is a status a job has read and not used yet; "end" is how a job
\* ended that did not get to its own end: it ran before the task was
\* committed, or ARQ killed it.
Jobs == [pc : {"none", "queued", "ended", "done"} \cup ActivePcs,
         srv : Servers \cup {None}, att : 0 .. MaxRetries - 1,
         seen : BackupStatuses \cup TaskStatuses, end : {"own", "early", "killed"}]

NoJob == [pc |-> "none", srv |-> None, att |-> 0, seen |-> "absent", end |-> "own"]

\* A request in an agent's hands. "moved" means for a backup that the upload
\* was completed, and for a restore that the helper writes into the volume.
\* "heard" means that the caller still waits.
AgentWork == [task : Tasks, run : 0 .. MaxCrashes, kind : {"backup", "restore"},
              bak : Backups, srv : Servers, stage : {"open", "moved"}, heard : BOOLEAN]

Init ==
    /\ Life!Init
    /\ bak = [b \in Backups |-> [status |-> "absent", srv |-> None]]
    /\ task = [t \in Tasks |-> [status |-> "absent", srv |-> None]]
    /\ req = [t \in Tasks |-> [pc |-> "idle", kind |-> "none", bak |-> None, srv |-> None]]
    /\ job = [t \in Tasks |-> NoJob]
    /\ work = {}
    /\ obj = [k \in Backups \cup Servers |-> None]

\* Mutant: one key per server.
KeyPerServer(b, s) == s

\* s3_key = "<server id>/<backup id>.tar.gz": a key of the backup's own.
Key(b, s) == b

Exists(b) == bak[b].status # "absent"

\* A step of job t leaves it in state r.
Becomes(t, r) == job' = [job EXCEPT ![t] = r]

Goto(t, pc) == Becomes(t, [job[t] EXCEPT !.pc = pc])

-----------------------------------------------------------------------------
(* API *)

FlushAndEnqueue(t, r) ==
    /\ req' = [req EXCEPT ![t] = [r EXCEPT !.pc = "flushed"]]
    /\ Goto(t, "queued")

\* POST /servers/{id}/backups, in any status of the server.
CreatePending(t, b, s) ==
    /\ req[t].pc = "idle"
    /\ Life!Exists(s)
    /\ \A u \in Tasks : req[u].bak # b              \* uuid4: never used before
    /\ FlushAndEnqueue(t, [pc |-> "idle", kind |-> "backup", bak |-> b, srv |-> s])
    /\ UNCHANGED <<server, crashes, bak, task, work, obj>>

\* Mutant: any backup may be restored.
RequestRestoreFindAny(t, b) ==
    /\ req[t].pc = "idle"
    /\ Exists(b)
    /\ req' = [req EXCEPT ![t] = [pc |-> "found", kind |-> "restore", bak |-> b,
                                  srv |-> bak[b].srv]]
    /\ UNCHANGED <<server, crashes, bak, task, job, work, obj>>

\* POST /backups/{id}/restore: the handler reads the backup ...
RequestRestoreFind(t, b) ==
    /\ req[t].pc = "idle"
    /\ bak[b].status = "available"
    /\ req' = [req EXCEPT ![t] = [pc |-> "found", kind |-> "restore", bak |-> b,
                                  srv |-> bak[b].srv]]
    /\ UNCHANGED <<server, crashes, bak, task, job, work, obj>>

\* ... and then the server, which must be stopped.
RequestRestore(t) ==
    /\ req[t].pc = "found"
    /\ IF row[req[t].srv] = "stopped"
       THEN FlushAndEnqueue(t, req[t])
       ELSE /\ req' = [req EXCEPT ![t].pc = "aborted"]
            /\ UNCHANGED job
    /\ UNCHANGED <<server, crashes, bak, task, work, obj>>

Commit(t) ==
    /\ req[t].pc = "flushed"
    /\ req' = [req EXCEPT ![t].pc = "committed"]
    /\ task' = [task EXCEPT ![t] = [status |-> "pending", srv |-> req[t].srv]]
    /\ bak' = IF req[t].kind = "backup"
              THEN [bak EXCEPT ![req[t].bak] = [status |-> "creating", srv |-> req[t].srv]]
              ELSE bak
    /\ UNCHANGED <<server, crashes, job, work, obj>>

Rollback(t) ==
    /\ "rollback" \in Faults
    /\ req[t].pc = "flushed"
    /\ req' = [req EXCEPT ![t].pc = "aborted"]
    /\ UNCHANGED <<server, crashes, bak, task, job, work, obj>>

-----------------------------------------------------------------------------
(* Worker: the jobs backup_server and restore_backup *)

Visible(t) == task[t].status # "absent"

Marked(t, status) == IF Visible(t) THEN [task EXCEPT ![t].status = status] ELSE task

\* mark_available, mark_failed: silent when the row is gone.
MarkedBackup(b, status) == IF Exists(b) THEN [bak EXCEPT ![b].status = status] ELSE bak

\* mark_running reads the task; its UPDATE is committed with the load.
JobStart(t) ==
    /\ job[t].pc = "queued"
    /\ Becomes(t, [job[t] EXCEPT !.pc = "load", !.seen = task[t].status])
    /\ UNCHANGED <<server, crashes, bak, task, req, work, obj>>

\* "task missing": nothing is marked.
LoadMissing(t) ==
    /\ job[t].pc = "load"
    /\ ~Visible(t)
    /\ Becomes(t, [job[t] EXCEPT !.pc = "ended", !.end = "early"])
    /\ UNCHANGED <<server, crashes, bak, task, req, work, obj>>

\* What the job needs of the server and of the backup.
Ready(t) ==
    LET s == task[t].srv IN
    /\ s # None
    /\ box[s] = "placed"
    /\ Exists(req[t].bak)
    /\ req[t].kind = "restore" => row[s] = "stopped"

\* "server/backup missing", "restore_not_allowed": raised outside the try.
LoadFails(t) ==
    /\ job[t].pc = "load"
    /\ Visible(t)
    /\ ~Ready(t)
    /\ task' = Marked(t, "failed")
    /\ bak' = IF req[t].kind = "backup" THEN MarkedBackup(req[t].bak, "failed") ELSE bak
    /\ Goto(t, "ended")
    /\ UNCHANGED <<server, crashes, req, work, obj>>

Load(t) ==
    /\ job[t].pc = "load"
    /\ Visible(t)
    /\ Ready(t)
    /\ Becomes(t, [job[t] EXCEPT !.pc = "node", !.srv = task[t].srv])
    /\ UNCHANGED <<server, crashes, bak, task, req, work, obj>>

\* The node is read after the server, and then the transaction is committed.
\* A task that became visible only after mark_running stays "pending".
FindNode(t) ==
    /\ job[t].pc = "node"
    /\ Becomes(t, [job[t] EXCEPT !.att = 0,
                     !.pc = IF box[job[t].srv] = "lost" THEN "no_node" ELSE "call"])
    /\ task' = IF job[t].seen = "absent" THEN task ELSE Marked(t, "running")
    /\ UNCHANGED <<server, crashes, bak, req, work, obj>>

\* "node missing": a transaction of its own.
NodeMissing(t) ==
    /\ job[t].pc = "no_node"
    /\ task' = Marked(t, "failed")
    /\ bak' = IF req[t].kind = "backup" THEN MarkedBackup(req[t].bak, "failed") ELSE bak
    /\ Goto(t, "ended")
    /\ UNCHANGED <<server, crashes, req, work, obj>>

\* The agent has answered 200. A restore has only its task to mark;
\* mark_available reads the backup ...
Save(t) ==
    /\ job[t].pc = "save"
    /\ IF req[t].kind = "restore"
       THEN /\ task' = Marked(t, "succeeded")
            /\ Goto(t, "ended")
       ELSE /\ Becomes(t, [job[t] EXCEPT !.pc = "save_write",
                             !.seen = bak[req[t].bak].status])
            /\ UNCHANGED task
    /\ UNCHANGED <<server, crashes, bak, req, work, obj>>

\* The row has gone between the SELECT and the UPDATE: StaleDataError.
Stale(t) == job[t].seen # "absent" /\ ~Exists(req[t].bak)

\* ... and writes it in the transaction that ends the task.
SaveWrite(t) ==
    /\ job[t].pc = "save_write"
    /\ IF Stale(t)
       THEN /\ Goto(t, "fail")
            /\ UNCHANGED <<bak, task>>
       ELSE /\ Goto(t, "ended")
            /\ bak' = MarkedBackup(req[t].bak, "available")
            /\ task' = Marked(t, "succeeded")
    /\ UNCHANGED <<server, crashes, req, work, obj>>

\* Mutant: the exception is raised without a mark.
FailUnmarked(t) ==
    /\ job[t].pc = "fail"
    /\ Goto(t, "ended")
    /\ UNCHANGED <<server, crashes, bak, task, req, work, obj>>

\* The except block: a restore has only its task to mark ...
Fail(t) ==
    /\ job[t].pc = "fail"
    /\ IF req[t].kind = "restore"
       THEN /\ task' = Marked(t, "failed")
            /\ Goto(t, "ended")
       ELSE /\ Becomes(t, [job[t] EXCEPT !.pc = "fail_write",
                             !.seen = bak[req[t].bak].status])
            /\ UNCHANGED task
    /\ UNCHANGED <<server, crashes, bak, req, work, obj>>

\* Mutant: as for a restore, only the task is marked.
FailWriteTaskOnly(t) ==
    /\ job[t].pc = "fail_write"
    /\ task' = Marked(t, "failed")
    /\ Goto(t, "ended")
    /\ UNCHANGED <<server, crashes, bak, req, work, obj>>

\* ... and a backup its row first; if that has gone since it was read, the
\* block itself fails and the task stays as it is.
FailWrite(t) ==
    /\ job[t].pc = "fail_write"
    /\ IF Stale(t)
       THEN UNCHANGED <<bak, task>>
       ELSE /\ bak' = MarkedBackup(req[t].bak, "failed")
            /\ task' = Marked(t, "failed")
    /\ Goto(t, "ended")
    /\ UNCHANGED <<server, crashes, req, work, obj>>

ArqFinish(t) ==
    /\ job[t].pc = "ended"
    /\ Becomes(t, [NoJob EXCEPT !.pc = "done", !.end = job[t].end])
    /\ UNCHANGED <<server, crashes, bak, task, req, work, obj>>

-----------------------------------------------------------------------------
(* NodeAgentClient.backup and restore, and the agent's BackupOps *)

\* _retry: another attempt, or the exception or 5xx answer of the last one.
AttemptFails(t) ==
    IF job[t].att + 1 < MaxRetries
    THEN Becomes(t, [job[t] EXCEPT !.pc = "call", !.att = @ + 1])
    ELSE Goto(t, "fail")

ConnectFails(t) ==
    /\ "connect" \in Faults
    /\ job[t].pc = "call"
    /\ AttemptFails(t)
    /\ UNCHANGED <<server, crashes, bak, task, req, work, obj>>

\* The agent takes the request and makes its helper container. It is told the
\* volume and the key; it does not look at the server's own container.
Send(t) ==
    /\ job[t].pc = "call"
    /\ Goto(t, "wait")
    /\ work' = work \cup {[task |-> t, run |-> crashes, kind |-> req[t].kind,
                           bak |-> req[t].bak, srv |-> job[t].srv,
                           stage |-> "open", heard |-> TRUE]}
    /\ UNCHANGED <<server, crashes, bak, task, req, obj>>

\* The work job t waits for, and the same work when nobody waits any more.
Awaited(t) == {w \in work : w.task = t /\ w.heard}

Unheard(t) == (work \ Awaited(t)) \cup {[w EXCEPT !.heard = FALSE] : w \in Awaited(t)}

Moved(w) == (work \ {w}) \cup {[w EXCEPT !.stage = "moved"]}

\* complete_multipart_upload: the object appears at once, with what the helper
\* has put out until its stream ended, for whatever reason. (Parts that were
\* uploaded before that are no object, whether they are aborted or left.)
Upload(w) ==
    /\ w.kind = "backup" /\ w.stage = "open"
    /\ obj' = [obj EXCEPT ![Key(w.bak, w.srv)] = w.bak]
    /\ work' = Moved(w)
    /\ UNCHANGED <<server, crashes, panel>>

\* get_object answers, and the helper unpacks into the volume from here on.
Download(w) ==
    /\ w.kind = "restore" /\ w.stage = "open"
    /\ obj[Key(w.bak, w.srv)] # None
    /\ work' = Moved(w)
    /\ UNCHANGED <<server, crashes, panel, obj>>

\* 200, or the end of work nobody waits for.
Answer(w) ==
    /\ w.stage = "moved"
    /\ work' = work \ {w}
    /\ IF w.heard THEN Goto(w.task, "save") ELSE UNCHANGED job
    /\ UNCHANGED <<server, crashes, bak, task, req, obj>>

\* 5xx: S3Unavailable, Docker failed, or the wait for the helper timed out,
\* which may be after the upload was completed.
AgentFails(w) ==
    /\ "agent" \in Faults
    /\ work' = work \ {w}
    /\ IF w.heard THEN AttemptFails(w.task) ELSE UNCHANGED job
    /\ UNCHANGED <<server, crashes, bak, task, req, obj>>

\* 404 (VolumeNotFound) is not tried again.
AgentRefuses(w) ==
    /\ "agent" \in Faults
    /\ w.stage = "open"
    /\ work' = work \ {w}
    /\ IF w.heard THEN Goto(w.task, "fail") ELSE UNCHANGED job
    /\ UNCHANGED <<server, crashes, bak, task, req, obj>>

\* The connection breaks: not tried again, while the agent works on or, if
\* it is the agent that died, does not.
TransportFails(t) ==
    /\ "transport" \in Faults
    /\ job[t].pc = "wait"
    /\ work' \in {Unheard(t), work \ Awaited(t)}
    /\ Goto(t, "fail")
    /\ UNCHANGED <<server, crashes, bak, task, req, obj>>

\* Mutant: the answer to a request finds the job although ARQ has killed it.
JobTimeoutHeard(t) ==
    /\ "job_timeout" \in Faults
    /\ job[t].pc \in ActivePcs
    /\ Becomes(t, [NoJob EXCEPT !.pc = "ended", !.end = "killed"])
    /\ UNCHANGED <<server, crashes, bak, task, req, work, obj>>

\* ARQ cancels a job after its default of 300 s, long before the client's
\* read timeout of 600 s; CancelledError passes "except Exception", and ARQ
\* does not run the job again.
JobTimeout(t) ==
    /\ "job_timeout" \in Faults
    /\ job[t].pc \in ActivePcs
    /\ Becomes(t, [NoJob EXCEPT !.pc = "ended", !.end = "killed"])
    /\ work' = Unheard(t)
    /\ UNCHANGED <<server, crashes, bak, task, req, obj>>

\* The worker dies; ARQ runs the job again, even one that was just finished.
Crash(t) ==
    /\ Life!Crash
    /\ job[t].pc \in ActivePcs \cup {"ended"}
    /\ Becomes(t, [NoJob EXCEPT !.pc = "queued"])
    /\ work' \in {Unheard(t), work \ Awaited(t)}
    /\ UNCHANGED <<bak, task, req, obj>>

-----------------------------------------------------------------------------
(* The server's own life *)

ServerLives(s) ==
    /\ Life!Living(s)
    /\ UNCHANGED <<panel, work, obj>>

NodeDeleted ==
    /\ "node" \in Faults
    /\ \E S \in SUBSET Servers : S # {} /\ Life!Unplace(S)
    /\ UNCHANGED <<panel, work, obj>>

\* The lifecycle's own jobs die and run again.
LifecycleCrash ==
    /\ Life!Crash
    /\ UNCHANGED <<panel, work, obj>>

\* The row is deleted once no transaction that refers to it is open; the rows
\* of its backups go with it, tasks.server_id becomes NULL, and the archives
\* stay in the store.
ServerGone(s) ==
    /\ \A t \in Tasks : req[t].pc = "flushed" => req[t].srv # s
    /\ Life!Gone(s)
    /\ bak' = [b \in Backups |->
                 IF bak[b].srv = s THEN [status |-> "absent", srv |-> None] ELSE bak[b]]
    /\ task' = [t \in Tasks |->
                 IF task[t].srv = s THEN [task[t] EXCEPT !.srv = None] ELSE task[t]]
    /\ UNCHANGED <<req, job, work, obj>>

-----------------------------------------------------------------------------
(* The specification *)

ClientStep ==
    \/ \E t \in Tasks, b \in Backups, s \in Servers : CreatePending(t, b, s)
    \/ \E t \in Tasks, b \in Backups : RequestRestoreFind(t, b)

RequestStep(t) == RequestRestore(t) \/ Commit(t) \/ Rollback(t)

WorkStep(w) ==
    Upload(w) \/ Download(w) \/ Answer(w) \/ AgentFails(w) \/ AgentRefuses(w)

JobStep(t) ==
    \/ JobStart(t) \/ LoadMissing(t) \/ LoadFails(t) \/ Load(t)
    \/ FindNode(t) \/ NodeMissing(t) \/ Send(t)
    \/ Save(t) \/ SaveWrite(t) \/ Fail(t) \/ FailWrite(t) \/ ArqFinish(t)
    \/ ConnectFails(t) \/ TransportFails(t) \/ JobTimeout(t)

ServerStep ==
    \/ \E s \in Servers : ServerLives(s) \/ ServerGone(s)
    \/ NodeDeleted
    \/ LifecycleCrash

Next ==
    \/ ClientStep
    \/ ServerStep
    \/ \E t \in Tasks : RequestStep(t) \/ JobStep(t) \/ Crash(t)
    \/ \E w \in work : WorkStep(w)

Spec == Init /\ [][Next]_vars

\* Handlers run to their end, workers take jobs and run them, and an agent
\* does something with a request its caller waits for. Clients, the server's
\* life, crashes and what an agent does for nobody are left to chance.
Fairness ==
    \A t \in Tasks :
        /\ WF_vars(RequestStep(t))
        /\ WF_vars(JobStep(t) \/ \E w \in Awaited(t) : WorkStep(w))

FairSpec == Spec /\ Fairness

-----------------------------------------------------------------------------
(* Properties *)

\* Every variable has its type.
TypeOK ==
    /\ row \in [Servers -> Life!Statuses]
    /\ box \in [Servers -> {"none", "placed", "lost"}]
    /\ up \subseteq Servers
    /\ asked \in [Servers -> SUBSET Life!Kinds]
    /\ crashes \in 0 .. MaxCrashes
    /\ bak \in [Backups -> BackupRows]
    /\ task \in [Tasks -> TaskRows]
    /\ req \in [Tasks -> Requests]
    /\ job \in [Tasks -> Jobs]
    /\ work \subseteq AgentWork
    /\ obj \in [Backups \cup Servers -> Backups \cup {None}]

\* A restore an agent works on finds the archive of the very backup the owner
\* chose: neither a failed, an unfinished or a repeated backup, nor another
\* backup of the same server, is ever unpacked in its place.
RestoreFindsArchive ==
    \A w \in work : w.kind = "restore" => obj[Key(w.bak, w.srv)] = w.bak

\* The task of a backup and the backup never tell two stories, although
\* reruns, failures and the deletion of the server write one or the other.
TaskMatchesBackup ==
    \A t \in Tasks : req[t].kind = "backup" /\ Exists(req[t].bak) =>
        /\ task[t].status = "succeeded" => bak[req[t].bak].status = "available"
        /\ task[t].status = "failed" => bak[req[t].bak].status = "failed"

Committed(b) == \E t \in Tasks : req[t].kind = "backup" /\ req[t].bak = b
                                 /\ req[t].pc = "committed"

RecordOf(b) ==
    IF Exists(b) THEN bak[b].status ELSE IF Committed(b) THEN "gone" ELSE "none"

Stored == {b \in Backups : \E k \in DOMAIN obj : obj[k] = b}

Record == INSTANCE BackupRecord WITH
    record <- [b \in Backups |-> RecordOf(b)],
    stored <- Stored,
    reruns <- crashes

\* What the rows of "backups" show is what BackupRecord promises: available
\* only when an upload made for this backup was completed under its key, an
\* outcome that changes only after a worker died, and no return of a deleted
\* backup. (Of what is in the object neither says anything.)
ImplementsBackupRecord == Record!Spec

\* Job t was killed by ARQ's timeout or ran before its task was committed.
Abandoned(t) == job[t].end # "own"

\* What clients see of job t is not at its end: the task is running, or the
\* backup is still being made.
Unsettled(t) ==
    \/ task[t].status = "running" /\ task[t].srv # None
    \/ Visible(t) /\ req[t].kind = "backup" /\ bak[req[t].bak].status = "creating"

\* A backup that is being made is settled and a running task is brought to its
\* end, or the server is deleted under them, unless the job was abandoned: no
\* failure of the agent, the store, the node or a worker, and nothing the
\* server goes through, leaves them in between.
EveryJobSettles == \A t \in Tasks : Unsettled(t) ~> ~Unsettled(t) \/ Abandoned(t)

\* The caller guarantees that the main container is stopped: no container of
\* the server runs while the helper of a restore writes into its volume.
RestoreUnderStopped ==
    \A w \in work : w.kind = "restore" /\ w.stage = "moved" => w.srv \notin up
-----------------------------------------------------------------------------
(* The inductive invariant of the proofs (module BackupsProofs) *)

\* A request names its backup from its first statement on, and has a job only
\* once it has enqueued one. A restore names a backup whose archive is there.
RequestOK(t) ==
    /\ req[t].pc = "idle" => req[t].kind = "none" /\ req[t].bak = None
    /\ req[t].pc # "idle" => req[t].kind # "none" /\ req[t].bak \in Backups
    /\ req[t].pc \in {"idle", "found"} => job[t].pc = "none"
    /\ req[t].kind = "restore" => obj[req[t].bak] = req[t].bak

\* A backup is made by one request only.
MadeOnce ==
    \A t, u \in Tasks :
        req[t].kind = "backup" /\ req[u].kind = "backup" /\ req[t].bak = req[u].bak => t = u

\* A backup has a row only after its commit, is available only with its
\* archive, and no other archive is kept under its key.
RowOK(b) ==
    /\ IF Exists(b) THEN Committed(b) ELSE bak[b].srv = None
    /\ bak[b].status = "available" => obj[b] = b

KeysOwned == \A k \in Backups \cup Servers : obj[k] \in {None, k}

\* A job that has loaded its rows goes on for a committed backup; it saves a
\* backup only after the upload, and only once if no worker dies. A restore
\* never writes the backup's row.
JobOK(t) ==
    /\ job[t].pc \in ActivePcs \ {"load"} => job[t].srv \in Servers /\ Committed(req[t].bak)
    /\ job[t].pc \in {"save", "save_write"} => obj[req[t].bak] = req[t].bak
    /\ job[t].pc \in {"save_write", "fail_write"} => req[t].kind = "backup"
    /\ crashes = 0 /\ req[t].kind = "backup" /\ job[t].pc \notin {"ended", "done"} =>
         bak[req[t].bak].status \in {"absent", "creating"}

\* An agent works on what the request of its task named; whoever is heard has
\* a job that waits, for this answer alone.
WorkOK(w) ==
    /\ w.kind = req[w.task].kind /\ w.bak = req[w.task].bak /\ Committed(w.bak)
    /\ w.stage = "moved" => obj[w.bak] = w.bak
    /\ w.heard => job[w.task].pc = "wait"

OneHeard == \A t \in Tasks : \A v, w \in Awaited(t) : v = w

\* Requests, rows, jobs, agents and the store agree.
IndInv ==
    /\ TypeOK
    /\ \A t \in Tasks : RequestOK(t) /\ JobOK(t)
    /\ \A b \in Backups : RowOK(b)
    /\ \A w \in work : WorkOK(w)
    /\ MadeOnce
    /\ KeysOwned
    /\ OneHeard
    /\ TaskMatchesBackup
=============================================================================
