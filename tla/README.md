# Verification of the game server panel

TLA+ specifications of the game hosting panel in `src/`, model-checked with TLC
and, where it says so, proved with TLAPS. Paths below are relative to the
repository; `api/`, `worker/` and `node_agent/` stand for
`apps/api/src/gamehost_api/`, `apps/worker/src/gamehost_worker/` and
`apps/node_agent/src/gamehost_node/`.

## 1. Inventory

The panel is three programs around PostgreSQL and Redis:

* the **API** (FastAPI). Each request runs in one transaction that
  `get_session` commits after the handler has returned. Handlers that start
  work insert a row in `tasks` and enqueue an ARQ job of the same id;
* the **worker** (ARQ, up to `max_jobs` jobs at a time per process, several
  processes allowed). A job is a coroutine of several short transactions with
  HTTP calls to a node agent in between;
* a **node agent** on each host, which drives Docker.

| Component | State | Operations | Hard parts | What makes it correct |
|---|---|---|---|---|
| Server API (`api/domain/servers.py`) | `servers`, `tasks`, the ARQ queue | create, start/stop/restart, patch, delete | job enqueued before the commit; check-then-write on `status`, also by a PATCH | a task that is shown has a job; nothing is removed that nobody asked to delete |
| Lifecycle jobs (`worker/jobs/{provision,_lifecycle,delete}.py`) | the job's local variables, `servers`, `tasks` | provision, start, stop, restart, delete | jobs on one server interleave; rows vanish under a job; the except block can fail; re-run after a crash | rows, tasks and containers agree; every job ends |
| Agent client (`worker/clients/node_agent_client.py`) | attempt counter | `_retry` around each call | POSTs are repeated; the agent may act after the time-out | retries never make a second container or remove a wanted one |
| Node selection (`api/domain/node_selector.py`) | none (a query) | `least_loaded` | reads rows that concurrent jobs have not written yet; NULLs in SUM | capacity is not exceeded |
| Node registry (`api/domain/nodes.py`) | `nodes` | create, patch, delete | a node goes away under servers and jobs | rows name existing nodes |
| Agent: containers (`node_agent/domain/containers.py`, `docker_facade.py`) | Docker | create, start, stop, restart, remove, inspect | name conflicts, half-done creates | one container per server and host |
| Backups (`api/domain/backups.py`, `worker/jobs/{backup,restore}.py`, `node_agent/domain/backups.py`) | `backups`, `tasks`, the object store, helper containers | create, restore | the server is started, stopped and deleted meanwhile; long calls that are repeated, time out and finish late; rows that vanish under a job | `available` means that an upload of the backup's own was completed under its key (what is in it, see section 6); task and backup agree; every backup settles; nothing runs in a volume that is restored |
| Members and roles (`api/domain/{members,access}.py`) | `server_members`, `server_invites` | invite, revoke, accept, remove | accept against revoke; expired invites | a member was invited, with that role; one open invite per address; nothing outlives the server |
| Accounts and refresh tokens (`api/domain/auth.py`) | `users`, `refresh_tokens` | register, login, refresh, logout | registrations that race; rotation raced by a second request; revocation inside a transaction that is rolled back | one account per address; no login is lost; reuse revokes all |
| Logs (`node_agent/log_publisher.py`, `ServerService.stream_logs_iter`) | publisher tasks, tokens, Redis subscriptions | publish, issue a token, stream | publishers survive neither the agent nor a run of the container; each holds a thread of one pool while its container is silent; no replay | a stream is a gapless stretch of its container's log; a publisher ends only when something happened to its container; what is written is shown, unless no thread comes free |
| Templates, audit log, settings, health, seeds | rows, none | create, update | none over several steps | - |

`PROJECT.json` lists the components with their sources, and under `hazards`
what of this is hard to test, at its line, with the properties that guard it.

## 2. Modules

| Module | What it is |
|---|---|
| `NodeSelector` | the query of `least_loaded` as operators over the rows of `nodes` and `servers` |
| `NodeAgent` | what the agent's operations do to a table of containers |
| `Lifecycle` | the composition: API handlers, queue, jobs, agent calls, failures; the properties |
| `LifecycleInv` | the inductive invariants `IndInv` and `HistoryInv` |
| `LifecycleProofs`, `LifecycleHistoryProofs` | the proofs: what every state satisfies; what relates it to its past |
| `LifecycleMishaps`, `LifecycleMishapsProofs` | `Lifecycle` with a history of three mishaps, and what can go wrong only through them; the proofs, with lemmas about sums |
| `ServerLife` | abstract: what the rest of the panel may rely on about a server |
| `ServerLifeRefinement`, `ServerLifeProofs` | the mapping under which `Lifecycle` implements `ServerLife`, and the invariant `LifeInv` that takes; the proof |
| `Auth`, `AuthProofs` | accounts and refresh tokens with their properties and inductive invariant; the proofs |
| `Members`, `MembersProofs` | members and invites of servers; the proofs |
| `BackupRecord` | abstract: what a row of `backups` promises |
| `Backups`, `BackupsProofs` | backups and restores: API, jobs, agent and object store, composed with `ServerLife`; the proofs |
| `LogStream`, `LogStreamProofs` | publisher tasks, log tokens and streams; the proofs |
| `MCLifecycle`, `MCLifecycleMishaps`, `MCAuth`, `MCMembers`, `MCBackups`, `MCLogStream` | constants and symmetry for TLC |

```
                      ServerLife  (abstract server)
                       ^        ^
            implements |        | composed with
  NodeSelector --> Lifecycle   Backups --> implements BackupRecord
  NodeAgent    -->     ^
                       | history variables
                LifecycleMishaps
```

`Lifecycle` and `Backups` together would be out of TLC's reach. `ServerLife` cuts
between them: `Lifecycle` is proved to implement it (`ImplementsServerLife`), and
`Backups` runs beside it, so that the server under a backup does whatever
`ServerLife` allows, which includes all that `Lifecycle` does to one server.

### How `Lifecycle` corresponds to the code

A request is known by its task id `t`, which is also its ARQ job id:
`req[t]` is the handler with its transaction, `task[t]` the committed row of
`tasks`, `job[t]` the job. `srv`, `node` and `ctr` are the rows of `servers` and
`nodes` and the containers of all hosts; `late` holds the requests an agent
still works on after the caller stopped waiting.

An action is what the code does between two points where others can interfere:
a commit, an agent call, or a SELECT whose result a later statement uses.

| Code | Actions |
|---|---|
| `ServerService.create` / `request_action` | `Create` / `RequestAction` |
| `ServerService.patch` | `PatchCheck` (reads `stopped`), `Patch` (writes the resources, whatever the status is by then) |
| `ServerService.delete` | `DeleteCheck` (reads the status), `DeleteFlush` (writes `deleting`, inserts the task, enqueues) |
| `get_session` | `Commit`, `Rollback` |
| `NodeService` | `NodeCreate`, `NodePatch`, `NodeDelete` |
| `provision` | `JobStart`, `ProvisionMissing` or `ProvisionNoCapacity` or `ProvisionPlace`, the two agent calls, `ProvisionSave`, `ProvisionDone`; on an exception `ProvisionFailFind`, `ProvisionFailSave` |
| `run_lifecycle` | `JobStart`, `LoadMissing` or `LifecycleUnprovisioned` or `LifecycleLoad`, the agent call, `LifecycleFind`, `LifecycleSave`; on an exception `JobFail` |
| `delete` | `JobStart`, `LoadMissing` or `DeleteNothing` or `DeleteLoad`, `DeleteFindNode`, the agent call, `DeleteRow`; on an exception `JobFail` |
| an agent call | an answer (`CreateReplies`, `InspectReplies`, `LifecycleReplies`, `DeleteReplies`) or a failed attempt (`ConnectFails`, `DockerFails`, `ReadTimesOut`, `TransportFails`); `AttemptFails` is the loop of `_retry`; `LateExec` is the agent acting later |
| ARQ | `JobStart` (a slot of `max_jobs`), `ArqFinish`, `Crash` (the job is queued again) |

`ServerLife` keeps of all this, per server, the status (`row`), whether it has a
container on record and a node (`box`), whether a container of it runs (`up`) and
which requests were ever made (`asked`). It says that every status, start, stop
and removal goes back to a request for that very server, that `running` is
written for a container that somebody started, and that a deleted row stays
away; not which job acts when. The mapping is in `ServerLifeRefinement`.

What PostgreSQL and SQLAlchemy add is modelled where it decides an outcome:
rows become visible at the commit; an UPDATE waits for a transaction that
updated the row (`RowLocked`), a DELETE also for one that inserted a referring
row (`KeyLocked`); foreign keys with `ON DELETE SET NULL`; an UPDATE that
matches no row raises `StaleDataError`; the ORM leaves out a column whose value
it believes unchanged (`StatusWritten`).

Simplifications, and why they do not hide behaviour:

* `request_action` checks the status and inserts its task in one action. It writes
  nothing of the server row, so that a change of the status in between gives the
  same state as the same change just after the action.
* The handlers of `PATCH` that have read `stopped` are not told apart: `patch` says
  of a row that there may be some, and each may write any of the sizes, now or
  later. A handler that is done, or fails, is one that writes no more.
* `provision` writes `node_id` whenever it saves. The ORM leaves the column out
  when a re-run after a crash chose the node that is recorded already; this
  differs only if that node is deleted during the re-run, when the code saves
  with `node_id` NULL and the model fails the job.
* Names, environments, ports, URLs, keys and timestamps are left out; the
  container's name `gh-<server id>` is modelled by `NameTaken`. CPU is counted in
  cores and memory in units of 1024 MB.
* A database that refuses a statement is modelled at the API's commit
  (`Rollback`) and, for the worker, by `Crash` only.
* `Idle` lets the panel rest when the task ids of the instance are used up, so
  that TLC's deadlock check finds only handlers and jobs that wait for each
  other.

### How `Auth` and `Members` correspond to the code

Both have the same shape: committed rows, and `req[r]`, the transaction of one
HTTP request with what it read and what it wrote. A request takes one action
per statement whose outcome another transaction can change; SELECTs that no
other request can tell apart are one action with the statement that follows.

| Code | Actions |
|---|---|
| `AuthService.register` | `RegisterRead`, `RegisterInsert` (the unique index on `lower(email)` waits, then decides) |
| `AuthService.login` | `LoginRefused`, `LoginAccepted` |
| `AuthService.refresh` | `RefreshRead`, then `RefreshRotate` (revoke and `_issue_pair`) or `RevokeAll` |
| `AuthService.logout` | `LogoutRead`, `LogoutRevoke` |
| `MemberService.invite` | `InviteRead`, `InviteFind`, `InviteInsert` (the partial unique index) |
| `MemberService.accept_invite` | `AcceptLookup`, `AcceptCheck`, `AcceptAdmit` (the primary key of `server_members`), `AcceptMark` |
| `MemberService.revoke_invite`, `remove_member` | `RevokeRead`, `RevokeUpdate`; `RemoveRead`, `RemoveDelete` |
| `get_session` | `Commit`, `CommitFails`, and in `Auth` `Rollback` after `RevokeAll`; every other exception is raised before anything is written, or undoes an insert nobody saw, and ends the request in the same action |

FastAPI (0.136 in `uv.lock`) leaves `get_session` after the response is sent, so
a client may use a token or an invite whose row is not committed, or never will
be: the inputs of `refresh`, `logout`, `accept` and `revoke` are all tokens and
invites that a handler has returned. Expiry is an action of the clock;
`Deactivate` is an operator at the database, since nothing in the repository
writes `is_active`; `DeleteServer` is the last transaction of the delete job,
which cascades to members and invites. `revoke_all_for_user` takes its row locks
in one action: two such statements scan the same index in the same order.
Passwords, hashes, JWTs and cookies' attributes are not looked into. An address
is a name and whether it is in lower case; in `Members`, where `Auth` has shown
that an address has one account, the account stands for it.

### How `Backups` corresponds to the code

As in `Lifecycle` a request, its task and its job share the id `t`. `bak` and `task`
are the committed rows, `work` what agents have in hand (`heard`: the caller
still waits), `obj` the object store. `row`, `box`, `up`, `asked` and `crashes` are
the server, as `ServerLife` has it.

| Code | Actions |
|---|---|
| `BackupService.create_pending` | `CreatePending` |
| `BackupService.request_restore` | `RequestRestoreFind` (reads the backup), `RequestRestore` (reads the server, enqueues or refuses) |
| `get_session` | `Commit`, `Rollback` |
| `backup_server`, `restore_backup` | `JobStart` (`mark_running` reads the task), `LoadMissing` or `LoadFails` or `Load`, `FindNode`, `NodeMissing`; then the call; then `Save`, and for a backup `SaveWrite`; on an exception `Fail`, and for a backup `FailWrite` |
| `NodeAgentClient.backup`, `restore` | `Send`; `ConnectFails`, `TransportFails`, `AttemptFails` (the loop of `_retry`) |
| `BackupOps` | `Upload` (the multipart upload is completed) or `Download`, then `Answer`; `AgentFails` (5xx), `AgentRefuses` (404) |
| ARQ | `ArqFinish`, `JobTimeout` (300 s, ARQ's default), `Crash` |
| `delete` and the foreign keys | `ServerGone`: rows of backups go, `tasks.server_id` becomes NULL, archives stay |

`SaveWrite` and `FailWrite` are steps of their own because the row may go between
the SELECT and the UPDATE of `mark_available` and `mark_failed`, which raises
`StaleDataError` (`Stale`). Simplifications:

* `LoadFails` and `NodeMissing` read and write the backup in one action. In
  `LoadFails` the transaction holds the task's row lock since `mark_running`, for
  which the cascade of the server's deletion waits; in `NodeMissing` a deletion
  in between leaves a task without a server, which no property is about.
* `Load` and `FindNode` are one transaction under the same lock; the model lets
  the server go in between, which only adds behaviour.
* The client's read timeout of 600 s is never reached, since ARQ cancels the job
  after 300 s: there is no such action.
* Parts of an upload that was not completed are no object. `max_jobs` is left
  out (a job of this module never waits for another one), and so are sizes,
  the audit log and what an archive holds.

### How `LogStream` corresponds to the code

`ctr` is Docker's state of a container and the number of messages it wrote, `pub`
the entry of `LogPublisher._tasks` with the number of messages published, `op` the
create or delete in the agent's hands, `row` the containers that rows of `servers`
name, `cli`, `inbox` and `got` a client with its token, subscription and what its
present stream has shown. `upset` is a history: the containers something happened
to that can end their publisher.

| Code | Actions |
|---|---|
| `ContainerService.create` | `CreateContainer`, then `CreateDone` (starts the publisher) or `CreateFails` |
| `start`, `stop`, `restart` | `StartContainer`, `StopContainer`, `RestartContainer`; none touches the publisher, but `docker logs --follow` ends with the run (`RunEnds`) |
| `ContainerService.delete` | `DeleteStops` (cancels the task and closes its stream, which ends the read), `DeleteRemoves` |
| `LogPublisher._run`, `stream_logs` | `TakeThread` (`next(it)` goes to a thread), `Publish`, `PublisherEnds`, `PublisherFails` |
| `lifespan` of the agent | `AgentRestart` |
| `mint_log_token`, `authorize_log_stream` | `MintLogToken`, `AuthorizeLogStream`; the clock is `TokenExpires` |
| `stream_logs_iter` | `Subscribe`, `Relay`, `StreamEnds` |
| the jobs, as far as streams see them | `RecordContainer`, `DeleteRow` |

A message is what Docker yields at once; several lines in it, or half a
character, are not told apart, and one that is only newlines, which
`LogPublisher._run` drops, is none. Redis delivers in order to those subscribed at
that moment.

`reading` holds the publishers whose `next(it)` has a thread. Every call to Docker is
made with `asyncio.to_thread` and needs one of the same `Threads`, but comes back (a
stop after 30 s at the latest), so it is a guard only (`ThreadFree`); a read comes
back when its container writes, ends or is given up. The pool has
`min(32, cpu + 4)` threads; nothing in the repository sets it.

## 3. Runs

Every bound is a constant: how many servers, nodes, task ids, container ids,
`MaxRetries`, `MaxJobs`, `MaxCrashes`, and which requests and failures occur.
Three task ids are enough for a provision and two requests that race each other
and it; two container ids per possible create let a duplicate exist. `LifecycleCrash` and
`LifecycleLive` do without restarts, which differ from starts in what they require of
the status only; the other two runs of `Lifecycle` have them.

| Run | Instance | Distinct states | Shows |
|---|---|---|---|
| `LifecycleFaults` | 1 server, 1 node that is registered, drained and put back online, PATCH requests, 3 tasks, 2 containers, 2 attempts, 3 job slots, all failures but crashes | 1,744,087 | `ActiveHasContainer`, `DeleteSucceededMeansGone`, `SucceededProvisionHasContainer`, `OneLiveContainer`, `HistoryInv`, `LifeInv`, `RemovalNeedsDelete`, `OutcomeIsFinal` |
| `LifecycleCrash` | 1 server, 2 nodes that may be deleted, provision, start, stop and delete, 3 tasks, 2 containers, one crash, time-outs | 1,201,706 | `IndInv`, `HistoryInv`, `RecordedContainerIsOwn`, `ImplementsServerLife` |
| `LifecycleMishaps` | 2 servers of 2 sizes, one of them not counted, 1 node that admins create, resize, drain and delete, 3 tasks, 2 job slots, refused connections and time-outs | 1,150,831 | `MishapInv`, `StatusMatchesContainer`, `NoOrphanContainer`, `PlacedOnKnownNode`, `RowOutlivesContainer`, `PlacementFits` |
| `LifecycleLive` | 1 server, 3 tasks, 2 slots, 2 attempts, refused connections, rolled-back commits; fairness | 209,122 | `JobTerminates`, `RunningTaskEnds` |
| `AuthConcurrent` | 2 users, 1 address in two spellings, 4 tokens, 5 requests, 2 at a time | 182,786 | `IndInv`, `OneAccountPerEmail`, `FanOutBounded`, `FanOutInv`, `LoginSurvives` |
| `MembersConcurrent` | an owner and two guests, 1 server, 2 invites, 4 requests, 3 at a time | 216,064 | `IndInv`, `OneOpenInvite`, `MemberWasInvited`, `RowsBelongToServers`, `NoCircularWait` |
| `BackupsFaults` | 1 server that is stopped and deleted, 2 backups, 3 tasks, 2 attempts, rolled-back commits, refused connections, failing agents, broken connections | 515,022 | `RestoreFindsArchive`, `TaskMatchesBackup`, `ImplementsBackupRecord` |
| `BackupsLive` | 1 server, 1 backup, 2 tasks, one attempt, one crash, failing agents, killed jobs, deleted nodes; fairness | 195,110 | `IndInv`, `EveryJobSettles` |
| `LogStreams` | 2 containers of one agent, 1 thread, 1 client, 2 messages a container, every failure; fairness | 444,997 | `IndInv`, `StreamIsStretchOfLog`, `SilentOnlyWhenUpset`, `WrittenIsShown` |

Five requests of `Auth` are a registration, a login and three that exchange the
same token, one more than may overlap; four of `Members` are an invite, its
acceptance, a removal and a second attempt to use the invite. Three tasks of
`Backups` are two backups, one of which may take the other's place, and a restore
beside them. Two messages are the least that can be lost, repeated or swapped;
two containers the least that can be confused, and with one thread the least that
can keep each other from it.

The requests of `Auth`, `Members` and `Backups` are used up in the end, and in
`LogStream` nobody need do anything, so these configurations do not check deadlock.
In `Members`, where a request holds one row and waits for another,
`NoCircularWait` asks instead that no requests wait for each other in a circle and
that of those in progress one can go on; a request of `Auth` waits only before it
has written anything; nothing in `Backups` waits for a lock but `ServerGone`, for a
transaction that `BackupsLive` is fair to.
The `Lifecycle` runs do check it.

`OneLiveContainer` holds only in its instance: with two nodes and a crash it fails.
Three properties name the mishaps without which they hold. With jobs of one
server that overlap, `StatusMatchesContainer` and `NoOrphanContainer` fail (a stop and a
start finish in either order; a delete during provisioning leaves the container
behind); a stop that is carried out after the job gave it up fails the first as
well; and a job that is overtaken, by another placement (`CapacityConcurrent`), a
PATCH or an admin, may overfill its node. `LifecycleMishaps` is about everybody
else. Each exception is one that the code needs: without any of them TLC finds a
counterexample, except that a create that was given up leaves an orphan only if it
is tried again, which this instance does not do. (An orphan whose provision task
says `failed` is the code's way when the call that inspects a new container fails:
nothing removes it.) `PlacementFits` speaks of the moment a server is recorded, and
of nodes whose servers `least_loaded` counts.

`FanOutBounded` is what rotation guarantees when requests overlap: not
one exchange per token, but no more than were in progress. Likewise `Members` lets
an invite that is accepted while its owner revokes it end up both accepted and
revoked, with its guest a member: both requests read it before either writes it.
`SilentOnlyWhenUpset` is about the publisher's task: that it ends only for a reason.
It may be there and wait for a thread. `WrittenIsShown` asks nothing once the
publisher has ended, nor while silent containers hold every thread and never come
to write: one silent container is enough to keep the other one's log from its
clients in an agent with one thread, as many as there are threads in any. That
happens in the model as in the code, and without the exception TLC finds it. The
design of stage 5 calls publishers "always-on", which after a stop, a restart or a
new agent process they are not.

Three runs show a disagreement between the code and what the repository says of
it (`findings` in `PROJECT.json` quotes the lines):

| Run | What happens |
|---|---|
| `CapacityConcurrent` | two provision jobs find the same room, because `node_id` is written only after the container exists |
| `AuthReuse` | `refresh` revokes all tokens of the account and raises; `get_session` rolls the revocation back |
| `RestoreRunning` | a start is accepted, or under way, when a restore reads `stopped`; the container runs while its volume is replaced |

Four more things the models show that no run is spent on. A worker faster than the
API's commit finds no task, fails, and ARQ does not try again: the task stays
`pending`, and a backup `creating`, for ever (`JobTerminates` is about the job, and
`EveryJobSettles` excepts such a job, as it does one that ARQ killed after 300 s). A
task stays `running` when its server goes away before the job loads it, or under
the except block (`RunningTaskEnds` excepts it). Servers of the seeded templates,
which name their CPU `cpu`, ask for one core and are counted as none by
`least_loaded`. And two acceptances of one invite that both read it open admit its
guest twice, if the guest is removed in between.

**Fairness.** In `Lifecycle` `FairSpec` assumes weak fairness of each request's handler and of
each job: the event loops run ready coroutines, ARQ polls its queue, and httpx
ends a call that gets no answer with a time-out. Nothing is assumed of clients,
admins, crashes, or of an agent that acts late. In `Backups` the same is assumed of
handlers and of a job together with the agent's work it waits for: the agent
answers, or the helper's `wait` times out (60 and 120 s), or the connection
breaks, or ARQ kills the job. The server's life and what an agent does for nobody
are left to chance. In `LogStream` a publisher that waits gets a thread that stays
free (the queue of the pool is first in, first out), a read that has something to
return returns, and a stream relays on. That a thread ever comes free is not
assumed: `WrittenIsShown` has it as its premise. No fairness
is assumed in `Auth` and `Members`.

## 4. Proofs

The theorems hold for every value of the constants that satisfies the named
assumptions of the modules; these say only that NULL is no row and no id, that ids
of different kinds differ where one variable holds both, and that sets and bounds have
their types. The safety properties are not inductive as they stand: each module
has an invariant `IndInv` that is, which a run checks as well, and whose first
conjunct is the type invariant `TypeOK`.

### `Lifecycle` (`LifecycleProofs`)

From `NoneAssumption` and `LifecycleAssumption`:

| Theorem | Statement |
|---|---|
| `Invariance` | `Spec => []IndInv` |
| `TypeCorrect` | `Spec => []TypeOK` |
| `RecordedContainer` | `Spec => []RecordedContainerIsOwn` |
| `ActiveContainer` | `Spec => []ActiveHasContainer` |
| `DeletedStaysGone` | `Spec => []DeleteSucceededMeansGone` |
| `RemovalIsWanted` | `Spec => RemovalNeedsDelete` |

`RecordedContainerIsOwn` needs to know that
the container a provision job is about to save was made for its server on its
node (`JobInv`); `RemovalNeedsDelete` needs the same of the requests agents hold
(`LateInv`), and that a job has a server in hand only after its commit (`JobInv`,
`TaskInv`); `DeleteSucceededMeansGone` needs that only the commit of the one
provision request of a server makes its row appear (`RequestInv`, `RowInv`), and
that no open transaction of a later request can bring it back;
`ActiveHasContainer` needs that a start, stop or restart past its load finds a
container on record whenever the row is there.

The proof has one lemma per action. Three frame lemmas carry most of it:
`WorkerFrame` (a step that moves one job), `RequestFrame` (a step of a request
that is not committed) and `RowsOnly` (a step that changes neither requests nor
jobs).

### `Lifecycle`, continued (`LifecycleHistoryProofs`)

From the same assumptions:

| Theorem | Statement |
|---|---|
| `HistoryInvariance` | `Spec => []HistoryInv` |
| `KnownNode` | `Spec => []PlacedOnKnownNode` |
| `SucceededHasContainer` | `Spec => []SucceededProvisionHasContainer` |
| `SingleContainer` | `Spec => [](crashes = 0 => OneLiveContainer)` |
| `OutcomeStays` | if `MaxCrashes = 0`, then `Spec => OutcomeIsFinal` |

The last two state their property where it holds at all: after a crash a job
that runs again may choose another host, or mark a second time a task that was
already marked.

`IndInv` knows the present only. These properties are about how a state came
about, and `HistoryInv` holds what each state remembers of that:

| Conjunct | What it says | Needed for |
|---|---|---|
| `GoneForCause` | a container or row that is gone was removed for a committed delete | `SucceededHasContainer` |
| `RecordHeld` | a provision past its save, or succeeded, has its container on record until a delete | `SucceededHasContainer` |
| `NodesKnown` | rows name registered nodes, jobs nodes that are or were registered | `KnownNode` |
| `OnePerHost` | the container's name is unique on its host | `SingleContainer` |
| `OneHost` | as long as nobody crashed, all containers of a server, the creates an agent holds and the create a job waits for are on one host, chosen by the provision job | `SingleContainer` |
| `LateAsked` | what an agent holds was sent for the request whose task it carries | `GoneForCause`, `OneHost` |
| `Settled` | as long as nobody crashed, the job of a task that ended has ended | `OutcomeStays` |

`LifecycleProofs` goes through the actions. With seven more conjuncts that would
be several hundred cases, most of them frames, so this proof goes through the
variables: `SrvWriters`, `ReqWriters`, `CtrWriters` and so on say once which actions
write a variable; `RowStep`, `CtrStep`, `TaskStep`, `NodeStep`, `LoadIs` and others
say what any step does to a row, a container, a task, a node and a job's load;
each conjunct then follows from the few of these it is about.

### `Lifecycle` implements `ServerLife` (`ServerLifeProofs`)

| Theorem | Statement |
|---|---|
| `LifeInvariance` | `Spec => []LifeInv` |
| `LifecycleImplementsServerLife` | `Spec => ImplementsServerLife` |

No assumption is added. How steps map:

| `Lifecycle` | `ServerLife` |
|---|---|
| `Create`, `RequestAction`, `DeleteCheck` | `Ask` |
| `Commit` | `Appear` (of a create), `Deleting` (of a delete), otherwise invisible |
| `ProvisionPlace`, `ProvisionFailSave` | `Provision` |
| `ProvisionSave` | `Place` |
| `LifecycleSave` | `Switch` |
| what an agent does, for a job or late | `Starts`, `Stops` or invisible |
| `NodeDelete` | `Unplace` |
| `DeleteRow` | `Gone` |
| `Crash` | `Crash` |
| everything else | invisible |

Two of these take more than `IndInv` and `HistoryInv`. `ServerLife` lets a provision
find its server only as the request or a delete left it, and `running` be written
with the first container only while that container runs; and it lets `stopped` be
written beside a running container only when somebody asked for a start, a restart
or a delete. That is `LifeInv`: `FirstRun` (until the provision of a server has saved,
nobody can have asked for more than to delete it, and the container its job found
running still runs) and `StopHolds` (the container of a server whose stop was
confirmed stays stopped, unless a start, restart or delete was asked for; by
`OneHost` and `OnePerHost` there is no other). Both are about the time before a
crash; afterwards `ServerLife` promises less.

### `Lifecycle` and its mishaps (`LifecycleMishapsProofs`)

`MishapSpec` is `Spec` with three history variables that no step depends on
(`MishapNext == Next /\ Remember`). They remember to whom something happened that
the code does not guard against:

* `crowded`: servers two of whose jobs were at work at the same time;
* `unheard`: servers for which an agent was called and not heard out: the caller
  gave up (and the agent may act later), the connection broke or Docker failed
  after it acted, or the worker died;
* `overtaken`: provision jobs on whose node more was asked, between the choice of
  the node and its record, than the query had seen: by another job that recorded a
  server there or had one count again, by a PATCH, or by an admin who made the
  node smaller.

The theorems hold for any number of jobs at a time, of crashes, retries and
failures, as often as any of this happens:

| Theorem | Statement |
|---|---|
| `MishapInvariance` | `MishapSpec => []MishapInv` |
| `StatusIsDockers` | `MishapSpec => []StatusMatchesContainer` (of servers neither crowded nor unheard) |
| `NobodysContainer` | `MishapSpec => []NoOrphanContainer` (likewise) |
| `RowGoesLast` | `MishapSpec => RowOutlivesContainer` (of servers not crowded) |
| `PlacedWhereItFits` | if `Servers` is finite, then `MishapSpec => PlacementFits` (of jobs not overtaken) |

`MishapInv` says what holds between two steps. `HandsInv`: the job that acts on a
container finds row and container as its load or its last call left them, since
nobody else works on the server. `StatusShown`: a settled row and its container
disagree only between the agent's answer and the transaction that writes it down.
`DeleteKnows`: what a delete job has read stays true, and the container on record
is gone when the row goes. `ContainerHeld`: every container is on record, or in the
hands of the provision job that made it, or that job fails, or its host's node is
deleted. `RoomHeld`: from the choice of a node to the moment it is recorded, what
counts on the node and the new server together still fit. It takes that whatever
adds to what counts is one of the steps `TakesRoom` lists; the invariant is about
every other step of the panel. `MishapsKnown` and `RunsOnce` connect the history to
jobs, agents and rows.

`RoomHeld` is about sums over a set of rows, which the community modules define by
recursion over finite sets. The library's induction theorems take an operator
as a parameter, and no installed prover can instantiate one. `SubsetInduction` is
induction without it: a *set* of subsets of `S` that holds `{}`, and `T` whenever it
holds some `T \ {x}`, holds `S` (from the well-foundedness of strict inclusion,
`WFMin`). With the sets that have a total in `Nat`, or a total that any element may
start, taken as that set, follow the lemmas the proof cites: the fold's recursion
has exactly one solution (`AddsExists`, `SumsAdd`, `TotalIs`), any element may
come first (`TotalSplits`), a total over a smaller set or of smaller numbers is no
larger (`TotalMonotone`), and one more server adds what it asks for
(`TotalOneMore`). So a `SELECT` of `least_loaded` that finds room means room for the
server too (`FitsHasRoom`), and room stays when servers go (`RoomForFewer`).

### `Auth` (`AuthProofs`)

From `AuthAssumption` and `RowAssumption`:

| Theorem | Statement |
|---|---|
| `AuthInvariant` | `Spec => []IndInv` |
| `TypeCorrect` | `Spec => []TypeOK` |
| `UniqueAccounts` | `Spec => []OneAccountPerEmail` |
| `LoginsSurvive` | `Spec => []LoginSurvives` |
| `FanOutInvariance` | `Spec => []FanOutInv` |
| `FanOutIsBounded` | if `Requests` is finite, then `Spec => []FanOutBounded` |

`OneAccountPerEmail` becomes inductive with `EmailsDistinct`: an account that is
inserted and not committed has an address that no row and no other such account
has. `LoginSurvives` needs that a rotation ready to commit has written exactly the
row of its cookie and inserted a token that has no row yet (`RequestOK`), which
no other request inserts (`NewDistinct`), so that the commit replaces what it
takes away. `FanOutBounded` counts, and becomes inductive (`FanOutInv`) by
counting more: all requests that found a token not revoked, whether they have
exchanged it or may yet. Until the first of them is done they are all in progress,
which bounds them; then the token is revoked for good, and nobody joins them.
`RequestFrame` covers the steps that write no row, `CommitStep` the one that does.

### `Members` (`MembersProofs`)

From `MembersAssumption` and `RowAssumption`:

| Theorem | Statement |
|---|---|
| `MembersInvariant` | `Spec => []IndInv` |
| `TypeCorrect` | `Spec => []TypeOK` |
| `InvitesUnique` | `Spec => []OneOpenInvite` |
| `MembersWereInvited` | `Spec => []MemberWasInvited` |
| `NoRowOutlivesServer` | `Spec => []RowsBelongToServers` |
| `NobodyWaitsInACircle` | `Spec => []NoCycle` |

The properties are about committed rows, and what threatens them is what
requests have written and not committed. `RequestOK` says what a request knows at
each statement: a pending invite has a row of its own, its server is there and
the address has no open invite; whoever accepts holds a server, an address and a
role that the invite's row names as long as its server exists.
`PendingDistinct` keeps two pending invites apart, which the partial unique index
does by waiting; `OpenDistinct` is `OneOpenInvite` without a cardinality.

`NoCycle` is the part of `NoCircularWait` that is about locks: in every set of
requests one waits for none of the others. Its proof needs no invariant, only the
order of the statements: whom a request waits for (`WaitsFor`, the guard of every
statement that takes a lock) is further than the request itself (`Rank`).

### `Backups` (`BackupsProofs`)

From `BackupsAssumption`:

| Theorem | Statement |
|---|---|
| `BackupsInvariant` | `Spec => []IndInv` |
| `TypeCorrect` | `Spec => []TypeOK` |
| `RestoresFindTheirArchive` | `Spec => []RestoreFindsArchive` |
| `TasksMatchBackups` | `Spec => []TaskMatchesBackup` |
| `BackupsImplementRecord` | `Spec => ImplementsBackupRecord` |

That a restore finds the archive it names rests on a chain: a backup is made by
one request (`MadeOnce`), whose agent writes under its key nothing but its own
archive, even late (`WorkOK`, `KeysOwned`), so that a job that saves has its
archive (`JobOK`), so that a row that shows `available` has it (`RowOK`), so that
a restore that was accepted has it (`RequestOK`). An answer is for the attempt
that waits, for an attempt given up is no longer heard (`OneHeard`).
`TaskMatchesBackup` needs that until a worker dies the job of a backup that was
settled has ended (`JobOK`).

`BackupRecord` follows step by step: the commit of a backup is `Request`, a
completed upload `Store`, the UPDATEs of `mark_available` and `mark_failed` are
`Settle`, the deletion of the server is `Drop`, a crash `Rerun`, and the rest is
invisible.

### `LogStream` (`LogStreamProofs`)

From `LogStreamAssumption`:

| Theorem | Statement |
|---|---|
| `LogStreamInvariant` | `Spec => []IndInv` |
| `TypeCorrect` | `Spec => []TypeOK` |
| `StreamsAreStretches` | `Spec => []StreamIsStretchOfLog` |
| `SilenceHasACause` | `Spec => []SilentOnlyWhenUpset` |

A stream stays gapless because it is level with the publisher that is at work:
what is published next is the message after the last one seen (`StreamOK`). A
publisher that starts again would break that, and cannot: only a create starts
one, before anybody can have asked for the container's logs (`NewContainers`), and
it is never ahead of the run it follows, nor the run of the log
(`PublishersFollow`). A thread is held only by a publisher at work, and by no more
than there are threads (`ThreadsHeld`). What `publish` and `relay` do to `got \o inbox` is in the two
lemmas about sequences `AppendSeen` and `RelaySeen`.

### Only model-checked

* Liveness under fairness: `JobTerminates`, `RunningTaskEnds`, `EveryJobSettles`,
  `WrittenIsShown`.
* The part of `NoCircularWait` that speaks of `ENABLED`: that of the requests in
  progress one can take its next step. That none of them waits for itself through
  others is proved (`NobodyWaitsInACircle`).

Both are out of the prover's reach.

## 5. Plan

1. `Lifecycle` and its proofs (done).
2. `Auth` and its proofs (done).
3. `Members` and its proofs (done).
4. `ServerLife`, and the proof that `Lifecycle` implements it (done).
5. `Backups` with `BackupRecord`, and their proofs (done).
6. `LogStream` and its proofs (done).
7. `LifecycleMishaps` and its proofs: what brings rows, containers and capacities
   out of step, and that nothing else does (done).

## 6. Not modelled

* Game templates: create, update and seeding write one row each behind a unique
  slug, nothing deletes a template, and no behaviour spans several steps. (Two
  updates that race for a slug are decided by the constraint; the loser's
  `IntegrityError` is not caught.)
* The audit log: rows are appended in the transaction of an operation and never
  read by the program.
* Settings, logging, error formatting, request ids, health checks, seeds,
  migrations other than the schema they leave: no state over several steps.
* The database's connection pool and Redis's own failures outside `LogStream`.
* The contents of volumes and archives: the agent completes an upload when the
  helper's output ends and ignores its exit status, so that the archive of an
  `available` backup may be cut short; a model of it could only restate that.
* How long a call to Docker keeps its thread: only the reads of publishers, which
  have no bound, hold one over several steps.
* Who may call an operation of the lifecycle or of backups belongs to `Members`;
  the other modules assume the caller is allowed. Reads (lists, `GET`, statistics,
  log tails) change nothing.
