------------------------------- MODULE LogStream -------------------------------
(***************************************************************************)
(* Live logs: the publisher task a node agent runs for a container reads   *)
(* "docker logs --follow" and publishes to the Redis channel of that       *)
(* container; the API hands short-lived tokens to clients and relays the   *)
(* channel to each of them as a stream of server-sent events.              *)
(*                                                                         *)
(* A message is what Docker yields at once and is not blank (the publisher *)
(* drops blank ones), here a number that counts up per container. Redis    *)
(* delivers to those subscribed at that moment only.                       *)
(*                                                                         *)
(* Whatever the agent asks of Docker runs in a thread of one pool, and a   *)
(* publisher holds its thread for as long as its container is silent. The  *)
(* other calls come back; they only need a free thread to begin.           *)
(***************************************************************************)
EXTENDS Naturals, Sequences, FiniteSets

CONSTANTS
    None,         \* Python None
    Containers,   \* Docker container ids, each with the server it was made for
    Clients,      \* browsers with an EventSource
    Faults,       \* the failures that happen in this instance
    Threads,      \* size of the default executor's pool, min(32, cpu + 4)
    MaxLines      \* bound: messages a container writes

ASSUME LogStreamAssumption ==
    /\ None \notin Containers
    /\ Faults \subseteq {"docker", "redis", "agent", "exit"}
    /\ Threads \in Nat \ {0}
    /\ MaxLines \in Nat

VARIABLES
    ctr,        \* the containers: Docker's state, messages written so far
    op,         \* the create or delete request the agent has in hand
    pub,        \* LogPublisher._tasks
    reading,    \* containers whose publisher has a thread in next(it)
    row,        \* containers that the row of their server names
    cli,        \* the clients: token, stream
    inbox,      \* messages Redis has put into a client's subscription
    got,        \* the messages the client's present stream has shown
    upset       \* history: containers whose publisher was interrupted

vars == <<ctr, op, pub, reading, row, cli, inbox, got, upset>>
agent == <<ctr, op, pub, reading, upset>>
client == <<cli, inbox, got>>

Lines == 0 .. MaxLines

Boxes == [st : {"free", "running", "exited", "removed"}, lines : Lines]

\* "pos" counts the messages published; "until" is how far a follower can
\* read once the run of the container that it follows has ended.
Publishers == [st : {"none", "reading", "ended"}, pos : Lines, until : Lines \cup {None}]
NoPublisher == [st |-> "none", pos |-> 0, until |-> None]

Streams == [pc : {"idle", "opening", "open"}, cid : Containers \cup {None},
            tok : {"none", "valid", "expired"}]

Init ==
    /\ ctr = [c \in Containers |-> [st |-> "free", lines |-> 0]]
    /\ op = [c \in Containers |-> "none"]
    /\ pub = [c \in Containers |-> NoPublisher]
    /\ reading = {}
    /\ row = {}
    /\ cli = [i \in Clients |-> [pc |-> "idle", cid |-> None, tok |-> "none"]]
    /\ inbox = [i \in Clients |-> <<>>]
    /\ got = [i \in Clients |-> <<>>]
    /\ upset = {}

-----------------------------------------------------------------------------
(* Docker *)

Running(c) == ctr[c].st = "running"

\* The game server writes to its log.
Write(c) ==
    /\ Running(c)
    /\ ctr[c].lines < MaxLines
    /\ ctr' = [ctr EXCEPT ![c].lines = @ + 1]
    /\ UNCHANGED <<op, pub, reading, row, client, upset>>

\* A run of the container ends: its follower gets what was written, no more.
RunEnds(c) ==
    /\ pub' = [pub EXCEPT ![c].until =
                 IF pub[c].st = "reading" /\ @ = None THEN ctr[c].lines ELSE @]
    /\ upset' = upset \cup {c}

\* The game exits and the restart policy starts it again.
ExitAndRestart(c) ==
    /\ "exit" \in Faults
    /\ Running(c)
    /\ RunEnds(c)
    /\ UNCHANGED <<ctr, op, reading, row, client>>

-----------------------------------------------------------------------------
(* The agent: ContainerService *)

ThreadFree == Cardinality(reading) < Threads

\* create_and_start has made the container and runs it ...
CreateContainer(c) ==
    /\ ThreadFree
    /\ ctr[c].st = "free"
    /\ ctr' = [ctr EXCEPT ![c].st = "running"]
    /\ op' = [op EXCEPT ![c] = "creating"]
    /\ UNCHANGED <<pub, reading, row, client, upset>>

\* Mutant: one task for all containers.
PublisherStarted(c) == [d \in Containers |->
    IF d = c THEN [st |-> "reading", pos |-> 0, until |-> None] ELSE NoPublisher]

\* LogPublisher.start: a task that follows the log from its beginning, unless
\* one is at it. A run that has ended by now leaves only what it wrote.
PublisherStart(c) ==
    IF pub[c].st = "reading" THEN pub
    ELSE [pub EXCEPT ![c] = [st |-> "reading", pos |-> 0,
            until |-> IF Running(c) THEN None ELSE ctr[c].lines]]

\* ... and the handler starts the publisher and answers.
CreateDone(c) ==
    /\ ThreadFree
    /\ op[c] = "creating"
    /\ pub' = PublisherStart(c)
    /\ op' = [op EXCEPT ![c] = "none"]
    /\ UNCHANGED <<ctr, reading, row, client, upset>>

\* Docker fails after it started the container: nobody follows it.
CreateFails(c) ==
    /\ "docker" \in Faults
    /\ op[c] = "creating"
    /\ op' = [op EXCEPT ![c] = "none"]
    /\ upset' = upset \cup {c}
    /\ UNCHANGED <<ctr, pub, reading, row, client>>

\* Mutant: start follows the log again, as create does.
StartContainerFollows(c) ==
    /\ ThreadFree
    /\ c \in row
    /\ ctr[c].st = "exited"
    /\ ctr' = [ctr EXCEPT ![c].st = "running"]
    /\ pub' = [pub EXCEPT ![c] = [st |-> "reading", pos |-> 0, until |-> None]]
    /\ UNCHANGED <<op, reading, row, client, upset>>

\* POST /containers/{id}/start: the publisher is left as it is.
StartContainer(c) ==
    /\ ThreadFree
    /\ c \in row
    /\ ctr[c].st = "exited"
    /\ ctr' = [ctr EXCEPT ![c].st = "running"]
    /\ UNCHANGED <<op, pub, reading, row, client, upset>>

\* POST /containers/{id}/stop.
StopContainer(c) ==
    /\ ThreadFree
    /\ c \in row
    /\ Running(c)
    /\ ctr' = [ctr EXCEPT ![c].st = "exited"]
    /\ RunEnds(c)
    /\ UNCHANGED <<op, reading, row, client>>

\* POST /containers/{id}/restart.
RestartContainer(c) ==
    /\ ThreadFree
    /\ c \in row
    /\ ctr[c].st \in {"running", "exited"}
    /\ ctr' = [ctr EXCEPT ![c].st = "running"]
    /\ RunEnds(c)
    /\ UNCHANGED <<op, reading, row, client>>

\* Mutant: the log stream of a task that is cancelled is not closed, so that
\* its thread stays in the read.
DeleteStopsUnclosed(c) ==
    /\ c \in row
    /\ ctr[c].st \in {"running", "exited"} /\ op[c] = "none"
    /\ pub' = [pub EXCEPT ![c] = NoPublisher]
    /\ op' = [op EXCEPT ![c] = "removing"]
    /\ UNCHANGED <<ctr, reading, row, client, upset>>

\* DELETE /containers/{id}: the publisher is stopped, and closes the stream,
\* which ends the read in its thread ...
DeleteStops(c) ==
    /\ c \in row
    /\ ctr[c].st \in {"running", "exited"} /\ op[c] = "none"
    /\ pub' = [pub EXCEPT ![c] = NoPublisher]
    /\ reading' = reading \ {c}
    /\ op' = [op EXCEPT ![c] = "removing"]
    /\ UNCHANGED <<ctr, row, client, upset>>

\* ... and then the container is removed by force, or that fails.
DeleteRemoves(c) ==
    /\ ThreadFree
    /\ op[c] = "removing"
    /\ op' = [op EXCEPT ![c] = "none"]
    /\ \/ /\ ctr' = [ctr EXCEPT ![c].st = "removed"]
          /\ UNCHANGED upset
       \/ /\ "docker" \in Faults
          /\ upset' = upset \cup {c}
          /\ UNCHANGED ctr
    /\ UNCHANGED <<pub, reading, row, client>>

\* The agent is stopped (shutdown cancels every task) or dies, and comes back
\* with no tasks; requests in its hands are lost, containers run on.
AgentRestart ==
    /\ "agent" \in Faults
    /\ pub' = [c \in Containers |-> NoPublisher]
    /\ op' = [c \in Containers |-> "none"]
    /\ reading' = {}
    /\ upset' = upset \cup {c \in Containers : ctr[c].st # "free"}
    /\ UNCHANGED <<ctr, row, client>>

-----------------------------------------------------------------------------
(* The agent: the publisher task of one container *)

Subscribed(i, c) == cli[i].pc = "open" /\ cli[i].cid = c

Reach(c) == IF pub[c].until = None THEN ctr[c].lines ELSE pub[c].until

\* The task asks for the next message: a thread goes into the read.
TakeThread(c) ==
    /\ pub[c].st = "reading" /\ c \notin reading
    /\ ThreadFree
    /\ reading' = reading \cup {c}
    /\ UNCHANGED <<ctr, op, pub, row, client, upset>>

\* The read returns, and the message goes to "logs:<container id>".
Publish(c) ==
    /\ c \in reading
    /\ pub[c].pos < Reach(c)
    /\ pub' = [pub EXCEPT ![c].pos = @ + 1]
    /\ reading' = reading \ {c}
    /\ inbox' = [i \in Clients |->
                   IF Subscribed(i, c) THEN Append(inbox[i], pub[c].pos + 1)
                   ELSE inbox[i]]
    /\ UNCHANGED <<ctr, op, row, cli, got, upset>>

\* The log stream of a run that has ended is exhausted: the task is done.
PublisherEnds(c) ==
    /\ c \in reading
    /\ pub[c].until # None /\ pub[c].pos = pub[c].until
    /\ pub' = [pub EXCEPT ![c].st = "ended"]
    /\ reading' = reading \ {c}
    /\ UNCHANGED <<ctr, op, row, client, upset>>

\* Reading or publishing raises: logged, and the task is done.
PublisherFails(c) ==
    /\ "redis" \in Faults
    /\ pub[c].st = "reading"
    /\ pub' = [pub EXCEPT ![c].st = "ended"]
    /\ reading' = reading \ {c}
    /\ upset' = upset \cup {c}
    /\ UNCHANGED <<ctr, op, row, client>>

-----------------------------------------------------------------------------
(* The row of the server, as far as the log endpoints read it *)

\* The provision job records the container the agent has answered with.
RecordContainer(c) ==
    /\ ctr[c].st = "running" /\ op[c] = "none" /\ c \notin row
    /\ row' = row \cup {c}
    /\ UNCHANGED <<agent, client>>

\* The delete job removes the row after the agent has answered.
DeleteRow(c) ==
    /\ c \in row
    /\ ctr[c].st = "removed"
    /\ row' = row \ {c}
    /\ UNCHANGED <<agent, client>>

-----------------------------------------------------------------------------
(* The API: tokens and streams *)

\* POST /servers/{id}/logs/stream-token.
MintLogToken(i, c) ==
    /\ c \in row
    /\ cli[i].pc = "idle"
    /\ cli' = [cli EXCEPT ![i] = [pc |-> "idle", cid |-> c, tok |-> "valid"]]
    /\ UNCHANGED <<agent, row, inbox, got>>

\* LOG_STREAM_TOKEN_TTL_S pass; a stream that is open is not affected.
TokenExpires(i) ==
    /\ cli[i].tok = "valid"
    /\ cli' = [cli EXCEPT ![i].tok = "expired"]
    /\ UNCHANGED <<agent, row, inbox, got>>

\* GET /servers/{id}/logs/stream: authorize_log_stream lets it pass. (With a
\* token that has expired, or a row that has gone, it answers 401 or 404.)
AuthorizeLogStream(i) ==
    /\ cli[i].pc = "idle"
    /\ cli[i].tok = "valid"
    /\ cli[i].cid \in row
    /\ cli' = [cli EXCEPT ![i].pc = "opening"]
    /\ UNCHANGED <<agent, row, inbox, got>>

\* stream_logs_iter subscribes when the response is iterated: what was
\* published before is not replayed.
Subscribe(i) ==
    /\ cli[i].pc = "opening"
    /\ cli' = [cli EXCEPT ![i].pc = "open"]
    /\ UNCHANGED <<agent, row, inbox, got>>

\* get_message and one event to the client.
Relay(i) ==
    /\ cli[i].pc = "open" /\ inbox[i] # <<>>
    /\ got' = [got EXCEPT ![i] = Append(@, Head(inbox[i]))]
    /\ inbox' = [inbox EXCEPT ![i] = Tail(@)]
    /\ UNCHANGED <<agent, row, cli>>

\* Mutant: the subscription is left behind for the next stream.
StreamEndsSubscribed(i) ==
    /\ cli[i].pc \in {"opening", "open"}
    /\ cli' = [cli EXCEPT ![i].pc = "idle"]
    /\ got' = [got EXCEPT ![i] = <<>>]
    /\ UNCHANGED <<agent, row, inbox>>

\* The client goes away or the connection to Redis breaks; the iterator ends
\* and unsubscribes. An EventSource opens the same URL again, with the same
\* token.
StreamEnds(i) ==
    /\ cli[i].pc \in {"opening", "open"}
    /\ cli' = [cli EXCEPT ![i].pc = "idle"]
    /\ inbox' = [inbox EXCEPT ![i] = <<>>]
    /\ got' = [got EXCEPT ![i] = <<>>]
    /\ UNCHANGED <<agent, row>>

-----------------------------------------------------------------------------
(* The specification *)

AgentStep(c) ==
    \/ CreateContainer(c) \/ CreateDone(c) \/ CreateFails(c)
    \/ StartContainer(c) \/ StopContainer(c) \/ RestartContainer(c)
    \/ DeleteStops(c) \/ DeleteRemoves(c)

PublisherStep(c) == TakeThread(c) \/ Publish(c) \/ PublisherEnds(c) \/ PublisherFails(c)

ApiStep(i) ==
    \/ \E c \in Containers : MintLogToken(i, c)
    \/ TokenExpires(i) \/ AuthorizeLogStream(i) \/ Subscribe(i) \/ Relay(i) \/ StreamEnds(i)

Next ==
    \/ \E c \in Containers :
          \/ Write(c) \/ ExitAndRestart(c)
          \/ AgentStep(c) \/ PublisherStep(c)
          \/ RecordContainer(c) \/ DeleteRow(c)
    \/ AgentRestart
    \/ \E i \in Clients : ApiStep(i)

Spec == Init /\ [][Next]_vars

\* A task that waits gets a thread that stays free: the queue of the pool is
\* first in, first out. A read that has something to return returns, and a
\* stream relays on. Whether a thread comes free is not promised.
Fairness ==
    /\ \A c \in Containers : WF_vars(TakeThread(c)) /\ WF_vars(Publish(c) \/ PublisherEnds(c))
    /\ \A i \in Clients : WF_vars(Relay(i))

FairSpec == Spec /\ Fairness

-----------------------------------------------------------------------------
(* Properties *)

\* Every variable has its type; a publisher is never ahead of its log.
TypeOK ==
    /\ ctr \in [Containers -> Boxes]
    /\ op \in [Containers -> {"none", "creating", "removing"}]
    /\ pub \in [Containers -> Publishers]
    /\ reading \subseteq Containers
    /\ row \subseteq Containers
    /\ cli \in [Clients -> Streams]
    /\ inbox \in [Clients -> Seq(1 .. MaxLines)]
    /\ got \in [Clients -> Seq(1 .. MaxLines)]
    /\ upset \subseteq Containers

\* What the present stream of a client has shown, and what waits to be shown.
Seen(i) == got[i] \o inbox[i]

\* What one stream shows is a stretch of its container's log, blank messages
\* aside: none twice, none left out, none out of order and none of another
\* container, through stops, restarts of the container and of the agent, and
\* failures.
StreamIsStretchOfLog ==
    \A i \in Clients :
        LET seen == Seen(i) IN
        /\ \A k \in 1 .. Len(seen) - 1 : seen[k + 1] = seen[k] + 1
        /\ seen # <<>> => seen[Len(seen)] <= ctr[cli[i].cid].lines

\* A running container is without a publisher task only when something
\* happened to that container or to its agent: a stop or restart, an exit, a
\* create or delete that failed half-way, a failed publish. What is done to
\* another container, or by a client, leaves its task in place (which may
\* still have to wait for a thread: WrittenIsShown).
SilentOnlyWhenUpset ==
    \A c \in Containers :
        Running(c) /\ op[c] = "none" /\ c \notin upset => pub[c].st = "reading"

\* Message k of container c is written and client i is listening for it.
Due(i, c, k) ==
    Subscribed(i, c) /\ pub[c].st = "reading" /\ pub[c].pos < k /\ k <= Reach(c)

Shown(i, k) == \E j \in DOMAIN got[i] : got[i][j] = k

\* The publisher of c waits for a thread, and every thread is held by the
\* publisher of a container that is silent.
Starved(c) ==
    /\ c \notin reading /\ ~ThreadFree
    /\ \A d \in reading : pub[d].st = "reading" /\ pub[d].until = None /\ pub[d].pos = ctr[d].lines

\* What a container writes reaches every client that has its stream open,
\* unless the stream or the publisher ends first, or silent containers keep
\* every thread of the agent from its publisher for good.
WrittenIsShown ==
    \A i \in Clients, c \in Containers, k \in 1 .. MaxLines :
        []<>~Starved(c) =>
            (Due(i, c, k) ~> Shown(i, k) \/ ~Subscribed(i, c) \/ pub[c].st # "reading")

-----------------------------------------------------------------------------
(* The inductive invariant of the proofs (module LogStreamProofs) *)

\* Before a container's publisher is started nobody can have asked for its
\* logs; a request that creates it finds it running.
NewContainers ==
    \A c \in Containers :
        /\ op[c] = "creating" => Running(c)
        /\ ctr[c].st = "free" \/ op[c] = "creating" =>
             pub[c] = NoPublisher /\ c \notin row /\ \A i \in Clients : cli[i].cid # c

\* A publisher is never ahead of the run it follows, nor the run of the log;
\* only what upsets a container ends its run.
PublishersFollow ==
    \A c \in Containers :
        /\ pub[c].pos <= Reach(c) /\ Reach(c) <= ctr[c].lines
        /\ c \notin upset => pub[c].until = None /\ ctr[c].st # "exited"

\* Only a publisher at work holds a thread, and there are no more than Threads.
ThreadsHeld ==
    /\ \A c \in reading : pub[c].st = "reading"
    /\ IsFiniteSet(reading) /\ Cardinality(reading) <= Threads

\* A stream starts empty, goes up by one, and is level with the publisher at
\* work: what is published next goes on where the stream is.
StreamOK(i) ==
    LET seen == Seen(i)
        c == cli[i].cid
    IN  /\ cli[i].pc # "idle" => c \in Containers
        /\ cli[i].pc # "open" => got[i] = <<>> /\ inbox[i] = <<>>
        /\ seen # <<>> => /\ seen[Len(seen)] <= ctr[c].lines
                          /\ pub[c].st = "reading" => seen[Len(seen)] = pub[c].pos
        /\ \A k \in 1 .. Len(seen) - 1 : seen[k + 1] = seen[k] + 1

\* Publishers are at work, where they should be; streams are where they are.
IndInv ==
    /\ TypeOK
    /\ NewContainers
    /\ PublishersFollow
    /\ ThreadsHeld
    /\ SilentOnlyWhenUpset
    /\ \A i \in Clients : StreamOK(i)
=============================================================================
