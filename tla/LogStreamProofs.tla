--------------------------- MODULE LogStreamProofs ---------------------------
(***************************************************************************)
(* Proofs about module LogStream, for every set of containers, clients and *)
(* failures and every length of the logs: IndInv is an inductive           *)
(* invariant, and the safety properties follow.                            *)
(***************************************************************************)
EXTENDS LogStream, FiniteSetTheorems, SequenceTheorems, TLAPS

-----------------------------------------------------------------------------
(* Facts about sequences: what Publish and Relay do to what a client sees *)

\* A message put into the subscription comes last.
LEMMA AppendSeen ==
    ASSUME NEW S, NEW g \in Seq(S), NEW b \in Seq(S), NEW x \in S
    PROVE  g \o Append(b, x) = Append(g \o b, x)
<1>1. /\ g \o b \in Seq(S) /\ Len(g \o b) = Len(g) + Len(b)
      /\ \A k \in 1 .. Len(g) + Len(b) :
            (g \o b)[k] = IF k <= Len(g) THEN g[k] ELSE b[k - Len(g)]
  BY ConcatProperties
<1>2. /\ Append(b, x) \in Seq(S) /\ Len(Append(b, x)) = Len(b) + 1
      /\ Append(b, x)[Len(b) + 1] = x
      /\ \A k \in 1 .. Len(b) : Append(b, x)[k] = b[k]
  BY AppendProperties
<1>3. /\ Append(g \o b, x) \in Seq(S) /\ Len(Append(g \o b, x)) = Len(g) + Len(b) + 1
      /\ Append(g \o b, x)[Len(g) + Len(b) + 1] = x
      /\ \A k \in 1 .. Len(g) + Len(b) : Append(g \o b, x)[k] = (g \o b)[k]
  BY <1>1, AppendProperties
<1>4. /\ g \o Append(b, x) \in Seq(S) /\ Len(g \o Append(b, x)) = Len(g) + Len(b) + 1
      /\ \A k \in 1 .. Len(g) + Len(b) + 1 :
            (g \o Append(b, x))[k] = IF k <= Len(g) THEN g[k] ELSE Append(b, x)[k - Len(g)]
  <2>1. Len(g) \in Nat /\ Len(b) \in Nat
    BY LenProperties
  <2>2. /\ g \o Append(b, x) \in Seq(S) /\ Len(g \o Append(b, x)) = Len(g) + Len(Append(b, x))
        /\ \A k \in 1 .. Len(g) + Len(Append(b, x)) :
            (g \o Append(b, x))[k] = IF k <= Len(g) THEN g[k] ELSE Append(b, x)[k - Len(g)]
    BY <1>2, ConcatProperties
  <2> QED BY <1>2, <2>1, <2>2
<1>5. ASSUME NEW k \in 1 .. Len(g) + Len(b) + 1
      PROVE  (g \o Append(b, x))[k] = Append(g \o b, x)[k]
  <2>1. Len(g) \in Nat /\ Len(b) \in Nat
    BY LenProperties
  <2>2. CASE k <= Len(g)
    BY <2>1, <2>2, <1>1, <1>3, <1>4
  <2>3. CASE k > Len(g) /\ k <= Len(g) + Len(b)
    <3>1. k - Len(g) \in 1 .. Len(b)
      BY <2>1, <2>3
    <3> QED BY <2>1, <2>3, <3>1, <1>1, <1>2, <1>3, <1>4
  <2>4. CASE k = Len(g) + Len(b) + 1
    <3>1. k - Len(g) = Len(b) + 1 /\ ~(k <= Len(g))
      BY <2>1, <2>4
    <3> QED BY <2>1, <2>4, <3>1, <1>2, <1>3, <1>4
  <2> QED BY <2>1, <2>2, <2>3, <2>4
<1> QED BY <1>3, <1>4, <1>5, SeqEqual

\* A message that is relayed stays where it was in what the client sees.
LEMMA RelaySeen ==
    ASSUME NEW S, NEW g \in Seq(S), NEW b \in Seq(S), b # <<>>
    PROVE  Append(g, Head(b)) \o Tail(b) = g \o b
<1> DEFINE s == Append(g, Head(b)) \o Tail(b)
<1>1. Len(g) \in Nat /\ Len(b) \in Nat \ {0} /\ Head(b) \in S /\ Head(b) = b[1]
  BY EmptySeq, LenProperties, HeadTailProperties, ElementOfSeq
<1>2. /\ Tail(b) \in Seq(S) /\ Len(Tail(b)) = Len(b) - 1
      /\ \A k \in 1 .. Len(Tail(b)) : Tail(b)[k] = b[k + 1]
  BY HeadTailProperties
<1>3. /\ Append(g, Head(b)) \in Seq(S) /\ Len(Append(g, Head(b))) = Len(g) + 1
      /\ Append(g, Head(b))[Len(g) + 1] = Head(b)
      /\ \A k \in 1 .. Len(g) : Append(g, Head(b))[k] = g[k]
  BY <1>1, AppendProperties
<1>4. /\ s \in Seq(S) /\ Len(s) = Len(g) + Len(b)
      /\ \A k \in 1 .. Len(g) + Len(b) :
            s[k] = IF k <= Len(g) + 1 THEN Append(g, Head(b))[k] ELSE Tail(b)[k - (Len(g) + 1)]
  <2>1. /\ s \in Seq(S) /\ Len(s) = Len(Append(g, Head(b))) + Len(Tail(b))
        /\ \A k \in 1 .. Len(Append(g, Head(b))) + Len(Tail(b)) :
            s[k] = IF k <= Len(Append(g, Head(b))) THEN Append(g, Head(b))[k]
                   ELSE Tail(b)[k - Len(Append(g, Head(b)))]
    BY <1>2, <1>3, ConcatProperties
  <2> HIDE DEF s
  <2> QED BY <2>1, <1>1, <1>2, <1>3
<1>5. /\ g \o b \in Seq(S) /\ Len(g \o b) = Len(g) + Len(b)
      /\ \A k \in 1 .. Len(g) + Len(b) :
            (g \o b)[k] = IF k <= Len(g) THEN g[k] ELSE b[k - Len(g)]
  BY ConcatProperties
<1> HIDE DEF s
<1>6. ASSUME NEW k \in 1 .. Len(g) + Len(b) PROVE s[k] = (g \o b)[k]
  <2>1. CASE k <= Len(g)
    BY <2>1, <1>1, <1>3, <1>4, <1>5
  <2>2. CASE k = Len(g) + 1
    <3>1. k - Len(g) = 1 /\ ~(k <= Len(g))
      BY <2>2, <1>1
    <3> QED BY <2>2, <3>1, <1>1, <1>3, <1>4, <1>5
  <2>3. CASE k > Len(g) + 1
    <3>1. k - (Len(g) + 1) \in 1 .. Len(b) - 1 /\ (k - (Len(g) + 1)) + 1 = k - Len(g)
      BY <2>3, <1>1
    <3> QED BY <2>3, <3>1, <1>1, <1>2, <1>4, <1>5
  <2> QED BY <2>1, <2>2, <2>3, <1>1
<1>7. s = g \o b
  BY <1>4, <1>5, <1>6, SeqEqual
<1> QED BY <1>7 DEF s

-----------------------------------------------------------------------------
(* Frames *)

\* What the invariant says of what a client sees.
LEMMA SeenProperties ==
    ASSUME IndInv, NEW i \in Clients
    PROVE  /\ got[i] \in Seq(1 .. MaxLines) /\ inbox[i] \in Seq(1 .. MaxLines)
           /\ Seen(i) \in Seq(1 .. MaxLines) /\ Len(Seen(i)) \in Nat
           /\ got[i] = <<>> /\ inbox[i] = <<>> => Seen(i) = <<>>
           /\ Seen(i) # <<>> => /\ cli[i].pc = "open" /\ cli[i].cid \in Containers
                                /\ Len(Seen(i)) \in 1 .. Len(Seen(i))
                                /\ Seen(i)[Len(Seen(i))] \in Nat
<1>1. inbox[i] \in Seq(1 .. MaxLines) /\ got[i] \in Seq(1 .. MaxLines)
  BY DEF IndInv, TypeOK
<1>2. Seen(i) \in Seq(1 .. MaxLines)
  BY <1>1, ConcatProperties DEF Seen
<1>3. Len(Seen(i)) \in Nat
  BY <1>2, LenProperties
<1>4. got[i] = <<>> /\ inbox[i] = <<>> => Seen(i) = <<>>
  BY <1>1, ConcatEmptySeq DEF Seen
<1>5. ASSUME Seen(i) # <<>>
      PROVE  /\ cli[i].pc = "open" /\ cli[i].cid \in Containers
             /\ Len(Seen(i)) \in 1 .. Len(Seen(i)) /\ Seen(i)[Len(Seen(i))] \in Nat
  <2>1. cli[i].pc = "open" /\ cli[i].cid \in Containers
    BY <1>4, <1>5 DEF IndInv, StreamOK
  <2>2. Len(Seen(i)) \in 1 .. Len(Seen(i))
    BY <1>2, <1>5, EmptySeq
  <2>3. Seen(i)[Len(Seen(i))] \in 1 .. MaxLines
    BY <1>2, <2>2, ElementOfSeq
  <2> QED BY <2>1, <2>2, <2>3
<1> QED BY <1>1, <1>2, <1>3, <1>4, <1>5

\* A step of the agent: the clients and the rows stay as they are, no log
\* shrinks, and a publisher that reads was reading there before, unless
\* nobody has asked for its container's logs yet.
LEMMA StreamsFrame ==
    ASSUME IndInv, TypeOK', UNCHANGED client,
           \A c \in Containers :
               /\ ctr[c].lines <= ctr'[c].lines
               /\ pub'[c].st = "reading" =>
                    \/ pub[c].st = "reading" /\ pub'[c].pos = pub[c].pos
                    \/ \A i \in Clients : cli[i].cid # c,
           NEW i \in Clients
    PROVE  StreamOK(i)'
<1> DEFINE c == cli[i].cid
<1>1. Seen(i)' = Seen(i) /\ cli' = cli /\ got' = got /\ inbox' = inbox
  BY DEF client, Seen
<1>2. /\ cli[i].pc # "idle" => c \in Containers
      /\ cli[i].pc # "open" => got[i] = <<>> /\ inbox[i] = <<>>
      /\ Seen(i) # <<>> => /\ Seen(i)[Len(Seen(i))] <= ctr[c].lines
                           /\ pub[c].st = "reading" => Seen(i)[Len(Seen(i))] = pub[c].pos
      /\ \A k \in 1 .. Len(Seen(i)) - 1 : Seen(i)[k + 1] = Seen(i)[k] + 1
  BY DEF IndInv, StreamOK
<1>3. ASSUME Seen(i) # <<>>
      PROVE  /\ Seen(i)[Len(Seen(i))] <= ctr'[c].lines
             /\ pub'[c].st = "reading" => Seen(i)[Len(Seen(i))] = pub'[c].pos
  <2>1. c \in Containers /\ Seen(i)[Len(Seen(i))] \in Nat
    BY <1>3, SeenProperties
  <2>2. ctr[c].lines \in Nat /\ ctr'[c].lines \in Nat
    BY <2>1, LogStreamAssumption DEF IndInv, TypeOK, Boxes, Lines
  <2>3. ctr[c].lines <= ctr'[c].lines /\ Seen(i)[Len(Seen(i))] <= ctr[c].lines
    BY <1>2, <1>3, <2>1
  <2>4. pub'[c].st = "reading" => pub[c].st = "reading" /\ pub'[c].pos = pub[c].pos
    BY <2>1
  <2> QED BY <2>1, <2>2, <2>3, <2>4, <1>2, <1>3
<1> QED BY <1>1, <1>2, <1>3 DEF StreamOK

\* A step of a client or of the API: the agent stays as it is.
LEMMA AgentFrame ==
    ASSUME IndInv, UNCHANGED <<agent, row>>,
           \A i \in Clients : cli'[i].cid = cli[i].cid \/ cli'[i].cid \in row
    PROVE  NewContainers' /\ PublishersFollow' /\ ThreadsHeld' /\ SilentOnlyWhenUpset'
<1>1. /\ ctr' = ctr /\ op' = op /\ pub' = pub /\ reading' = reading /\ upset' = upset /\ row' = row
  BY DEF agent
<1>2. NewContainers'
  BY <1>1 DEF IndInv, NewContainers, Running
<1> QED BY <1>1, <1>2 DEF IndInv, PublishersFollow, ThreadsHeld, Reach, SilentOnlyWhenUpset, Running

\* A thread comes back, or none moves.
LEMMA ThreadsFrame ==
    ASSUME IndInv, NEW c \in Containers, reading' \in {reading, reading \ {c}},
           \A d \in Containers : d \in reading' => pub'[d].st = "reading"
    PROVE  ThreadsHeld'
<1>1. /\ reading \subseteq Containers /\ IsFiniteSet(reading)
      /\ Cardinality(reading) \in Nat /\ Cardinality(reading) <= Threads
  BY FS_CardinalityType DEF IndInv, TypeOK, ThreadsHeld
<1>2. /\ IsFiniteSet(reading')
      /\ Cardinality(reading') \in Nat /\ Cardinality(reading') <= Cardinality(reading)
  BY <1>1, FS_Subset, FS_CardinalityType
<1>3. Threads \in Nat
  BY LogStreamAssumption
<1>4. Cardinality(reading') <= Threads
  BY <1>1, <1>2, <1>3
<1>5. reading' \subseteq Containers
  BY <1>1
<1> QED BY <1>2, <1>4, <1>5 DEF ThreadsHeld

-----------------------------------------------------------------------------
(* Docker *)

\* The game server writes.
LEMMA WriteStep ==
    ASSUME IndInv, NEW c \in Containers, Write(c)
    PROVE  IndInv'
<1>1. /\ ctr' = [ctr EXCEPT ![c].lines = ctr[c].lines + 1] /\ ctr[c].lines < MaxLines
      /\ op' = op /\ pub' = pub /\ reading' = reading /\ row' = row /\ UNCHANGED client
      /\ upset' = upset /\ ctr[c].lines \in Nat /\ MaxLines \in Nat
  <2>1. ctr[c].lines \in Nat /\ MaxLines \in Nat
    BY LogStreamAssumption DEF IndInv, TypeOK, Boxes, Lines
  <2> QED BY <2>1 DEF Write
<1>2. TypeOK'
  <2>1. ctr \in [Containers -> Boxes] /\ ctr[c].lines + 1 \in Lines
    BY <1>1 DEF IndInv, TypeOK, Lines, Boxes
  <2>2. ctr' \in [Containers -> Boxes]
    BY <1>1, <2>1 DEF Boxes
  <2> QED BY <1>1, <2>2 DEF IndInv, TypeOK, client
<1>3. \A d \in Containers : /\ ctr'[d].st = ctr[d].st /\ ctr[d].lines <= ctr'[d].lines
                            /\ ctr[d].lines \in Nat /\ ctr'[d].lines \in Nat
  BY <1>1, <1>2 DEF IndInv, TypeOK, Boxes, Lines
<1>4. NewContainers'
  BY <1>1, <1>3 DEF IndInv, NewContainers, Running, client
<1>5. PublishersFollow'
  <2> SUFFICES ASSUME NEW d \in Containers
               PROVE  /\ pub'[d].pos <= Reach(d)' /\ Reach(d)' <= ctr'[d].lines
                      /\ d \notin upset' => pub'[d].until = None /\ ctr'[d].st # "exited"
    BY DEF PublishersFollow
  <2>1. pub[d].pos \in Nat /\ (pub[d].until # None => pub[d].until \in Nat)
    BY <1>1 DEF IndInv, TypeOK, Publishers, Lines
  <2>2. /\ pub[d].pos <= Reach(d) /\ Reach(d) <= ctr[d].lines
        /\ d \notin upset => pub[d].until = None /\ ctr[d].st # "exited"
    BY DEF IndInv, PublishersFollow
  <2>3. pub'[d].pos <= Reach(d)' /\ Reach(d)' <= ctr'[d].lines
    BY <1>1, <1>3, <2>1, <2>2 DEF Reach
  <2> QED BY <1>1, <1>3, <2>2, <2>3
<1>6. SilentOnlyWhenUpset'
  BY <1>1, <1>3 DEF IndInv, SilentOnlyWhenUpset, Running
<1>7. \A i \in Clients : StreamOK(i)'
  BY <1>1, <1>2, <1>3, StreamsFrame
<1>8. ThreadsHeld'
  BY <1>1 DEF IndInv, ThreadsHeld
<1> QED BY <1>2, <1>4, <1>5, <1>6, <1>7, <1>8 DEF IndInv

\* A step of the agent that is about container c: it becomes k, the request
\* about it o and its publisher p.
Only(c, k, o, p) ==
    /\ ctr' = [ctr EXCEPT ![c] = k] /\ op' = [op EXCEPT ![c] = o] /\ pub' = [pub EXCEPT ![c] = p]
    /\ reading' \in {reading, reading \ {c}}
    /\ UNCHANGED <<row, client>>
    /\ upset' \in {upset, upset \cup {c}}

\* Such a step preserves the invariant if that container is in order after it.
LEMMA ContainerFrame ==
    ASSUME IndInv, NEW c \in Containers, NEW k \in Boxes, NEW o \in {"none", "creating", "removing"},
           NEW p \in Publishers, Only(c, k, o, p), k.lines = ctr[c].lines,
           o = "creating" => k.st = "running",
           k.st = "free" \/ o = "creating" =>
                p = NoPublisher /\ c \notin row /\ \A i \in Clients : cli[i].cid # c,
           IF p.until = None THEN p.pos <= k.lines ELSE p.pos <= p.until /\ p.until <= k.lines,
           c \notin upset' => p.until = None /\ k.st # "exited",
           k.st = "running" /\ o = "none" /\ c \notin upset' => p.st = "reading",
           p.st = "reading" => \/ pub[c].st = "reading" /\ p.pos = pub[c].pos
                               \/ \A i \in Clients : cli[i].cid # c,
           c \in reading' => p.st = "reading"
    PROVE  IndInv'
<1>0. reading \subseteq Containers /\ \A d \in reading : pub[d].st = "reading"
  BY DEF IndInv, TypeOK, ThreadsHeld
<1>1. /\ ctr' \in [Containers -> Boxes] /\ op' \in [Containers -> {"none", "creating", "removing"}]
      /\ pub' \in [Containers -> Publishers] /\ ctr'[c] = k /\ op'[c] = o /\ pub'[c] = p
      /\ \A d \in Containers : d # c => ctr'[d] = ctr[d] /\ op'[d] = op[d] /\ pub'[d] = pub[d]
  BY DEF IndInv, TypeOK, Only
<1>2. row' = row /\ cli' = cli /\ UNCHANGED client /\ upset' \in {upset, upset \cup {c}}
  BY DEF Only, client
<1>3. TypeOK'
  <2>1. reading' \subseteq Containers
    BY <1>0 DEF Only
  <2> QED BY <1>1, <1>2, <2>1 DEF IndInv, TypeOK, client
<1>4. NewContainers'
  BY <1>1, <1>2 DEF IndInv, NewContainers, Running
<1>5. \A d \in Containers : ctr[d].lines \in Nat /\ ctr[d].lines <= ctr'[d].lines
  <2>1. \A d \in Containers : ctr[d].lines \in Nat
    BY LogStreamAssumption DEF IndInv, TypeOK, Boxes, Lines
  <2>2. \A d \in Containers : ctr'[d].lines = ctr[d].lines
    BY <1>1
  <2> QED BY <2>1, <2>2
<1>6. PublishersFollow'
  <2> SUFFICES ASSUME NEW d \in Containers
               PROVE  /\ pub'[d].pos <= Reach(d)' /\ Reach(d)' <= ctr'[d].lines
                      /\ d \notin upset' => pub'[d].until = None /\ ctr'[d].st # "exited"
    BY DEF PublishersFollow
  <2>1. /\ pub[d].pos <= Reach(d) /\ Reach(d) <= ctr[d].lines
        /\ d \notin upset => pub[d].until = None /\ ctr[d].st # "exited"
    BY DEF IndInv, PublishersFollow
  <2>2. CASE d # c
    BY <2>1, <2>2, <1>1, <1>2 DEF Reach
  <2>3. CASE d = c
    BY <2>3, <1>1, <1>5 DEF Reach
  <2> QED BY <2>2, <2>3
<1>7. SilentOnlyWhenUpset'
  BY <1>1, <1>2 DEF IndInv, SilentOnlyWhenUpset, Running
<1>8. \A i \in Clients : StreamOK(i)'
  <2>1. \A d \in Containers : pub'[d].st = "reading" =>
            \/ pub[d].st = "reading" /\ pub'[d].pos = pub[d].pos
            \/ \A i \in Clients : cli[i].cid # d
    BY <1>1
  <2> QED BY <2>1, <1>2, <1>3, <1>5, StreamsFrame
<1>9. ThreadsHeld'
  <2>1. reading' \in {reading, reading \ {c}}
    BY DEF Only
  <2>2. \A d \in Containers : d \in reading' => pub'[d].st = "reading"
    BY <2>1, <1>0, <1>1
  <2> QED BY <2>1, <2>2, ThreadsFrame
<1> QED BY <1>3, <1>4, <1>6, <1>7, <1>8, <1>9 DEF IndInv

\* What the invariant says of one container.
LEMMA OneContainer ==
    ASSUME IndInv, NEW c \in Containers
    PROVE  /\ ctr[c] \in Boxes /\ ctr[c].lines \in Nat /\ ctr[c].lines <= ctr[c].lines
           /\ pub[c] \in Publishers /\ pub[c].pos \in Nat
           /\ op[c] \in {"none", "creating", "removing"}
           /\ ctr = [ctr EXCEPT ![c] = ctr[c]] /\ op = [op EXCEPT ![c] = op[c]]
           /\ pub = [pub EXCEPT ![c] = pub[c]]
           /\ op[c] = "creating" => ctr[c].st = "running"
           /\ ctr[c].st = "free" \/ op[c] = "creating" =>
                pub[c] = NoPublisher /\ c \notin row /\ \A i \in Clients : cli[i].cid # c
           /\ IF pub[c].until = None THEN pub[c].pos <= ctr[c].lines
              ELSE pub[c].pos <= pub[c].until /\ pub[c].until <= ctr[c].lines
           /\ c \notin upset => pub[c].until = None /\ ctr[c].st # "exited"
           /\ ctr[c].st = "running" /\ op[c] = "none" /\ c \notin upset => pub[c].st = "reading"
           /\ c \in reading => pub[c].st = "reading"
<1>1. /\ ctr \in [Containers -> Boxes] /\ ctr[c] \in Boxes
      /\ pub \in [Containers -> Publishers] /\ pub[c] \in Publishers
      /\ op \in [Containers -> {"none", "creating", "removing"}]
  BY DEF IndInv, TypeOK
<1>2. ctr[c].lines \in Nat /\ pub[c].pos \in Nat
  BY <1>1, LogStreamAssumption DEF Boxes, Publishers, Lines
<1>3. IF pub[c].until = None THEN pub[c].pos <= ctr[c].lines
      ELSE pub[c].pos <= pub[c].until /\ pub[c].until <= ctr[c].lines
  BY DEF IndInv, PublishersFollow, Reach
<1> QED BY <1>1, <1>2, <1>3
        DEF IndInv, NewContainers, PublishersFollow, ThreadsHeld, SilentOnlyWhenUpset, Running

-----------------------------------------------------------------------------
(* The agent *)

\* A run ends: what it wrote is what its follower can still read.
LEMMA RunEndsStep ==
    ASSUME IndInv, NEW c \in Containers,
           ExitAndRestart(c) \/ StopContainer(c) \/ RestartContainer(c)
    PROVE  IndInv'
<1>1. PICK st \in {"running", "exited"} :
        /\ ctr' = [ctr EXCEPT ![c] = [ctr[c] EXCEPT !.st = st]]
        /\ op[c] = "creating" => st = "running"
        /\ ctr[c].st \in {"running", "exited"}
  <2>1. CASE ExitAndRestart(c)
    <3>1. ctr[c] = [ctr[c] EXCEPT !.st = "running"] /\ ctr[c].st = "running"
      BY <2>1, OneContainer DEF ExitAndRestart, Running, Boxes
    <3>2. ctr' = [ctr EXCEPT ![c] = ctr[c]]
      BY <2>1, OneContainer DEF ExitAndRestart
    <3>3. ctr' = [ctr EXCEPT ![c] = [ctr[c] EXCEPT !.st = "running"]]
      BY <3>1, <3>2
    <3> QED BY <3>1, <3>3
  <2>2. CASE StopContainer(c)
    BY <2>2, OneContainer DEF StopContainer, Running
  <2>3. CASE RestartContainer(c)
    BY <2>3 DEF RestartContainer
  <2> QED BY <2>1, <2>2, <2>3
<1> DEFINE k == [ctr[c] EXCEPT !.st = st]
           p == [pub[c] EXCEPT !.until = IF pub[c].st = "reading" /\ pub[c].until = None
                                         THEN ctr[c].lines ELSE pub[c].until]
<1>2. /\ k \in Boxes /\ k.lines = ctr[c].lines /\ k.st = st
      /\ p \in Publishers /\ p.st = pub[c].st /\ p.pos = pub[c].pos
      /\ p.until = IF pub[c].st = "reading" /\ pub[c].until = None
                   THEN ctr[c].lines ELSE pub[c].until
      /\ ctr[c].st # "free"
  BY <1>1, OneContainer DEF Boxes, Publishers
<1>3. op[c] = "creating" => p = NoPublisher
  BY OneContainer DEF NoPublisher
<1>4. /\ pub' = [pub EXCEPT ![c] = p] /\ UNCHANGED <<op, row, client>>
      /\ upset' = upset \cup {c} /\ reading' = reading
  BY DEF ExitAndRestart, StopContainer, RestartContainer, RunEnds
<1>5. Only(c, k, op[c], p)
  BY <1>1, <1>4, OneContainer DEF Only
<1> HIDE DEF k, p
<1>6. IF p.until = None THEN p.pos <= k.lines ELSE p.pos <= p.until /\ p.until <= k.lines
  BY <1>2, OneContainer
<1> QED BY <1>1, <1>2, <1>3, <1>4, <1>5, <1>6, OneContainer, ContainerFrame

\* create_and_start: the container is new.
LEMMA CreateContainerStep ==
    ASSUME IndInv, NEW c \in Containers, CreateContainer(c)
    PROVE  IndInv'
<1> DEFINE k == [ctr[c] EXCEPT !.st = "running"]
<1>1. /\ k \in Boxes /\ k.lines = ctr[c].lines /\ k.st = "running"
      /\ pub[c] = NoPublisher /\ c \notin row /\ \A i \in Clients : cli[i].cid # c
  BY OneContainer DEF CreateContainer, Boxes
<1>2. Only(c, k, "creating", pub[c])
  BY OneContainer DEF CreateContainer, Only
<1>3. upset' = upset /\ reading' = reading
  BY DEF CreateContainer
<1> HIDE DEF k
<1> QED BY <1>1, <1>2, <1>3, OneContainer, ContainerFrame DEF NoPublisher

\* The handler starts the publisher, which nobody listens to yet.
LEMMA CreateDoneStep ==
    ASSUME IndInv, NEW c \in Containers, CreateDone(c)
    PROVE  IndInv'
<1> DEFINE p == [st |-> "reading", pos |-> 0, until |-> None]
<1>1. /\ op[c] = "creating" /\ ctr[c].st = "running" /\ pub[c] = NoPublisher
      /\ \A i \in Clients : cli[i].cid # c
  BY OneContainer DEF CreateDone
<1>2. p \in Publishers /\ p.st = "reading" /\ p.pos = 0 /\ p.until = None
  BY LogStreamAssumption DEF Publishers, Lines
<1>3. pub' = [pub EXCEPT ![c] = p]
  BY <1>1 DEF CreateDone, PublisherStart, NoPublisher, Running
<1>4. Only(c, ctr[c], "none", p) /\ upset' = upset
  BY <1>3, OneContainer DEF CreateDone, Only
<1> HIDE DEF p
<1> QED BY <1>1, <1>2, <1>4, OneContainer, ContainerFrame

\* A create that fails after its container was started.
LEMMA CreateFailsStep ==
    ASSUME IndInv, NEW c \in Containers, CreateFails(c)
    PROVE  IndInv'
<1>1. /\ Only(c, ctr[c], "none", pub[c]) /\ upset' = upset \cup {c} /\ ctr[c].st = "running"
      /\ reading' = reading
  BY OneContainer DEF CreateFails, Only
<1> QED BY <1>1, OneContainer, ContainerFrame

\* A container that was stopped is started: its publisher is left as it is.
LEMMA StartContainerStep ==
    ASSUME IndInv, NEW c \in Containers, StartContainer(c)
    PROVE  IndInv'
<1> DEFINE k == [ctr[c] EXCEPT !.st = "running"]
<1>1. /\ k \in Boxes /\ k.lines = ctr[c].lines /\ k.st = "running"
      /\ c \in row /\ c \in upset
  BY OneContainer DEF StartContainer, Boxes
<1>2. Only(c, k, op[c], pub[c]) /\ upset' = upset /\ reading' = reading
  BY OneContainer DEF StartContainer, Only
<1> HIDE DEF k
<1> QED BY <1>1, <1>2, OneContainer, ContainerFrame

\* delete stops the publisher first ...
LEMMA DeleteStopsStep ==
    ASSUME IndInv, NEW c \in Containers, DeleteStops(c)
    PROVE  IndInv'
<1>1. /\ NoPublisher \in Publishers /\ NoPublisher.st = "none" /\ NoPublisher.pos = 0
      /\ NoPublisher.until = None
  BY LogStreamAssumption DEF NoPublisher, Publishers, Lines
<1>2. /\ Only(c, ctr[c], "removing", NoPublisher) /\ upset' = upset /\ ctr[c].st # "free"
      /\ c \notin reading'
  BY OneContainer DEF DeleteStops, Only
<1> QED BY <1>1, <1>2, OneContainer, ContainerFrame

\* ... and removes the container then, or fails to.
LEMMA DeleteRemovesStep ==
    ASSUME IndInv, NEW c \in Containers, DeleteRemoves(c)
    PROVE  IndInv'
<1>1. CASE ctr' = [ctr EXCEPT ![c].st = "removed"] /\ upset' = upset
  <2> DEFINE k == [ctr[c] EXCEPT !.st = "removed"]
  <2>1. k \in Boxes /\ k.lines = ctr[c].lines /\ k.st = "removed"
    BY OneContainer DEF Boxes
  <2>2. Only(c, k, "none", pub[c])
    BY <1>1, OneContainer DEF DeleteRemoves, Only
  <2>3. reading' = reading
    BY DEF DeleteRemoves
  <2> HIDE DEF k
  <2> QED BY <1>1, <2>1, <2>2, <2>3, OneContainer, ContainerFrame
<1>2. CASE ctr' = ctr /\ upset' = upset \cup {c}
  <2>1. Only(c, ctr[c], "none", pub[c])
    BY <1>2, OneContainer DEF DeleteRemoves, Only
  <2>2. ctr[c].st = "free" =>
            pub[c] = NoPublisher /\ c \notin row /\ \A i \in Clients : cli[i].cid # c
    BY OneContainer
  <2>3. reading' = reading
    BY DEF DeleteRemoves
  <2> QED BY <1>2, <2>1, <2>2, <2>3, OneContainer, ContainerFrame
<1> QED BY <1>1, <1>2 DEF DeleteRemoves

\* The agent comes back without tasks.
LEMMA AgentRestartStep ==
    ASSUME IndInv, AgentRestart
    PROVE  IndInv'
<1>1. /\ pub' = [c \in Containers |-> NoPublisher] /\ op' = [c \in Containers |-> "none"]
      /\ upset' = upset \cup {c \in Containers : ctr[c].st # "free"}
      /\ ctr' = ctr /\ row' = row /\ cli' = cli /\ UNCHANGED client /\ reading' = {}
  BY DEF AgentRestart, client
<1>2. /\ NoPublisher \in Publishers /\ NoPublisher.st = "none" /\ NoPublisher.pos = 0
      /\ NoPublisher.until = None
  BY LogStreamAssumption DEF NoPublisher, Publishers, Lines
<1>3. \A c \in Containers : ctr[c].lines \in Nat /\ 0 <= ctr[c].lines
  BY LogStreamAssumption DEF IndInv, TypeOK, Boxes, Lines
<1>4. \A c \in Containers : pub'[c] = NoPublisher /\ op'[c] = "none"
  BY <1>1
<1>5. TypeOK'
  BY <1>1, <1>2 DEF IndInv, TypeOK, client
<1>6. NewContainers'
  BY <1>1, <1>4 DEF IndInv, NewContainers, Running
<1>7. PublishersFollow'
  BY <1>1, <1>2, <1>3, <1>4 DEF IndInv, PublishersFollow, Reach
<1>8. SilentOnlyWhenUpset'
  BY <1>1 DEF SilentOnlyWhenUpset, Running
<1>9. \A i \in Clients : StreamOK(i)'
  <2>1. \A c \in Containers : ctr[c].lines <= ctr'[c].lines
    BY <1>1, <1>3
  <2>2. \A c \in Containers : pub'[c].st # "reading"
    BY <1>2, <1>4
  <2> QED BY <2>1, <2>2, <1>1, <1>5, StreamsFrame
<1>10. ThreadsHeld'
  BY <1>1, FS_EmptySet, LogStreamAssumption DEF ThreadsHeld
<1> QED BY <1>5, <1>6, <1>7, <1>8, <1>9, <1>10 DEF IndInv

-----------------------------------------------------------------------------
(* The publisher task *)

\* A thread goes into the read of a task that is at work.
LEMMA TakeThreadStep ==
    ASSUME IndInv, NEW c \in Containers, TakeThread(c)
    PROVE  IndInv'
<1>1. /\ ctr' = ctr /\ op' = op /\ pub' = pub /\ upset' = upset /\ row' = row
      /\ UNCHANGED client /\ cli' = cli /\ inbox' = inbox /\ got' = got
      /\ reading' = reading \cup {c} /\ c \notin reading /\ pub[c].st = "reading"
      /\ Cardinality(reading) < Threads
  BY DEF TakeThread, ThreadFree, client
<1>2. IsFiniteSet(reading) /\ \A d \in reading : pub[d].st = "reading"
  BY DEF IndInv, ThreadsHeld
<1>3. /\ IsFiniteSet(reading') /\ Cardinality(reading') = Cardinality(reading) + 1
      /\ Cardinality(reading) \in Nat /\ Threads \in Nat
  BY <1>1, <1>2, FS_AddElement, FS_CardinalityType, LogStreamAssumption
<1>4. ThreadsHeld'
  BY <1>1, <1>2, <1>3 DEF ThreadsHeld
<1>5. TypeOK'
  BY <1>1 DEF IndInv, TypeOK
<1>6. NewContainers' /\ PublishersFollow' /\ SilentOnlyWhenUpset'
  BY <1>1 DEF IndInv, NewContainers, PublishersFollow, Reach, SilentOnlyWhenUpset, Running
<1>7. \A i \in Clients : StreamOK(i)'
  BY <1>1 DEF IndInv, StreamOK, Seen
<1> QED BY <1>4, <1>5, <1>6, <1>7 DEF IndInv

\* The task is done, because the run it follows has ended or by a failure.
LEMMA PublisherEndsStep ==
    ASSUME IndInv, NEW c \in Containers, PublisherEnds(c) \/ PublisherFails(c)
    PROVE  IndInv'
<1> DEFINE p == [pub[c] EXCEPT !.st = "ended"]
<1>1. /\ p \in Publishers /\ p.st = "ended" /\ p.pos = pub[c].pos /\ p.until = pub[c].until
      /\ pub[c].st = "reading"
  BY OneContainer DEF PublisherEnds, PublisherFails, Publishers
<1>2. Only(c, ctr[c], op[c], p)
  BY OneContainer DEF PublisherEnds, PublisherFails, Only, client
<1>3. c \in upset' /\ ctr[c].st # "free" /\ op[c] # "creating" /\ c \notin reading'
  BY <1>1, OneContainer DEF PublisherEnds, PublisherFails, NoPublisher
<1> HIDE DEF p
<1> QED BY <1>1, <1>2, <1>3, OneContainer, ContainerFrame

\* A message is published: those who listen get it after all they have seen.
LEMMA PublishStep ==
    ASSUME IndInv, NEW c \in Containers, Publish(c)
    PROVE  IndInv'
<1> DEFINE n == pub[c].pos + 1
           p == [pub[c] EXCEPT !.pos = n]
<1>1. /\ pub[c].st = "reading" /\ pub[c].pos < Reach(c)
      /\ pub' = [pub EXCEPT ![c] = p]
      /\ inbox' = [i \in Clients |-> IF Subscribed(i, c) THEN Append(inbox[i], n) ELSE inbox[i]]
      /\ ctr' = ctr /\ op' = op /\ row' = row /\ cli' = cli /\ got' = got /\ upset' = upset
      /\ reading' = reading \ {c}
  BY OneContainer DEF Publish
<1>2. /\ pub[c].pos \in Nat /\ ctr[c].lines \in Lines /\ MaxLines \in Nat
      /\ pub[c].until # None => pub[c].until \in Lines
      /\ pub \in [Containers -> Publishers] /\ pub[c] \in Publishers
  BY LogStreamAssumption, OneContainer DEF Boxes, Publishers, IndInv, TypeOK
<1>3. n \in 1 .. MaxLines /\ n \in Lines /\ n <= Reach(c) /\ n <= ctr[c].lines
  BY <1>1, <1>2, OneContainer DEF Reach, Lines
<1>4. /\ p \in Publishers /\ p.st = "reading" /\ p.pos = n /\ p.until = pub[c].until
      /\ pub' \in [Containers -> Publishers] /\ pub'[c] = p
      /\ \A d \in Containers : d # c => pub'[d] = pub[d]
  <2>1. p \in Publishers /\ p.st = "reading" /\ p.pos = n /\ p.until = pub[c].until
    BY <1>1, <1>2, <1>3 DEF Publishers
  <2> HIDE DEF p
  <2> QED BY <1>1, <1>2, <2>1
<1> HIDE DEF n, p
<1>5. TypeOK'
  <2>1. ASSUME NEW i \in Clients PROVE Append(inbox[i], n) \in Seq(1 .. MaxLines)
    BY <1>3, AppendProperties, SeenProperties
  <2>2. inbox' \in [Clients -> Seq(1 .. MaxLines)]
    BY <1>1, <2>1 DEF IndInv, TypeOK
  <2> QED BY <1>1, <1>4, <2>2 DEF IndInv, TypeOK
<1>6. NewContainers'
  <2>1. ctr[c].st # "free" /\ op[c] # "creating"
    BY <1>1, OneContainer DEF NoPublisher
  <2> QED BY <1>1, <1>4, <2>1 DEF IndInv, NewContainers, Running
<1>7. PublishersFollow'
  <2> SUFFICES ASSUME NEW d \in Containers
               PROVE  /\ pub'[d].pos <= Reach(d)' /\ Reach(d)' <= ctr'[d].lines
                      /\ d \notin upset' => pub'[d].until = None /\ ctr'[d].st # "exited"
    BY DEF PublishersFollow
  <2>1. /\ pub[d].pos <= Reach(d) /\ Reach(d) <= ctr[d].lines
        /\ d \notin upset => pub[d].until = None /\ ctr[d].st # "exited"
    BY DEF IndInv, PublishersFollow
  <2>2. Reach(d)' = Reach(d)
    BY <1>1, <1>4 DEF Reach
  <2> QED BY <2>1, <2>2, <1>1, <1>3, <1>4
<1>8. SilentOnlyWhenUpset'
  BY <1>1, <1>4 DEF IndInv, SilentOnlyWhenUpset, Running
<1>9. ASSUME NEW i \in Clients PROVE StreamOK(i)'
  <2> DEFINE seen == Seen(i)
  <2>1. StreamOK(i) /\ seen \in Seq(1 .. MaxLines) /\ Len(seen) \in Nat
    BY SeenProperties DEF IndInv
  <2>2. CASE Subscribed(i, c)
    <3>1. Seen(i)' = Append(seen, n)
      <4>1. inbox'[i] = Append(inbox[i], n) /\ got'[i] = got[i]
        BY <1>1, <2>2
      <4>2. got[i] \in Seq(1 .. MaxLines) /\ inbox[i] \in Seq(1 .. MaxLines)
        BY SeenProperties
      <4>3. got[i] \o Append(inbox[i], n) = Append(got[i] \o inbox[i], n)
        <5> DEFINE S == 1 .. MaxLines
        <5>1. got[i] \in Seq(S) /\ inbox[i] \in Seq(S) /\ n \in S
          BY <4>2, <1>3
        <5> HIDE DEF S
        <5>2. \A h, b \in Seq(S), x \in S : h \o Append(b, x) = Append(h \o b, x)
          BY AppendSeen
        <5> QED BY <5>1, <5>2
      <4>4. Seen(i)' = got'[i] \o inbox'[i]
        BY DEF Seen
      <4>5. seen = got[i] \o inbox[i]
        BY DEF Seen
      <4> HIDE DEF seen
      <4> QED BY <4>1, <4>3, <4>4, <4>5
    <3>2. /\ Len(Append(seen, n)) = Len(seen) + 1 /\ Append(seen, n)[Len(seen) + 1] = n
          /\ \A k \in 1 .. Len(seen) : Append(seen, n)[k] = seen[k]
      BY <1>3, <2>1, AppendProperties
    <3>3. seen # <<>> => seen[Len(seen)] + 1 = n
      BY <1>1, <2>1, <2>2 DEF StreamOK, Subscribed, n
    <3>4. ASSUME NEW k \in 1 .. Len(seen)
          PROVE  Append(seen, n)[k + 1] = Append(seen, n)[k] + 1
      <4>1. CASE k = Len(seen)
        <5>1. seen # <<>>
          BY <3>4, EmptySeq
        <5> QED BY <4>1, <5>1, <2>1, <3>2, <3>3
      <4>2. CASE k # Len(seen)
        <5>1. k \in 1 .. Len(seen) - 1 /\ k + 1 \in 1 .. Len(seen)
          BY <4>2, <2>1
        <5> QED BY <5>1, <2>1, <3>2 DEF StreamOK
      <4> QED BY <4>1, <4>2
    <3>5. /\ cli'[i].pc = "open" /\ cli'[i].cid = c
          /\ n <= ctr'[c].lines /\ pub'[c].pos = n
      BY <1>1, <1>3, <1>4, <2>2 DEF Subscribed
    <3>6. Len(Append(seen, n)) - 1 = Len(seen)
      BY <2>1, <3>2
    <3> HIDE DEF seen
    <3> QED BY <3>1, <3>2, <3>4, <3>5, <3>6 DEF StreamOK
  <2>3. CASE ~Subscribed(i, c)
    <3>1. Seen(i)' = seen /\ inbox'[i] = inbox[i]
      BY <1>1, <2>3 DEF Seen
    <3>2. seen # <<>> => cli[i].cid # c /\ cli[i].cid \in Containers
      BY <2>3, SeenProperties DEF Subscribed
    <3> QED BY <2>1, <3>1, <3>2, <1>1, <1>4 DEF StreamOK
  <2> QED BY <2>2, <2>3
<1>10. ThreadsHeld'
  <2>1. \A d \in Containers : d \in reading' => pub'[d].st = "reading"
    BY <1>1, <1>4 DEF IndInv, ThreadsHeld
  <2> QED BY <1>1, <2>1, ThreadsFrame
<1> QED BY <1>5, <1>6, <1>7, <1>8, <1>9, <1>10 DEF IndInv

-----------------------------------------------------------------------------
(* The row and the clients *)

\* The provision job records a container that is made, or the delete job
\* takes the row away.
LEMMA RowStep ==
    ASSUME IndInv, NEW c \in Containers, RecordContainer(c) \/ DeleteRow(c)
    PROVE  IndInv'
<1>1. /\ ctr' = ctr /\ op' = op /\ pub' = pub /\ upset' = upset /\ reading' = reading
      /\ cli' = cli /\ inbox' = inbox /\ got' = got /\ UNCHANGED client
      /\ \/ row' = row \cup {c} /\ ctr[c].st = "running" /\ op[c] = "none"
         \/ row' = row \ {c}
  BY DEF RecordContainer, DeleteRow, agent, client
<1>2. TypeOK'
  BY <1>1 DEF IndInv, TypeOK
<1>3. NewContainers'
  BY <1>1 DEF IndInv, NewContainers, Running
<1>4. PublishersFollow' /\ ThreadsHeld' /\ SilentOnlyWhenUpset'
  BY <1>1 DEF IndInv, PublishersFollow, ThreadsHeld, Reach, SilentOnlyWhenUpset, Running
<1>5. \A i \in Clients : StreamOK(i)'
  BY <1>1 DEF IndInv, StreamOK, Seen
<1> QED BY <1>2, <1>3, <1>4, <1>5 DEF IndInv

\* A client whose stream is not moved by the step.
LEMMA SameStream ==
    ASSUME IndInv, UNCHANGED <<agent, row>>, NEW i \in Clients,
           cli'[i] = cli[i], got'[i] = got[i], inbox'[i] = inbox[i]
    PROVE  StreamOK(i)'
<1>1. StreamOK(i) /\ ctr' = ctr /\ pub' = pub /\ Seen(i)' = Seen(i)
  BY DEF IndInv, agent, Seen
<1> QED BY <1>1 DEF StreamOK

\* A step of client i that leaves the agent alone: the client becomes x, has
\* seen g and has b waiting.
LEMMA ClientFrame ==
    ASSUME IndInv, UNCHANGED <<agent, row>>, NEW i \in Clients, NEW x \in Streams,
           NEW g \in Seq(1 .. MaxLines), NEW b \in Seq(1 .. MaxLines),
           cli' = [cli EXCEPT ![i] = x], got' = [got EXCEPT ![i] = g],
           inbox' = [inbox EXCEPT ![i] = b],
           x.cid = cli[i].cid \/ x.cid \in row,
           StreamOK(i)'
    PROVE  IndInv'
<1>1. /\ cli'[i] = x /\ got'[i] = g /\ inbox'[i] = b
      /\ \A j \in Clients : j # i => cli'[j] = cli[j] /\ got'[j] = got[j] /\ inbox'[j] = inbox[j]
      /\ cli' \in [Clients -> Streams] /\ got' \in [Clients -> Seq(1 .. MaxLines)]
      /\ inbox' \in [Clients -> Seq(1 .. MaxLines)]
  BY DEF IndInv, TypeOK
<1>2. TypeOK'
  BY <1>1 DEF IndInv, TypeOK, agent
<1>3. \A j \in Clients : cli'[j].cid = cli[j].cid \/ cli'[j].cid \in row
  BY <1>1
<1>4. NewContainers' /\ PublishersFollow' /\ ThreadsHeld' /\ SilentOnlyWhenUpset'
  BY <1>3, AgentFrame
<1>5. ASSUME NEW j \in Clients PROVE StreamOK(j)'
  BY <1>1, SameStream
<1> QED BY <1>2, <1>4, <1>5 DEF IndInv

\* Tokens come and go, and a stream is let in: nothing is shown by that.
LEMMA TokenStep ==
    ASSUME IndInv, NEW i \in Clients,
           (\E c \in Containers : MintLogToken(i, c)) \/ TokenExpires(i) \/ AuthorizeLogStream(i)
    PROVE  IndInv'
<1>1. PICK x \in Streams :
        /\ cli' = [cli EXCEPT ![i] = x]
        /\ \/ x.cid = cli[i].cid /\ x.pc = cli[i].pc
           \/ x.cid \in row /\ x.pc \in {"idle", "opening"} /\ cli[i].pc = "idle"
  <2>1. ASSUME NEW c \in Containers, MintLogToken(i, c)
        PROVE  [pc |-> "idle", cid |-> c, tok |-> "valid"] \in Streams
    BY DEF Streams
  <2>2. CASE \E c \in Containers : MintLogToken(i, c)
    BY <2>1, <2>2 DEF MintLogToken
  <2>3. cli[i] \in Streams
    BY DEF IndInv, TypeOK
  <2>4. CASE TokenExpires(i)
    <3> DEFINE y == [cli[i] EXCEPT !.tok = "expired"]
    <3>1. y \in Streams /\ y.cid = cli[i].cid /\ y.pc = cli[i].pc
      BY <2>3 DEF Streams
    <3> QED BY <2>4, <3>1 DEF TokenExpires
  <2>5. CASE AuthorizeLogStream(i)
    <3> DEFINE y == [cli[i] EXCEPT !.pc = "opening"]
    <3>1. y \in Streams /\ y.cid = cli[i].cid /\ y.pc = "opening"
      BY <2>3 DEF Streams
    <3> QED BY <2>5, <3>1 DEF AuthorizeLogStream
  <2> QED BY <2>2, <2>4, <2>5
<1>2. /\ UNCHANGED <<agent, row>> /\ got' = got /\ inbox' = inbox /\ ctr' = ctr /\ pub' = pub
      /\ got = [got EXCEPT ![i] = got[i]] /\ inbox = [inbox EXCEPT ![i] = inbox[i]]
  BY DEF MintLogToken, TokenExpires, AuthorizeLogStream, agent, IndInv, TypeOK
<1>3. StreamOK(i)'
  <2>1. cli'[i] = x /\ Seen(i)' = Seen(i) /\ StreamOK(i) /\ row \subseteq Containers
    BY <1>1, <1>2 DEF IndInv, TypeOK, Seen
  <2>2. CASE x.cid = cli[i].cid /\ x.pc = cli[i].pc
    BY <2>1, <2>2, <1>2 DEF StreamOK
  <2>3. CASE x.cid \in row /\ x.pc \in {"idle", "opening"} /\ cli[i].pc = "idle"
    <3>1. got[i] = <<>> /\ inbox[i] = <<>>
      BY <2>1, <2>3 DEF StreamOK
    <3>2. Seen(i) = <<>>
      BY <3>1, SeenProperties
    <3> QED BY <2>1, <2>3, <3>1, <3>2, <1>2 DEF StreamOK
  <2> QED BY <1>1, <2>2, <2>3
<1> QED BY <1>1, <1>2, <1>3, ClientFrame, SeenProperties

\* stream_logs_iter subscribes: the stream is empty and ready.
LEMMA SubscribeStep ==
    ASSUME IndInv, NEW i \in Clients, Subscribe(i)
    PROVE  IndInv'
<1> DEFINE x == [cli[i] EXCEPT !.pc = "open"]
<1>1. /\ cli[i] \in Streams /\ cli[i].pc = "opening" /\ StreamOK(i)
      /\ UNCHANGED <<agent, row>> /\ got' = got /\ inbox' = inbox /\ ctr' = ctr /\ pub' = pub
      /\ got = [got EXCEPT ![i] = got[i]] /\ inbox = [inbox EXCEPT ![i] = inbox[i]]
  BY DEF Subscribe, agent, IndInv, TypeOK
<1>2. x \in Streams /\ x.cid = cli[i].cid /\ x.pc = "open"
  BY <1>1 DEF Streams
<1>3. cli' = [cli EXCEPT ![i] = x] /\ cli'[i] = x /\ Seen(i)' = Seen(i)
  BY <1>1 DEF Subscribe, IndInv, TypeOK, Seen
<1> HIDE DEF x
<1>4. StreamOK(i)'
  BY <1>1, <1>2, <1>3 DEF StreamOK
<1> QED BY <1>1, <1>2, <1>3, <1>4, ClientFrame, SeenProperties

\* A message is relayed: the client has seen it before as one that waits.
LEMMA RelayStep ==
    ASSUME IndInv, NEW i \in Clients, Relay(i)
    PROVE  IndInv'
<1> DEFINE g == Append(got[i], Head(inbox[i]))
           b == Tail(inbox[i])
<1>1. /\ got[i] \in Seq(1 .. MaxLines) /\ inbox[i] \in Seq(1 .. MaxLines) /\ inbox[i] # <<>>
      /\ cli[i].pc = "open" /\ cli[i] \in Streams /\ StreamOK(i)
      /\ UNCHANGED <<agent, row>> /\ cli' = cli /\ ctr' = ctr /\ pub' = pub
      /\ cli = [cli EXCEPT ![i] = cli[i]]
  BY SeenProperties DEF Relay, agent, IndInv, TypeOK
<1>2. g \in Seq(1 .. MaxLines) /\ b \in Seq(1 .. MaxLines)
  BY <1>1, HeadTailProperties, AppendProperties
<1>3. /\ got' = [got EXCEPT ![i] = g] /\ inbox' = [inbox EXCEPT ![i] = b]
      /\ got'[i] = g /\ inbox'[i] = b
  BY DEF Relay, IndInv, TypeOK
<1>4. Seen(i)' = Seen(i)
  BY <1>1, <1>3, RelaySeen DEF Seen
<1> HIDE DEF g, b
<1>5. StreamOK(i)'
  BY <1>1, <1>4 DEF StreamOK
<1> QED BY <1>1, <1>2, <1>3, <1>5, ClientFrame

\* A stream ends, and its subscription with it.
LEMMA StreamEndsStep ==
    ASSUME IndInv, NEW i \in Clients, StreamEnds(i)
    PROVE  IndInv'
<1> DEFINE x == [cli[i] EXCEPT !.pc = "idle"]
<1>1. /\ cli[i] \in Streams /\ UNCHANGED <<agent, row>>
      /\ got' = [got EXCEPT ![i] = <<>>] /\ inbox' = [inbox EXCEPT ![i] = <<>>]
      /\ got'[i] = <<>> /\ inbox'[i] = <<>> /\ <<>> \in Seq(1 .. MaxLines)
  BY EmptySeq DEF StreamEnds, IndInv, TypeOK
<1>2. x \in Streams /\ x.cid = cli[i].cid /\ x.pc = "idle"
  BY <1>1 DEF Streams
<1>3. cli' = [cli EXCEPT ![i] = x] /\ cli'[i] = x
  BY DEF StreamEnds, IndInv, TypeOK
<1>4. Seen(i)' = <<>> /\ Len(Seen(i)') = 0
  BY <1>1, ConcatEmptySeq, EmptySeq DEF Seen
<1> HIDE DEF x
<1>5. StreamOK(i)'
  BY <1>1, <1>2, <1>3, <1>4 DEF StreamOK
<1> QED BY <1>1, <1>2, <1>3, <1>5, ClientFrame

-----------------------------------------------------------------------------
(* The invariant *)

\* Before the first container it holds.
LEMMA InitIndInv == Init => IndInv
<1> SUFFICES ASSUME Init PROVE IndInv
  OBVIOUS
<1>1. /\ NoPublisher \in Publishers /\ NoPublisher.st = "none" /\ NoPublisher.pos = 0
      /\ NoPublisher.until = None /\ 0 \in Lines
  BY LogStreamAssumption DEF NoPublisher, Publishers, Lines
<1>2. <<>> \in Seq(1 .. MaxLines) /\ Len(<<>>) = 0
  BY EmptySeq
<1>3. TypeOK
  BY <1>1, <1>2 DEF Init, TypeOK, Boxes, Streams
<1>4. NewContainers
  BY LogStreamAssumption DEF Init, NewContainers, Running
<1>5. PublishersFollow /\ SilentOnlyWhenUpset
  BY <1>1 DEF Init, PublishersFollow, SilentOnlyWhenUpset, Reach, Running
<1>6. ASSUME NEW i \in Clients PROVE StreamOK(i)
  <2>1. cli[i].pc = "idle" /\ got[i] = <<>> /\ inbox[i] = <<>>
    BY DEF Init
  <2>2. Seen(i) = <<>>
    BY <2>1, <1>2, ConcatEmptySeq DEF Seen
  <2> QED BY <2>1, <2>2, <1>2 DEF StreamOK
<1>7. ThreadsHeld
  BY FS_EmptySet, LogStreamAssumption DEF Init, ThreadsHeld
<1> QED BY <1>3, <1>4, <1>5, <1>6, <1>7 DEF IndInv

\* Every step preserves it.
LEMMA NextIndInv == IndInv /\ [Next]_vars => IndInv'
<1> SUFFICES ASSUME IndInv, [Next]_vars PROVE IndInv'
  OBVIOUS
<1>1. ASSUME NEW c \in Containers, Write(c) \/ ExitAndRestart(c) PROVE IndInv'
  BY <1>1, WriteStep, RunEndsStep
<1>2. ASSUME NEW c \in Containers, AgentStep(c) PROVE IndInv'
  BY <1>2, RunEndsStep, CreateContainerStep, CreateDoneStep, CreateFailsStep,
     StartContainerStep, DeleteStopsStep, DeleteRemovesStep DEF AgentStep
<1>3. ASSUME NEW c \in Containers, PublisherStep(c) PROVE IndInv'
  BY <1>3, TakeThreadStep, PublishStep, PublisherEndsStep DEF PublisherStep
<1>4. ASSUME NEW c \in Containers, RecordContainer(c) \/ DeleteRow(c) PROVE IndInv'
  BY <1>4, RowStep
<1>5. CASE AgentRestart
  BY <1>5, AgentRestartStep
<1>6. ASSUME NEW i \in Clients, ApiStep(i) PROVE IndInv'
  BY <1>6, TokenStep, SubscribeStep, RelayStep, StreamEndsStep DEF ApiStep
<1>7. CASE UNCHANGED vars
  BY <1>7 DEF vars, client, IndInv, TypeOK, NewContainers, PublishersFollow, ThreadsHeld, Reach,
     SilentOnlyWhenUpset, Running, StreamOK, Seen
<1> QED BY <1>1, <1>2, <1>3, <1>4, <1>5, <1>6, <1>7 DEF Next

\* Publishers and streams stay level through starts, stops, failures and
\* restarts of containers and of the agent.
THEOREM LogStreamInvariant == Spec => []IndInv
  BY InitIndInv, NextIndInv, PTL DEF Spec

\* Every variable has its type; no publisher counts beyond what was written.
THEOREM TypeCorrect == Spec => []TypeOK
<1>1. IndInv => TypeOK
  BY DEF IndInv
<1> QED BY <1>1, LogStreamInvariant, PTL

\* stream_logs_iter shows a gapless stretch of the log of one container, from
\* whatever moment the client subscribed.
THEOREM StreamsAreStretches == Spec => []StreamIsStretchOfLog
<1>1. IndInv => StreamIsStretchOfLog
  BY DEF IndInv, StreamOK, StreamIsStretchOfLog
<1> QED BY <1>1, LogStreamInvariant, PTL

\* LogPublisher: only what happens to a container or to its agent ends the
\* publisher of a running container.
THEOREM SilenceHasACause == Spec => []SilentOnlyWhenUpset
<1>1. IndInv => SilentOnlyWhenUpset
  BY DEF IndInv
<1> QED BY <1>1, LogStreamInvariant, PTL
=============================================================================
