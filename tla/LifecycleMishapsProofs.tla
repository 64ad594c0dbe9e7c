------------------------- MODULE LifecycleMishapsProofs -------------------------
(***************************************************************************)
(* Proofs about module LifecycleMishaps: MishapInv is an invariant, for    *)
(* any number of jobs at a time, of crashes and of calls that fail. With   *)
(* it the rows, the containers and the capacities of the nodes agree for   *)
(* everybody to whom none of the named mishaps ever happened.              *)
(***************************************************************************)
EXTENDS LifecycleMishaps, ServerLifeProofs, WellFoundedInduction

-----------------------------------------------------------------------------
(* Totals: what the fold of Total computes over a finite set *)

\* What holds of a subset of a finite set when it holds of it less any of its
\* elements, holds of the set.
LEMMA SubsetInduction ==
    ASSUME NEW S, IsFiniteSet(S), NEW G,
           \A T \in SUBSET S : (\A x \in T : T \ {x} \in G) => T \in G
    PROVE  \A T \in SUBSET S : T \in G
<1>1. SUFFICES ASSUME (SUBSET S) \ G # {} PROVE FALSE
  OBVIOUS
<1> DEFINE B == (SUBSET S) \ G
<1>2. IsWellFoundedOn(StrictSubsetOrdering(S), SUBSET S)
  BY FS_StrictSubsetOrderingWellFounded, FS_FiniteSubsetsOfFinite
<1>3. PICK T \in B : \A U \in B : ~ (<<U, T>> \in StrictSubsetOrdering(S))
  <2> HIDE DEF B
  <2>1. B \subseteq SUBSET S /\ B # {}
    BY <1>1 DEF B
  <2> QED BY <2>1, <1>2, WFMin
<1>4. \A x \in T : T \ {x} \in G
  <2> SUFFICES ASSUME NEW x \in T, T \ {x} \notin G PROVE FALSE
    OBVIOUS
  <2>1. T \ {x} \in B
    OBVIOUS
  <2>2. <<T \ {x}, T>> \in StrictSubsetOrdering(S)
    BY DEF StrictSubsetOrdering
  <2> QED BY <1>3, <2>1, <2>2
<1> QED BY <1>4

\* The element of T that a fold takes first.
Pick(T) == CHOOSE x \in T : TRUE

\* g adds up f over the sets of D, in the order of the fold.
Adds(g, f, D) ==
    g = [T \in D |-> IF T = {} THEN 0 ELSE f[Pick(T)] + g[T \ {Pick(T)}]]

UpTo(S, k) == {T \in SUBSET S : Cardinality(T) <= k}

LEMMA PickIn == \A T : T # {} => Pick(T) \in T
  BY DEF Pick

LEMMA AddsStep ==
    ASSUME NEW S, IsFiniteSet(S), NEW f, NEW k \in Nat,
           NEW h, Adds(h, f, UpTo(S, k))
    PROVE  \E g : Adds(g, f, UpTo(S, k + 1))
<1> DEFINE g == [T \in UpTo(S, k + 1) |->
                   IF T = {} THEN 0 ELSE f[Pick(T)] + h[T \ {Pick(T)}]]
<1>1. \A T \in UpTo(S, k) : g[T] = h[T]
  <2> TAKE T \in UpTo(S, k)
  <2>1. T \in UpTo(S, k + 1)
    <3>1. Cardinality(T) \in Nat
      BY FS_Subset, FS_CardinalityType DEF UpTo
    <3> QED BY <3>1 DEF UpTo
  <2>2. h[T] = IF T = {} THEN 0 ELSE f[Pick(T)] + h[T \ {Pick(T)}]
    BY DEF Adds
  <2> QED BY <2>1, <2>2
<1>2. ASSUME NEW T \in UpTo(S, k + 1), T # {}
      PROVE  T \ {Pick(T)} \in UpTo(S, k)
  <2>1. Pick(T) \in T
    BY <1>2, PickIn
  <2>2. IsFiniteSet(T) /\ Cardinality(T) \in Nat
    BY <1>2, FS_Subset, FS_CardinalityType DEF UpTo
  <2>3. Cardinality(T \ {Pick(T)}) = Cardinality(T) - 1
    BY <2>1, <2>2, FS_RemoveElement
  <2> QED BY <2>2, <2>3, <1>2 DEF UpTo
<1>3. g = [T \in UpTo(S, k + 1) |->
             IF T = {} THEN 0 ELSE f[Pick(T)] + g[T \ {Pick(T)}]]
  <2>1. ASSUME NEW T \in UpTo(S, k + 1), T # {}
        PROVE  g[T \ {Pick(T)}] = h[T \ {Pick(T)}]
    BY <1>1, <1>2, <2>1
  <2> QED BY <2>1
<1> QED BY <1>3 DEF Adds

\* The recursion of the fold over a finite set has a solution ...
LEMMA AddsExists ==
    ASSUME NEW S, IsFiniteSet(S), NEW f
    PROVE  \E g : Adds(g, f, SUBSET S)
<1> DEFINE K == {k \in Nat : ~ \E g : Adds(g, f, UpTo(S, k))}
<1>1. K = {}
  <2>1. SUFFICES ASSUME K # {} PROVE FALSE
    OBVIOUS
  <2>2. PICK k \in K : \A j \in K : ~ (<<j, k>> \in OpToRel(<, Nat))
    <3> HIDE DEF K
    <3>1. K \subseteq Nat
      BY DEF K
    <3> QED BY <2>1, <3>1, NatLessThanWellFounded, WFMin
  <2>3. \A j \in Nat : j < k => \E g : Adds(g, f, UpTo(S, j))
    BY <2>2 DEF OpToRel
  <2>4. CASE k = 0
    <3>1. UpTo(S, 0) = {{}}
      <4>1. ASSUME NEW T \in SUBSET S
            PROVE  Cardinality(T) <= 0 <=> T = {}
        BY FS_Subset, FS_CardinalityType, FS_EmptySet
      <4> QED BY <4>1 DEF UpTo
    <3> DEFINE g == [T \in {{}} |-> 0]
    <3>2. g = [T \in {{}} |-> IF T = {} THEN 0 ELSE f[Pick(T)] + g[T \ {Pick(T)}]]
      OBVIOUS
    <3>3. Adds(g, f, UpTo(S, 0))
      BY <3>1, <3>2 DEF Adds
    <3> HIDE DEF g
    <3> QED BY <2>4, <3>3
  <2>5. CASE k # 0
    <3>1. PICK h : Adds(h, f, UpTo(S, k - 1))
      BY <2>3, <2>5
    <3>2. \E g : Adds(g, f, UpTo(S, (k - 1) + 1))
      BY <3>1, <2>5, AddsStep
    <3>3. (k - 1) + 1 = k
      OBVIOUS
    <3> QED BY <3>2, <3>3
  <2> QED BY <2>4, <2>5
<1>2. Cardinality(S) \in Nat /\ UpTo(S, Cardinality(S)) = SUBSET S
  <2>1. Cardinality(S) \in Nat
    BY FS_CardinalityType
  <2>2. \A T \in SUBSET S : Cardinality(T) <= Cardinality(S)
    BY FS_Subset
  <2> QED BY <2>1, <2>2 DEF UpTo
<1>3. \E g : Adds(g, f, UpTo(S, Cardinality(S)))
  <2> DEFINE k == Cardinality(S)
  <2>1. k \notin K /\ k \in Nat
    BY <1>1, <1>2
  <2> HIDE DEF k
  <2>2. \E g : Adds(g, f, UpTo(S, k))
    BY <2>1
  <2> QED BY <2>2 DEF k
<1> HIDE DEF K
<1> QED BY <1>2, <1>3

\* The function that a fold over D computes.
Sums(f, D) == CHOOSE g : Adds(g, f, SUBSET D)

LEMMA SumsAdd ==
    ASSUME NEW S, IsFiniteSet(S), NEW f
    PROVE  Adds(Sums(f, S), f, SUBSET S)
BY AddsExists DEF Sums

\* A total is what this function says of the set, ...
LEMMA TotalIs == \A f, S : Total(f, S) = Sums(f, S)[S]
BY DEF Sums, Adds, Pick, Total, MapThenSumSet, MapThenFoldSet

\* ... and so does the function of a larger set, for there is one only.
LEMMA TotalIn ==
    ASSUME NEW S, IsFiniteSet(S), NEW f, NEW T \in SUBSET S
    PROVE  Total(f, T) = Sums(f, S)[T]
<1> DEFINE g == Sums(f, S)
           h == Sums(f, T)
           G == {U \in SUBSET T : g[U] = h[U]}
<1>1. Adds(g, f, SUBSET S) /\ Adds(h, f, SUBSET T) /\ IsFiniteSet(T)
  BY SumsAdd, FS_Subset
<1>2. ASSUME NEW U \in SUBSET T, \A x \in U : U \ {x} \in G
      PROVE  U \in G
  <2> HIDE DEF g, h
  <2>1. /\ g[U] = IF U = {} THEN 0 ELSE f[Pick(U)] + g[U \ {Pick(U)}]
        /\ h[U] = IF U = {} THEN 0 ELSE f[Pick(U)] + h[U \ {Pick(U)}]
    BY <1>1 DEF Adds
  <2>2. U # {} => U \ {Pick(U)} \in G
    BY <1>2, PickIn
  <2> QED BY <2>1, <2>2
<1>3. T \in G
  <2> HIDE DEF G
  <2> QED BY <1>1, <1>2, SubsetInduction
<1> QED BY <1>3, TotalIs

LEMMA TotalOfNone == ASSUME NEW f PROVE Total(f, {}) = 0
<1>1. Adds(Sums(f, {}), f, SUBSET {})
  BY SumsAdd, FS_EmptySet
<1>2. Sums(f, {})[{}] = 0
  BY <1>1 DEF Adds
<1> QED BY <1>2, TotalIs

LEMMA TotalPicks ==
    ASSUME NEW S, IsFiniteSet(S), NEW f, NEW T \in SUBSET S, T # {}
    PROVE  Total(f, T) = f[Pick(T)] + Total(f, T \ {Pick(T)})
<1> DEFINE g == Sums(f, S)
           R == T \ {Pick(T)}
<1>1. g[T] = f[Pick(T)] + g[R]
  <2>1. Adds(g, f, SUBSET S)
    BY SumsAdd
  <2> HIDE DEF g
  <2> QED BY <2>1 DEF Adds
<1>2. Total(f, T) = g[T]
  BY TotalIn
<1>3. Total(f, R) = g[R]
  BY TotalIn
<1> QED BY <1>1, <1>2, <1>3

\* A total of numbers is a number.
LEMMA TotalType ==
    ASSUME NEW S, IsFiniteSet(S), NEW f, \A x \in S : f[x] \in Nat
    PROVE  \A T \in SUBSET S : Total(f, T) \in Nat
<1> DEFINE G == {T \in SUBSET S : Total(f, T) \in Nat}
<1>1. ASSUME NEW T \in SUBSET S, \A x \in T : T \ {x} \in G
      PROVE  T \in G
  <2>1. CASE T = {}
    BY <2>1, TotalOfNone
  <2>2. CASE T # {}
    <3>1. Pick(T) \in T
      BY <2>2, PickIn
    <3>2. Total(f, T) = f[Pick(T)] + Total(f, T \ {Pick(T)})
      BY <2>2, TotalPicks
    <3> QED BY <1>1, <3>1, <3>2
  <2> QED BY <2>1, <2>2
<1> HIDE DEF G
<1>2. \A T \in SUBSET S : T \in G
  BY <1>1, SubsetInduction
<1> QED BY <1>2 DEF G

\* Whatever the order of the fold, any element may come first.
LEMMA TotalSplits ==
    ASSUME NEW S, IsFiniteSet(S), NEW f, \A x \in S : f[x] \in Nat
    PROVE  \A T \in SUBSET S : \A x \in T : Total(f, T) = f[x] + Total(f, T \ {x})
<1> DEFINE G == {T \in SUBSET S : \A x \in T : Total(f, T) = f[x] + Total(f, T \ {x})}
<1>1. ASSUME NEW T \in SUBSET S, \A x \in T : T \ {x} \in G
      PROVE  T \in G
  <2> SUFFICES ASSUME NEW x \in T PROVE Total(f, T) = f[x] + Total(f, T \ {x})
    OBVIOUS
  <2> DEFINE p == Pick(T)
  <2>1. p \in T
    BY PickIn
  <2>2. Total(f, T) = f[p] + Total(f, T \ {p})
    BY TotalPicks
  <2>3. CASE x = p
    BY <2>2, <2>3
  <2>4. CASE x # p
    <3> HIDE DEF p
    <3>1. Total(f, T \ {p}) = f[x] + Total(f, (T \ {p}) \ {x})
      BY <1>1, <2>1, <2>4
    <3>2. Total(f, T \ {x}) = f[p] + Total(f, (T \ {x}) \ {p})
      BY <1>1, <2>1, <2>4
    <3>3. (T \ {p}) \ {x} = (T \ {x}) \ {p}
      OBVIOUS
    <3>4. f[x] \in Nat /\ f[p] \in Nat /\ Total(f, (T \ {x}) \ {p}) \in Nat
      BY <2>1, TotalType
    <3> QED BY <2>2, <3>1, <3>2, <3>3, <3>4
  <2> QED BY <2>3, <2>4
<1> HIDE DEF G
<1>2. \A T \in SUBSET S : T \in G
  BY <1>1, SubsetInduction
<1> QED BY <1>2 DEF G

\* Fewer and smaller numbers have no larger total.
LEMMA TotalMonotone ==
    ASSUME NEW S, IsFiniteSet(S), NEW f, NEW h,
           \A x \in S : f[x] \in Nat /\ h[x] \in Nat /\ f[x] <= h[x]
    PROVE  \A T \in SUBSET S : \A R \in SUBSET T : Total(f, R) <= Total(h, T)
<1> DEFINE G == {T \in SUBSET S : \A R \in SUBSET T : Total(f, R) <= Total(h, T)}
<1>1. ASSUME NEW T \in SUBSET S, \A x \in T : T \ {x} \in G
      PROVE  T \in G
  <2> SUFFICES ASSUME NEW R \in SUBSET T PROVE Total(f, R) <= Total(h, T)
    OBVIOUS
  <2>1. CASE T = {}
    BY <2>1, TotalOfNone
  <2>2. CASE T # {}
    <3>1. PICK x \in T : TRUE
      BY <2>2
    <3>2. Total(h, T) = h[x] + Total(h, T \ {x})
      BY TotalSplits
    <3>3. Total(f, R \ {x}) <= Total(h, T \ {x})
      BY <1>1
    <3>4. Total(f, R) <= f[x] + Total(f, R \ {x})
      <4>1. x \in R => Total(f, R) = f[x] + Total(f, R \ {x})
        BY TotalSplits
      <4>2. x \notin R => R \ {x} = R
        OBVIOUS
      <4>3. f[x] \in Nat /\ Total(f, R) \in Nat
        BY TotalType
      <4> QED BY <4>1, <4>2, <4>3
    <3>5. /\ f[x] \in Nat /\ h[x] \in Nat /\ f[x] <= h[x]
          /\ Total(f, R) \in Nat /\ Total(f, R \ {x}) \in Nat /\ Total(h, T \ {x}) \in Nat
      BY TotalType
    <3> QED BY <3>2, <3>3, <3>4, <3>5
  <2> QED BY <2>1, <2>2
<1> HIDE DEF G
<1>2. \A T \in SUBSET S : T \in G
  BY <1>1, SubsetInduction
<1> QED BY <1>2 DEF G

\* Fewer servers that ask for no more take no more room.
LEMMA TotalSmaller ==
    ASSUME NEW T, IsFiniteSet(T), NEW R \in SUBSET T, NEW f, NEW h,
           \A x \in T : h[x] \in Nat,
           \A x \in R : f[x] \in Nat /\ f[x] <= h[x]
    PROVE  Total(f, R) <= Total(h, T) /\ Total(f, R) \in Nat /\ Total(h, T) \in Nat
<1>1. IsFiniteSet(R) /\ R \in SUBSET R /\ T \in SUBSET T
  BY FS_Subset
<1>2. \A x \in R : f[x] \in Nat /\ h[x] \in Nat /\ f[x] <= h[x]
  OBVIOUS
<1>3. \A x \in T : h[x] \in Nat /\ h[x] <= h[x]
  OBVIOUS
<1>4. Total(f, R) \in Nat /\ Total(h, R) \in Nat /\ Total(h, T) \in Nat
  BY <1>1, <1>2, <1>3, TotalType
<1>5. Total(f, R) <= Total(h, R)
  BY <1>1, <1>2, TotalMonotone
<1>6. Total(h, R) <= Total(h, T)
  BY <1>1, <1>3, TotalMonotone
<1> QED BY <1>4, <1>5, <1>6

\* One element more adds its own number at most.
LEMMA TotalOneMore ==
    ASSUME NEW C, IsFiniteSet(C), NEW s, NEW g, NEW h,
           \A x \in C : g[x] \in Nat /\ h[x] = g[x], h[s] \in Nat
    PROVE  Total(h, C \cup {s}) <= Total(g, C) + h[s] /\ Total(g, C) \in Nat
<1> DEFINE T == C \cup {s}
<1>1. IsFiniteSet(T) /\ \A x \in T : h[x] \in Nat
  BY FS_AddElement
<1>2. T \in SUBSET T /\ s \in T /\ T \ {s} \in SUBSET C
  OBVIOUS
<1> HIDE DEF T
<1>3. Total(h, T) = h[s] + Total(h, T \ {s})
  BY <1>1, <1>2, TotalSplits
<1>4. \A x \in T \ {s} : h[x] \in Nat /\ h[x] <= g[x]
  BY <1>2
<1>5. Total(h, T \ {s}) <= Total(g, C) /\ Total(h, T \ {s}) \in Nat /\ Total(g, C) \in Nat
  BY <1>2, <1>4, TotalSmaller
<1> QED BY <1>3, <1>5 DEF T

\* What a server asks for is a number.
LEMMA AsksNumbers ==
    ASSUME NEW size \in Sizes
    PROVE  ReqCpu(size) \in Nat /\ ReqMem(size) \in Nat
  BY LifecycleAssumption DEF Resources, ReqCpu, ReqMem, FirstKey

-----------------------------------------------------------------------------
(* What the history variables remember *)

\* What a step of MishapSpec says of them, in the form the proofs below use.
Remembers ==
    /\ crowded \subseteq crowded' /\ unheard \subseteq unheard'
    /\ \A s \in Servers : HeardNoMore(s) => s \in unheard'
    /\ \A t, u \in Tasks :
          /\ t # u /\ {job'[t].pc, job'[u].pc} \subseteq ActivePcs
          /\ req'[t].srv = req'[u].srv /\ req'[t].srv \in Servers
          => req'[t].srv \in crowded'
    /\ \A t \in Tasks :
          /\ job[t].pc \in ChosenPcs /\ job'[t].pc \in ChosenPcs /\ t \notin overtaken'
          => t \notin overtaken /\ ~TakesRoom(job[t].srv, job[t].node)

\* A step that takes room changes something.
LEMMA RoomIsTaken ==
    ASSUME IndInv, UNCHANGED vars, NEW s, NEW n PROVE ~TakesRoom(s, n)
<1>1. srv' = srv /\ job' = job /\ node' = node
  BY DEF vars
<1>2. srv \in [Servers -> ServerRows]
  BY DEF IndInv, TypeOK
<1>3. ASSUME NEW u \in Tasks, ProvisionSave(u) \/ ProvisionPlace(u) \/ LifecycleSave(u)
      PROVE  FALSE
  <2>1. JobMoves(job[u], job[u]) /\ job[u].pc \in {"p_save", "p_load", "l_save"}
    BY <1>1, <1>3, JobStepMoves
    DEF JobStep, ProvisionStep, LifecycleStep, ProvisionSave, ProvisionPlace, LifecycleSave
  <2> QED BY <2>1 DEF JobMoves, MovesPc
<1>4. ASSUME NEW x \in Servers, NEW size \in Sizes, Patch(x, size), size # srv[x].res
      PROVE  FALSE
  <2>1. srv'[x].res = size
    BY <1>2, <1>4 DEF Patch, ServerRows
  <2> QED BY <1>1, <1>4, <2>1
<1>5. ASSUME NEW status, NEW cap, NodePatch(n, status, cap) PROVE FALSE
  BY <1>1, <1>5 DEF NodePatch
<1> QED BY <1>3, <1>4, <1>5 DEF TakesRoom

LEMMA StepRemembers ==
    ASSUME IndInv, MishapsKnown, [MishapNext]_allVars PROVE [Next]_vars /\ Remembers
<1>1. CASE MishapNext
  <2>1. Next /\ Remember
    BY <1>1 DEF MishapNext
  <2>2. \A t, u \in Tasks :
          /\ t # u /\ {job'[t].pc, job'[u].pc} \subseteq ActivePcs
          /\ req'[t].srv = req'[u].srv /\ req'[t].srv \in Servers
          => req'[t].srv \in crowded'
    <3> SUFFICES ASSUME NEW t \in Tasks, NEW u \in Tasks, t # u,
                        job'[t].pc \in ActivePcs, job'[u].pc \in ActivePcs,
                        req'[t].srv = req'[u].srv, req'[t].srv \in Servers
                 PROVE  req'[t].srv \in crowded'
      OBVIOUS
    <3>1. PICK s \in Servers : s = req'[t].srv
      OBVIOUS
    <3> QED BY <2>1, <3>1 DEF Remember, AtWork
  <2>3. \A t \in Tasks :
          /\ job[t].pc \in ChosenPcs /\ job'[t].pc \in ChosenPcs /\ t \notin overtaken'
          => t \notin overtaken /\ ~TakesRoom(job[t].srv, job[t].node)
    BY <2>1 DEF Remember
  <2>4. /\ crowded \subseteq crowded' /\ unheard \subseteq unheard'
        /\ \A s \in Servers : HeardNoMore(s) => s \in unheard'
    BY <2>1 DEF Remember
  <2> QED BY <2>1, <2>2, <2>3, <2>4 DEF Remembers
<1>2. CASE UNCHANGED allVars
  <2>1. UNCHANGED vars /\ crowded' = crowded /\ unheard' = unheard /\ overtaken' = overtaken
    BY <1>2 DEF allVars, mishaps
  <2>2. late' = late /\ ctr' = ctr /\ req' = req /\ job' = job /\ crashes' = crashes
    BY <2>1 DEF vars
  <2>3. \A s \in Servers : ~HeardNoMore(s)
    <3>1. \A t \in Tasks : ~Crash(t)
      BY <2>2 DEF Crash, IndInv, TypeOK
    <3> QED BY <2>2, <3>1 DEF HeardNoMore
  <2>4. \A t, u \in Tasks :
          t # u /\ {job'[t].pc, job'[u].pc} \subseteq ActivePcs /\ req'[t].srv = req'[u].srv
          => req'[t].srv \in crowded'
    BY <2>1, <2>2 DEF MishapsKnown
  <2> QED BY <2>1, <2>3, <2>4, RoomIsTaken DEF Remembers
<1> QED BY <1>1, <1>2

\* Unless two of its jobs overlap, nobody else works on the server of a job.
LEMMA NobodyElse ==
    ASSUME IndInv, MishapsKnown, NEW t \in Tasks, NEW u \in Tasks,
           job[t].pc \in ActivePcs, job[u].pc \in ActivePcs,
           job[t].srv \in Servers, job[u].srv = job[t].srv, job[t].srv \notin crowded
    PROVE  u = t
<1>1. req[t].srv = job[t].srv /\ req[u].srv = job[t].srv
  BY JobFacts, NoneAssumption DEF JobFits
<1> QED BY <1>1 DEF MishapsKnown

\* What an agent does for a request it does to a container of its server.
LEMMA ExecutedOn ==
    ASSUME IndInv, NEW r \in AgentRequests, r.op # "create" => Owns(r.cid, r.srv, r.node),
           Executed(r), NEW c \in Containers, ctr'[c] # ctr[c]
    PROVE  ctr'[c].srv = r.srv
<1>1. ctr \in [Containers -> ContainerRows]
  BY DEF IndInv, TypeOK
<1>2. CASE r.op = "create"
  <2>1. PICK d \in Free(ctr) : \E state : ctr' = AfterCreate(ctr, d, r.srv, r.node, state)
    BY <1>2 DEF Executed
  <2> QED BY <1>1, <2>1 DEF AfterCreate, Free
<1>3. CASE r.op # "create"
  <2>1. /\ ctr' = [ctr EXCEPT ![r.cid].state = NewState(r.op, @)]
        /\ r.cid \in Containers /\ ctr[r.cid].srv = r.srv
    BY <1>3 DEF Executed, AfterOp, Owns
  <2> QED BY <1>1, <2>1 DEF ContainerRows
<1> QED BY <1>2, <1>3

-----------------------------------------------------------------------------
(* One step of a job *)

\* A call that fails leaves the job where it is, or sends it to its except
\* block; if the agent did something nevertheless, nobody has heard of it.
LEMMA FailsInPlace ==
    ASSUME IndInv, Remembers, NEW t \in Tasks, FaultStep(t)
    PROVE  /\ srv' = srv /\ job'[t].srv = job[t].srv /\ job'[t].cid = job[t].cid
           /\ job[t].pc \in CallPcs
           /\ job'[t].pc \in {job[t].pc, "p_fail", "l_fail", "d_fail"}
           /\ ctr' = ctr \/ job[t].srv \in unheard'
<1>1. job[t].pc \in CallPcs /\ (AttemptFails(t) \/ Goto(t, FailPc(t))) /\ srv' = srv
  BY DEF FaultStep, ConnectFails, DockerFails, ReadTimesOut, TransportFails
<1>2. /\ job'[t].srv = job[t].srv /\ job'[t].cid = job[t].cid
      /\ job'[t].pc \in {job[t].pc, "p_fail", "l_fail", "d_fail"}
  BY <1>1, AttemptIs
<1>3. ctr' = ctr \/ (DockerFails(t) /\ ctr' # ctr)
  BY DEF FaultStep, ConnectFails, ReadTimesOut, TransportFails
<1>4. job[t].srv = req[t].srv /\ job[t].srv \in Servers
  BY <1>1, JobFacts DEF JobFits, CallPcs, ServerPcs
<1>5. ctr' = ctr \/ HeardNoMore(job[t].srv)
  BY <1>3, <1>4 DEF HeardNoMore
<1> QED BY <1>1, <1>2, <1>4, <1>5 DEF Remembers

\* Which step a job takes from where it stands.
LEMMA NextOfJob ==
    ASSUME IndInv, NEW t \in Tasks, JobStep(t)
    PROVE  /\ job[t].pc = "p_create" => CreateReplies(t) \/ FaultStep(t)
           /\ job[t].pc = "p_inspect" => InspectReplies(t) \/ FaultStep(t)
           /\ job[t].pc = "p_fail" => ProvisionFailFind(t)
           /\ job[t].pc = "p_failsave" => ProvisionFailSave(t)
           /\ job[t].pc = "l_call" => LifecycleReplies(t) \/ FaultStep(t)
           /\ job[t].pc = "l_find" => LifecycleFind(t)
           /\ job[t].pc = "l_save" => LifecycleSave(t)
           /\ job[t].pc = "d_row" => DeleteRow(t)
<1>1. FaultStep(t) => job[t].pc \in {"p_create", "p_inspect", "l_call", "d_call"}
  BY DEF FaultStep, ConnectFails, DockerFails, ReadTimesOut, TransportFails, CallPcs
<1>2. JobStart(t) \/ ArqFinish(t) => job[t].pc \in {"queued", "ended"}
  BY DEF JobStart, ArqFinish
<1>3. ProvisionStep(t) =>
        \/ CreateReplies(t) /\ job[t].pc = "p_create"
        \/ InspectReplies(t) /\ job[t].pc = "p_inspect"
        \/ ProvisionFailFind(t) /\ job[t].pc = "p_fail"
        \/ ProvisionFailSave(t) /\ job[t].pc = "p_failsave"
        \/ job[t].pc \in {"p_load", "p_save", "p_done"}
  BY DEF ProvisionStep, ProvisionMissing, ProvisionNoCapacity, ProvisionPlace, CreateReplies,
         InspectReplies, ProvisionSave, ProvisionDone, ProvisionFailFind, ProvisionFailSave
<1>4. LifecycleStep(t) =>
        \/ LifecycleReplies(t) /\ job[t].pc = "l_call"
        \/ LifecycleFind(t) /\ job[t].pc = "l_find"
        \/ LifecycleSave(t) /\ job[t].pc = "l_save"
        \/ job[t].pc \in {"l_load", "d_load", "l_fail", "d_fail"}
  BY DEF LifecycleStep, LoadMissing, LifecycleUnprovisioned, LifecycleLoad,
         LifecycleReplies, LifecycleFind, LifecycleSave, JobFail
<1>5. DeleteStep(t) =>
        \/ DeleteRow(t) /\ job[t].pc = "d_row"
        \/ job[t].pc \in {"d_load", "d_node", "d_call"}
  BY DEF DeleteStep, DeleteNothing, DeleteLoad, DeleteFindNode, DeleteReplies, DeleteRow
<1> QED BY <1>1, <1>2, <1>3, <1>4, <1>5 DEF JobStep

\* What the three calls that change a container do.
LEMMA CreateIs ==
    ASSUME IndInv, NEW t \in Tasks, CreateReplies(t)
    PROVE  /\ srv' = srv /\ job'[t].srv = job[t].srv
           /\ \/ ctr' = ctr /\ job'[t].pc = "p_fail"
              \/ \E c \in Containers :
                    /\ ctr[c].state = "free" /\ ctr'[c].state = "running"
                    /\ ctr'[c].srv = job[t].srv
                    /\ \A d \in Containers : d # c => ctr'[d] = ctr[d]
                    /\ job'[t].pc = "p_inspect" /\ job'[t].cid = c
<1>1. srv' = srv /\ job \in [Tasks -> JobStates] /\ ctr \in [Containers -> ContainerRows]
  BY DEF CreateReplies, IndInv, TypeOK
<1>2. CASE Goto(t, "p_fail") /\ ctr' = ctr
  BY <1>1, <1>2, GotoIs
<1>3. CASE \E c \in Free(ctr) :
             /\ ctr' = AfterCreate(ctr, c, job[t].srv, job[t].node, "running")
             /\ Becomes(t, [job[t] EXCEPT !.pc = "p_inspect", !.cid = c, !.att = 0])
  <2>1. PICK c \in Free(ctr) :
          /\ ctr' = AfterCreate(ctr, c, job[t].srv, job[t].node, "running")
          /\ job' = [job EXCEPT ![t] = [job[t] EXCEPT !.pc = "p_inspect", !.cid = c, !.att = 0]]
    BY <1>3 DEF Becomes
  <2>2. job'[t].pc = "p_inspect" /\ job'[t].cid = c /\ job'[t].srv = job[t].srv
    BY <1>1, <2>1 DEF JobStates
  <2>3. /\ c \in Containers /\ ctr[c].state = "free" /\ ctr'[c].state = "running"
        /\ ctr'[c].srv = job[t].srv
        /\ \A d \in Containers : d # c => ctr'[d] = ctr[d]
    BY <1>1, <2>1 DEF Free, AfterCreate
  <2> QED BY <1>1, <2>2, <2>3
<1> QED BY <1>2, <1>3 DEF CreateReplies

LEMMA SwitchIs ==
    ASSUME IndInv, NEW t \in Tasks, LifecycleReplies(t)
    PROVE  /\ srv' = srv /\ job'[t].srv = job[t].srv /\ job'[t].cid = job[t].cid
           /\ req[t].kind \in LifecycleKinds
           /\ job[t].cid \in Containers /\ ctr[job[t].cid].srv = job[t].srv
           /\ \A d \in Containers : d # job[t].cid => ctr'[d] = ctr[d]
           /\ \/ ctr' = ctr /\ job'[t].pc = "l_fail"
              \/ /\ ctr[job[t].cid].state \in LiveStates
                 /\ ctr'[job[t].cid].state = NewState(req[t].kind, ctr[job[t].cid].state)
                 /\ job'[t].pc = "l_find"
<1>1. /\ srv' = srv /\ ctr \in [Containers -> ContainerRows] /\ job[t].pc = "l_call"
      /\ ctr' = AfterOp(ctr, job[t].cid, req[t].kind)
      /\ Goto(t, IF Live(ctr, job[t].cid) THEN "l_find" ELSE "l_fail")
  BY DEF LifecycleReplies, IndInv, TypeOK, Op
<1>2. /\ req[t].kind \in LifecycleKinds
      /\ job[t].cid \in Containers /\ ctr[job[t].cid].srv = job[t].srv
  BY <1>1, JobFacts DEF JobFits, LifecyclePcs, ContainerPcs, Owns
<1>3. job'[t].srv = job[t].srv /\ job'[t].cid = job[t].cid
  BY <1>1, GotoIs
<1>4. CASE Live(ctr, job[t].cid)
  <2>1. job'[t].pc = "l_find" /\ ctr' = [ctr EXCEPT ![job[t].cid].state = NewState(req[t].kind, @)]
    BY <1>1, <1>4, GotoIs DEF AfterOp
  <2> QED BY <1>1, <1>2, <1>3, <1>4, <2>1 DEF Live, ContainerRows
<1>5. CASE ~Live(ctr, job[t].cid)
  <2>1. job'[t].pc = "l_fail" /\ ctr' = ctr
    BY <1>1, <1>5, GotoIs DEF AfterOp
  <2> QED BY <1>1, <1>2, <1>3, <2>1
<1> QED BY <1>4, <1>5
LEMMA RemovalIs ==
    ASSUME IndInv, NEW t \in Tasks, DeleteReplies(t)
    PROVE  /\ srv' = srv /\ job'[t].srv = job[t].srv /\ job'[t].pc = "d_row"
           /\ job[t].cid \in Containers /\ ctr[job[t].cid].srv = job[t].srv
           /\ ctr'[job[t].cid].state \in {ctr[job[t].cid].state, "removed"}
           /\ \A d \in Containers : d # job[t].cid => ctr'[d] = ctr[d]
<1>1. /\ srv' = srv /\ ctr \in [Containers -> ContainerRows] /\ job[t].pc = "d_call"
      /\ ctr' = AfterOp(ctr, job[t].cid, "delete") /\ Goto(t, "d_row")
  BY DEF DeleteReplies, IndInv, TypeOK
<1>2. job[t].cid \in Containers /\ ctr[job[t].cid].srv = job[t].srv
  BY <1>1, JobFacts DEF JobFits, ContainerPcs, Owns
<1>3. NewState("delete", ctr[job[t].cid].state) = "removed"
  BY DEF NewState
<1> QED BY <1>1, <1>2, <1>3, GotoIs DEF AfterOp, ContainerRows
LEMMA FindIs ==
    ASSUME IndInv, NEW t \in Tasks, LifecycleFind(t)
    PROVE  /\ srv' = srv /\ ctr' = ctr /\ job'[t].srv = job[t].srv /\ job'[t].cid = job[t].cid
           /\ job'[t].pc = "l_save" /\ job'[t].seen = srv[job[t].srv].status
<1>1. job' = [job EXCEPT ![t] = [job[t] EXCEPT !.pc = "l_save", !.seen = srv[job[t].srv].status]]
  BY DEF LifecycleFind, Becomes
<1>2. srv' = srv /\ ctr' = ctr /\ job \in [Tasks -> JobStates]
  BY DEF LifecycleFind, IndInv, TypeOK
<1> QED BY <1>1, <1>2 DEF JobStates
LEMMA InspectIs ==
    ASSUME IndInv, NEW t \in Tasks, InspectReplies(t)
    PROVE  /\ srv' = srv /\ ctr' = ctr /\ job'[t].srv = job[t].srv /\ job'[t].cid = job[t].cid
           /\ job'[t].pc = IF Live(ctr, job[t].cid) THEN "p_save" ELSE "p_fail"
  BY GotoIs DEF InspectReplies
-----------------------------------------------------------------------------
(* What happens to a server of whose jobs none overlap and all are heard *)

\* Its containers are changed by the calls of its own job.
LEMMA CtrOfCalm ==
    ASSUME IndInv, HistoryInv, MishapsKnown, [Next]_vars, Remembers,
           NEW c \in Containers, ctr'[c] # ctr[c],
           NEW s \in Servers, s = ctr'[c].srv, s \notin unheard'
    PROVE  \E t \in Tasks :
             job[t].srv = s /\ (CreateReplies(t) \/ LifecycleReplies(t) \/ DeleteReplies(t))
<1>1. ctr \in [Containers -> ContainerRows]
  BY DEF IndInv, TypeOK
<1>2. ASSUME NEW t \in Tasks, CreateReplies(t) PROVE job[t].srv = s
  BY <1>2, CreateIs
<1>3. ASSUME NEW t \in Tasks, LifecycleReplies(t) \/ DeleteReplies(t) PROVE job[t].srv = s
  <2>1. job[t].cid = c /\ ctr[c].srv = job[t].srv /\ ctr[c].state # "free"
    <3>1. job[t].pc \in ContainerPcs
      BY <1>3 DEF LifecycleReplies, DeleteReplies, ContainerPcs
    <3>2. Owns(job[t].cid, job[t].srv, job[t].node)
      BY <3>1, JobFacts DEF JobFits
    <3>3. \A d \in Containers : d # job[t].cid => ctr'[d] = ctr[d]
      BY <1>3, SwitchIs, RemovalIs
    <3> QED BY <3>2, <3>3 DEF Owns
  <2> QED BY <2>1, OwnersNeverChange DEF OwnersKept, HistoryInv
<1>4. ASSUME NEW t \in Tasks, DockerFails(t) PROVE FALSE
  <2>1. job[t].pc \in CallPcs \ {"p_inspect"} /\ Executed(Sent(t))
    BY <1>4 DEF DockerFails
  <2>2. PICK r \in AgentRequests : r = Sent(t)
    BY <2>1, SentIsOwned
  <2>3. r.op # "create" => Owns(r.cid, r.srv, r.node)
    BY <2>1, <2>2, SentIsOwned
  <2>4. s = r.srv
    BY <2>1, <2>2, <2>3, ExecutedOn
  <2>5. req[t].srv = s
    BY <2>1, <2>2, <2>4, SentWasAsked
  <2>6. HeardNoMore(s)
    BY <1>4, <2>5 DEF HeardNoMore
  <2> QED BY <2>6 DEF Remembers
<1>5. ASSUME NEW r \in late, LateExec(r) PROVE FALSE
  <2>1. r \in AgentRequests /\ (r.op # "create" => Owns(r.cid, r.srv, r.node))
    BY DEF IndInv, TypeOK, LateInv
  <2>2. Executed(r)
    BY <1>5 DEF LateExec
  <2>3. s = r.srv
    BY <2>1, <2>2, ExecutedOn
  <2> QED BY <2>3 DEF MishapsKnown, Remembers
<1> QED BY <1>2, <1>3, <1>4, <1>5, CtrWriters

\* While no job writes its row, the row keeps its container, and the status
\* changes to one that no container has.
LEMMA QuietRow ==
    ASSUME IndInv, [Next]_vars, NEW s \in Servers,
           \A u \in Tasks : job[u].srv = s =>
             ~DeleteRow(u) /\ ~ProvisionSave(u) /\ ~ProvisionFailSave(u) /\ ~LifecycleSave(u)
    PROVE  /\ srv'[s].cid = srv[s].cid
           /\ \/ srv'[s].status = srv[s].status
              \/ srv'[s].status \in {"absent", "pending", "provisioning", "deleting"}
           /\ srv[s].status # "absent" => srv'[s].status # "absent"
<1>1. srv[s].status # "absent" => srv'[s].status # "absent"
  BY RowStep
<1>2. srv'[s].cid = srv[s].cid
  BY RowStep, PlaceStep
<1>3. srv'[s].status = srv[s].status
      \/ srv'[s].status \in {"absent", "pending", "provisioning", "deleting"}
  BY StatusStep
<1> QED BY <1>1, <1>2, <1>3

\* As long as its job does not move, nobody touches what the job relies on.
LEMMA Undisturbed ==
    ASSUME IndInv, HistoryInv, MishapsKnown, [Next]_vars, Remembers,
           NEW s \in Servers, s \notin crowded', s \notin unheard',
           NEW t \in Tasks, job[t].pc \in ActivePcs, job[t].srv = s, ~JobStep(t)
    PROVE  /\ job'[t] = job[t]
           /\ srv'[s].cid = srv[s].cid
           /\ \/ srv'[s].status = srv[s].status
              \/ srv'[s].status \in {"absent", "pending", "provisioning", "deleting"}
           /\ srv[s].status # "absent" => srv'[s].status # "absent"
           /\ \A c \in Containers :
                ctr[c].state # "free" /\ ctr[c].srv = s => ctr'[c] = ctr[c]
<1>1. s \notin crowded /\ s \notin unheard
  BY DEF Remembers
<1>2. req[t].srv = s
  BY JobFacts, NoneAssumption DEF JobFits
<1>3. job'[t] = job[t]
  <2>1. ~Crash(t)
    BY <1>2 DEF Remembers, HeardNoMore
  <2> QED BY <2>1, JobChange DEF ActivePcs, CallPcs
<1>4. ASSUME NEW u \in Tasks, job[u].srv = s, job[u].pc \in ActivePcs PROVE ~JobStep(u)
  BY <1>1, <1>4, NobodyElse
<1>5. ASSUME NEW u \in Tasks, job[u].srv = s
      PROVE  ~DeleteRow(u) /\ ~ProvisionSave(u) /\ ~ProvisionFailSave(u) /\ ~LifecycleSave(u)
  <2>1. DeleteRow(u) \/ ProvisionSave(u) \/ ProvisionFailSave(u) \/ LifecycleSave(u) =>
          job[u].pc \in ActivePcs /\ JobStep(u)
    BY DEF DeleteRow, ProvisionSave, ProvisionFailSave, LifecycleSave, ActivePcs,
           JobStep, ProvisionStep, LifecycleStep, DeleteStep
  <2> QED BY <1>4, <1>5, <2>1
<1>6. ASSUME NEW c \in Containers, ctr[c].state # "free", ctr[c].srv = s, ctr'[c] # ctr[c]
      PROVE  FALSE
  <2>1. ctr'[c].srv = s
    BY <1>6, OwnersNeverChange DEF OwnersKept, HistoryInv
  <2>2. PICK u \in Tasks : /\ job[u].srv = s
                           /\ CreateReplies(u) \/ LifecycleReplies(u) \/ DeleteReplies(u)
    BY <1>6, <2>1, CtrOfCalm
  <2>3. job[u].pc \in ActivePcs /\ JobStep(u)
    BY <2>2 DEF CreateReplies, LifecycleReplies, DeleteReplies, ActivePcs, CallPcs,
                JobStep, ProvisionStep, LifecycleStep, DeleteStep
  <2> QED BY <1>4, <2>2, <2>3
<1> QED BY <1>3, <1>5, <1>6, QuietRow


-----------------------------------------------------------------------------
(* MishapInv *)

LEMMA MishapsKnownStep ==
    ASSUME IndInv, HistoryInv, MishapsKnown, [Next]_vars, Remembers PROVE MishapsKnown'
<1>1. IndInv' /\ HistoryInv'
  BY NextIndInv, NextHistoryInv
<1>2. ASSUME NEW t \in Tasks, job'[t].pc \in ActivePcs PROVE req'[t].srv \in Servers
  <2>1. job'[t].pc # "none"
    BY <1>2 DEF ActivePcs, CallPcs
  <2> QED BY <1>1, <2>1 DEF IndInv, RequestInv
<1>3. ASSUME NEW r \in late' PROVE r.srv \in unheard'
  <2>1. PICK s \in Servers : s = r.srv
    BY <1>1 DEF IndInv, TypeOK, AgentRequests
  <2>2. CASE r \in late
    BY <2>2 DEF MishapsKnown, Remembers
  <2>3. CASE r \notin late
    BY <2>1, <2>3 DEF HeardNoMore, Remembers
  <2> QED BY <2>2, <2>3
<1>4. ASSUME NEW c \in Containers, ctr'[c].state = "created" PROVE ctr'[c].srv \in unheard'
  <2>1. PICK s \in Servers : s = ctr'[c].srv
    BY <1>1, <1>4 DEF HistoryInv, OnePerHost, IndInv, TypeOK, ContainerRows
  <2>2. CASE ctr[c].state = "created"
    <3>1. ctr'[c].srv = ctr[c].srv
      BY <2>2, OwnersNeverChange DEF OwnersKept, HistoryInv
    <3> QED BY <2>2, <3>1 DEF MishapsKnown, Remembers
  <2>3. CASE ctr[c].state # "created"
    <3>1. SUFFICES ASSUME s \notin unheard' PROVE FALSE
      BY <2>1
    <3>2. PICK t \in Tasks : CreateReplies(t) \/ LifecycleReplies(t) \/ DeleteReplies(t)
      BY <1>4, <2>1, <2>3, <3>1, CtrOfCalm
    <3>3. ~CreateReplies(t)
      BY <1>4, <2>3, CreateIs
    <3>4. ~LifecycleReplies(t)
      BY <1>4, <2>3, SwitchIs DEF NewState, LifecycleKinds
    <3>5. ~DeleteReplies(t)
      BY <1>4, <2>3, RemovalIs
    <3> QED BY <3>2, <3>3, <3>4, <3>5
  <2> QED BY <2>2, <2>3
<1> QED BY <1>2, <1>3, <1>4 DEF MishapsKnown, Remembers

LEMMA RunsOnceStep ==
    ASSUME IndInv, HistoryInv, RunsOnce, [Next]_vars, Remembers PROVE RunsOnce'
<1> SUFFICES ASSUME NEW t \in Tasks, req'[t].srv \notin unheard', req'[t].kind = "provision",
                    job'[t].pc \in FirstPcs
             PROVE  srv'[req'[t].srv].cid = None
  BY DEF RunsOnce
<1>1. /\ srv \in [Servers -> ServerRows] /\ req \in [Tasks -> RequestStates]
      /\ job \in [Tasks -> JobStates]
  BY DEF IndInv, TypeOK
<1>2. CASE req[t].pc = "idle"
  <2>1. req' # req /\ job[t].pc = "none" /\ req[t].kind = "none"
    BY <1>2 DEF IndInv, RequestInv
  <2>2. ~JobStep(t) /\ ~Crash(t)
    BY <2>1, JobStepMoves, Crashed DEF JobMoves, MovesPc, Busy, ActivePcs, CallPcs
  <2>3. job'[t] # job[t]
    BY <2>1 DEF FirstPcs
  <2>4. PICK s \in Servers, size \in Sizes : Create(t, s, size)
    <3>1. ~DeleteFlush(t)
      BY <1>2 DEF DeleteFlush
    <3>2. ASSUME NEW s \in Servers, NEW kind \in LifecycleKinds, RequestAction(t, s, kind)
          PROVE  FALSE
      BY <1>1, <3>2 DEF RequestAction, FlushAndEnqueue, LifecycleKinds
    <3> QED BY <2>2, <2>3, <3>1, <3>2, JobWriters
  <2>5. /\ req' = [req EXCEPT ![t] = [pc |-> "flushed", kind |-> "provision", srv |-> s]]
        /\ srv' = [srv EXCEPT ![s].res = size]
        /\ \A u \in Tasks : req[u].srv # s
    BY <2>4 DEF Create, FlushAndEnqueue
  <2>6. req'[t].srv = s
    BY <1>1, <2>5
  <2>7. srv[s].cid = None
    BY <2>5 DEF IndInv, RowInv, Provisioned
  <2> QED BY <1>1, <2>5, <2>6, <2>7 DEF ServerRows
<1>3. CASE req[t].pc # "idle"
  <2>1. PICK s \in Servers : s = req[t].srv
    BY <1>3 DEF IndInv, RequestInv
  <2>2. req[t].kind = "provision" /\ req'[t].srv = s
    BY <1>3, <2>1, RequestsKept
  <2>3. job'[t] = job[t] \/ (JobStep(t) /\ JobMoves(job[t], job'[t]))
    <3>1. ASSUME job'[t] # job[t] PROVE JobStep(t)
      <4>1. ~DeleteFlush(t)
        BY <2>2 DEF DeleteFlush, IndInv, RequestInv
      <4>2. ~Crash(t)
        BY <2>1, <2>2 DEF Remembers, HeardNoMore
      <4>3. \A x, size : ~Create(t, x, size)
        BY <1>3 DEF Create
      <4>4. \A x, kind : ~RequestAction(t, x, kind)
        BY <1>3 DEF RequestAction
      <4> QED BY <3>1, <4>1, <4>2, <4>3, <4>4, JobWriters
    <3> QED BY <3>1, JobStepMoves
  <2>4. job[t].pc \in FirstPcs
    BY <2>3 DEF JobMoves, MovesPc, FirstPcs
  <2>5. srv[s].cid = None
    BY <2>1, <2>2, <2>4 DEF RunsOnce, Remembers
  <2>6. ASSUME NEW u \in Tasks, ProvisionSave(u), job[u].srv = s PROVE srv' = srv
    <3>1. req[u].kind = "provision" /\ req[u].srv = s
      BY <2>1, <2>6, JobFacts, NoneAssumption DEF ProvisionSave, JobFits, ProvisionPcs
    <3>2. u = t
      BY <2>1, <2>2, <3>1 DEF IndInv, RequestInv
    <3>3. ~Goto(t, "p_done")
      BY GotoIs DEF FirstPcs
    <3> QED BY <2>6, <3>2, <3>3 DEF ProvisionSave
  <2> QED BY <2>2, <2>5, <2>6, PlaceStep
<1> QED BY <1>2, <1>3

\* A job that waits keeps what it has in its hands ...
LEMMA HandsWait ==
    ASSUME IndInv, HistoryInv, MishapsKnown, HandsInv, [Next]_vars, Remembers,
           NEW t \in Tasks, Calm(job[t].srv)', ~JobStep(t),
           job'[t] = job[t], job[t].pc \in ServerPcs
    PROVE  Hands(t)'
<1> DEFINE s == job[t].srv
           c == job[t].cid
<1>1. /\ s \in Servers /\ s \notin crowded' /\ s \notin unheard' /\ Calm(s)
      /\ job[t].pc \in ActivePcs
  BY JobFacts DEF JobFits, Calm, Remembers, ServerPcs, ActivePcs, CallPcs
<1>2. req'[t].kind = req[t].kind
  BY JobHasRequest, RequestsKept DEF ServerPcs
<1>3. Hands(t)
  BY <1>1 DEF HandsInv
<1>4. /\ srv'[s].cid = srv[s].cid
      /\ \/ srv'[s].status = srv[s].status
         \/ srv'[s].status \in {"absent", "pending", "provisioning", "deleting"}
      /\ srv[s].status # "absent" => srv'[s].status # "absent"
      /\ \A d \in Containers : ctr[d].state # "free" /\ ctr[d].srv = s => ctr'[d] = ctr[d]
  BY <1>1, Undisturbed
<1>5. CASE job[t].pc \in {"p_inspect", "p_save", "l_find", "l_save"}
  <2>1. c \in Containers /\ ctr[c].state # "free" /\ ctr[c].srv = s
    BY <1>3, <1>5, JobFacts DEF Hands, TargetStatus, JobFits, ContainerPcs, Owns
  <2>2. ctr'[c] = ctr[c]
    BY <1>4, <2>1
  <2> HIDE DEF s, c
  <2>3. job'[t].srv = s /\ job'[t].cid = c
    BY DEF s, c
  <2> QED BY <1>2, <1>3, <1>4, <1>5, <2>1, <2>2, <2>3 DEF Hands, TargetStatus, ChosenPcs, s, c
<1>6. CASE job[t].pc \notin {"p_inspect", "p_save", "l_find", "l_save"}
  BY <1>3, <1>4, <1>6 DEF Hands, ChosenPcs
<1> QED BY <1>5, <1>6

\* ... and one that moves takes into its hands what it will rely on.
LEMMA HandsMove ==
    ASSUME IndInv, HistoryInv, MishapsKnown, HandsInv, [Next]_vars, Remembers,
           NEW t \in Tasks, Calm(job[t].srv)', JobStep(t)
    PROVE  Hands(t)'
<1>1. JobMoves(job[t], job'[t]) /\ srv \in [Servers -> ServerRows]
  BY JobStepMoves DEF IndInv, TypeOK
<1>2. job[t].pc # "none" /\ req'[t].kind = req[t].kind
  <2>1. job[t].pc # "none"
    BY <1>1 DEF JobMoves, MovesPc
  <2> QED BY <2>1, JobHasRequest, RequestsKept
<1>3. ASSUME job[t].pc \in {"p_create", "p_inspect", "l_call", "l_find"}
      PROVE  /\ job'[t].srv = job[t].srv /\ Hands(t)
             /\ job[t].srv \notin unheard /\ job[t].srv \notin unheard'
  <2>1. job'[t].srv = job[t].srv
    BY <1>1, <1>3 DEF JobMoves
  <2> QED BY <2>1 DEF HandsInv, Calm, Remembers
<1>4. CASE job[t].pc = "p_load"
  <2>1. job'[t].pc = "p_create" => ProvisionPlace(t)
    BY <1>4, LoadsFirst
  <2>2. ASSUME ProvisionPlace(t) PROVE srv'[job'[t].srv].status # "absent"
    <3>1. job'[t].srv = task[t].srv
      BY <2>2, LoadIs
    <3>2. task[t].srv \in Servers /\ srv' = [srv EXCEPT ![task[t].srv].status = "provisioning"]
      BY <2>2, JobFacts DEF ProvisionPlace
    <3> QED BY <1>1, <3>1, <3>2 DEF ServerRows
  <2>3. job'[t].pc \in {"p_create", "p_fail"}
    BY <1>1, <1>4 DEF JobMoves, MovesPc
  <2> QED BY <2>1, <2>2, <2>3 DEF Hands, ChosenPcs
<1>5. CASE job[t].pc = "p_create"
  <2>1. srv[job[t].srv].status # "absent"
    BY <1>3, <1>5 DEF Hands, ChosenPcs
  <2>2. CASE CreateReplies(t)
    <3>1. job'[t].pc = "p_inspect" => ctr'[job'[t].cid].state = "running"
      BY <2>2, CreateIs
    <3>2. job'[t].pc \in {"p_inspect", "p_fail"} /\ srv' = srv
      BY <2>2, CreateIs
    <3> QED BY <1>3, <1>5, <2>1, <3>1, <3>2 DEF Hands
  <2>3. CASE FaultStep(t)
    BY <1>5, <2>1, <2>3, FailsInPlace DEF Hands
  <2> QED BY <1>5, <2>2, <2>3, NextOfJob
<1>6. CASE job[t].pc = "p_inspect"
  <2>1. srv[job[t].srv].status # "absent" /\ ctr[job[t].cid].state = "running"
    BY <1>3, <1>6 DEF Hands, ChosenPcs
  <2>2. CASE InspectReplies(t)
    BY <2>1, <2>2, InspectIs DEF Hands
  <2>3. CASE FaultStep(t)
    BY <1>3, <1>6, <2>1, <2>3, FailsInPlace DEF Hands
  <2> QED BY <1>6, <2>2, <2>3, NextOfJob
<1>7. CASE job[t].pc = "p_fail"
  <2>1. ProvisionFailFind(t)
    BY <1>7, NextOfJob
  <2>2. CASE srv[job[t].srv].status # "absent"
    <3>1. job'[t].srv = job[t].srv /\ srv' = srv /\ job'[t].pc \in {"p_failsave", "ended"}
      BY <1>1, <1>7, <2>1 DEF JobMoves, MovesPc, ProvisionFailFind
    <3> QED BY <2>2, <3>1 DEF Hands, ChosenPcs
  <2>3. CASE srv[job[t].srv].status = "absent"
    <3>1. job'[t].pc = "ended"
      BY <2>1, <2>3, GotoIs DEF ProvisionFailFind
    <3> QED BY <3>1 DEF Hands, ChosenPcs
  <2> QED BY <2>2, <2>3
<1>8. CASE job[t].pc = "l_load"
  <2>1. job'[t].pc \in {"l_call", "ended"}
    BY <1>1, <1>8 DEF JobMoves, MovesPc
  <2>2. job'[t].pc = "l_call" => srv' = srv /\ job'[t].cid = srv[job'[t].srv].cid
    BY <1>8, LoadsFirst, LoadIs
  <2> QED BY <2>1, <2>2 DEF Hands, ChosenPcs
<1>9. CASE job[t].pc = "l_call"
  <2>1. srv[job[t].srv].cid \in {None, job[t].cid}
    BY <1>3, <1>9 DEF Hands
  <2>2. CASE FaultStep(t)
    BY <1>9, <2>1, <2>2, FailsInPlace DEF Hands, ChosenPcs
  <2>3. CASE LifecycleReplies(t)
    <3>1. job'[t].pc = "l_find" =>
            /\ ctr[job[t].cid].state \in LiveStates
            /\ ctr'[job[t].cid].state = NewState(req[t].kind, ctr[job[t].cid].state)
      BY <2>3, SwitchIs
    <3>2. /\ ctr[job[t].cid].state # "created" /\ req[t].kind \in LifecycleKinds
          /\ job[t].cid \in Containers
      BY <1>3, <1>9, <2>3, SwitchIs DEF MishapsKnown
    <3>3. ctr[job[t].cid].state \in LiveStates =>
            NewState(req[t].kind, ctr[job[t].cid].state) = TargetStatus(req[t].kind)
      BY <3>2 DEF LiveStates, NewState, TargetStatus, LifecycleKinds
    <3>4. /\ job'[t].pc \in {"l_fail", "l_find"} /\ srv' = srv
          /\ job'[t].srv = job[t].srv /\ job'[t].cid = job[t].cid
      BY <2>3, SwitchIs
    <3>5. job'[t].pc = "l_find" =>
            ctr'[job[t].cid].srv = job[t].srv /\ ctr'[job[t].cid].state = TargetStatus(req[t].kind)
      <4>1. ctr[job[t].cid].srv = job[t].srv
        BY <2>3, SwitchIs
      <4>2. job'[t].pc = "l_find" => ctr'[job[t].cid].srv = ctr[job[t].cid].srv
        BY <3>1, <3>2, OwnersNeverChange DEF OwnersKept, HistoryInv, LiveStates
      <4> QED BY <3>1, <3>3, <4>1, <4>2
    <3> QED BY <1>2, <2>1, <3>2, <3>4, <3>5 DEF Hands, ChosenPcs, TargetStatus
  <2> QED BY <1>9, <2>2, <2>3, NextOfJob
<1>10. CASE job[t].pc = "l_find"
  <2>1. LifecycleFind(t)
    BY <1>10, NextOfJob
  <2>2. /\ srv[job[t].srv].cid \in {None, job[t].cid}
        /\ job[t].cid \in Containers /\ ctr[job[t].cid].srv = job[t].srv
        /\ ctr[job[t].cid].state = TargetStatus(req[t].kind)
    BY <1>3, <1>10 DEF Hands
  <2> QED BY <1>2, <2>1, <2>2, FindIs DEF Hands, ChosenPcs, TargetStatus
<1>11. CASE job[t].pc \notin {"p_load", "p_create", "p_inspect", "p_fail",
                              "l_load", "l_call", "l_find"}
  <2>1. job'[t].pc \notin ChosenPcs \cup {"p_failsave", "l_call", "l_find", "l_save"}
    BY <1>1, <1>11 DEF JobMoves, MovesPc, ChosenPcs
  <2> QED BY <2>1 DEF Hands, ChosenPcs
<1> QED BY <1>4, <1>5, <1>6, <1>7, <1>8, <1>9, <1>10, <1>11

LEMMA HandsInvStep ==
    ASSUME IndInv, HistoryInv, MishapsKnown, HandsInv, [Next]_vars, Remembers PROVE HandsInv'
<1> SUFFICES ASSUME NEW t \in Tasks, Calm(job[t].srv)' PROVE Hands(t)'
  BY DEF HandsInv
<1>1. CASE job'[t].pc \notin ChosenPcs \cup {"p_failsave", "l_call", "l_find", "l_save"}
  BY <1>1 DEF Hands, ChosenPcs
<1>2. CASE job'[t].pc \in ChosenPcs \cup {"p_failsave", "l_call", "l_find", "l_save"} /\ ~JobStep(t)
  <2>1. job'[t] = job[t] /\ job[t].pc \in ServerPcs
    BY <1>2, JobChange DEF ChosenPcs, ServerPcs
  <2> QED BY <1>2, <2>1, HandsWait
<1> QED BY <1>1, <1>2, HandsMove

\* What set_provisioned and set_status write down is what the agent did.
LEMMA SaveShows ==
    ASSUME IndInv, NEW t \in Tasks, Hands(t), NEW s \in Servers, job[t].srv = s,
           ProvisionSave(t) \/ LifecycleSave(t), srv'[s].status \in {"running", "stopped"}
    PROVE  ctr'[srv'[s].cid].state = srv'[s].status \/ (srv' = srv /\ job[t].pc = "p_save")
<1>1. srv \in [Servers -> ServerRows] /\ job[t].pc \in {"p_save", "l_save"} /\ ctr' = ctr
  BY DEF IndInv, TypeOK, ProvisionSave, LifecycleSave
<1>2. CASE ProvisionSave(t)
  <2>1. \/ srv' = srv
        \/ srv' = [srv EXCEPT ![s] = [@ EXCEPT !.status = "running",
                                        !.node = job[t].node, !.cid = job[t].cid]]
    BY <1>2 DEF ProvisionSave
  <2>2. ctr[job[t].cid].state = "running" /\ job[t].pc = "p_save"
    BY <1>2 DEF ProvisionSave, Hands
  <2> QED BY <1>1, <2>1, <2>2 DEF ServerRows
<1>3. CASE LifecycleSave(t)
  <2>1. job[t].pc = "l_save"
    BY <1>3 DEF LifecycleSave
  <2>2. /\ srv[s].cid \in {None, job[t].cid}
        /\ ctr[job[t].cid].state = TargetStatus(req[t].kind)
        /\ srv[s].status \in {"running", "stopped"} => srv[s].status = job[t].seen
    BY <2>1 DEF Hands
  <2>3. srv[s].status = "absent" \/ srv[s].cid # None
    BY <2>1, JobFacts DEF JobFits
  <2>4. \/ srv' = srv /\ (job[t].seen = "absent" \/ srv[s].status = "absent")
        \/ /\ srv[s].status # "absent"
           /\ srv' = StatusWritten(s, job[t].seen, TargetStatus(req[t].kind))
    BY <1>3 DEF LifecycleSave
  <2>5. CASE srv' = srv /\ (job[t].seen = "absent" \/ srv[s].status = "absent")
    BY <2>2, <2>5
  <2>6. CASE srv[s].status # "absent" /\ srv' = srv /\ job[t].seen = TargetStatus(req[t].kind)
    BY <1>1, <2>2, <2>3, <2>6
  <2>7. CASE srv[s].status # "absent" /\ srv' = [srv EXCEPT ![s].status = TargetStatus(req[t].kind)]
    <3>1. srv'[s].status = TargetStatus(req[t].kind) /\ srv'[s].cid = srv[s].cid
      BY <1>1, <2>7 DEF ServerRows
    <3> QED BY <1>1, <2>2, <2>3, <2>7, <3>1
  <2> QED BY <2>4, <2>5, <2>6, <2>7 DEF StatusWritten
<1> QED BY <1>2, <1>3

LEMMA StatusShownStep ==
    ASSUME IndInv, HistoryInv, MishapsKnown, HandsInv, StatusShown, [Next]_vars, Remembers
    PROVE  StatusShown'
<1> SUFFICES ASSUME NEW s \in Servers, Calm(s)', srv'[s].status \in {"running", "stopped"}
             PROVE  \/ ctr'[srv'[s].cid].state = srv'[s].status
                    \/ \E t \in Tasks : job'[t].srv = s /\ job'[t].pc \in {"l_find", "l_save", "d_row"}
  BY DEF StatusShown
<1>1. /\ srv \in [Servers -> ServerRows] /\ srv' \in [Servers -> ServerRows]
      /\ s \notin crowded' /\ s \notin unheard' /\ Calm(s)
  BY NextIndInv DEF IndInv, TypeOK, Calm, Remembers
<1>2. CASE \E t \in Tasks : job[t].srv = s /\ (LifecycleSave(t) \/ (ProvisionSave(t) /\ srv' # srv))
  <2>1. PICK t \in Tasks : /\ job[t].srv = s
                           /\ LifecycleSave(t) \/ (ProvisionSave(t) /\ srv' # srv)
    BY <1>2
  <2>2. Hands(t)
    BY <1>1, <2>1 DEF HandsInv
  <2> QED BY <2>1, <2>2, SaveShows DEF LifecycleSave
<1>3. CASE \A t \in Tasks : job[t].srv = s => ~LifecycleSave(t) /\ (ProvisionSave(t) => srv' = srv)
  <2>1. \A t \in Tasks : job[t].srv = s => ~DeleteRow(t)
    BY <1>1 DEF DeleteRow, NoServer, IndInv, TypeOK
  <2>2. srv'[s].status = srv[s].status
    <3>1. SUFFICES ASSUME srv'[s].status # srv[s].status PROVE FALSE
      OBVIOUS
    <3>2. \A t \in Tasks : job[t].srv = s => ~ProvisionSave(t) /\ ~LifecycleSave(t)
      BY <1>3, <3>1
    <3>3. PICK t \in Tasks : ProvisionFailSave(t) /\ job[t].srv = s
      BY <3>1, <3>2, StatusStep
    <3>4. srv' = srv \/ srv' = [srv EXCEPT ![s].status = "failed"]
      BY <3>3 DEF ProvisionFailSave, StatusWritten
    <3> QED BY <1>1, <3>1, <3>4 DEF ServerRows
  <2>3. srv'[s].cid = srv[s].cid
    BY <1>3, <2>1, <2>2, RowStep, PlaceStep
  <2>4. srv[s].cid # None
    BY <2>2 DEF IndInv, ActiveHasContainer
  <2>5. PICK c \in Containers : c = srv[s].cid /\ ctr[c].state # "free" /\ ctr[c].srv = s
    BY <1>1, <2>4 DEF ServerRows, IndInv, RecordedContainerIsOwn
  <2>6. CASE ctr[c].state = srv[s].status
    <3>1. CASE ctr'[c] = ctr[c]
      BY <2>2, <2>3, <2>5, <2>6, <3>1
    <3>2. CASE ctr'[c] # ctr[c]
      <4>1. ctr'[c].srv = s
        BY <2>5, OwnersNeverChange DEF OwnersKept, HistoryInv
      <4>2. PICK t \in Tasks : /\ job[t].srv = s
                               /\ CreateReplies(t) \/ LifecycleReplies(t) \/ DeleteReplies(t)
        BY <1>1, <3>2, <4>1, CtrOfCalm
      <4>3. ~CreateReplies(t)
        BY <2>5, <3>2, CreateIs
      <4>4. LifecycleReplies(t) => job'[t].srv = s /\ job'[t].pc = "l_find"
        BY <2>5, <3>2, <4>2, SwitchIs
      <4>5. DeleteReplies(t) => job'[t].srv = s /\ job'[t].pc = "d_row"
        BY <4>2, RemovalIs
      <4> QED BY <4>2, <4>3, <4>4, <4>5
    <3> QED BY <3>1, <3>2
  <2>7. CASE ctr[c].state # srv[s].status
    <3>1. PICK t \in Tasks : job[t].srv = s /\ job[t].pc \in {"l_find", "l_save", "d_row"}
      BY <1>1, <2>2, <2>5, <2>7 DEF StatusShown
    <3>2. CASE ~JobStep(t)
      <4>1. job[t].pc \in ActivePcs
        BY <3>1 DEF ActivePcs
      <4>2. job'[t] = job[t]
        BY <1>1, <3>1, <3>2, <4>1, Undisturbed
      <4> QED BY <3>1, <4>2
    <3>3. CASE JobStep(t)
      <4>1. job[t].pc = "l_find" /\ LifecycleFind(t)
        BY <1>3, <2>1, <3>1, <3>3, NextOfJob
      <4> QED BY <3>1, <4>1, FindIs
    <3> QED BY <3>2, <3>3
  <2> QED BY <2>6, <2>7
<1> QED BY <1>2, <1>3


\* While a delete job is at work nobody else records a container of its server.
LEMMA NobodyPlaces ==
    ASSUME IndInv, MishapsKnown, [Next]_vars,
           NEW t \in Tasks, job[t].pc \in {"d_node", "d_call", "d_row"},
           job[t].srv \in Servers, job[t].srv \notin crowded
    PROVE  /\ srv'[job[t].srv].node \in {srv[job[t].srv].node, None}
           /\ srv'[job[t].srv].cid \in {srv[job[t].srv].cid, None}
<1>1. ASSUME NEW u \in Tasks, ProvisionSave(u), job[u].srv = job[t].srv PROVE FALSE
  <2>1. job[u].pc = "p_save" /\ job[u].pc \in ActivePcs /\ job[t].pc \in ActivePcs
    BY <1>1 DEF ProvisionSave, ActivePcs, CallPcs
  <2>2. u = t
    BY <1>1, <2>1, NobodyElse
  <2> QED BY <2>1, <2>2
<1> QED BY <1>1, PlaceStep

LEMMA DeleteKnowsStep ==
    ASSUME IndInv, HistoryInv, MishapsKnown, DeleteKnows, [Next]_vars, Remembers
    PROVE  DeleteKnows'
<1> SUFFICES ASSUME NEW t \in Tasks, job'[t].srv \notin crowded'
             PROVE  LET s == job'[t].srv IN
                    /\ job'[t].pc \in {"d_node", "d_call"} =>
                         /\ srv'[s].cid \in {None, job'[t].cid}
                         /\ srv'[s].node \in {None, job'[t].node}
                    /\ job'[t].pc = "d_row" =>
                         \/ srv'[s].cid = None \/ srv'[s].node = None
                         \/ ~Live(ctr', srv'[s].cid)
  BY DEF DeleteKnows
<1>1. ASSUME job[t].pc \in {"d_node", "d_call", "d_row"}, job'[t].srv = job[t].srv
      PROVE  /\ job[t].srv \in Servers
             /\ srv'[job[t].srv].node \in {srv[job[t].srv].node, None}
             /\ srv'[job[t].srv].cid \in {srv[job[t].srv].cid, None}
             /\ job[t].pc \in {"d_node", "d_call"} =>
                  /\ srv[job[t].srv].cid \in {None, job[t].cid}
                  /\ srv[job[t].srv].node \in {None, job[t].node}
             /\ job[t].pc = "d_row" =>
                  \/ srv[job[t].srv].cid = None \/ srv[job[t].srv].node = None
                  \/ ~Live(ctr, srv[job[t].srv].cid)
  <2>1. job[t].srv \in Servers /\ job[t].srv \notin crowded
    BY <1>1, JobFacts DEF JobFits, ServerPcs, Remembers
  <2> QED BY <1>1, <2>1, NobodyPlaces DEF DeleteKnows
<1>2. ASSUME job'[t].pc \in {"d_node", "d_call"}
      PROVE  /\ srv'[job'[t].srv].cid \in {None, job'[t].cid}
             /\ srv'[job'[t].srv].node \in {None, job'[t].node}
  <2>1. job'[t] = job[t] \/ (JobStep(t) /\ JobMoves(job[t], job'[t]))
    BY <1>2, JobChange
  <2>2. CASE job'[t] = job[t]
    BY <1>1, <1>2, <2>2
  <2>3. CASE JobStep(t) /\ JobMoves(job[t], job'[t])
    <3>1. job[t].pc \in {"d_load", "d_node", "d_call"}
      BY <1>2, <2>3 DEF JobMoves, MovesPc
    <3>2. CASE job[t].pc = "d_load"
      <4>1. DeleteLoad(t) /\ job'[t].pc = "d_node"
        BY <1>2, <2>3, <3>2, LoadsFirst DEF JobMoves, MovesPc
      <4> QED BY <4>1, LoadIs
    <3>3. CASE job[t].pc = "d_node"
      <4>1. DeleteFindNode(t) /\ job'[t].pc = "d_call"
        BY <1>2, <2>3, <3>3, LoadsFirst DEF JobMoves, MovesPc
      <4>2. PICK r : /\ Becomes(t, r)
                     /\ \/ r = [job[t] EXCEPT !.pc = "d_row", !.cid = None]
                        \/ r = [job[t] EXCEPT !.pc = "d_call", !.att = 0]
        BY <4>1 DEF DeleteFindNode
      <4>3. job'[t] = r /\ job[t] \in JobStates
        BY <4>2, BecomesIs, JobFacts
      <4>4. job'[t].srv = job[t].srv /\ job'[t].cid = job[t].cid /\ job'[t].node = job[t].node
        BY <4>1, <4>2, <4>3 DEF JobStates
      <4> QED BY <1>1, <3>3, <4>4
    <3>4. CASE job[t].pc = "d_call"
      <4>1. job'[t].srv = job[t].srv /\ job'[t].cid = job[t].cid /\ job'[t].node = job[t].node
        BY <2>3, <3>4 DEF JobMoves
      <4> QED BY <1>1, <3>4, <4>1
    <3> QED BY <3>1, <3>2, <3>3, <3>4
  <2> QED BY <2>1, <2>2, <2>3
<1>3. ASSUME job'[t].pc = "d_row"
      PROVE  \/ srv'[job'[t].srv].cid = None \/ srv'[job'[t].srv].node = None
             \/ ~Live(ctr', srv'[job'[t].srv].cid)
  <2>1. job'[t] = job[t] \/ (JobStep(t) /\ JobMoves(job[t], job'[t]))
    BY <1>3, JobChange
  <2>2. CASE job'[t] = job[t]
    <3> DEFINE s == job[t].srv
    <3>1. job[t].pc = "d_row" /\ job'[t].srv = s /\ s \in Servers
      BY <1>3, <2>2, JobFacts DEF JobFits, ServerPcs
    <3>2. /\ srv'[s].node \in {srv[s].node, None} /\ srv'[s].cid \in {srv[s].cid, None}
          /\ srv[s].cid = None \/ srv[s].node = None \/ ~Live(ctr, srv[s].cid)
      BY <1>1, <3>1
    <3> HIDE DEF s
    <3>3. SUFFICES ASSUME srv'[s].cid # None, srv'[s].node # None
                   PROVE  ~Live(ctr', srv'[s].cid)
      BY <3>1
    <3>4. srv'[s].cid = srv[s].cid /\ ~Live(ctr, srv[s].cid)
      BY <3>2, <3>3
    <3>5. srv[s].cid \in Containers /\ ctr[srv[s].cid].state # "free"
      BY <3>1, <3>3, <3>4 DEF IndInv, TypeOK, ServerRows, RecordedContainerIsOwn
    <3>6. ctr[srv[s].cid].state = "removed"
      BY <3>4, <3>5 DEF Live, LiveStates, IndInv, TypeOK, ContainerRows, ContainerStates
    <3>7. ctr'[srv[s].cid].state = "removed"
      BY <3>5, <3>6, GoneStays DEF HistoryInv
    <3> QED BY <3>4, <3>7 DEF Live, LiveStates
  <2>3. CASE JobStep(t) /\ JobMoves(job[t], job'[t])
    <3>1. job[t].pc \in {"d_load", "d_node", "d_call"}
      BY <1>3, <2>3 DEF JobMoves, MovesPc
    <3>2. CASE job[t].pc = "d_load"
      <4>1. DeleteLoad(t)
        BY <1>3, <2>3, <3>2, LoadsFirst
      <4> QED BY <1>3, <4>1, LoadIs
    <3>3. CASE job[t].pc = "d_node"
      <4>1. DeleteFindNode(t) /\ job'[t].srv = job[t].srv
        BY <2>3, <3>3, LoadsFirst DEF JobMoves
      <4>2. node[job[t].node].status = "deleted"
        <5>1. SUFFICES ASSUME node[job[t].node].status # "deleted" PROVE FALSE
          OBVIOUS
        <5>2. PICK r : Becomes(t, r) /\ r = [job[t] EXCEPT !.pc = "d_call", !.att = 0]
          BY <4>1, <5>1 DEF DeleteFindNode
        <5>3. job'[t] = r /\ job[t] \in JobStates
          BY <5>2, BecomesIs, JobFacts
        <5> QED BY <1>3, <5>2, <5>3 DEF JobStates
      <4>3. job[t].srv \in Servers
        BY <3>3, JobFacts DEF JobFits, ServerPcs
      <4>4. srv[job[t].srv].node = None
        BY <1>1, <3>3, <4>1, <4>2, <4>3 DEF HistoryInv, NodesKnown, PlacedOnKnownNode
      <4> QED BY <4>1, <4>4 DEF DeleteFindNode
    <3>4. CASE job[t].pc = "d_call"
      <4>1. DeleteReplies(t) /\ job'[t].srv = job[t].srv
        BY <1>3, <2>3, <3>4, LoadsFirst DEF JobMoves
      <4>2. job[t].cid \in Containers
        BY <3>4, JobFacts DEF JobFits, ContainerPcs, Owns
      <4>3. ~Live(ctr', job[t].cid)
        <5>1. ctr \in [Containers -> ContainerRows] /\ NewState("delete", ctr[job[t].cid].state) = "removed"
          BY DEF IndInv, TypeOK, NewState
        <5>2. ctr' = AfterOp(ctr, job[t].cid, "delete")
          BY <4>1 DEF DeleteReplies
        <5> QED BY <4>2, <5>1, <5>2 DEF AfterOp, Live, LiveStates, ContainerRows
      <4>4. srv' = srv /\ srv[job[t].srv].cid \in {None, job[t].cid}
        BY <1>1, <3>4, <4>1 DEF DeleteReplies
      <4> QED BY <4>1, <4>3, <4>4
    <3> QED BY <3>1, <3>2, <3>3, <3>4
  <2> QED BY <2>1, <2>2, <2>3
<1> QED BY <1>2, <1>3

\* A row loses its node when the node is deleted, or the row is.
LEMMA NodeLost ==
    ASSUME IndInv, [Next]_vars, NEW s \in Servers, srv[s].node # None, srv'[s].node = None,
           srv'[s].cid # None
    PROVE  node'[srv[s].node].status = "deleted"
<1>1. srv \in [Servers -> ServerRows] /\ node \in [Nodes -> NodeRows]
  BY DEF IndInv, TypeOK
<1>2. ASSUME NEW n \in Nodes, NodeDelete(n) PROVE node'[srv[s].node].status = "deleted"
  <2>1. srv[s].node = n
    BY <1>1, <1>2 DEF NodeDelete
  <2> QED BY <1>1, <1>2, <2>1 DEF NodeDelete, NodeRows
<1>3. ASSUME NEW t \in Tasks, NEW x \in Servers, NEW size \in Sizes, Create(t, x, size)
      PROVE  FALSE
  BY <1>1, <1>3 DEF Create, ServerRows
<1>4. ASSUME NEW x \in Servers, PatchCheck(x) \/ \E size \in Sizes : Patch(x, size) PROVE FALSE
  BY <1>1, <1>4 DEF PatchCheck, Patch, ServerRows
<1>5. ASSUME NEW t \in Tasks, Commit(t) \/ ProvisionPlace(t) PROVE FALSE
  <2>1. ASSUME NEW x, NEW st, srv' = [srv EXCEPT ![x].status = st] PROVE FALSE
    BY <1>1, <2>1 DEF ServerRows
  <2> QED BY <1>5, <2>1 DEF Commit, ProvisionPlace
<1>6. ASSUME NEW t \in Tasks, Rollback(t) \/ DeleteRow(t) PROVE FALSE
  BY <1>1, <1>6 DEF Rollback, DeleteRow, NoServer, ServerRows
<1>7. ASSUME NEW t \in Tasks, ProvisionSave(t) PROVE FALSE
  <2>1. job[t].node # None
    BY <1>7, JobFacts DEF ProvisionSave, JobFits, NodePcs
  <2> QED BY <1>1, <1>7, <2>1 DEF ProvisionSave, ServerRows
<1>8. ASSUME NEW t \in Tasks, ProvisionFailSave(t) \/ LifecycleSave(t) PROVE FALSE
  BY <1>1, <1>8 DEF ProvisionFailSave, LifecycleSave, StatusWritten, ServerRows
<1>9. srv' # srv
  OBVIOUS
<1> QED BY <1>2, <1>3, <1>4, <1>5, <1>6, <1>7, <1>8, <1>9, SrvWriters

LEMMA NodeGoneStep ==
    ASSUME IndInv, HistoryInv, NodeGone, [Next]_vars PROVE NodeGone'
<1> SUFFICES ASSUME NEW s \in Servers, srv'[s].cid # None, srv'[s].node = None
             PROVE  /\ ctr'[srv'[s].cid].node \in Nodes
                    /\ node'[ctr'[srv'[s].cid].node].status = "deleted"
  BY DEF NodeGone, HostGone
<1>1. srv'[s].cid = srv[s].cid
  <2>1. ASSUME NEW t \in Tasks, ProvisionSave(t), srv'[s].node = job[t].node PROVE FALSE
    BY <2>1, JobFacts DEF ProvisionSave, JobFits, NodePcs
  <2> QED BY <2>1, PlaceStep
<1>2. PICK c \in Containers : /\ c = srv[s].cid /\ ctr[c].state # "free" /\ ctr[c].srv = s
                              /\ srv[s].node \in {None, ctr[c].node}
  BY <1>1 DEF IndInv, TypeOK, ServerRows, RecordedContainerIsOwn
<1>3. ctr'[c].node = ctr[c].node
  BY <1>2, OwnersNeverChange DEF OwnersKept, HistoryInv
<1>4. CASE srv[s].node # None
  BY <1>1, <1>2, <1>3, <1>4, NodeLost DEF IndInv, TypeOK, ServerRows
<1>5. CASE srv[s].node = None
  <2>1. ctr[c].node \in Nodes /\ node[ctr[c].node].status = "deleted"
    BY <1>1, <1>2, <1>5 DEF NodeGone, HostGone
  <2> QED BY <1>1, <1>2, <1>3, <2>1, NodeStep
<1> QED BY <1>4, <1>5

\* A provision job that fails says so in its task, and its task keeps it.
LEMMA FailsOn ==
    ASSUME IndInv, HistoryInv, MishapsKnown, HandsInv, [Next]_vars, Remembers,
           NEW s \in Servers, s \notin crowded', s \notin unheard', NEW t \in Tasks, Fails(t, s)
    PROVE  Fails(t, s)'
<1>1. CASE job[t].srv = s /\ job[t].pc \in {"p_fail", "p_failsave"}
  <2>1. /\ req[t].kind = "provision" /\ req[t].srv = s /\ Visible(t)
        /\ job[t].pc \in ActivePcs
    BY <1>1, JobFacts, NoneAssumption
    DEF JobFits, ProvisionPcs, Visible, IndInv, TaskInv, ActivePcs
  <2>2. req'[t].kind = "provision" /\ req'[t].srv = s
    <3>1. job[t].pc # "none"
      BY <1>1
    <3> QED BY <2>1, <3>1, JobHasRequest, RequestsKept
  <2>3. Marked(t, "failed")[t].status = "failed"
    BY <2>1 DEF Marked, IndInv, TypeOK, TaskRows
  <2>4. CASE ~JobStep(t)
    <3>1. job'[t] = job[t]
      BY <1>1, <2>1, <2>4, Undisturbed
    <3> QED BY <1>1, <3>1 DEF Fails
  <2>5. CASE JobStep(t) /\ job[t].pc = "p_fail"
    <3>1. ProvisionFailFind(t) /\ JobMoves(job[t], job'[t])
      BY <2>5, NextOfJob, JobStepMoves
    <3>2. job'[t].srv = s /\ job'[t].pc \in {"p_failsave", "ended"}
      BY <1>1, <2>5, <3>1 DEF JobMoves, MovesPc
    <3>3. CASE srv[s].status = "absent"
      <4>1. task' = Marked(t, "failed")
        BY <1>1, <3>1, <3>3 DEF ProvisionFailFind
      <4> QED BY <2>2, <2>3, <3>2, <4>1 DEF Fails
    <3>4. CASE srv[s].status # "absent"
      <4>1. job' = [job EXCEPT ![t] = [job[t] EXCEPT !.pc = "p_failsave", !.seen = srv[s].status]]
        BY <1>1, <3>1, <3>4, NoneAssumption DEF ProvisionFailFind, Becomes
      <4>2. job'[t].pc = "p_failsave"
        BY <4>1 DEF IndInv, TypeOK, JobStates
      <4> QED BY <3>2, <4>2 DEF Fails
    <3> QED BY <3>3, <3>4
  <2>6. CASE JobStep(t) /\ job[t].pc = "p_failsave"
    <3>1. ProvisionFailSave(t)
      BY <2>6, NextOfJob
    <3>2. srv[s].status # "absent"
      BY <1>1, <2>6 DEF HandsInv, Hands, Calm, Remembers
    <3>3. task' = Marked(t, "failed") /\ job'[t].pc = "ended"
      BY <1>1, <3>1, <3>2, GotoIs DEF ProvisionFailSave
    <3> QED BY <2>2, <2>3, <3>3 DEF Fails
  <2> QED BY <1>1, <2>4, <2>5, <2>6
<1>2. CASE /\ req[t].kind = "provision" /\ req[t].srv = s
           /\ job[t].pc \in {"ended", "done"} /\ task[t].status = "failed"
  <2>1. req'[t].kind = "provision" /\ req'[t].srv = s
    BY <1>2, JobHasRequest, RequestsKept
  <2>2. job'[t].pc \in {"ended", "done"}
    <3>1. ~Crash(t)
      BY <1>2 DEF Remembers, HeardNoMore
    <3> QED BY <1>2, <3>1, JobChange DEF JobMoves, MovesPc
  <2>3. task'[t].status = "failed"
    <3>1. SUFFICES ASSUME task'[t].status # task[t].status PROVE FALSE
      BY <1>2
    <3>2. JobStep(t) /\ job'[t].pc = "ended"
      BY <1>2, <3>1, TaskStep
    <3> QED BY <1>2, <3>2, JobStepMoves DEF JobMoves, MovesPc
  <2> QED BY <2>1, <2>2, <2>3 DEF Fails
<1> QED BY <1>1, <1>2 DEF Fails

LEMMA ContainerHeldStep ==
    ASSUME IndInv, HistoryInv, MishapsKnown, RunsOnce, HandsInv, DeleteKnows, NodeGone,
           ContainerHeld, [Next]_vars, Remembers
    PROVE  ContainerHeld'
<1> SUFFICES ASSUME NEW c \in Containers, ctr'[c].state \in LiveStates, Calm(ctr[c].srv)'
             PROVE  \/ srv'[ctr'[c].srv].cid = c
                    \/ ctr'[c].node \in Nodes /\ node'[ctr'[c].node].status = "deleted"
                    \/ \E t \in Tasks :
                          \/ job'[t].cid = c /\ job'[t].pc \in {"p_inspect", "p_save"}
                          \/ Fails(t, ctr[c].srv)'
  BY DEF ContainerHeld, HostGone, Live
<1>1. PICK s \in Servers : s = ctr'[c].srv
  BY NextIndInv, NextHistoryInv
  DEF HistoryInv, OnePerHost, IndInv, TypeOK, ContainerRows, LiveStates
<1>2. /\ s \notin crowded' /\ s \notin unheard' /\ s \notin unheard /\ Calm(s)
      /\ s \notin crowded
  BY <1>1 DEF Calm, Remembers
<1>3. CASE ctr[c].state \notin LiveStates
  <2>1. PICK t \in Tasks : CreateReplies(t) \/ LifecycleReplies(t) \/ DeleteReplies(t)
    BY <1>1, <1>2, <1>3, CtrOfCalm
  <2>2. CreateReplies(t) => job'[t].cid = c /\ job'[t].pc = "p_inspect"
    BY <1>3, CreateIs
  <2>3. ~LifecycleReplies(t)
    BY <1>3, SwitchIs
  <2>4. ~DeleteReplies(t)
    BY <1>3, RemovalIs DEF LiveStates
  <2> QED BY <2>1, <2>2, <2>3, <2>4
<1>4. CASE ctr[c].state \in LiveStates
  <2>1. ctr[c].state # "free" /\ ctr[c].srv = s /\ ctr'[c].node = ctr[c].node
    BY <1>1, <1>4, OwnersNeverChange DEF OwnersKept, HistoryInv, LiveStates
  <2>2. ASSUME HostGone(c)
        PROVE  ctr'[c].node \in Nodes /\ node'[ctr'[c].node].status = "deleted"
    BY <2>1, <2>2, NodeStep DEF HostGone
  <2>3. CASE srv[s].cid = c
    <3>1. ASSUME NEW t \in Tasks, ProvisionSave(t), job[t].srv = s PROVE FALSE
      <4>1. req[t].kind = "provision" /\ req[t].srv = s /\ job[t].pc = "p_save"
        BY <3>1, JobFacts DEF ProvisionSave, JobFits, ProvisionPcs, ServerPcs
      <4>2. srv[s].cid = None
        BY <1>2, <4>1 DEF RunsOnce, FirstPcs
      <4> QED BY <2>3, <4>2, LifecycleAssumption
    <3>2. ASSUME NEW t \in Tasks, DeleteRow(t), job[t].srv = s PROVE HostGone(c)
      <4>1. srv[s].node = None
        BY <1>2, <1>4, <2>3, <3>2, LifecycleAssumption DEF DeleteRow, DeleteKnows, Live
      <4> QED BY <2>3, <4>1, LifecycleAssumption DEF NodeGone
    <3>3. srv'[s].cid = c \/ HostGone(c)
      BY <2>3, <3>1, <3>2, PlaceStep, RowStep, LifecycleAssumption
    <3> QED BY <1>1, <2>2, <3>3
  <2>4. ASSUME NEW t \in Tasks, job[t].cid = c, job[t].pc \in {"p_inspect", "p_save"}
        PROVE  \/ srv'[s].cid = c
               \/ HostGone(c)
               \/ job'[t].cid = c /\ job'[t].pc \in {"p_inspect", "p_save"}
               \/ Fails(t, s)'
    <3>1. job[t].srv = s /\ job[t].node = ctr[c].node /\ job[t].node \in Nodes
      BY <2>1, <2>4, JobFacts DEF JobFits, ContainerPcs, NodePcs, Owns, JobStates
    <3>2. CASE ~JobStep(t)
      <4>1. job[t].pc \in ActivePcs
        BY <2>4 DEF ActivePcs, CallPcs
      <4>2. job'[t] = job[t]
        BY <1>2, <3>1, <3>2, <4>1, Undisturbed
      <4> QED BY <2>4, <4>2
    <3>3. CASE JobStep(t) /\ job[t].pc = "p_inspect"
      <4>1. CASE InspectReplies(t)
        BY <1>4, <2>4, <4>1, InspectIs DEF Live
      <4>2. CASE FaultStep(t)
        <5>1. JobMoves(job[t], job'[t])
          BY <3>3, JobStepMoves
        <5>2. job'[t].pc \in {"p_inspect", "p_fail"}
          BY <3>3, <4>2, <5>1, FailsInPlace DEF JobMoves, MovesPc
        <5> QED BY <2>4, <3>1, <4>2, <5>2, FailsInPlace DEF Fails
      <4> QED BY <3>3, <4>1, <4>2, NextOfJob
    <3>4. CASE JobStep(t) /\ job[t].pc = "p_save"
      <4>1. ProvisionSave(t) /\ srv[job[t].srv].status # "absent"
        BY <1>2, <3>1, <3>4, LoadsFirst DEF HandsInv, Hands, ChosenPcs
      <4>2. CASE node[job[t].node].status = "deleted"
        BY <3>1, <4>2 DEF HostGone
      <4>3. CASE node[job[t].node].status # "deleted"
        <5>1. srv' = [srv EXCEPT ![s] = [@ EXCEPT !.status = "running",
                                           !.node = job[t].node, !.cid = job[t].cid]]
          BY <3>1, <4>1, <4>3 DEF ProvisionSave
        <5> QED BY <2>4, <5>1 DEF IndInv, TypeOK, ServerRows
      <4> QED BY <4>2, <4>3
    <3> QED BY <2>4, <3>2, <3>3, <3>4
  <2>5. ASSUME NEW t \in Tasks, Fails(t, s) PROVE Fails(t, s)'
    BY <1>2, <2>5, FailsOn
  <2>6. \A t \in Tasks : Fails(t, s)' => Fails(t, ctr[c].srv)'
    BY <1>1 DEF Fails
  <2>7. \/ srv[s].cid = c
        \/ HostGone(c)
        \/ \E t \in Tasks : \/ job[t].cid = c /\ job[t].pc \in {"p_inspect", "p_save"}
                            \/ Fails(t, s)
    BY <1>2, <1>4, <2>1 DEF ContainerHeld, Live
  <2> QED BY <1>1, <2>2, <2>3, <2>4, <2>5, <2>6, <2>7
<1> QED BY <1>3, <1>4

\* A server that is there, or about to be, was so before, or is created now.
LEMMA ThereBefore ==
    ASSUME IndInv, [Next]_vars, NEW s \in Servers,
           srv'[s].status # "absent" \/ \E t \in Tasks : req'[t].pc = "flushed" /\ req'[t].srv = s
    PROVE  \/ srv[s].status # "absent" \/ \E t \in Tasks : Flushed(t, s)
           \/ \E t \in Tasks, size \in Sizes : Create(t, s, size)
<1>1. srv \in [Servers -> ServerRows] /\ req \in [Tasks -> RequestStates]
  BY DEF IndInv, TypeOK
<1>2. CASE srv[s].status = "absent" /\ srv'[s].status # "absent"
  <2>1. ASSUME NEW t \in Tasks, Commit(t) PROVE Flushed(t, s)
    BY <1>1, <1>2, <2>1 DEF Commit, Flushed, ServerRows
  <2>2. ASSUME NEW t \in Tasks, ProvisionPlace(t) PROVE FALSE
    BY <1>1, <1>2, <2>2, JobFacts DEF ProvisionPlace, ServerRows
  <2>3. ASSUME NEW t \in Tasks, ProvisionSave(t) \/ ProvisionFailSave(t) \/ LifecycleSave(t)
        PROVE  FALSE
    BY <1>1, <1>2, <2>3
    DEF ProvisionSave, ProvisionFailSave, LifecycleSave, StatusWritten, ServerRows
  <2>4. ASSUME NEW t \in Tasks, Rollback(t) \/ DeleteRow(t) PROVE FALSE
    BY <1>1, <1>2, <2>4 DEF Rollback, DeleteRow, NoServer, ServerRows
  <2>5. ASSUME NEW n \in Nodes, NodeDelete(n) PROVE FALSE
    BY <1>1, <1>2, <2>5 DEF NodeDelete, ServerRows
  <2>6. ASSUME NEW x \in Servers, PatchCheck(x) \/ \E size \in Sizes : Patch(x, size)
        PROVE  FALSE
    BY <1>1, <1>2, <2>6 DEF PatchCheck, Patch, ServerRows
  <2>7. ASSUME NEW t \in Tasks, NEW x \in Servers, NEW size \in Sizes, Create(t, x, size)
        PROVE  FALSE
    BY <1>1, <1>2, <2>7 DEF Create, ServerRows
  <2> QED BY <1>2, <2>1, <2>2, <2>3, <2>4, <2>5, <2>6, <2>7, SrvWriters
<1>3. ASSUME NEW t \in Tasks, req'[t].pc = "flushed", req'[t].srv = s, ~Flushed(t, s)
      PROVE  \/ srv[s].status # "absent"
             \/ \E size \in Sizes : Create(t, s, size)
  <2>1. req' # req
    BY <1>3 DEF Flushed
  <2>2. ASSUME NEW u \in Tasks, NEW x \in Servers, NEW size \in Sizes, Create(u, x, size)
        PROVE  u = t /\ x = s
    BY <1>1, <1>3, <2>2 DEF Create, FlushAndEnqueue, Flushed, RequestStates
  <2>3. ASSUME NEW u \in Tasks, NEW x \in Servers, NEW kind \in LifecycleKinds,
               RequestAction(u, x, kind)
        PROVE  srv[s].status # "absent"
    <3>1. u = t /\ x = s
      BY <1>1, <1>3, <2>3 DEF RequestAction, FlushAndEnqueue, Flushed, RequestStates
    <3>2. "absent" \notin LifecycleAllowed(kind)
      BY DEF LifecycleAllowed, LifecycleKinds
    <3> QED BY <2>3, <3>1, <3>2 DEF RequestAction
  <2>4. ASSUME NEW u \in Tasks, NEW x \in Servers, DeleteCheck(u, x) PROVE FALSE
    BY <1>1, <1>3, <2>4 DEF DeleteCheck, Flushed, RequestStates
  <2>5. ASSUME NEW u \in Tasks, DeleteFlush(u) PROVE srv[s].status # "absent"
    BY <1>1, <1>3, <2>5 DEF DeleteFlush, FlushAndEnqueue, Flushed, RequestStates
  <2>6. ASSUME NEW u \in Tasks, Commit(u) \/ Rollback(u) PROVE FALSE
    BY <1>1, <1>3, <2>6 DEF Commit, Rollback, Flushed, RequestStates
  <2> QED BY <2>1, <2>2, <2>3, <2>4, <2>5, <2>6, ReqWriters DEF RequestStep
<1> QED BY <1>2, <1>3

\* What a server asks for changes with a request, or goes away with its row.
LEMMA SizeStep ==
    ASSUME IndInv, [Next]_vars, NEW s \in Servers, srv'[s].res # srv[s].res
    PROVE  \/ \E t \in Tasks, size \in Sizes : Create(t, s, size) /\ srv'[s].res = size
           \/ \E size \in Sizes : Patch(s, size) /\ srv'[s].res = size
           \/ \E t \in Tasks : Rollback(t) /\ req[t].srv = s /\ req[t].kind = "provision"
                               /\ srv'[s].status = "absent"
           \/ \E t \in Tasks : DeleteRow(t) /\ job[t].srv = s /\ srv'[s].status = "absent"
<1>1. srv \in [Servers -> ServerRows] /\ req \in [Tasks -> RequestStates]
  BY DEF IndInv, TypeOK
<1>2. ASSUME NEW t \in Tasks, NEW x \in Servers, NEW size \in Sizes, Create(t, x, size)
      PROVE  x = s /\ srv'[s].res = size
  BY <1>1, <1>2 DEF Create, ServerRows
<1>3. ASSUME NEW x \in Servers, NEW size \in Sizes, Patch(x, size)
      PROVE  x = s /\ srv'[s].res = size
  BY <1>1, <1>3 DEF Patch, ServerRows
<1>4. ASSUME NEW n \in Nodes, NodeDelete(n) PROVE FALSE
  BY <1>1, <1>4 DEF NodeDelete, ServerRows
<1>9. ASSUME NEW x \in Servers, PatchCheck(x) PROVE FALSE
  BY <1>1, <1>9 DEF PatchCheck, ServerRows
<1>5. ASSUME NEW t \in Tasks, Commit(t) \/ ProvisionPlace(t) \/ ProvisionSave(t) PROVE FALSE
  <2>1. CASE Commit(t)
    BY <1>1, <1>5, <2>1 DEF Commit, ServerRows
  <2>2. CASE ProvisionPlace(t)
    BY <1>1, <1>5, <2>2 DEF ProvisionPlace, ServerRows
  <2>3. CASE ProvisionSave(t)
    <3>1. srv'[s] \in {srv[s], [srv[s] EXCEPT !.status = "running", !.node = job[t].node,
                                             !.cid = job[t].cid]}
      BY <1>1, <2>3 DEF ProvisionSave
    <3>2. srv[s] \in ServerRows
      BY <1>1
    <3> QED BY <3>1, <3>2 DEF ServerRows
  <2> QED BY <1>5, <2>1, <2>2, <2>3
<1>6. ASSUME NEW t \in Tasks, ProvisionFailSave(t) \/ LifecycleSave(t) PROVE FALSE
  BY <1>1, <1>6 DEF ProvisionFailSave, LifecycleSave, StatusWritten, ServerRows
<1>7. ASSUME NEW t \in Tasks, Rollback(t)
      PROVE  req[t].srv = s /\ req[t].kind = "provision" /\ srv'[s].status = "absent"
  BY <1>1, <1>7 DEF Rollback, NoServer, ServerRows
<1>8. ASSUME NEW t \in Tasks, DeleteRow(t)
      PROVE  job[t].srv = s /\ srv'[s].status = "absent"
  BY <1>1, <1>8 DEF DeleteRow, NoServer, ServerRows
<1> QED BY <1>2, <1>3, <1>4, <1>5, <1>6, <1>7, <1>8, <1>9, SrvWriters

LEMMA SizesAskedStep ==
    ASSUME IndInv, SizesAsked, [Next]_vars PROVE SizesAsked'
<1> SUFFICES ASSUME NEW s \in Servers,
                    \/ srv'[s].status # "absent"
                    \/ \E t \in Tasks : req'[t].pc = "flushed" /\ req'[t].srv = s
             PROVE  srv'[s].res \in Sizes
  BY DEF SizesAsked, Flushed
<1>1. srv \in [Servers -> ServerRows] /\ req \in [Tasks -> RequestStates]
  BY DEF IndInv, TypeOK
<1>2. CASE srv'[s].res = srv[s].res
  <2>1. ASSUME NEW t \in Tasks, NEW size \in Sizes, Create(t, s, size)
        PROVE  srv'[s].res = size
    BY <1>1, <2>1 DEF Create, ServerRows
  <2> QED BY <1>2, <2>1, ThereBefore DEF SizesAsked
<1>3. ASSUME NEW t \in Tasks, DeleteRow(t), job[t].srv = s, srv'[s].status = "absent"
      PROVE  FALSE
  BY <1>3 DEF DeleteRow, KeyLocked, Flushed
<1>4. ASSUME NEW t \in Tasks, Rollback(t), req[t].srv = s, req[t].kind = "provision",
             srv'[s].status = "absent"
      PROVE  FALSE
  <2>1. PICK u \in Tasks : req'[u].pc = "flushed" /\ req'[u].srv = s
    BY <1>4
  <2>2. u # t /\ req[u].pc = "flushed" /\ req[u].srv = s /\ req[t].pc = "flushed"
    BY <1>1, <1>4, <2>1 DEF Rollback, RequestStates
  <2>3. req[u].kind = "provision" \/ Provisioned(s)
    BY <2>2 DEF IndInv, RequestInv
  <2>4. \A v \in Tasks : req[v].kind = "provision" /\ req[v].srv = s => v = t
    BY <1>4 DEF IndInv, RequestInv
  <2> QED BY <2>2, <2>3, <2>4 DEF Provisioned
<1> QED BY <1>2, <1>3, <1>4, SizeStep

-----------------------------------------------------------------------------
(* RoomHeld *)

\* What the query adds up is not more for fewer servers.
LEMMA SummedSmaller ==
    ASSUME NEW T, IsFiniteSet(T), NEW R \in SUBSET T, NEW old, NEW new,
           \A x \in T : old[x].res \in Sizes,
           \A x \in R : new[x].res = old[x].res
    PROVE  /\ SummedCpu(R, new) <= SummedCpu(T, old)
           /\ SummedCpu(R, new) \in Nat /\ SummedCpu(T, old) \in Nat
           /\ SummedMem(R, new) <= SummedMem(T, old)
           /\ SummedMem(R, new) \in Nat /\ SummedMem(T, old) \in Nat
<1>1. /\ SummedCpu(R, new) <= SummedCpu(T, old)
      /\ SummedCpu(R, new) \in Nat /\ SummedCpu(T, old) \in Nat
  <2> DEFINE U == {x \in T : old[x].res.cpuCores # None}
             Q == {x \in R : new[x].res.cpuCores # None}
             h == [x \in U |-> old[x].res.cpuCores]
             f == [x \in Q |-> new[x].res.cpuCores]
  <2>1. IsFiniteSet(U) /\ Q \in SUBSET U
    BY FS_Subset
  <2>2. \A x \in U : h[x] \in Nat
    BY LifecycleAssumption DEF Resources
  <2>3. \A x \in Q : f[x] \in Nat /\ f[x] <= h[x]
    BY LifecycleAssumption DEF Resources
  <2> HIDE DEF U, Q, h, f
  <2>4. Total(f, Q) <= Total(h, U) /\ Total(f, Q) \in Nat /\ Total(h, U) \in Nat
    BY <2>1, <2>2, <2>3, TotalSmaller
  <2> QED BY <2>4 DEF SummedCpu, U, Q, h, f
<1>2. /\ SummedMem(R, new) <= SummedMem(T, old)
      /\ SummedMem(R, new) \in Nat /\ SummedMem(T, old) \in Nat
  <2> DEFINE U == {x \in T : old[x].res.memMb # None}
             Q == {x \in R : new[x].res.memMb # None}
             h == [x \in U |-> old[x].res.memMb]
             f == [x \in Q |-> new[x].res.memMb]
  <2>1. IsFiniteSet(U) /\ Q \in SUBSET U
    BY FS_Subset
  <2>2. \A x \in U : h[x] \in Nat
    BY LifecycleAssumption DEF Resources
  <2>3. \A x \in Q : f[x] \in Nat /\ f[x] <= h[x]
    BY LifecycleAssumption DEF Resources
  <2> HIDE DEF U, Q, h, f
  <2>4. Total(f, Q) <= Total(h, U) /\ Total(f, Q) \in Nat /\ Total(h, U) \in Nat
    BY <2>1, <2>2, <2>3, TotalSmaller
  <2> QED BY <2>4 DEF SummedMem, U, Q, h, f
<1> QED BY <1>1, <1>2

\* Servers that are counted are there, and ask for something.
LEMMA CountedAsk ==
    ASSUME SizesAsked, NEW n PROVE \A x \in CountedOn(n, srv) : srv[x].res \in Sizes
  BY DEF CountedOn, CountedStatuses, SizesAsked

\* A server becomes one that is counted in these ways only.
LEMMA CountsAgain ==
    ASSUME IndInv, [Next]_vars, NEW x \in Servers, srv'[x].status # srv[x].status,
           srv'[x].status \in CountedStatuses
    PROVE  \/ \E u \in Tasks : ProvisionPlace(u) /\ task[u].srv = x
           \/ \E u \in Tasks : ProvisionSave(u) /\ srv'[x].node = job[u].node
           \/ \E u \in Tasks : LifecycleSave(u) /\ job[u].srv = x /\ req[u].kind # "stop"
<1>1. srv \in [Servers -> ServerRows] /\ srv' # srv
  BY DEF IndInv, TypeOK
<1>2. ASSUME NEW u \in Tasks, NEW y \in Servers, NEW size \in Sizes, Create(u, y, size)
      PROVE  FALSE
  BY <1>1, <1>2 DEF Create, ServerRows
<1>3. ASSUME NEW y \in Servers, PatchCheck(y) \/ \E size \in Sizes : Patch(y, size)
      PROVE  FALSE
  BY <1>1, <1>3 DEF PatchCheck, Patch, ServerRows
<1>4. ASSUME NEW m \in Nodes, NodeDelete(m) PROVE FALSE
  BY <1>1, <1>4 DEF NodeDelete, ServerRows
<1>5. ASSUME NEW u \in Tasks, Commit(u) PROVE FALSE
  BY <1>1, <1>5 DEF Commit, ServerRows, CountedStatuses
<1>6. ASSUME NEW u \in Tasks, Rollback(u) \/ DeleteRow(u) PROVE FALSE
  BY <1>1, <1>6 DEF Rollback, DeleteRow, ServerRows, NoServer, CountedStatuses
<1>7. ASSUME NEW u \in Tasks, ProvisionPlace(u) PROVE task[u].srv = x
  BY <1>1, <1>7 DEF ProvisionPlace, ServerRows
<1>8. ASSUME NEW u \in Tasks, ProvisionSave(u) PROVE srv'[x].node = job[u].node
  BY <1>1, <1>8 DEF ProvisionSave, ServerRows
<1>9. ASSUME NEW u \in Tasks, ProvisionFailSave(u) PROVE FALSE
  BY <1>1, <1>9 DEF ProvisionFailSave, StatusWritten, ServerRows, CountedStatuses
<1>10. ASSUME NEW u \in Tasks, LifecycleSave(u) PROVE job[u].srv = x /\ req[u].kind # "stop"
  <2>1. srv' = StatusWritten(job[u].srv, job[u].seen, TargetStatus(req[u].kind))
    BY <1>1, <1>10 DEF LifecycleSave
  <2>2. job[u].srv = x /\ srv'[x].status = TargetStatus(req[u].kind)
    BY <1>1, <2>1 DEF StatusWritten, ServerRows
  <2> QED BY <2>2 DEF TargetStatus, CountedStatuses
<1> QED
  BY <1>1, <1>2, <1>3, <1>4, <1>5, <1>6, <1>7, <1>8, <1>9, <1>10, SrvWriters

\* The server of a job that has chosen a node was there before, and asks for
\* what it asked for, unless a PATCH handler says otherwise.
LEMMA ChosenStays ==
    ASSUME IndInv, [Next]_vars, NEW t \in Tasks, job[t].pc \in ChosenPcs,
           srv'[job[t].srv].status # "absent"
    PROVE  /\ srv[job[t].srv].status # "absent"
           /\ \/ srv'[job[t].srv].res = srv[job[t].srv].res
              \/ \E size \in Sizes : Patch(job[t].srv, size) /\ size # srv[job[t].srv].res
<1>1. PICK s \in Servers : /\ s = job[t].srv /\ req[t].kind = "provision"
                           /\ req[t].srv = s /\ req[t].pc = "committed"
  BY JobFacts DEF JobFits, ServerPcs, ProvisionPcs, ChosenPcs
<1>2. ASSUME NEW u \in Tasks, req[u].kind = "provision", req[u].srv = s PROVE u = t
  BY <1>1, <1>2 DEF IndInv, RequestInv
<1>3. ASSUME NEW u \in Tasks, NEW size \in Sizes, Create(u, s, size) PROVE FALSE
  BY <1>1, <1>3 DEF Create
<1>4. srv[s].status # "absent"
  <2>1. ASSUME NEW u \in Tasks, Flushed(u, s) PROVE srv[s].status # "absent"
    BY <1>1, <1>2, <2>1 DEF Flushed, IndInv, RowInv
  <2> QED BY <1>1, <1>3, <2>1, ThereBefore
<1>5. ASSUME NEW u \in Tasks, Rollback(u), req[u].srv = s, req[u].kind = "provision"
      PROVE  FALSE
  BY <1>1, <1>2, <1>5 DEF Rollback
<1> QED BY <1>1, <1>3, <1>4, <1>5, SizeStep

\* No server joins those that are counted on the node of a job that is not
\* overtaken, and those that stay ask for what they asked for.
LEMMA NobodyJoins ==
    ASSUME IndInv, [Next]_vars, NEW s, NEW n \in Nodes, ~TakesRoom(s, n),
           NEW x \in CountedOn(n, srv')
    PROVE  x \in CountedOn(n, srv) /\ srv'[x].res = srv[x].res
<1>1. /\ x \in Servers /\ srv'[x].node = n /\ srv'[x].status \in CountedStatuses
      /\ n # None /\ srv'[x].status # "absent"
  BY NoneAssumption DEF CountedOn, CountedStatuses
<1>2. \A u \in Tasks : ProvisionSave(u) => job[u].node # n
  BY DEF TakesRoom
<1>3. srv[x].node = n
  BY <1>1, <1>2, PlaceStep
<1>4. srv[x].status \in CountedStatuses
  BY <1>1, <1>2, <1>3, CountsAgain DEF TakesRoom
<1>5. ASSUME NEW size \in Sizes, Patch(x, size), srv'[x].res = size
      PROVE  size = srv[x].res
  BY <1>1, <1>3, <1>5 DEF TakesRoom
<1>6. ASSUME NEW u \in Tasks, NEW size \in Sizes, Create(u, x, size) PROVE FALSE
  BY <1>1, <1>4, <1>6 DEF Create, IndInv, RowInv, Provisioned, CountedStatuses
<1> QED BY <1>1, <1>3, <1>4, <1>5, <1>6, SizeStep DEF CountedOn

\* Nor does the node become smaller.
LEMMA NodeAsLarge ==
    ASSUME IndInv, [Next]_vars, NEW s, NEW n \in Nodes, ~TakesRoom(s, n),
           node[n].status # "absent"
    PROVE  /\ node[n].cpu \in Nat /\ node[n].mem \in Nat
           /\ node'[n].cpu \in Nat /\ node'[n].mem \in Nat
           /\ node[n].cpu <= node'[n].cpu /\ node[n].mem <= node'[n].mem
<1>1. node \in [Nodes -> NodeRows]
  BY DEF IndInv, TypeOK
<1>2. CASE node'[n] = node[n]
  BY <1>1, <1>2 DEF NodeRows
<1>3. ASSUME NEW m \in Nodes, NEW cap \in Capacities, NodeCreate(m, cap)
      PROVE  node'[n] = node[n]
  BY <1>1, <1>3 DEF NodeCreate
<1>4. ASSUME NEW m \in Nodes, NodeDelete(m)
      PROVE  node'[n].cpu = node[n].cpu /\ node'[n].mem = node[n].mem
  BY <1>1, <1>4 DEF NodeDelete, NodeRows
<1>5. ASSUME NEW m \in Nodes, NEW status \in {"online", "drain"}, NEW cap \in Capacities,
             NodePatch(m, status, cap), node'[n] # node[n]
      PROVE  /\ node'[n].cpu \in Nat /\ node'[n].mem \in Nat
             /\ node[n].cpu <= node'[n].cpu /\ node[n].mem <= node'[n].mem
  <2>1. m = n
    BY <1>1, <1>5 DEF NodePatch
  <2>2. node'[n].cpu = cap.cpu /\ node'[n].mem = cap.mem
    BY <1>1, <1>5, <2>1 DEF NodePatch
  <2>3. ~(cap.cpu < node[n].cpu) /\ ~(cap.mem < node[n].mem)
    BY <1>5, <2>1 DEF TakesRoom
  <2>4. cap.cpu \in Nat /\ cap.mem \in Nat
    BY LifecycleAssumption
  <2>5. node[n].cpu \in Nat /\ node[n].mem \in Nat
    BY <1>1 DEF NodeRows
  <2> QED BY <2>2, <2>3, <2>4, <2>5
<1>6. node[n].cpu \in Nat /\ node[n].mem \in Nat
  BY <1>1 DEF NodeRows
<1> QED BY <1>2, <1>3, <1>4, <1>5, <1>6, NodeWriters DEF AdminStep

\* The job that places a server finds room for it.
LEMMA PlaceHasRoom ==
    ASSUME IndInv, SizesAsked, SizesAsked', IsFiniteSet(Servers), NEW t \in Tasks,
           ProvisionPlace(t), NEW s, NEW n, s = job'[t].srv, n = job'[t].node
    PROVE  RoomBeside(CountedOn(n, srv) \ {s}, s, n)'
<1>1. /\ s \in Servers /\ srv[s].status # "absent"
      /\ srv' = [srv EXCEPT ![s].status = "provisioning"]
      /\ n \in Candidates(s) /\ node' = node
  BY JobFacts, LoadIs DEF ProvisionPlace
<1>2. srv \in [Servers -> ServerRows] /\ node \in [Nodes -> NodeRows]
  BY DEF IndInv, TypeOK
<1>3. srv'[s].status = "provisioning" /\ srv'[s].res = srv[s].res /\ srv[s].res \in Sizes
  BY <1>1, <1>2 DEF ServerRows, SizesAsked
<1>4. n \in Nodes /\ Fits(n, node, srv', srv[s].res)
  BY <1>1 DEF Candidates, LeastLoaded
<1>5. \A x \in CountedOn(n, srv') : srv'[x].res \in Sizes
  BY DEF SizesAsked, CountedOn, CountedStatuses
<1> DEFINE T == CountedOn(n, srv')
<1>6. IsFiniteSet(T) /\ T \ {s} \in SUBSET T
  BY FS_Subset DEF CountedOn
<1>7. /\ node[n].cpu >= SummedCpu(T, srv') + ReqCpu(srv[s].res)
      /\ node[n].mem >= SummedMem(T, srv') + ReqMem(srv[s].res)
  BY <1>4 DEF Fits, UsedCpu, UsedMem
<1>8. /\ node[n].cpu \in Nat /\ node[n].mem \in Nat
      /\ ReqCpu(srv[s].res) \in Nat /\ ReqMem(srv[s].res) \in Nat
  BY <1>2, <1>3, <1>4, AsksNumbers DEF NodeRows
<1> HIDE DEF T
<1>9. /\ SummedCpu(T \ {s}, srv') <= SummedCpu(T, srv')
      /\ SummedCpu(T \ {s}, srv') \in Nat /\ SummedCpu(T, srv') \in Nat
      /\ SummedMem(T \ {s}, srv') <= SummedMem(T, srv')
      /\ SummedMem(T \ {s}, srv') \in Nat /\ SummedMem(T, srv') \in Nat
  BY <1>5, <1>6, SummedSmaller DEF T
<1>10. /\ SummedCpu(T \ {s}, srv') + ReqCpu(srv'[s].res) <= node'[n].cpu
       /\ SummedMem(T \ {s}, srv') + ReqMem(srv'[s].res) <= node'[n].mem
  BY <1>1, <1>3, <1>7, <1>8, <1>9
<1> QED BY <1>10 DEF RoomBeside, T

LEMMA RoomHeldStep ==
    ASSUME IndInv, HistoryInv, SizesAsked, SizesAsked', IsFiniteSet(Servers), RoomHeld,
           [Next]_vars, Remembers
    PROVE  RoomHeld'
<1> SUFFICES ASSUME NEW t \in Tasks, t \notin overtaken', job'[t].pc \in ChosenPcs,
                    NEW s, NEW n, s = job'[t].srv, n = job'[t].node,
                    srv'[s].status # "absent"
             PROVE  RoomBeside(CountedOn(n, srv) \ {s}, s, n)'
  BY DEF RoomHeld
<1>1. CASE job[t].pc \notin ChosenPcs
  <2>1. JobStep(t) /\ JobMoves(job[t], job'[t])
    BY <1>1, JobChange DEF ChosenPcs
  <2>2. ProvisionPlace(t)
    BY <1>1, <2>1, LoadsFirst DEF JobMoves, MovesPc, ChosenPcs
  <2> QED BY <2>2, PlaceHasRoom
<1>2. CASE job[t].pc \in ChosenPcs
  <2>1. job[t].srv = s /\ job[t].node = n
    BY <1>2, JobChange DEF ChosenPcs, JobMoves, MovesPc
  <2>2. t \notin overtaken /\ ~TakesRoom(s, n)
    BY <1>2, <2>1 DEF Remembers
  <2>3. s \in Servers /\ n \in Nodes /\ node[n].status # "absent"
    BY <1>2, <2>1, JobFacts
    DEF JobFits, JobStates, ServerPcs, NodePcs, ChosenPcs, HistoryInv, NodesKnown
  <2>4. srv[s].status # "absent" /\ srv'[s].res = srv[s].res
    BY <1>2, <2>1, <2>2, <2>3, ChosenStays DEF TakesRoom
  <2> DEFINE T == CountedOn(n, srv) \ {s}
             R == CountedOn(n, srv') \ {s}
  <2>5. IsFiniteSet(T) /\ R \in SUBSET T
    BY <2>2, <2>3, NobodyJoins, FS_Subset DEF CountedOn
  <2>6. /\ \A x \in T : srv[x].res \in Sizes
        /\ \A x \in R : srv'[x].res = srv[x].res
    BY <2>2, <2>3, CountedAsk, NobodyJoins
  <2>7. RoomBeside(T, s, n)
    BY <1>2, <2>1, <2>2, <2>4 DEF RoomHeld
  <2>8. ReqCpu(srv[s].res) \in Nat /\ ReqMem(srv[s].res) \in Nat
    BY <2>3, <2>4, AsksNumbers DEF SizesAsked
  <2>9. /\ node[n].cpu \in Nat /\ node[n].mem \in Nat
        /\ node'[n].cpu \in Nat /\ node'[n].mem \in Nat
        /\ node[n].cpu <= node'[n].cpu /\ node[n].mem <= node'[n].mem
    BY <2>2, <2>3, NodeAsLarge
  <2> HIDE DEF T, R
  <2>10. /\ SummedCpu(R, srv') <= SummedCpu(T, srv)
         /\ SummedCpu(R, srv') \in Nat /\ SummedCpu(T, srv) \in Nat
         /\ SummedMem(R, srv') <= SummedMem(T, srv)
         /\ SummedMem(R, srv') \in Nat /\ SummedMem(T, srv) \in Nat
    BY <2>5, <2>6, SummedSmaller
  <2>11. /\ SummedCpu(R, srv') + ReqCpu(srv'[s].res) <= node'[n].cpu
         /\ SummedMem(R, srv') + ReqMem(srv'[s].res) <= node'[n].mem
    BY <2>4, <2>7, <2>8, <2>9, <2>10 DEF RoomBeside
  <2> QED BY <2>11 DEF RoomBeside, R
<1> QED BY <1>1, <1>2

-----------------------------------------------------------------------------
(* The theorems *)

LEMMA InitMishapInv ==
    ASSUME Init PROVE MishapInv
<1>1. /\ \A s \in Servers : srv[s].status = "absent" /\ srv[s].cid = None
      /\ \A t \in Tasks : job[t].pc = "none" /\ req[t].pc = "idle" /\ req[t].kind = "none"
      /\ \A c \in Containers : ctr[c].state = "free"
      /\ late = {}
  BY DEF Init, NoServer, NoJob
<1>2. MishapsKnown /\ RunsOnce
  BY <1>1 DEF MishapsKnown, ActivePcs, CallPcs, RunsOnce
<1>3. HandsInv /\ StatusShown /\ DeleteKnows
  BY <1>1 DEF HandsInv, Hands, ChosenPcs, StatusShown, DeleteKnows
<1>4. NodeGone /\ ContainerHeld
  BY <1>1 DEF NodeGone, ContainerHeld, Live, LiveStates
<1>5. SizesAsked /\ RoomHeld
  BY <1>1 DEF SizesAsked, Flushed, RoomHeld, ChosenPcs
<1> QED BY <1>2, <1>3, <1>4, <1>5 DEF MishapInv

LEMMA NextMishapInv ==
    ASSUME IndInv, HistoryInv, MishapInv, [MishapNext]_allVars PROVE MishapInv'
<1>1. [Next]_vars /\ Remembers
  BY StepRemembers DEF MishapInv
<1>2. MishapsKnown' /\ RunsOnce' /\ HandsInv' /\ NodeGone' /\ SizesAsked'
  BY <1>1, MishapsKnownStep, RunsOnceStep, HandsInvStep, NodeGoneStep, SizesAskedStep
  DEF MishapInv
<1>3. StatusShown' /\ DeleteKnows' /\ ContainerHeld'
  BY <1>1, StatusShownStep, DeleteKnowsStep, ContainerHeldStep DEF MishapInv
<1>4. ASSUME IsFiniteSet(Servers) PROVE RoomHeld'
  BY <1>1, <1>2, <1>4, RoomHeldStep DEF MishapInv
<1> QED BY <1>2, <1>3, <1>4 DEF MishapInv

\* The history variables only look on.
LEMMA MishapSpecIsSpec == MishapSpec => Spec
<1>1. MishapInit => Init
  BY DEF MishapInit
<1>2. [MishapNext]_allVars => [Next]_vars
  BY DEF MishapNext, allVars, vars
<1> QED BY <1>1, <1>2, PTL DEF MishapSpec, Spec

\* Rows, containers, jobs and capacities agree about every server to which
\* none of the mishaps happened: for any number of jobs at a time, of crashes,
\* and of calls that fail, get lost or are carried out late.
THEOREM MishapInvariance == MishapSpec => []MishapInv
<1>1. MishapInit => MishapInv
  BY InitMishapInv DEF MishapInit
<1>2. IndInv /\ HistoryInv /\ MishapInv /\ [MishapNext]_allVars => MishapInv'
  BY NextMishapInv
<1> QED
  BY <1>1, <1>2, MishapSpecIsSpec, Invariance, HistoryInvariance, PTL DEF MishapSpec

LEMMA WorksOnAsked ==
    ASSUME IndInv, NEW s \in Servers, AtWork(s) = {}, NEW t \in Tasks, job[t].srv = s
    PROVE  job[t].pc \notin ActivePcs
  BY JobFacts, NoneAssumption DEF AtWork, JobFits

\* The status column says what Docker says when no job of the server is at
\* work, unless two of its jobs overlapped or an agent was not heard out.
THEOREM StatusIsDockers == MishapSpec => []StatusMatchesContainer
<1>1. IndInv /\ MishapInv => StatusMatchesContainer
  <2> SUFFICES ASSUME IndInv, MishapInv, NEW s \in Servers, Calm(s), AtWork(s) = {},
                      srv[s].status \in {"running", "stopped"}
               PROVE  ctr[srv[s].cid].state = srv[s].status
    BY DEF StatusMatchesContainer
  <2>1. \A t \in Tasks : job[t].srv = s => job[t].pc \notin {"l_find", "l_save", "d_row"}
    BY WorksOnAsked DEF ActivePcs
  <2> QED BY <2>1 DEF MishapInv, StatusShown
<1> QED BY <1>1, MishapSpecIsSpec, Invariance, MishapInvariance, PTL

\* Nor is a container left behind then, unless its node was deleted or the
\* provision task failed.
THEOREM NobodysContainer == MishapSpec => []NoOrphanContainer
<1>1. IndInv /\ HistoryInv /\ MishapInv => NoOrphanContainer
  <2> SUFFICES ASSUME IndInv, HistoryInv, MishapInv, NEW c \in Containers, NEW s,
                      s = ctr[c].srv, Live(ctr, c), Calm(s), AtWork(s) = {}
               PROVE  \/ srv[s].cid = c
                      \/ node[ctr[c].node].status = "deleted"
                      \/ \E t \in Tasks : /\ req[t].kind = "provision" /\ req[t].srv = s
                                          /\ task[t].status = "failed"
    BY DEF NoOrphanContainer
  <2>1. s \in Servers
    BY DEF HistoryInv, OnePerHost, Live, LiveStates, IndInv, TypeOK, ContainerRows
  <2>2. ASSUME NEW t \in Tasks, job[t].cid = c, job[t].pc \in {"p_inspect", "p_save"}
        PROVE  FALSE
    <3>1. job[t].srv = s
      BY <2>2, JobFacts DEF JobFits, ContainerPcs, Owns
    <3> QED BY <2>1, <2>2, <3>1, WorksOnAsked DEF ActivePcs, CallPcs
  <2>3. \A t \in Tasks : job[t].srv = s => job[t].pc \notin {"p_fail", "p_failsave"}
    BY <2>1, WorksOnAsked DEF ActivePcs
  <2> QED BY <2>2, <2>3 DEF MishapInv, ContainerHeld, Fails, HostGone
<1> QED BY <1>1, MishapSpecIsSpec, Invariance, HistoryInvariance, MishapInvariance, PTL

\* The row of a server whose node is known outlives its container, unless two
\* of its jobs overlapped: whatever dies, fails or is carried out late.
THEOREM RowGoesLast == MishapSpec => RowOutlivesContainer
<1>1. ASSUME IndInv, MishapInv, [Next]_vars, NEW s \in Servers \ crowded,
             srv[s].status # "absent", srv'[s].status = "absent",
             srv[s].cid # None, srv[s].node # None
      PROVE  ~Live(ctr, srv[s].cid)
  <2>1. PICK t \in Tasks : DeleteRow(t) /\ job[t].srv = s
    BY <1>1, RowStep
  <2> QED BY <1>1, <2>1 DEF DeleteRow, MishapInv, DeleteKnows
<1>2. IndInv /\ MishapInv /\ [MishapNext]_allVars =>
        [\A s \in Servers \ crowded :
            /\ srv[s].status # "absent" /\ srv'[s].status = "absent"
            /\ srv[s].cid # None /\ srv[s].node # None
            => ~Live(ctr, srv[s].cid)]_allVars
  BY <1>1, StepRemembers DEF MishapInv
<1> QED
  BY <1>2, MishapSpecIsSpec, Invariance, MishapInvariance, PTL
  DEF MishapSpec, RowOutlivesContainer

\* What servers ask for is what the query adds up, where their sizes are given
\* in its keys.
LEMMA SummedIsAsked ==
    ASSUME NEW T, IsFiniteSet(T), NEW s, s \notin T, NEW n, NEW servers, NEW nodes,
           NEW old,
           \A x \in T \cup {s} : servers[x].res \in Sizes,
           \A x \in T \cup {s} : servers[x].res.cpuCores # None /\ servers[x].res.memMb # None,
           \A x \in T : old[x].res = servers[x].res,
           nodes[n].cpu \in Nat, nodes[n].mem \in Nat,
           SummedCpu(T, old) + ReqCpu(servers[s].res) <= nodes[n].cpu,
           SummedMem(T, old) + ReqMem(servers[s].res) <= nodes[n].mem
    PROVE  RoomFor(T \cup {s}, n, nodes, servers)
<1>1. Total([x \in T \cup {s} |-> ReqCpu(servers[x].res)], T \cup {s}) <= nodes[n].cpu
  <2> DEFINE g == [x \in T |-> old[x].res.cpuCores]
             h == [x \in T \cup {s} |-> ReqCpu(servers[x].res)]
  <2>1. SummedCpu(T, old) = Total(g, T)
    <3>1. {x \in T : old[x].res.cpuCores # None} = T
      OBVIOUS
    <3> QED BY <3>1 DEF SummedCpu
  <2>2. /\ h[s] = ReqCpu(servers[s].res) /\ h[s] \in Nat
        /\ \A x \in T : g[x] \in Nat /\ h[x] = g[x]
    BY AsksNumbers DEF ReqCpu, FirstKey
  <2>3. \A x \in T \cup {s} : h[x] \in Nat
    BY <2>2
  <2>4. IsFiniteSet(T \cup {s})
    BY FS_AddElement
  <2> HIDE DEF g, h
  <2>5. Total(h, T \cup {s}) <= Total(g, T) + h[s] /\ Total(g, T) \in Nat
    BY <2>2, TotalOneMore
  <2>6. Total(h, T \cup {s}) \in Nat
    BY <2>3, <2>4, TotalType
  <2>7. Total(h, T \cup {s}) <= nodes[n].cpu
    BY <2>1, <2>2, <2>5, <2>6
  <2> QED BY <2>7 DEF h
<1>2. Total([x \in T \cup {s} |-> ReqMem(servers[x].res)], T \cup {s}) <= nodes[n].mem
  <2> DEFINE g == [x \in T |-> old[x].res.memMb]
             h == [x \in T \cup {s} |-> ReqMem(servers[x].res)]
  <2>1. SummedMem(T, old) = Total(g, T)
    <3>1. {x \in T : old[x].res.memMb # None} = T
      OBVIOUS
    <3> QED BY <3>1 DEF SummedMem
  <2>2. /\ h[s] = ReqMem(servers[s].res) /\ h[s] \in Nat
        /\ \A x \in T : g[x] \in Nat /\ h[x] = g[x]
    BY AsksNumbers DEF ReqMem, FirstKey
  <2>3. \A x \in T \cup {s} : h[x] \in Nat
    BY <2>2
  <2>4. IsFiniteSet(T \cup {s})
    BY FS_AddElement
  <2> HIDE DEF g, h
  <2>5. Total(h, T \cup {s}) <= Total(g, T) + h[s] /\ Total(g, T) \in Nat
    BY <2>2, TotalOneMore
  <2>6. Total(h, T \cup {s}) \in Nat
    BY <2>3, <2>4, TotalType
  <2>7. Total(h, T \cup {s}) <= nodes[n].mem
    BY <2>1, <2>2, <2>5, <2>6
  <2> QED BY <2>7 DEF h
<1> QED BY <1>1, <1>2 DEF RoomFor

\* A job that was not overtaken records its server only where it fits: for any
\* number of nodes, servers, jobs at a time, crashes and late calls.
THEOREM PlacedWhereItFits ==
    ASSUME IsFiniteSet(Servers) PROVE MishapSpec => PlacementFits
<1>1. ASSUME IndInv, MishapInv, [Next]_vars, NEW t \in Tasks \ overtaken,
             NEW s \in Servers, NEW n \in Nodes, job[t].pc = "p_save",
             job[t].srv = s, job[t].node = n,
             srv[s].node # n, srv'[s].node = n, SizesSummed(n)'
      PROVE  WithinCapacity(n)'
  <2>1. n # None
    BY NoneAssumption
  <2>2. PICK u \in Tasks : ProvisionSave(u) /\ job[u].srv = s /\ node[job[u].node].status # "deleted"
                           /\ srv'[s].node = job[u].node
    BY <1>1, <2>1, PlaceStep
  <2>3. u = t
    <3>1. req[u].kind = "provision" /\ req[u].srv = s /\ req[t].kind = "provision" /\ req[t].srv = s
      BY <1>1, <2>2, JobFacts DEF JobFits, ServerPcs, ProvisionPcs, ProvisionSave
    <3> QED BY <1>1, <3>1 DEF IndInv, RequestInv
  <2>4. /\ srv[s].status # "absent" /\ node' = node
        /\ srv' = [srv EXCEPT ![s] = [srv[s] EXCEPT !.status = "running",
                                        !.node = n, !.cid = job[t].cid]]
    BY <1>1, <2>2, <2>3 DEF ProvisionSave
  <2>5. srv \in [Servers -> ServerRows] /\ node \in [Nodes -> NodeRows]
    BY <1>1 DEF IndInv, TypeOK
  <2>6. /\ srv'[s].res = srv[s].res /\ srv'[s].node = n /\ srv'[s].status = "running"
        /\ \A x \in Servers : x # s => srv'[x] = srv[x]
    <3>1. srv[s] \in ServerRows
      BY <2>1, <2>5
    <3> QED BY <2>1, <2>4, <2>5, <3>1 DEF ServerRows
  <2> DEFINE T == CountedOn(n, srv) \ {s}
  <2>7. CountedOn(n, srv') = T \cup {s} /\ s \notin T /\ IsFiniteSet(T)
    BY <2>1, <2>6, FS_Subset DEF CountedOn, CountedStatuses
  <2>8. RoomBeside(T, s, n) /\ IsFiniteSet(Servers)
    BY <1>1, <2>4 DEF MishapInv, RoomHeld, ChosenPcs
  <2>9. \A x \in T \cup {s} : srv'[x].res \in Sizes
    <3>1. \A x \in T : srv[x].res \in Sizes
      BY <1>1, CountedAsk DEF MishapInv
    <3>2. srv[s].res \in Sizes
      BY <1>1, <2>1, <2>4 DEF MishapInv, SizesAsked
    <3> QED BY <2>6, <3>1, <3>2 DEF CountedOn
  <2>10. \A x \in T \cup {s} : srv'[x].res.cpuCores # None /\ srv'[x].res.memMb # None
    BY <1>1, <2>7 DEF SizesSummed
  <2>11. \A x \in T : srv[x].res = srv'[x].res
    BY <2>6 DEF CountedOn
  <2>12. node'[n].cpu \in Nat /\ node'[n].mem \in Nat
    BY <2>1, <2>4, <2>5 DEF NodeRows
  <2>13. /\ SummedCpu(T, srv) + ReqCpu(srv'[s].res) <= node'[n].cpu
         /\ SummedMem(T, srv) + ReqMem(srv'[s].res) <= node'[n].mem
    BY <2>4, <2>6, <2>8 DEF RoomBeside
  <2> HIDE DEF T
  <2>14. RoomFor(T \cup {s}, n, node', srv')
    BY <2>7, <2>9, <2>10, <2>11, <2>12, <2>13, SummedIsAsked
  <2> QED BY <2>7, <2>14 DEF WithinCapacity
<1>2. IndInv /\ MishapInv /\ [MishapNext]_allVars =>
        [\A t \in Tasks \ overtaken, s \in Servers, n \in Nodes :
            /\ job[t].pc = "p_save" /\ job[t].srv = s /\ job[t].node = n
            /\ srv[s].node # n /\ srv'[s].node = n
            /\ SizesSummed(n)'
            => WithinCapacity(n)']_allVars
  BY <1>1, StepRemembers DEF MishapInv
<1> QED
  BY <1>2, MishapSpecIsSpec, Invariance, MishapInvariance, PTL
  DEF MishapSpec, PlacementFits
=============================================================================
