-------------------------- MODULE PathServerProofs ---------------------------
(***************************************************************************)
(* Theorems about the thread pool in PathServer, for every number of       *)
(* workers and of tasks, and about the search it runs, for every graph     *)
(* that Dijkstra's assumptions allow.                                      *)
(***************************************************************************)
EXTENDS PathServer, WellFoundedInduction, FiniteSetTheorems, TLAPS

\* Tasks are numbered in the order in which they are submitted: those started are the
\* first ones, those in the queue the next.
InOrder ==
  /\ Len(started) + Len(m_queue) = submitted
  /\ \A i \in 1 .. Len(started) : started[i] = i
  /\ \A i \in 1 .. Len(m_queue) : m_queue[i] = Len(started) + i

\* A worker holds a task that was started, and no two the same.
Holding ==
  /\ \A w \in Workers : pc[w] = "run" => task[w] <= Len(started)
  /\ \A v, w \in Workers : pc[v] = "run" /\ pc[w] = "run" /\ task[v] = task[w] => v = w

\* The workers that exist are the first ones, and of them the first ones were joined,
\* all of them before the members go.
Joining ==
  /\ owner = "create" => threads < thread_count
  /\ joined <= threads
  /\ \A w \in Workers : w > threads => pc[w] = "none"
  /\ \A w \in Workers : w <= joined => pc[w] = "exit"
  /\ owner = "gone" => joined = threads

PoolInv == TypeOK /\ InOrder /\ Holding /\ Joining

\* The pool begins with no worker and no task.
LEMMA PoolInit == Init => PoolInv
  <1> SUFFICES ASSUME Init PROVE PoolInv
    OBVIOUS
  <1> USE PoolAssumption DEF Init, Queue!Init, Workers
  <1>1. TypeOK
    <2>1. /\ m_queue \in Seq(1 .. MaxSubmit) /\ started \in Seq(1 .. MaxSubmit)
          /\ submitted \in 0 .. MaxSubmit /\ threads \in 0 .. thread_count
          /\ joined \in 0 .. thread_count
      OBVIOUS
    <2>2. /\ pc \in [Workers -> {"none", "check", "pop", "run", "exit"}]
          /\ task \in [Workers -> 0 .. MaxSubmit]
          /\ \A w \in Workers : pc[w] = "run" <=> task[w] # 0
      OBVIOUS
    <2> QED BY <2>1, <2>2 DEF TypeOK
  <1>2. InOrder /\ Holding
    BY DEF InOrder, Holding
  <1>3. Joining
    BY DEF Joining
  <1> QED BY <1>1, <1>2, <1>3 DEF PoolInv

-----------------------------------------------------------------------------
\* submit puts the next number at the end of the queue.
LEMMA SubmitInv == ASSUME PoolInv, Submit PROVE PoolInv'
  <1> USE PoolAssumption DEF PoolInv, Workers
  <1>1. /\ m_queue' = Append(m_queue, submitted + 1) /\ submitted' = submitted + 1
        /\ submitted < MaxSubmit
        /\ UNCHANGED <<started, ownerVars, pc, task>>
    BY DEF Submit, Queue!Push
  <1>2. TypeOK'
    BY <1>1 DEF TypeOK, ownerVars
  <1>3. InOrder'
    <2>1. /\ Len(m_queue') = Len(m_queue) + 1 /\ Len(m_queue) \in Nat /\ Len(started) \in Nat
          /\ m_queue'[Len(m_queue) + 1] = submitted + 1
          /\ \A i \in 1 .. Len(m_queue) : m_queue'[i] = m_queue[i]
      BY <1>1 DEF TypeOK
    <2> QED BY <1>1, <2>1 DEF InOrder
  <1>4. Holding' /\ Joining'
    BY <1>1 DEF Holding, Joining, ownerVars
  <1> QED BY <1>2, <1>3, <1>4

\* The thread that owns the pool starts workers, stops them and joins them.
LEMMA OwnerInv ==
  ASSUME PoolInv, CreateThread \/ CreateFails \/ Destroy \/ Join \/ Gone
  PROVE  PoolInv'
  <1> USE PoolAssumption DEF PoolInv, Workers, queueVars
  <1>1. CASE CreateThread
    <2>1. threads' = threads + 1 /\ threads' \in Workers /\ threads < thread_count
      BY <1>1 DEF CreateThread, TypeOK
    <2>2. TypeOK'
      BY <1>1, <2>1 DEF CreateThread, TypeOK, Joining
    <2>3. InOrder' /\ Holding'
      BY <1>1, <2>1 DEF CreateThread, TypeOK, InOrder, Holding
    <2>4. Joining'
      BY <1>1, <2>1 DEF CreateThread, TypeOK, Joining
    <2> QED BY <2>2, <2>3, <2>4
  <1>2. CASE CreateFails \/ Destroy
    <2>1. /\ owner' = "join" /\ m_done' = TRUE
          /\ UNCHANGED <<queueVars, threads, joined, pc, task>>
      BY <1>2 DEF CreateFails, Cancel, Destroy
    <2>2. TypeOK'
      BY <2>1 DEF TypeOK
    <2>3. InOrder' /\ Holding' /\ Joining'
      BY <2>1 DEF InOrder, Holding, Joining
    <2> QED BY <2>2, <2>3
  <1>3. CASE Join
    <2>1. /\ owner = "join" /\ joined < threads /\ joined' = joined + 1 /\ pc[joined + 1] = "exit"
          /\ UNCHANGED <<queueVars, m_done, threads, owner, pc, task>>
      BY <1>3 DEF Join, Joinable
    <2>2. TypeOK'
      BY <2>1 DEF TypeOK
    <2>3. InOrder' /\ Holding'
      BY <2>1 DEF InOrder, Holding
    <2>4. joined' <= threads' /\ (owner' = "gone" => joined' = threads')
      BY <2>1 DEF TypeOK
    <2>5. ASSUME NEW w \in Workers, w <= joined' PROVE pc'[w] = "exit"
      <3>1. w <= joined \/ w = joined + 1
        BY <2>1, <2>5 DEF TypeOK
      <3> QED BY <2>1, <3>1 DEF Joining
    <2> QED BY <2>1, <2>2, <2>3, <2>4, <2>5 DEF Joining
  <1>4. CASE Gone
    <2>1. joined = threads /\ owner' = "gone"
          /\ UNCHANGED <<queueVars, m_done, threads, joined, pc, task>>
      BY <1>4 DEF Gone, Joinable, TypeOK, Joining
    <2>2. TypeOK'
      BY <2>1 DEF TypeOK
    <2>3. InOrder' /\ Holding' /\ Joining'
      BY <2>1 DEF InOrder, Holding, Joining
    <2> QED BY <2>2, <2>3
  <1> QED BY <1>1, <1>2, <1>3, <1>4

\* A worker that is not joined goes from one place of its loop to another.
LEMMA WorkerMoves ==
  ASSUME TypeOK, Joining, NEW w \in Workers, Work(w)
  PROVE  Joining'
  <1>1. /\ pc[w] \notin {"none", "exit"} /\ UNCHANGED ownerVars
        /\ \E label : pc' = [pc EXCEPT ![w] = label]
    BY DEF Work, WorkerCheck, WorkerPop, WorkerRun, Goto
  <1> QED BY <1>1 DEF TypeOK, Joining, ownerVars

\* A worker that checks m_done, finds no task, or has run one holds none.
LEMMA NoTaskInv ==
  ASSUME PoolInv, NEW w \in Workers, Work(w), UNCHANGED queueVars
  PROVE  TypeOK' /\ InOrder' /\ Holding'
  <1> USE DEF PoolInv
  <1>1. /\ \/ pc[w] \in {"check", "pop"} /\ UNCHANGED task
           \/ pc[w] = "run" /\ task' = [task EXCEPT ![w] = 0]
        /\ \E label \in {"check", "pop", "exit"} : pc' = [pc EXCEPT ![w] = label]
        /\ UNCHANGED ownerVars
    <2>1. ~Queue!TryPop(w)
      BY DEF Queue!TryPop, Queue!Pop, queueVars, TypeOK
    <2> QED BY <2>1 DEF Work, WorkerCheck, WorkerPop, WorkerRun, Goto, Idle
  <1>2. TypeOK'
    <2>1. /\ pc' \in [Workers -> {"none", "check", "pop", "run", "exit"}]
          /\ task' \in [Workers -> 0 .. MaxSubmit]
      BY <1>1, PoolAssumption DEF TypeOK
    <2>2. ASSUME NEW v \in Workers PROVE pc'[v] = "run" <=> task'[v] # 0
      BY <1>1 DEF TypeOK
    <2> QED BY <1>1, <2>1, <2>2 DEF TypeOK, queueVars, ownerVars
  <1>3. InOrder' /\ Holding'
    BY <1>1 DEF TypeOK, InOrder, Holding, queueVars
  <1> QED BY <1>2, <1>3

\* A worker that takes a task takes the one with the next number, which nobody holds.
LEMMA TakeInv ==
  ASSUME PoolInv, NEW w \in Workers, Queue!TryPop(w), pc[w] = "pop",
         task' = [task EXCEPT ![w] = Head(m_queue)], pc' = [pc EXCEPT ![w] = "run"],
         UNCHANGED ownerVars
  PROVE  TypeOK' /\ InOrder' /\ Holding'
  <1> USE PoolAssumption DEF PoolInv
  <1>1. /\ m_queue # <<>> /\ started' = Append(started, Head(m_queue))
        /\ m_queue' = Tail(m_queue) /\ submitted' = submitted
    BY DEF Queue!TryPop, Queue!Pop
  <1>2. /\ Head(m_queue) = Len(started) + 1 /\ Head(m_queue) \in 1 .. MaxSubmit
        /\ Len(started') = Len(started) + 1 /\ Len(m_queue') = Len(m_queue) - 1
    BY <1>1 DEF TypeOK, InOrder
  <1>3. TypeOK'
    BY <1>1, <1>2 DEF TypeOK, ownerVars
  <1>4. InOrder'
    <2>1. /\ Len(m_queue) \in Nat /\ Len(started) \in Nat
          /\ \A i \in 1 .. Len(m_queue') : m_queue'[i] = m_queue[i + 1]
          /\ \A i \in 1 .. Len(started) : started'[i] = started[i]
          /\ started'[Len(started) + 1] = Head(m_queue)
      BY <1>1, <1>2 DEF TypeOK
    <2> QED BY <1>1, <1>2, <2>1 DEF InOrder
  <1>5. Holding'
    BY <1>2 DEF TypeOK, Holding
  <1> QED BY <1>3, <1>4, <1>5

\* Every step keeps the invariant.
LEMMA PoolStep == PoolInv /\ [Next]_vars => PoolInv'
  <1> SUFFICES ASSUME PoolInv, [Next]_vars PROVE PoolInv'
    OBVIOUS
  <1>1. CASE Submit
    BY <1>1, SubmitInv
  <1>2. CASE CreateThread \/ CreateFails \/ Destroy \/ Join \/ Gone
    BY <1>2, OwnerInv
  <1>3. ASSUME NEW w \in Workers, Work(w) PROVE PoolInv'
    <2>1. Joining'
      BY <1>3, WorkerMoves DEF PoolInv
    <2>2. CASE UNCHANGED queueVars
      BY <1>3, <2>1, <2>2, NoTaskInv DEF PoolInv
    <2>3. CASE ~UNCHANGED queueVars
      <3>1. /\ Queue!TryPop(w) /\ pc[w] = "pop" /\ UNCHANGED ownerVars
            /\ task' = [task EXCEPT ![w] = Head(m_queue)] /\ pc' = [pc EXCEPT ![w] = "run"]
        BY <1>3, <2>3 DEF Work, WorkerCheck, WorkerPop, WorkerRun, Goto
      <3> QED BY <2>1, <3>1, TakeInv DEF PoolInv
    <2> QED BY <2>2, <2>3
  <1>4. CASE UNCHANGED vars
    BY <1>4 DEF vars, queueVars, ownerVars, PoolInv, TypeOK, InOrder, Holding, Joining
  <1> QED BY <1>1, <1>2, <1>3, <1>4 DEF Next

-----------------------------------------------------------------------------
\* What the path server does is what a user of the pool does, or leaves the pool alone.
LEMMA PoolUsed == PathServerNext => [Next]_vars
  BY DEF PathServerNext, Searching, SearchEnds, Pooling

LEMMA PoolInvariant == PathServerSpec => []PoolInv
  <1>1. PathServerInit => PoolInv
    BY PoolInit DEF PathServerInit
  <1>2. PoolInv /\ [PathServerNext]_pathServerVars => PoolInv'
    BY PoolStep, PoolUsed DEF pathServerVars
  <1> QED BY <1>1, <1>2, PTL DEF PathServerSpec

\* try_pop, work: for any number of workers and of tasks, a task is run by one worker,
\* once.
THEOREM TasksRunOnce == PathServerSpec => []RunOnce
  <1>1. PoolInv => RunOnce
    BY DEF PoolInv, TypeOK, InOrder, Holding, RunOnce
  <1> QED BY <1>1, PoolInvariant, PTL

\* ~ThreadPool, and a constructor that throws: for any number of workers, wherever they
\* are, the members are destroyed after the last of them has left.
THEOREM PoolOutlivesWorkers == PathServerSpec => []OutlivesWorkers
  <1>1. PoolInv => OutlivesWorkers
    BY PoolAssumption DEF PoolInv, TypeOK, Joining, OutlivesWorkers, Workers
  <1> QED BY <1>1, PoolInvariant, PTL

-----------------------------------------------------------------------------
(* Dijkstra's algorithm *)

\* The variables keep their types.
SearchTypeOK ==
  /\ m_edges \in [Vertices -> Seq(Edges)]
  /\ at \in {"build", "pop", "edges", "trace", "return"}
  /\ src \in Vertices
  /\ dist \in [Vertices -> 0 .. INF]
  /\ path \in [Vertices -> Vertices \cup {INF}]
  /\ prio_queue \subseteq Nat \X Vertices
  /\ u \in Vertices /\ iter \in Nat \ {0}

\* No search has begun, or src is the root of the tree and the queue was not left early.
Rooted ==
  /\ at = "build" => \A v \in Vertices : dist[v] = INF /\ path[v] = INF
  /\ at # "build" => dist[src] = 0 /\ path[src] = INF
  /\ at \in {"trace", "return"} => prio_queue = {}

\* A vertex is as far as INF, or no nearer than its predecessor and the edge between.
InTree(v) ==
  \/ dist[v] = INF /\ path[v] = INF
  \/ /\ dist[v] < INF /\ path[v] \in Vertices
     /\ \E i \in DOMAIN m_edges[path[v]] :
          /\ m_edges[path[v]][i].to = v
          /\ dist[v] >= dist[path[v]] + m_edges[path[v]][i].weight

\* The first n edges of x make no distance shorter.
Relaxed(x, n) ==
  \A i \in DOMAIN m_edges[x] :
    i <= n => dist[m_edges[x][i].to] <= dist[x] + m_edges[x][i].weight

\* A vertex that was reached is still to be popped, or its edges are looked at, or were.
Waits(x) == \E p \in prio_queue : p[2] = x
Covered(x) ==
  dist[x] < INF =>
    \/ Waits(x)
    \/ at = "edges" /\ u = x /\ Relaxed(x, iter - 1)
    \/ Relaxed(x, Len(m_edges[x]))

SearchInv ==
  /\ SearchTypeOK
  /\ Rooted
  /\ at # "build" => \A v \in Vertices \ {src} : InTree(v)
  /\ at # "build" => \A x \in Vertices : Covered(x)

-----------------------------------------------------------------------------
\* Distances are numbers, up to INF.
LEMMA DistType ==
  ASSUME SearchTypeOK, NEW v \in Vertices
  PROVE  dist[v] \in Nat /\ dist[v] <= INF
  BY GraphAssumption DEF SearchTypeOK

\* What the lists of the graph hold.
LEMMA EdgeType ==
  ASSUME SearchTypeOK, NEW x \in Vertices
  PROVE  /\ Len(m_edges[x]) \in Nat /\ DOMAIN m_edges[x] = 1 .. Len(m_edges[x])
         /\ \A i \in DOMAIN m_edges[x] :
              m_edges[x][i].to \in Vertices /\ m_edges[x][i].weight \in Nat
<1>1. m_edges[x] \in Seq(Edges)
  BY DEF SearchTypeOK
<1>2. Len(m_edges[x]) \in Nat /\ DOMAIN m_edges[x] = 1 .. Len(m_edges[x])
  BY <1>1
<1>3. ASSUME NEW i \in DOMAIN m_edges[x]
      PROVE  m_edges[x][i].to \in Vertices /\ m_edges[x][i].weight \in Nat
  <2>1. m_edges[x][i] \in Edges
    BY <1>1, <1>2, <1>3
  <2> QED
    BY <2>1, GraphAssumption DEF Edges
<1> QED
  BY <1>2, <1>3

\* A graph with no edges, and nothing searched (Graph::Graph).
LEMMA InvInit == SearchInit => SearchInv
  BY GraphAssumption
  DEF SearchInit, SearchInv, SearchTypeOK, Rooted, Vertices, Edges

\* Edges are added while nothing is searched (Graph::AddEdge).
LEMMA InvAddEdge ==
  ASSUME SearchInv, NEW a \in Vertices, NEW b \in Vertices, NEW w \in Weights, AddEdge(a, b, w)
  PROVE  SearchInv'
<1>1. [to |-> b, weight |-> w] \in Edges /\ [to |-> a, weight |-> w] \in Edges
  BY DEF Edges
<1>2. m_edges' \in [Vertices -> Seq(Edges)]
  <2>1. PICK f : f = [m_edges EXCEPT ![a] = Append(@, [to |-> b, weight |-> w])]
    OBVIOUS
  <2>2. f \in [Vertices -> Seq(Edges)]
    BY <1>1, <2>1 DEF SearchInv, SearchTypeOK
  <2>3. m_edges' = [f EXCEPT ![b] = Append(@, [to |-> a, weight |-> w])]
    BY <2>1 DEF AddEdge
  <2> QED
    BY <1>1, <2>2, <2>3
<1> QED
  BY <1>2 DEF SearchInv, SearchTypeOK, Rooted, AddEdge, queueState, loopVars

\* A search starts at src, which waits in the queue.
LEMMA InvBegin ==
  ASSUME SearchInv, NEW s \in Vertices, Begin(s)
  PROVE  SearchInv'
<1> USE DEF SearchInv
<1>1. SearchTypeOK' /\ Rooted'
  BY GraphAssumption DEF SearchTypeOK, Rooted, Begin, Vertices, loopVars, graphVars
<1>2. ASSUME NEW v \in Vertices \ {s} PROVE dist'[v] = INF /\ path'[v] = INF
  BY <1>2 DEF SearchTypeOK, Rooted, Begin
<1>3. \A v \in Vertices \ {src'} : InTree(v)'
  BY <1>2 DEF Begin, InTree
<1>4. \A x \in Vertices : Covered(x)'
  BY <1>2, <1>1 DEF Begin, Covered, Waits, SearchTypeOK
<1> QED
  BY <1>1, <1>3, <1>4

\* The vertex that is popped is the one whose edges are looked at.
LEMMA InvPop ==
  ASSUME SearchInv, Pop
  PROVE  SearchInv'
<1> USE DEF SearchInv
<1>1. PICK p \in prio_queue : prio_queue' = prio_queue \ {p} /\ u' = p[2]
  BY DEF Pop
<1>2. SearchTypeOK' /\ Rooted'
  BY <1>1 DEF SearchTypeOK, Rooted, Pop, graphVars
<1>3. \A v \in Vertices \ {src'} : InTree(v)'
  BY DEF Pop, InTree, graphVars
<1>4. ASSUME NEW x \in Vertices PROVE Covered(x)'
  <2>1. UNCHANGED <<m_edges, dist>> /\ iter' = 1 /\ at' = "edges"
    BY DEF Pop, graphVars
  <2>2. CASE u' = x
    BY <2>1, <2>2 DEF Covered, Relaxed, SearchTypeOK
  <2>3. CASE u' # x
    BY <1>1, <2>1, <2>3 DEF Covered, Relaxed, Waits, Pop
  <2> QED
    BY <2>2, <2>3
<1> QED
  BY <1>2, <1>3, <1>4 DEF Pop

\* An edge that makes a distance shorter puts its vertex in the queue again.
LEMMA InvRelax ==
  ASSUME SearchInv, Relax
  PROVE  SearchInv'
<1> USE DEF SearchInv
<1>1. PICK e : e = m_edges[u][iter] /\ e \in Edges
  BY DEF Relax, SearchTypeOK
<1>2. e.to \in Vertices /\ e.weight \in Nat
  BY <1>1, GraphAssumption DEF Edges
<1>3. PICK d : d = dist[u] + e.weight /\ d \in Nat
  BY <1>2 DEF SearchTypeOK
<1>4. /\ UNCHANGED <<m_edges, at, src, u>> /\ iter' = iter + 1
      /\ at = "edges" /\ iter \in DOMAIN m_edges[u]
  BY DEF Relax, SearchTypeOK, graphVars
<1>5. CASE dist[e.to] > d
  <2>1. /\ dist' = [dist EXCEPT ![e.to] = d]
        /\ path' = [path EXCEPT ![e.to] = u]
        /\ prio_queue' = prio_queue \cup {<<d, e.to>>}
    BY <1>1, <1>3, <1>5 DEF Relax, Through, Predecessor
  <2>2. e.to # u /\ e.to # src /\ d < INF
    BY <1>2, <1>3, <1>4, <1>5, GraphAssumption DEF SearchTypeOK, Rooted
  <2>3. SearchTypeOK'
    BY <1>2, <1>3, <1>4, <2>1, <2>2, GraphAssumption DEF SearchTypeOK
  <2>4. Rooted'
    BY <1>4, <2>1, <2>2 DEF SearchTypeOK, Rooted
  <2>5. \A v \in Vertices : dist'[v] <= dist[v] /\ dist[v] \in Nat /\ dist'[v] \in Nat
    <3> SUFFICES ASSUME NEW v \in Vertices
                 PROVE  dist'[v] <= dist[v] /\ dist[v] \in Nat /\ dist'[v] \in Nat
      OBVIOUS
    <3>1. dist[v] \in Nat /\ dist'[v] = IF v = e.to THEN d ELSE dist[v]
      BY <2>1, DistType DEF SearchTypeOK
    <3> QED
      BY <3>1, <1>3, <1>5
  <2>6. ASSUME NEW v \in Vertices \ {src} PROVE InTree(v)'
    <3>1. CASE v = e.to
      <4>1. dist'[v] = d /\ path'[v] = u /\ dist'[u] = dist[u]
        BY <3>1, <2>1, <2>2, <1>2 DEF SearchTypeOK
      <4>2. dist'[v] < INF /\ path'[v] \in Vertices
        BY <4>1, <2>2 DEF SearchTypeOK
      <4>3. dist'[v] >= dist'[path'[v]] + m_edges'[path'[v]][iter].weight
        BY <4>1, <1>1, <1>3, <1>4
      <4> QED
        BY <4>1, <4>2, <4>3, <3>1, <1>1, <1>4 DEF InTree
    <3>2. CASE v # e.to
      <4>1. dist'[v] = dist[v] /\ path'[v] = path[v]
        BY <3>2, <2>1 DEF SearchTypeOK
      <4>2. CASE dist[v] = INF /\ path[v] = INF
        BY <4>1, <4>2 DEF InTree
      <4>3. CASE ~(dist[v] = INF /\ path[v] = INF)
        <5>1. PICK i \in DOMAIN m_edges[path[v]] :
                /\ dist[v] < INF /\ path[v] \in Vertices
                /\ m_edges[path[v]][i].to = v
                /\ dist[v] >= dist[path[v]] + m_edges[path[v]][i].weight
          BY <4>3, <1>4 DEF InTree
        <5>2. m_edges[path[v]][i].weight \in Nat
          BY <5>1, EdgeType
        <5>3. dist'[v] >= dist'[path'[v]] + m_edges'[path'[v]][i].weight
          BY <5>1, <5>2, <4>1, <2>5, <1>4
        <5> QED
          BY <5>1, <5>3, <4>1, <1>4 DEF InTree
      <4> QED
        BY <4>2, <4>3
    <3> QED
      BY <3>1, <3>2
  <2>7. ASSUME NEW x \in Vertices PROVE Covered(x)'
    <3>1. CASE x = e.to
      <4>1. <<d, e.to>> \in prio_queue' /\ <<d, e.to>>[2] = x
        BY <3>1, <2>1
      <4> QED
        BY <4>1 DEF Covered, Waits
    <3>2. CASE x # e.to
      <4>1. dist'[x] = dist[x] /\ (Waits(x) => Waits(x)')
        BY <3>2, <2>1 DEF SearchTypeOK, Waits
      <4>2. ASSUME NEW n \in Nat, Relaxed(x, n) PROVE Relaxed(x, n)'
        <5>1. ASSUME NEW i \in DOMAIN m_edges[x], i <= n
              PROVE  dist'[m_edges[x][i].to] <= dist'[x] + m_edges[x][i].weight
          <6>1. m_edges[x][i].to \in Vertices /\ m_edges[x][i].weight \in Nat
            BY EdgeType
          <6>2. dist[m_edges[x][i].to] <= dist[x] + m_edges[x][i].weight
            BY <4>2, <5>1 DEF Relaxed
          <6> QED
            BY <6>1, <6>2, <4>1, <2>5
        <5> QED
          BY <5>1, <1>4 DEF Relaxed
      <4>3. CASE u = x /\ Relaxed(x, iter - 1)
        <5>1. PICK n \in Nat : n = iter - 1
          BY DEF SearchTypeOK
        <5>2. Relaxed(x, n)'
          BY <4>2, <4>3, <5>1
        <5>3. dist'[e.to] <= dist'[x] + e.weight
          BY <4>1, <4>3, <2>1, <1>2, <1>3 DEF SearchTypeOK
        <5> QED
          BY <5>1, <5>2, <5>3, <4>3, <1>1, <1>4 DEF Covered, Relaxed, SearchTypeOK
      <4>4. CASE Relaxed(x, Len(m_edges[x]))
        <5>1. Len(m_edges[x]) \in Nat
          BY DEF SearchTypeOK
        <5> QED
          BY <4>2, <4>4, <5>1, <1>4 DEF Covered
      <4>5. CASE Waits(x)
        BY <4>1, <4>5 DEF Covered
      <4>6. CASE dist[x] >= INF
        BY <4>1, <4>6, DistType, GraphAssumption DEF Covered
      <4> QED
        <5>1. Covered(x)
          BY <1>4
        <5> QED
          BY <5>1, <4>3, <4>4, <4>5, <4>6, DistType, GraphAssumption DEF Covered
    <3> QED
      BY <3>1, <3>2
  <2> QED
    BY <2>3, <2>4, <2>6, <2>7, <1>4
<1>6. CASE ~(dist[e.to] > d)
  <2>1. UNCHANGED <<dist, path, prio_queue>>
    BY <1>1, <1>3, <1>6 DEF Relax, Through, queueState
  <2>2. SearchTypeOK' /\ Rooted'
    BY <1>4, <2>1 DEF SearchTypeOK, Rooted
  <2>3. \A v \in Vertices \ {src} : InTree(v)'
    BY <1>4, <2>1 DEF InTree
  <2>4. ASSUME NEW x \in Vertices PROVE Covered(x)'
    <3>1. dist[e.to] <= d
      BY <1>2, <1>3, <1>6 DEF SearchTypeOK
    <3>2. CASE u = x /\ Relaxed(x, iter - 1)
      BY <3>1, <3>2, <2>1, <1>1, <1>3, <1>4 DEF Covered, Relaxed, SearchTypeOK
    <3>3. CASE ~(u = x /\ Relaxed(x, iter - 1))
      BY <3>3, <2>1, <1>4 DEF Covered, Relaxed, Waits
    <3> QED
      BY <3>2, <3>3
  <2> QED
    BY <2>2, <2>3, <2>4, <1>4
<1> QED
  BY <1>5, <1>6

\* The other steps change no distance; when one leaves the edges of u it has seen all.
LEMMA InvOther ==
  ASSUME SearchInv,
         \/ EdgesEnd \/ ShortPathReturns \/ Trace \/ GetPathReturns
         \/ \E d \in Vertices : TraceFrom(d)
         \/ UNCHANGED searchVars
  PROVE  SearchInv'
<1> USE DEF SearchInv, queueState, loopVars, graphVars
<1>1. /\ UNCHANGED <<m_edges, src, dist, path, prio_queue, u, iter>>
      /\ at' \in {"pop", "trace", "return"} \/ at' = at
      /\ at = "build" <=> at' = "build"
  BY DEF EdgesEnd, ShortPathReturns, Trace, GetPathReturns, TraceFrom, searchVars
<1>2. SearchTypeOK' /\ Rooted'
  BY <1>1 DEF SearchTypeOK, Rooted, EdgesEnd, ShortPathReturns, Trace, GetPathReturns,
              TraceFrom, searchVars
<1>3. \A v \in Vertices \ {src} : InTree(v) => InTree(v)'
  BY <1>1 DEF InTree
<1>4. ASSUME NEW x \in Vertices, at # "build" PROVE Covered(x)'
  <2>1. CASE at = "edges" /\ u = x /\ Relaxed(x, iter - 1) /\ at' # "edges"
    <3>1. iter > Len(m_edges[u])
      BY <2>1 DEF EdgesEnd, ShortPathReturns, Trace, GetPathReturns, TraceFrom, searchVars
    <3> QED
      BY <2>1, <3>1, <1>1 DEF Covered, Relaxed, SearchTypeOK
  <2>2. CASE ~(at = "edges" /\ u = x /\ Relaxed(x, iter - 1) /\ at' # "edges")
    BY <2>2, <1>1, <1>4 DEF Covered, Relaxed, Waits
  <2> QED
    BY <2>1, <2>2
<1> QED
  BY <1>1, <1>2, <1>3, <1>4

\* SearchInv is kept by every step.
LEMMA InvStep == SearchInv /\ [SearchNext]_searchVars => SearchInv'
  BY InvAddEdge, InvBegin, InvPop, InvRelax, InvOther DEF SearchNext, Search

\* When the queue is empty, no vertex waits and the tree's edges are tight.
LEMMA InvCertifies == SearchInv => Certified
<1> SUFFICES ASSUME SearchInv, at \in {"trace", "return"} PROVE Certified
  BY DEF Certified
<1> USE DEF SearchInv
<1>1. ASSUME NEW x \in Vertices, dist[x] < INF, NEW e \in EdgesOf(x)
      PROVE  dist[e.to] <= dist[x] + e.weight
  <2>1. Relaxed(x, Len(m_edges[x]))
    BY <1>1 DEF Covered, Waits, Rooted
  <2>2. PICK i \in DOMAIN m_edges[x] : e = m_edges[x][i]
    BY DEF EdgesOf
  <2> QED
    BY <2>1, <2>2 DEF Relaxed, SearchTypeOK
<1>2. ASSUME NEW v \in Vertices \ {src}, ~(dist[v] = INF /\ path[v] = INF)
      PROVE  \E e \in EdgesOf(path[v]) : e.to = v /\ dist[v] = dist[path[v]] + e.weight
  <2>1. PICK i \in DOMAIN m_edges[path[v]] :
          /\ dist[v] < INF /\ path[v] \in Vertices
          /\ m_edges[path[v]][i].to = v
          /\ dist[v] >= dist[path[v]] + m_edges[path[v]][i].weight
    BY <1>2 DEF InTree
  <2>2. m_edges[path[v]][i] \in EdgesOf(path[v])
    BY <2>1 DEF EdgesOf
  <2>3. m_edges[path[v]][i].weight \in Nat /\ dist[path[v]] \in Nat /\ dist[v] \in Nat
    BY <2>1, EdgeType, DistType
  <2>4. dist[v] <= dist[path[v]] + m_edges[path[v]][i].weight
    BY <1>1, <2>1, <2>2, <2>3, GraphAssumption
  <2> QED
    BY <2>1, <2>2, <2>3, <2>4
<1> QED
  BY <1>1, <1>2 DEF Certified, Rooted

\* ShortPath and GetPath: in every graph, when the queue is empty, the distances cannot
\* be made shorter and path is a tree of paths that long.
THEOREM SearchCertified == SearchSpec => []Certified
<1>1. SearchSpec => []SearchInv
  BY InvInit, InvStep, PTL DEF SearchSpec
<1> QED
  BY <1>1, InvCertifies, PTL

-----------------------------------------------------------------------------
(* Shortest walks *)

\* A set of numbers has a least member.
LEMMA LeastMember ==
  ASSUME NEW T, T \subseteq Nat, T # {}
  PROVE  \E x \in T : \A y \in T : x <= y
<1>1. PICK x \in T : \A y \in T : ~ (<<y, x>> \in OpToRel(<, Nat))
  BY NatLessThanWellFounded, WFMin, Zenon
<1>2. \A y \in T : ~(y < x)
  BY <1>1, Zenon DEF OpToRel
<1> QED
  BY <1>2

\* The last member of a list.
End(s) == s[Len(s)]

\* w is a walk from src along edges of the graph, the first i vertices of which are l[i] long.
Walk(w, l) ==
  /\ w \in Seq(Vertices) /\ l \in Seq(Nat) /\ Len(w) = Len(l) /\ w # <<>>
  /\ w[1] = src /\ l[1] = 0
  /\ \A i \in 1 .. Len(w) - 1 :
       \E e \in EdgesOf(w[i]) : e.to = w[i + 1] /\ l[i + 1] = l[i] + e.weight

\* Every distance below INF is the length of a walk.
Attained ==
  at # "build" => \A v \in Vertices : dist[v] < INF => \E w, l : Walk(w, l) /\ End(w) = v /\ End(l) = dist[v]

\* What GetPath has put on its stack leads, by path, to des.
Printed == Append(result, des)
TraceOK ==
  /\ result \in Seq(Vertices) /\ des \in Vertices /\ index \in Vertices
  /\ at \notin {"trace", "return"} => result = <<>>
  /\ at = "trace" => Printed[1] = index
  /\ at = "return" => path[Printed[1]] = INF
  /\ at \in {"trace", "return"} => \A i \in 1 .. Len(result) : path[Printed[i + 1]] = Printed[i]

\* The distances are the lengths of shortest walks, and what was printed is one of them.
Shortest ==
  at = "return" =>
    /\ \A w, l : Walk(w, l) => dist[End(w)] <= End(l)
    /\ \A v \in Vertices : dist[v] < INF => \E w, l : Walk(w, l) /\ End(w) = v /\ End(l) = dist[v]
    /\ IF dist[des] = INF THEN result = <<>>
       ELSE Walk(Printed, [i \in 1 .. Len(Printed) |-> dist[Printed[i]]])

\* No walk is shorter than the distance of the vertex it ends at.
LEMMA NoWalkShorter ==
  ASSUME SearchInv, at \in {"trace", "return"}, NEW w, NEW l, Walk(w, l)
  PROVE  dist[End(w)] <= End(l)
<1>1. SearchTypeOK /\ dist[src] = 0
  BY DEF SearchInv, Rooted
<1>2. /\ w \in Seq(Vertices) /\ l \in Seq(Nat) /\ Len(w) = Len(l) /\ Len(w) \in Nat \ {0}
      /\ \A i \in 1 .. Len(w) : w[i] \in Vertices /\ l[i] \in Nat
  BY DEF Walk
<1>3. PICK T : T = {i \in 1 .. Len(w) : ~(dist[w[i]] <= l[i])}
  OBVIOUS
<1>4. CASE T = {}
  BY <1>2, <1>3, <1>4 DEF End
<1>5. CASE T # {}
  <2>1. PICK i \in T : \A j \in T : i <= j
    <3>1. T \subseteq Nat
      BY <1>3
    <3> QED
      BY <3>1, <1>5, LeastMember
  <2>2. i \in 1 .. Len(w) /\ ~(dist[w[i]] <= l[i])
    BY <1>3
  <2>3. i # 1
    BY <1>1, <2>2 DEF Walk
  <2>4. PICK j \in 1 .. Len(w) - 1 : i = j + 1
    BY <2>2, <2>3, <1>2
  <2>5. dist[w[j]] <= l[j]
    <3>1. j \in 1 .. Len(w) /\ j \notin T
      BY <1>2, <2>1, <2>4
    <3> QED
      BY <3>1, <1>3
  <2>6. PICK e \in EdgesOf(w[j]) : e.to = w[i] /\ l[i] = l[j] + e.weight
    BY <2>4 DEF Walk
  <2>7. w[j] \in Vertices /\ w[i] \in Vertices /\ l[j] \in Nat /\ l[i] \in Nat
    BY <1>2, <2>2, <2>4
  <2>8. dist[w[j]] \in Nat /\ dist[w[i]] \in Nat /\ dist[w[i]] <= INF /\ dist[w[j]] <= INF
    BY <1>1, <2>7, DistType
  <2>9. e.weight \in Nat
    BY <1>1, <2>7, EdgeType DEF EdgesOf
  <2>10. dist[w[j]] < INF => dist[w[i]] <= dist[w[j]] + e.weight
    BY <2>6, <2>7, InvCertifies DEF Certified
  <2> QED
    BY <2>2, <2>5, <2>6, <2>7, <2>8, <2>9, <2>10, GraphAssumption
<1> QED
  BY <1>4, <1>5

\* A walk goes on along an edge.
LEMMA WalkExtends ==
  ASSUME SearchTypeOK, NEW w, NEW l, Walk(w, l), NEW e \in EdgesOf(End(w)), e.to \in Vertices, e.weight \in Nat
  PROVE  \E x, y : Walk(x, y) /\ End(x) = e.to /\ End(y) = End(l) + e.weight
<1>1. /\ w \in Seq(Vertices) /\ l \in Seq(Nat) /\ Len(w) = Len(l) /\ Len(w) \in Nat \ {0}
      /\ w[1] = src /\ l[1] = 0
  BY DEF Walk
<1>2. PICK d \in Nat : d = End(l) + e.weight
  BY <1>1 DEF End
<1>3. PICK x : x = Append(w, e.to)
  OBVIOUS
<1>4. PICK y : y = Append(l, d)
  OBVIOUS
<1>5. /\ x \in Seq(Vertices) /\ Len(x) = Len(w) + 1 /\ x[Len(w) + 1] = e.to
      /\ \A i \in 1 .. Len(w) : x[i] = w[i]
  BY <1>1, <1>3
<1>6. /\ y \in Seq(Nat) /\ Len(y) = Len(w) + 1 /\ y[Len(w) + 1] = d
      /\ \A i \in 1 .. Len(w) : y[i] = l[i]
  BY <1>1, <1>4
<1>7. ASSUME NEW i \in 1 .. Len(x) - 1
      PROVE  \E f \in EdgesOf(x[i]) : f.to = x[i + 1] /\ y[i + 1] = y[i] + f.weight
  <2>1. CASE i = Len(w)
    BY <2>1, <1>1, <1>2, <1>5, <1>6 DEF End
  <2>2. CASE i # Len(w)
    <3>1. i \in 1 .. Len(w) - 1 /\ i \in 1 .. Len(w) /\ i + 1 \in 1 .. Len(w)
      BY <2>2, <1>1, <1>5
    <3> QED
      BY <3>1, <1>5, <1>6 DEF Walk
  <2> QED
    BY <2>1, <2>2
<1>8. x[1] = src /\ y[1] = 0 /\ x # <<>>
  BY <1>1, <1>5, <1>6
<1>9. Walk(x, y)
  BY <1>5, <1>6, <1>7, <1>8 DEF Walk
<1>10. End(x) = e.to /\ End(y) = End(l) + e.weight
  BY <1>2, <1>5, <1>6 DEF End
<1> QED
  BY <1>9, <1>10

\* Every step of the search keeps the distances attained: a shorter one is that of the
\* walk to u and the edge that was looked at.
LEMMA AttainedStep ==
  ASSUME SearchInv, Attained, [SearchNext]_searchVars
  PROVE  Attained'
<1>1. SearchTypeOK
  BY DEF SearchInv
<1>2. CASE \E a, b \in Vertices, w \in Weights : AddEdge(a, b, w)
  BY <1>2 DEF AddEdge, Attained
<1>3. CASE \E s \in Vertices : Begin(s)
  <2>1. PICK s \in Vertices : Begin(s)
    BY <1>3
  <2>2. SUFFICES ASSUME NEW v \in Vertices, dist'[v] < INF
                 PROVE  \E w, l : Walk(w, l)' /\ End(w) = v /\ End(l) = dist'[v]
    BY DEF Attained
  <2>3. v = s /\ dist'[v] = 0 /\ src' = s
    <3>1. dist' = [dist EXCEPT ![s] = 0] /\ src' = s /\ dist[v] = INF
      BY <2>1 DEF Begin, SearchInv, Rooted
    <3> QED
      BY <1>1, <2>2, <3>1, GraphAssumption DEF SearchTypeOK
  <2>4. Walk(<<s>>, <<0>>)'
    BY <2>3 DEF Walk
  <2> QED
    BY <2>3, <2>4 DEF End
<1>4. CASE Relax
  <2>1. PICK e \in EdgesOf(u) : e = m_edges[u][iter]
    BY <1>1, <1>4 DEF Relax, EdgesOf, SearchTypeOK
  <2>2. u \in Vertices /\ e.to \in Vertices /\ e.weight \in Nat
    BY <1>1, <2>1, EdgeType DEF EdgesOf, SearchTypeOK
  <2>3. /\ UNCHANGED <<m_edges, src>> /\ at = "edges"
        /\ \/ dist' = dist
           \/ dist[e.to] > dist[u] + e.weight /\ dist' = [dist EXCEPT ![e.to] = dist[u] + e.weight]
    BY <1>4, <2>1 DEF Relax, graphVars, queueState, Through
  <2>4. \A w, l : Walk(w, l)' <=> Walk(w, l)
    BY <2>3 DEF Walk, EdgesOf
  <2>5. SUFFICES ASSUME NEW v \in Vertices, dist'[v] < INF
                 PROVE  \E w, l : Walk(w, l) /\ End(w) = v /\ End(l) = dist'[v]
    BY <2>4 DEF Attained
  <2>6. CASE dist'[v] = dist[v]
    BY <2>3, <2>5, <2>6 DEF Attained
  <2>7. CASE dist'[v] # dist[v]
    <3>1. v = e.to /\ dist'[v] = dist[u] + e.weight
      BY <1>1, <2>2, <2>3, <2>7 DEF SearchTypeOK
    <3>2. dist[u] < INF
      BY <1>1, <2>2, <2>5, <3>1, DistType, GraphAssumption
    <3>3. PICK w, l : Walk(w, l) /\ End(w) = u /\ End(l) = dist[u]
      BY <2>2, <2>3, <3>2 DEF Attained
    <3> QED
      BY <1>1, <2>2, <3>1, <3>3, WalkExtends
  <2> QED
    BY <2>6, <2>7
<1>5. CASE \/ Pop \/ EdgesEnd \/ ShortPathReturns \/ Trace \/ GetPathReturns
           \/ \E d \in Vertices : TraceFrom(d)
           \/ UNCHANGED searchVars
  <2>1. UNCHANGED <<m_edges, src, dist>> /\ (at' # "build" => at # "build")
    BY <1>5 DEF Pop, EdgesEnd, ShortPathReturns, Trace, GetPathReturns, TraceFrom, searchVars,
                queueState, graphVars
  <2>2. \A w, l : Walk(w, l)' <=> Walk(w, l)
    BY <2>1 DEF Walk, EdgesOf
  <2> QED
    BY <2>1, <2>2 DEF Attained
<1> QED
  BY <1>2, <1>3, <1>4, <1>5 DEF SearchNext, Search

\* The stack of GetPath follows path.
LEMMA TraceStep ==
  ASSUME SearchInv, TraceOK, [SearchNext]_searchVars
  PROVE  TraceOK'
<1>1. SearchTypeOK /\ result \in Seq(Vertices) /\ des \in Vertices /\ index \in Vertices
  BY DEF SearchInv, TraceOK
<1>2. CASE \/ \E a, b \in Vertices, w \in Weights : AddEdge(a, b, w)
           \/ \E s \in Vertices : Begin(s)
           \/ Pop \/ Relax \/ EdgesEnd
  <2>1. UNCHANGED traceVars /\ at \notin {"trace", "return"} /\ at' \notin {"trace", "return"}
    BY <1>2 DEF AddEdge, Begin, Pop, Relax, EdgesEnd
  <2> QED
    BY <1>1, <2>1 DEF TraceOK, traceVars
<1>3. CASE ShortPathReturns \/ \E d \in Vertices : TraceFrom(d)
  <2>1. PICK d \in Vertices : des' = d /\ (at' = "return" => d = src) /\ (at' = "trace" => index' = d)
    BY <1>1, <1>3 DEF ShortPathReturns, TraceFrom, SearchTypeOK
  <2>2. /\ result' = result /\ result = <<>> /\ path' = path /\ at' \in {"trace", "return"} /\ src' = src
        /\ index' \in Vertices /\ at = "pop"
    BY <1>1, <1>3 DEF ShortPathReturns, TraceFrom, TraceOK, queueState
  <2>3. Printed' = <<d>>
    BY <2>1, <2>2 DEF Printed
  <2>4. path[src] = INF
    BY <2>2 DEF SearchInv, Rooted
  <2>5. at' = "return" => path'[Printed'[1]] = INF
    BY <2>1, <2>2, <2>3, <2>4
  <2>6. Len(result') = 0 /\ (at' = "trace" => Printed'[1] = index')
    BY <2>1, <2>2, <2>3
  <2> QED
    BY <1>1, <2>1, <2>2, <2>5, <2>6 DEF TraceOK
<1>4. CASE Trace
  <2>1. /\ at = "trace" /\ at' = "trace" /\ UNCHANGED <<path, des>>
        /\ result' = <<path[index]>> \o result /\ index' = path[index] /\ path[index] \in Vertices
        /\ Printed[1] = index
    BY <1>1, <1>4 DEF Trace, SearchTypeOK, queueState, TraceOK
  <2>2. PICK x \in Vertices : x = path[index]
    BY <2>1
  <2>3. /\ result' \in Seq(Vertices) /\ Len(result') = Len(result) + 1 /\ Len(result) \in Nat
    BY <1>1, <2>1, <2>2
  <2>4. Printed \in Seq(Vertices) /\ Len(Printed) = Len(result) + 1
    BY <1>1 DEF Printed
  <2>5. Printed' = <<x>> \o Printed
    BY <1>1, <2>1, <2>2 DEF Printed
  <2>6. /\ Printed'[1] = x
        /\ \A i \in 1 .. Len(result) + 1 : Printed'[i + 1] = Printed[i]
    BY <2>2, <2>3, <2>4, <2>5
  <2>7. ASSUME NEW i \in 1 .. Len(result') PROVE path'[Printed'[i + 1]] = Printed'[i]
    <3>1. CASE i = 1
      BY <3>1, <2>1, <2>2, <2>3, <2>6
    <3>2. CASE i # 1
      <4>1. PICK j \in 1 .. Len(result) : i = j + 1
        BY <3>2, <2>3
      <4>2. path[Printed[j + 1]] = Printed[j]
        BY <2>1, <4>1 DEF TraceOK
      <4>3. Printed'[i + 1] = Printed[j + 1] /\ Printed'[i] = Printed[j]
        BY <2>3, <2>6, <4>1
      <4> QED
        BY <4>2, <4>3, <2>1
    <3> QED
      BY <3>1, <3>2
  <2> QED
    BY <1>1, <2>1, <2>2, <2>3, <2>6, <2>7 DEF TraceOK
<1>5. CASE GetPathReturns \/ UNCHANGED searchVars
  <2>1. UNCHANGED <<path, des, index, result>> /\ (at' = at \/ (at = "trace" /\ at' = "return" /\ path[index] = INF))
    <3>1. CASE GetPathReturns
      BY <3>1 DEF GetPathReturns, queueState, traceVars
    <3>2. CASE UNCHANGED searchVars
      BY <3>2 DEF searchVars, graphVars, queueState, loopVars, traceVars
    <3> QED
      BY <1>5, <3>1, <3>2
  <2> QED
    BY <1>1, <2>1 DEF TraceOK, Printed
<1> QED
  BY <1>2, <1>3, <1>4, <1>5 DEF SearchNext, Search

\* What was printed is a walk to des as long as its distance.
LEMMA PrintedIsWalk ==
  ASSUME SearchInv, TraceOK, at = "return"
  PROVE  IF dist[des] = INF THEN result = <<>>
         ELSE Walk(Printed, [i \in 1 .. Len(Printed) |-> dist[Printed[i]]])
<1>1. SearchTypeOK /\ result \in Seq(Vertices) /\ des \in Vertices /\ dist[src] = 0 /\ path[src] = INF
  BY DEF SearchInv, TraceOK, Rooted
<1>2. /\ Printed \in Seq(Vertices) /\ Len(Printed) = Len(result) + 1 /\ Len(result) \in Nat
      /\ Printed[Len(Printed)] = des /\ \A i \in 1 .. Len(Printed) : Printed[i] \in Vertices
  BY <1>1 DEF Printed
<1>3. INF \notin Vertices
  BY GraphAssumption DEF Vertices
<1>4. \A i \in 1 .. Len(result) : path[Printed[i + 1]] = Printed[i]
  BY DEF TraceOK
<1>5. path[Printed[1]] = INF
  BY DEF TraceOK
<1>6. ASSUME NEW v \in Vertices, path[v] # INF
      PROVE  /\ dist[v] < INF /\ v # src
             /\ \E e \in EdgesOf(path[v]) : e.to = v /\ dist[v] = dist[path[v]] + e.weight
  BY <1>1, <1>6, InvCertifies DEF SearchInv, InTree, Certified
<1>7. CASE dist[des] = INF
  <2>1. path[des] = INF
    BY <1>1, <1>6, <1>7, GraphAssumption
  <2>2. Len(result) = 0
    <3> SUFFICES ASSUME Len(result) # 0 PROVE FALSE
      OBVIOUS
    <3>1. path[des] \in Vertices
      BY <1>2, <1>4
    <3> QED
      BY <2>1, <3>1, <1>3
  <2> QED
    BY <1>1, <1>7, <2>2
<1>8. CASE dist[des] # INF
  <2>1. PICK l : l = [i \in 1 .. Len(Printed) |-> dist[Printed[i]]]
    OBVIOUS
  <2>2. l \in Seq(Nat) /\ Len(l) = Len(Printed) /\ \A i \in 1 .. Len(Printed) : l[i] = dist[Printed[i]]
    <3>1. \A i \in 1 .. Len(Printed) : dist[Printed[i]] \in Nat
      BY <1>1, <1>2, DistType
    <3> QED
      BY <1>2, <2>1, <3>1
  <2>3. ASSUME NEW i \in 1 .. Len(Printed) - 1
        PROVE  /\ dist[Printed[i + 1]] < INF
               /\ \E e \in EdgesOf(Printed[i]) : e.to = Printed[i + 1] /\ dist[Printed[i + 1]] = dist[Printed[i]] + e.weight
    <3>1. Printed[i] \in Vertices /\ Printed[i + 1] \in Vertices /\ path[Printed[i + 1]] = Printed[i]
      BY <1>2, <1>4
    <3> QED
      BY <3>1, <1>3, <1>6
  <2>4. Printed[1] = src
    <3> SUFFICES ASSUME Printed[1] # src PROVE FALSE
      OBVIOUS
    <3>1. Printed[1] \in Vertices
      BY <1>2
    <3>2. dist[Printed[1]] = INF
      BY <1>3, <1>5, <3>1 DEF SearchInv, InTree
    <3>3. Len(Printed) # 1
      BY <1>2, <1>8, <3>2
    <3>4. PICK e \in EdgesOf(Printed[1]) : dist[Printed[2]] = INF + e.weight /\ dist[Printed[2]] < INF
      BY <1>2, <2>3, <3>2, <3>3
    <3>5. e.weight \in Nat
      BY <1>1, <3>1, EdgeType DEF EdgesOf
    <3> QED
      BY <3>4, <3>5, GraphAssumption
  <2>5. l[1] = 0 /\ Printed # <<>>
    BY <1>1, <1>2, <2>2, <2>4
  <2>6. ASSUME NEW i \in 1 .. Len(Printed) - 1
        PROVE  \E e \in EdgesOf(Printed[i]) : e.to = Printed[i + 1] /\ l[i + 1] = l[i] + e.weight
    <3>1. l[i + 1] = dist[Printed[i + 1]] /\ l[i] = dist[Printed[i]]
      BY <1>2, <2>2
    <3> QED
      BY <2>3, <3>1
  <2>7. Walk(Printed, l)
    BY <1>2, <2>2, <2>4, <2>5, <2>6 DEF Walk
  <2> QED
    BY <1>8, <2>1, <2>7
<1> QED
  BY <1>7, <1>8

\* What the two theorems about distances rest on.
LEMMA SearchInvariant == SearchSpec => [](SearchInv /\ Attained /\ TraceOK)
<1>1. SearchInit => SearchInv /\ Attained /\ TraceOK
  <2>1. SearchInit => Attained /\ TraceOK
    BY GraphAssumption DEF SearchInit, Attained, TraceOK, Vertices
  <2> QED
    BY <2>1, InvInit
<1>2. SearchInv /\ Attained /\ TraceOK /\ [SearchNext]_searchVars => (SearchInv /\ Attained /\ TraceOK)'
  BY InvStep, AttainedStep, TraceStep
<1> QED
  BY <1>1, <1>2, PTL DEF SearchSpec

\* ShortPath and GetPath, in every graph and for every order of its edges: no walk from
\* src is shorter than the distance found for its end, a distance below INF is that of
\* a walk, and the vertices GetPath prints are such a walk to des.
THEOREM SearchFindsShortest == SearchSpec => []Shortest
<1>1. SearchInv /\ Attained /\ TraceOK => Shortest
  BY NoWalkShorter, PrintedIsWalk DEF Shortest, Attained
<1> QED
  BY <1>1, SearchInvariant, PTL

-----------------------------------------------------------------------------
(* The reference definition *)

\* One more edge: the shortest of the walks f knows and those one edge longer.
Lengths(f, v) ==
  {f[v]} \cup UNION {{f[x] + e.weight : e \in {d \in EdgesOf(x) : d.to = v}} : x \in Vertices}
Longer(f) == [v \in Vertices |-> CHOOSE l \in Lengths(f, v) : \A m \in Lengths(f, v) : l <= m]
AtSource == [v \in Vertices |-> IF v = src THEN 0 ELSE INF]

\* f follows the recursion of Reach up to n.
Follows(f, n) ==
  /\ f = [k \in 0 .. n |-> f[k]]
  /\ \A k \in 0 .. n : f[k] = IF k = 0 THEN AtSource ELSE Longer(f[k - 1])

\* Such a function exists for every n: the least n without one would not be 0, and the one
\* before it goes one step further.
LEMMA FollowsExists ==
  ASSUME NEW n \in Nat PROVE \E f : Follows(f, n)
<1>1. PICK T : T = {k \in Nat : ~ \E f : Follows(f, k)}
  OBVIOUS
<1>2. CASE T = {}
  BY <1>1, <1>2
<1>3. CASE T # {}
  <2>1. PICK k \in T : \A j \in T : k <= j
    <3>1. T \subseteq Nat
      BY <1>1
    <3> QED
      BY <3>1, <1>3, LeastMember
  <2>2. CASE k = 0
    <3>1. Follows([j \in 0 .. 0 |-> AtSource], 0)
      BY DEF Follows
    <3> QED
      BY <1>1, <2>1, <2>2, <3>1
  <2>3. CASE k # 0
    <3>1. k - 1 \in Nat /\ k - 1 \notin T
      BY <1>1, <2>1, <2>3
    <3>2. PICK f : Follows(f, k - 1)
      BY <1>1, <3>1
    <3>3. PICK g : g = [j \in 0 .. k |-> IF j = k THEN Longer(f[k - 1]) ELSE f[j]]
      OBVIOUS
    <3>4. Follows(g, k)
      <4>1. k \in Nat /\ g = [j \in 0 .. k |-> g[j]] /\ g[k] = Longer(f[k - 1])
        BY <1>1, <3>3
      <4>2. \A j \in 0 .. k - 1 : g[j] = f[j]
        BY <1>1, <3>3
      <4>3. \A j \in 0 .. k - 1 : f[j] = IF j = 0 THEN AtSource ELSE Longer(f[j - 1])
        BY <3>2 DEF Follows
      <4>4. ASSUME NEW j \in 0 .. k PROVE g[j] = IF j = 0 THEN AtSource ELSE Longer(g[j - 1])
        <5>1. CASE j = k
          <6>1. k - 1 \in 0 .. k - 1
            BY <3>1
          <6>2. g[k - 1] = f[k - 1]
            BY <4>2, <6>1
          <6>3. g[k] = Longer(g[k - 1])
            BY <4>1, <6>2
          <6> QED
            BY <2>3, <5>1, <6>3
        <5>2. CASE j # k
          <6>1. j \in 0 .. k - 1 /\ (j # 0 => j - 1 \in 0 .. k - 1)
            BY <4>1, <5>2
          <6> QED
            BY <4>2, <4>3, <6>1
        <5> QED
          BY <5>1, <5>2
      <4> QED
        BY <4>1, <4>4 DEF Follows
    <3> QED
      BY <1>1, <2>1, <3>4
  <2> QED
    BY <2>2, <2>3
<1> QED
  BY <1>2, <1>3

\* The function that Reach is defined to be, in terms of itself.
ReachBody(f) ==
  [k \in 0 .. m_size |->
     IF k = 0 THEN [v \in Vertices |-> IF v = src THEN 0 ELSE INF]
     ELSE [v \in Vertices |->
             LET lengths == {f[k - 1][v]} \cup
                   UNION {{f[k - 1][x] + e.weight : e \in {d \in EdgesOf(x) : d.to = v}} :
                            x \in Vertices}
             IN CHOOSE l \in lengths : \A m \in lengths : l <= m]]

\* As there is such a function, Reach is one.
LEMMA ReachUnfolds == ASSUME NEW f, f = ReachBody(f) PROVE Reach = ReachBody(Reach)
<1>1. Reach = CHOOSE g : g = ReachBody(g)
  BY Zenon DEF Reach, ReachBody
<1> QED
  BY <1>1, Zenon

\* That is to follow the recursion.
LEMMA BodyFollows == ASSUME NEW f PROVE f = ReachBody(f) <=> Follows(f, m_size)
<1>1. ReachBody(f) = [k \in 0 .. m_size |-> IF k = 0 THEN AtSource ELSE Longer(f[k - 1])]
  BY Zenon DEF ReachBody, Longer, Lengths, AtSource
<1> QED
  BY <1>1 DEF Follows

\* Reach follows its recursion.
LEMMA ReachFollows == Follows(Reach, m_size)
<1>1. PICK f : Follows(f, m_size)
  BY GraphAssumption, FollowsExists DEF Follows
<1>2. f = ReachBody(f)
  BY <1>1, BodyFollows
<1>3. Reach = ReachBody(Reach)
  BY <1>2, ReachUnfolds
<1> QED
  BY <1>3, BodyFollows

\* What Lengths holds.
LEMMA LengthsAre ==
  ASSUME SearchTypeOK, NEW f \in [Vertices -> Nat], NEW v \in Vertices
  PROVE  /\ \A l : l \in Lengths(f, v) <=>
              l = f[v] \/ \E x \in Vertices : \E e \in EdgesOf(x) : e.to = v /\ l = f[x] + e.weight
         /\ Lengths(f, v) \subseteq Nat
<1>1. \A l : l \in Lengths(f, v) <=>
        l = f[v] \/ \E x \in Vertices : \E e \in EdgesOf(x) : e.to = v /\ l = f[x] + e.weight
  BY DEF Lengths
<1>2. \A x \in Vertices : \A e \in EdgesOf(x) : e.weight \in Nat
  BY EdgeType DEF EdgesOf
<1>3. ASSUME NEW l \in Lengths(f, v) PROVE l \in Nat
  BY <1>1, <1>2, <1>3
<1> QED
  BY <1>1, <1>3

\* One more edge finds the shortest of them.
LEMMA LongerIsLeast ==
  ASSUME SearchTypeOK, NEW f \in [Vertices -> Nat]
  PROVE  /\ Longer(f) \in [Vertices -> Nat]
         /\ \A v \in Vertices :
              Longer(f)[v] \in Lengths(f, v) /\ \A l \in Lengths(f, v) : Longer(f)[v] <= l
<1>1. ASSUME NEW v \in Vertices
      PROVE  Longer(f)[v] \in Lengths(f, v) /\ \A l \in Lengths(f, v) : Longer(f)[v] <= l
  <2>1. Lengths(f, v) \subseteq Nat /\ f[v] \in Lengths(f, v)
    BY LengthsAre
  <2>2. \E l \in Lengths(f, v) : \A m \in Lengths(f, v) : l <= m
    <3>1. Lengths(f, v) # {}
      BY <2>1
    <3> QED
      BY <2>1, <3>1, LeastMember
  <2>3. Longer(f)[v] = CHOOSE l \in Lengths(f, v) : \A m \in Lengths(f, v) : l <= m
    BY DEF Longer
  <2> QED
    BY <2>2, <2>3, Zenon
<1>2. Longer(f) = [v \in Vertices |-> Longer(f)[v]]
  BY DEF Longer
<1>3. \A v \in Vertices : Longer(f)[v] \in Nat
  BY <1>1, LengthsAre
<1> QED
  BY <1>1, <1>2, <1>3

\* No length is below the distance, and none above INF.
Between(f) == f \in [Vertices -> Nat] /\ \A v \in Vertices : dist[v] <= f[v] /\ f[v] <= INF

\* One more edge keeps that, and makes no length longer.
LEMMA LongerBetween ==
  ASSUME SearchInv, at \in {"trace", "return"}, NEW f, Between(f)
  PROVE  Between(Longer(f)) /\ \A v \in Vertices : Longer(f)[v] <= f[v]
<1>1. SearchTypeOK /\ f \in [Vertices -> Nat] /\ Longer(f) \in [Vertices -> Nat]
  BY LongerIsLeast DEF SearchInv, Between
<1>2. ASSUME NEW v \in Vertices
      PROVE  dist[v] <= Longer(f)[v] /\ Longer(f)[v] <= INF /\ Longer(f)[v] <= f[v]
  <2>1. PICK d : d = Longer(f)[v]
    OBVIOUS
  <2>2. d \in Nat /\ dist[v] \in Nat /\ dist[v] <= INF /\ f[v] \in Nat /\ f[v] <= INF /\ dist[v] <= f[v]
    BY <1>1, <2>1, DistType DEF Between
  <2>3. d <= f[v]
    BY <1>1, <2>1, LengthsAre, LongerIsLeast
  <2>4. d = f[v] \/ \E x \in Vertices : \E e \in EdgesOf(x) : e.to = v /\ d = f[x] + e.weight
    BY <1>1, <2>1, LengthsAre, LongerIsLeast
  <2>5. ASSUME NEW x \in Vertices, NEW e \in EdgesOf(x), e.to = v, d = f[x] + e.weight
        PROVE  dist[v] <= d
    <3>1. e.weight \in Nat
      BY <1>1, EdgeType DEF EdgesOf
    <3>2. dist[x] \in Nat /\ dist[x] <= INF /\ f[x] \in Nat /\ dist[x] <= f[x]
      BY <1>1, DistType DEF Between
    <3>3. dist[x] < INF => dist[v] <= dist[x] + e.weight
      BY <2>5, InvCertifies DEF Certified
    <3> QED
      BY <2>2, <2>5, <3>1, <3>2, <3>3, GraphAssumption
  <2>6. dist[v] <= d
    BY <2>2, <2>4, <2>5
  <2> QED
    BY <2>1, <2>2, <2>3, <2>6, GraphAssumption
<1> QED
  BY <1>1, <1>2 DEF Between

\* Reach, one value after another.
LEMMA ReachValues ==
  /\ Reach[0] = AtSource
  /\ \A k \in 0 .. m_size : k # 0 => k - 1 \in 0 .. m_size /\ Reach[k] = Longer(Reach[k - 1])
<1>1. 0 \in 0 .. m_size /\ \A k \in 0 .. m_size : k # 0 => k - 1 \in 0 .. m_size
  BY GraphAssumption
<1> QED
  BY <1>1, ReachFollows DEF Follows

\* Every value of Reach lies between the distance and INF.
LEMMA ReachBetween ==
  ASSUME SearchInv, at \in {"trace", "return"}
  PROVE  \A k \in 0 .. m_size : Between(Reach[k])
<1>1. PICK T : T = {k \in 0 .. m_size : ~ Between(Reach[k])}
  OBVIOUS
<1>2. CASE T = {}
  BY <1>1, <1>2
<1>3. CASE T # {}
  <2>1. PICK k \in T : \A j \in T : k <= j
    <3>1. T \subseteq Nat
      BY <1>1
    <3> QED
      BY <3>1, <1>3, LeastMember
  <2>2. k \in 0 .. m_size /\ ~ Between(Reach[k])
    BY <1>1
  <2>3. CASE k = 0
    <3>1. Between(AtSource)
      <4>1. SearchTypeOK /\ dist[src] = 0 /\ INF \in Nat
        BY GraphAssumption DEF SearchInv, Rooted
      <4>2. \A v \in Vertices : dist[v] \in Nat /\ dist[v] <= INF
        BY <4>1, DistType
      <4> QED
        BY <4>1, <4>2 DEF Between, AtSource
    <3> QED
      BY <2>2, <2>3, <3>1, ReachValues
  <2>4. CASE k # 0
    <3>1. k - 1 \in 0 .. m_size /\ Reach[k] = Longer(Reach[k - 1])
      BY <2>2, <2>4, ReachValues
    <3>2. k - 1 \notin T
      BY <2>1, <2>2, GraphAssumption
    <3>3. Between(Reach[k - 1])
      BY <1>1, <3>1, <3>2
    <3> QED
      BY <2>2, <3>1, <3>3, LongerBetween
  <2> QED
    BY <2>3, <2>4
<1> QED
  BY <1>2, <1>3

\* The vertices whose shortest walk has at most k edges.
Settled(k) == {v \in Vertices : Reach[k][v] = dist[v]}

\* The lengths of a shortest walk are the distances of its vertices.
LEMMA WalkIsTight ==
  ASSUME SearchInv, at = "return", NEW w, NEW l, Walk(w, l), End(l) = dist[End(w)], End(l) < INF
  PROVE  \A i \in 1 .. Len(w) : dist[w[i]] = l[i] /\ l[i] < INF
<1>1. SearchTypeOK
  BY DEF SearchInv
<1>2. PICK n \in Nat \ {0} : n = Len(w)
  BY DEF Walk
<1>3. /\ w \in Seq(Vertices) /\ l \in Seq(Nat) /\ Len(l) = n
      /\ \A i \in 1 .. n : w[i] \in Vertices /\ l[i] \in Nat
      /\ dist[w[n]] = l[n] /\ l[n] < INF
  BY <1>2 DEF Walk, End
<1>4. PICK T : T = {i \in 0 .. n - 1 : ~ (dist[w[n - i]] = l[n - i] /\ l[n - i] < INF)}
  OBVIOUS
<1>5. CASE T = {}
  <2>1. ASSUME NEW i \in 1 .. n PROVE dist[w[i]] = l[i] /\ l[i] < INF
    <3>1. n - i \in 0 .. n - 1 /\ n - (n - i) = i
      BY <1>2
    <3> QED
      BY <1>4, <1>5, <3>1
  <2> QED
    BY <1>2, <2>1
<1>6. CASE T # {}
  <2>1. PICK i \in T : \A j \in T : i <= j
    <3>1. T \subseteq Nat
      BY <1>2, <1>4
    <3> QED
      BY <3>1, <1>6, LeastMember
  <2>2. i \in 0 .. n - 1 /\ ~ (dist[w[n - i]] = l[n - i] /\ l[n - i] < INF)
    BY <1>4
  <2>3. i # 0
    BY <1>3, <2>2
  <2>4. PICK j \in 1 .. n - 1 : j = n - i
    <3>1. i \in Int /\ i >= 1 /\ i <= n - 1 /\ n \in Int
      BY <1>2, <2>2, <2>3
    <3>2. n - i \in 1 .. n - 1
      BY <3>1
    <3> QED
      BY <3>2
  <2>5. dist[w[j + 1]] = l[j + 1] /\ l[j + 1] < INF
    <3>1. i - 1 \in 0 .. n - 1 /\ i - 1 \notin T /\ n - (i - 1) = j + 1
      BY <1>2, <2>1, <2>2, <2>3, <2>4
    <3> QED
      BY <1>4, <3>1
  <2>6. PICK e \in EdgesOf(w[j]) : e.to = w[j + 1] /\ l[j + 1] = l[j] + e.weight
    BY <1>2, <2>4 DEF Walk
  <2>7. w[j] \in Vertices /\ w[j + 1] \in Vertices /\ l[j] \in Nat /\ l[j + 1] \in Nat
    BY <1>2, <1>3, <2>4
  <2>8. e.weight \in Nat /\ dist[w[j]] \in Nat /\ dist[w[j]] <= INF
    BY <1>1, <2>7, EdgeType, DistType DEF EdgesOf
  <2>9. dist[w[j]] < INF => dist[w[j + 1]] <= dist[w[j]] + e.weight
    BY <2>6, <2>7, InvCertifies DEF Certified
  <2>10. dist[w[j]] <= l[j]
    <3>1. PICK x : x = [a \in 1 .. j |-> w[a]]
      OBVIOUS
    <3>2. PICK y : y = [a \in 1 .. j |-> l[a]]
      OBVIOUS
    <3>3. x \in Seq(Vertices) /\ y \in Seq(Nat) /\ Len(x) = j /\ Len(y) = j
          /\ \A a \in 1 .. j : x[a] = w[a] /\ y[a] = l[a]
      <4>1. j \in Nat /\ \A a \in 1 .. j : a \in 1 .. n
        BY <1>2, <2>4
      <4> QED
        BY <1>3, <3>1, <3>2, <4>1
    <3>4. Walk(x, y)
      <4>1. \A a \in 1 .. j - 1 : a \in 1 .. j /\ a + 1 \in 1 .. j /\ a \in 1 .. n - 1
        BY <1>2, <2>4
      <4>2. \A a \in 1 .. Len(x) - 1 : \E f \in EdgesOf(x[a]) : f.to = x[a + 1] /\ y[a + 1] = y[a] + f.weight
        <5> SUFFICES ASSUME NEW a \in 1 .. j - 1
                     PROVE  \E f \in EdgesOf(x[a]) : f.to = x[a + 1] /\ y[a + 1] = y[a] + f.weight
          BY <3>3
        <5>1. x[a] = w[a] /\ x[a + 1] = w[a + 1] /\ y[a] = l[a] /\ y[a + 1] = l[a + 1]
          BY <3>3, <4>1
        <5>2. \E f \in EdgesOf(w[a]) : f.to = w[a + 1] /\ l[a + 1] = l[a] + f.weight
          BY <1>2, <4>1 DEF Walk
        <5> QED
          BY <5>1, <5>2
      <4>3. 1 \in 1 .. j /\ x # <<>>
        BY <2>4, <3>3
      <4> QED
        BY <3>3, <4>2, <4>3 DEF Walk
    <3>5. End(x) = w[j] /\ End(y) = l[j]
      BY <2>4, <3>3 DEF End
    <3> QED
      BY <3>4, <3>5, NoWalkShorter
  <2> QED
    BY <2>2, <2>4, <2>5, <2>6, <2>7, <2>8, <2>9, <2>10, GraphAssumption
<1> QED
  BY <1>5, <1>6

\* The walk of no edge is a shortest one.
LEMMA SourceSettled ==
  ASSUME SearchInv, at = "return"
  PROVE  \A k \in 0 .. m_size : src \in Settled(k)
<1>1. src \in Vertices /\ dist[src] = 0 /\ m_size \in Nat
  BY GraphAssumption DEF SearchInv, Rooted, SearchTypeOK
<1>2. PICK T : T = {k \in 0 .. m_size : src \notin Settled(k)}
  OBVIOUS
<1>3. CASE T = {}
  BY <1>2, <1>3
<1>4. CASE T # {}
  <2>1. PICK k \in T : \A j \in T : k <= j
    <3>1. T \subseteq Nat
      BY <1>2
    <3> QED
      BY <3>1, <1>4, LeastMember
  <2>2. k \in 0 .. m_size /\ src \notin Settled(k)
    BY <1>2
  <2>3. k # 0
    BY <1>1, <2>2, ReachValues DEF Settled, AtSource
  <2>4. k - 1 \in 0 .. m_size /\ Reach[k] = Longer(Reach[k - 1])
    BY <2>2, <2>3, ReachValues
  <2>5. k - 1 \notin T
    BY <2>1, <2>2, <1>1
  <2>6. Reach[k - 1][src] = 0
    BY <1>1, <1>2, <2>4, <2>5 DEF Settled
  <2>7. Reach[k][src] <= 0 /\ Reach[k][src] \in Nat
    <3>1. Between(Reach[k - 1]) /\ Between(Reach[k])
      BY <2>2, <2>4, ReachBetween
    <3> QED
      BY <1>1, <2>4, <2>6, <3>1, LongerBetween DEF Between
  <2> QED
    BY <1>1, <2>2, <2>7 DEF Settled
<1> QED
  BY <1>3, <1>4

\* A vertex settled stays settled, and while one is not another one is settled with the
\* next edge: the first one on a shortest walk to it.
LEMMA SettledGrows ==
  ASSUME SearchInv, Attained, at = "return", NEW k \in 0 .. m_size, k # 0
  PROVE  /\ Settled(k - 1) \subseteq Settled(k)
         /\ Settled(k - 1) # Vertices => Settled(k) # Settled(k - 1)
<1>1. SearchTypeOK
  BY DEF SearchInv
<1>2. PICK f : f = Reach[k - 1]
  OBVIOUS
<1>3. PICK g : g = Reach[k]
  OBVIOUS
<1>4. k - 1 \in 0 .. m_size /\ g = Longer(f)
  BY <1>2, <1>3, ReachValues
<1>5. Between(f) /\ Between(g) /\ \A v \in Vertices : g[v] <= f[v]
  BY <1>2, <1>3, <1>4, ReachBetween, LongerBetween
<1>6. /\ f \in [Vertices -> Nat]
      /\ \A v \in Vertices : dist[v] \in Nat /\ f[v] \in Nat /\ g[v] \in Nat
                             /\ dist[v] <= f[v] /\ f[v] <= INF /\ dist[v] <= g[v] /\ g[v] <= f[v]
  BY <1>1, <1>5, DistType DEF Between
<1>7. Settled(k - 1) = {v \in Vertices : f[v] = dist[v]} /\ Settled(k) = {v \in Vertices : g[v] = dist[v]}
  BY <1>2, <1>3 DEF Settled
<1>8. Settled(k - 1) \subseteq Settled(k)
  BY <1>6, <1>7
<1>9. ASSUME NEW v \in Vertices, v \notin Settled(k - 1)
      PROVE  \E x \in Settled(k) : x \notin Settled(k - 1)
  <2>1. dist[v] < INF
    BY <1>6, <1>7, <1>9, GraphAssumption
  <2>2. PICK w, l : Walk(w, l) /\ End(w) = v /\ End(l) = dist[v]
    BY <2>1 DEF Attained
  <2>3. PICK n \in Nat \ {0} : n = Len(w)
    BY <2>2 DEF Walk
  <2>4. \A i \in 1 .. n : w[i] \in Vertices /\ dist[w[i]] = l[i]
    <3>1. \A i \in 1 .. n : w[i] \in Vertices
      BY <2>2, <2>3 DEF Walk
    <3> QED
      BY <2>1, <2>2, <2>3, <3>1, WalkIsTight
  <2>5. PICK T : T = {i \in 1 .. n : w[i] \notin Settled(k - 1)}
    OBVIOUS
  <2>6. n \in T
    BY <1>9, <2>2, <2>3, <2>5 DEF End
  <2>7. PICK i \in T : \A j \in T : i <= j
    <3>1. T \subseteq Nat /\ T # {}
      BY <2>5, <2>6
    <3> QED
      BY <3>1, LeastMember
  <2>8. i \in 1 .. n /\ w[i] \notin Settled(k - 1)
    BY <2>5
  <2>9. i # 1
    <3>1. src \in Settled(k - 1)
      BY <1>4, SourceSettled
    <3> QED
      BY <2>2, <2>8, <3>1 DEF Walk
  <2>10. PICK j \in 1 .. n - 1 : i = j + 1
    <3>1. i - 1 \in 1 .. n - 1 /\ i = (i - 1) + 1
      BY <2>3, <2>8, <2>9
    <3> QED
      BY <3>1
  <2>11. j \in 1 .. n /\ w[j] \in Settled(k - 1)
    BY <2>3, <2>5, <2>7, <2>10
  <2>12. PICK e \in EdgesOf(w[j]) : e.to = w[i] /\ l[i] = l[j] + e.weight
    BY <2>2, <2>3, <2>10 DEF Walk
  <2>13. f[w[j]] = l[j] /\ w[j] \in Vertices /\ w[i] \in Vertices /\ dist[w[i]] = l[i]
    BY <1>7, <2>4, <2>8, <2>11
  <2>14. f[w[j]] + e.weight \in Lengths(f, w[i])
    BY <1>1, <1>6, <2>12, <2>13, LengthsAre
  <2>15. g[w[i]] <= dist[w[i]]
    BY <1>1, <1>4, <1>6, <2>12, <2>13, <2>14, LongerIsLeast
  <2>16. w[i] \in Settled(k)
    BY <1>6, <1>7, <2>13, <2>15
  <2> QED
    BY <2>8, <2>16
<1>10. Settled(k - 1) \subseteq Vertices
  BY DEF Settled
<1> QED
  BY <1>8, <1>9, <1>10

\* With one more edge, one more vertex, until there is none left.
LEMMA AllSettled == ASSUME SearchInv, Attained, at = "return" PROVE Settled(m_size) = Vertices
<1>1. m_size \in Nat \ {0} /\ IsFiniteSet(Vertices) /\ Cardinality(Vertices) = m_size
  BY GraphAssumption, FS_Interval DEF Vertices
<1>2. \A k : Settled(k) \subseteq Vertices /\ IsFiniteSet(Settled(k)) /\ Cardinality(Settled(k)) \in Nat
             /\ Cardinality(Settled(k)) <= m_size
  <2>1. \A k : Settled(k) \in SUBSET Vertices
    BY DEF Settled
  <2> QED
    BY <1>1, <2>1, FS_Subset, FS_CardinalityType
<1>3. PICK T : T = {k \in 0 .. m_size : ~ (Settled(k) = Vertices \/ k < Cardinality(Settled(k)))}
  OBVIOUS
<1>4. CASE T = {}
  <2>1. m_size \in 0 .. m_size
    BY <1>1
  <2>2. Settled(m_size) = Vertices \/ m_size < Cardinality(Settled(m_size))
    BY <1>3, <1>4, <2>1
  <2> QED
    BY <1>1, <1>2, <2>2
<1>5. CASE T # {}
  <2>1. PICK k \in T : \A j \in T : k <= j
    <3>1. T \subseteq Nat
      BY <1>3
    <3> QED
      BY <3>1, <1>5, LeastMember
  <2>2. k \in 0 .. m_size /\ Settled(k) # Vertices /\ ~ (k < Cardinality(Settled(k)))
    BY <1>3
  <2>3. CASE k = 0
    <3>1. src \in Settled(0)
      <4>1. src \in Vertices /\ dist[src] = 0
        BY DEF SearchInv, Rooted, SearchTypeOK
      <4> QED
        BY <4>1, ReachValues DEF Settled, AtSource
    <3>2. Cardinality(Settled(0)) # 0
      BY <1>2, <3>1, FS_EmptySet
    <3> QED
      BY <1>2, <2>2, <2>3, <3>2
  <2>4. CASE k # 0
    <3>1. k - 1 \in 0 .. m_size /\ k - 1 \notin T
      BY <1>1, <2>1, <2>2, <2>4
    <3>2. Settled(k - 1) = Vertices \/ k - 1 < Cardinality(Settled(k - 1))
      BY <1>3, <3>1
    <3>3. /\ Settled(k - 1) \subseteq Settled(k)
          /\ Settled(k - 1) # Vertices => Settled(k) # Settled(k - 1)
      BY <2>2, <2>4, SettledGrows
    <3>4. Settled(k - 1) # Vertices
      BY <1>2, <2>2, <3>3
    <3>5. Cardinality(Settled(k - 1)) <= Cardinality(Settled(k))
          /\ Cardinality(Settled(k - 1)) # Cardinality(Settled(k))
      <4>1. Settled(k - 1) \in SUBSET Settled(k)
        BY <3>3
      <4> QED
        BY <1>2, <3>3, <3>4, <4>1, FS_Subset
    <3> QED
      BY <1>2, <2>2, <3>2, <3>4, <3>5
  <2> QED
    BY <2>3, <2>4
<1> QED
  BY <1>4, <1>5

\* The distances found are the lengths that the reference definition computes.
LEMMA DistancesAreReach == ASSUME SearchInv, Attained, at = "return" PROVE dist = Reach[m_size]
<1>1. m_size \in 0 .. m_size
  BY GraphAssumption
<1>2. Reach[m_size] \in [Vertices -> Nat]
  BY <1>1, ReachBetween DEF Between
<1>3. dist \in [Vertices -> 0 .. INF]
  BY DEF SearchInv, SearchTypeOK
<1>4. \A v \in Vertices : Reach[m_size][v] = dist[v]
  BY AllSettled DEF Settled
<1> QED
  BY <1>2, <1>3, <1>4

\* The lightest edge between two vertices is any that is not heavier than another.
LEMMA LightestIs ==
  ASSUME SearchTypeOK, NEW x \in Vertices, NEW y, NEW e \in EdgesOf(x), e.to = y,
         \A f \in EdgesOf(x) : f.to = y => e.weight <= f.weight
  PROVE  Lightest(x, y) = e.weight
<1>1. \A f \in EdgesOf(x) : f \in Edges
  <2>1. m_edges[x] \in Seq(Edges)
    BY DEF SearchTypeOK
  <2>2. \A i \in DOMAIN m_edges[x] : m_edges[x][i] \in Edges
    BY <2>1
  <2> QED
    BY <2>2 DEF EdgesOf
<1>2. Weights \subseteq Nat /\ e.weight \in Weights /\ e = [to |-> y, weight |-> e.weight]
  BY <1>1, GraphAssumption DEF Edges
<1>3. PICK W : W = {w \in Weights : [to |-> y, weight |-> w] \in EdgesOf(x)
                                    /\ \A f \in EdgesOf(x) : f.to = y => w <= f.weight}
  OBVIOUS
<1>4. e.weight \in W
  BY <1>2, <1>3
<1>5. ASSUME NEW w \in W PROVE w = e.weight
  <2>1. w \in Weights /\ [to |-> y, weight |-> w] \in EdgesOf(x) /\ w <= e.weight
    BY <1>3
  <2>2. PICK f \in EdgesOf(x) : f = [to |-> y, weight |-> w]
    BY <2>1
  <2>3. e.weight <= w
    BY <2>2
  <2> QED
    BY <1>2, <2>1, <2>3
<1>6. \A w \in Weights : w = e.weight <=>
         /\ [to |-> y, weight |-> w] \in EdgesOf(x)
         /\ \A f \in EdgesOf(x) : f.to = y => w <= f.weight
  BY <1>3, <1>4, <1>5
<1>7. Lightest(x, y) = CHOOSE w \in Weights :
         /\ [to |-> y, weight |-> w] \in EdgesOf(x)
         /\ \A f \in EdgesOf(x) : f.to = y => w <= f.weight
  BY Zenon DEF Lightest
<1> QED
  BY <1>2, <1>6, <1>7

\* The edge before each vertex printed is the lightest one, and as long as the step.
LEMMA PrintedEdges ==
  ASSUME SearchInv, TraceOK, at = "return", dist[des] # INF
  PROVE  /\ Printed[1] = src /\ dist[src] = 0 /\ Len(Printed) \in Nat \ {0} /\ Printed[Len(Printed)] = des
         /\ \A i \in 1 .. Len(Printed) : Printed[i] \in Vertices /\ dist[Printed[i]] \in Nat
         /\ \A i \in 1 .. Len(Printed) - 1 :
              /\ Lightest(Printed[i], Printed[i + 1]) \in Nat
              /\ dist[Printed[i + 1]] = dist[Printed[i]] + Lightest(Printed[i], Printed[i + 1])
<1>1. SearchTypeOK /\ result \in Seq(Vertices) /\ des \in Vertices /\ dist[src] = 0 /\ path[src] = INF
  BY DEF SearchInv, TraceOK, Rooted
<1>2. /\ Len(Printed) = Len(result) + 1 /\ Len(result) \in Nat
      /\ Printed[Len(Printed)] = des /\ \A i \in 1 .. Len(Printed) : Printed[i] \in Vertices
  BY <1>1 DEF Printed
<1>3. PICK l : l = [i \in 1 .. Len(Printed) |-> dist[Printed[i]]]
  OBVIOUS
<1>4. Walk(Printed, l)
  BY <1>3, PrintedIsWalk
<1>5. \A i \in 1 .. Len(Printed) : dist[Printed[i]] \in Nat
  BY <1>1, <1>2, DistType
<1>6. ASSUME NEW i \in 1 .. Len(Printed) - 1
      PROVE  /\ Lightest(Printed[i], Printed[i + 1]) \in Nat
             /\ dist[Printed[i + 1]] = dist[Printed[i]] + Lightest(Printed[i], Printed[i + 1])
  <2>1. i \in 1 .. Len(Printed) /\ i + 1 \in 1 .. Len(Printed)
    BY <1>2
  <2>2. PICK x \in Vertices, y \in Vertices : x = Printed[i] /\ y = Printed[i + 1]
    BY <1>2, <2>1
  <2>3. PICK e \in EdgesOf(x) : e.to = y /\ dist[y] = dist[x] + e.weight
    BY <1>3, <1>4, <2>1, <2>2 DEF Walk
  <2>4. dist[x] < INF
    <3>1. CASE i = 1
      <4>1. x = src
        BY <1>4, <2>2, <3>1 DEF Walk
      <4> QED
        BY <1>1, <4>1, GraphAssumption
    <3>2. CASE i # 1
      <4>1. PICK j \in 1 .. Len(result) : i = j + 1
        <5>1. i - 1 \in 1 .. Len(result) /\ i = (i - 1) + 1
          BY <1>2, <3>2
        <5> QED
          BY <5>1
      <4>2. path[x] = Printed[j] /\ Printed[j] \in Vertices
        BY <1>2, <2>2, <4>1 DEF TraceOK
      <4>3. path[x] # INF
        BY <4>2, GraphAssumption DEF Vertices
      <4> QED
        BY <1>1, <4>3 DEF SearchInv, InTree
    <3> QED
      BY <3>1, <3>2
  <2>5. dist[x] \in Nat /\ e.weight \in Nat /\ \A f \in EdgesOf(x) : f.weight \in Nat
    BY <1>1, EdgeType, DistType DEF EdgesOf
  <2>6. \A f \in EdgesOf(x) : f.to = y => dist[y] <= dist[x] + f.weight
    BY <2>4, InvCertifies DEF Certified
  <2>7. \A f \in EdgesOf(x) : f.to = y => e.weight <= f.weight
    BY <2>3, <2>5, <2>6
  <2>8. Lightest(x, y) = e.weight
    BY <1>1, <2>3, <2>7, LightestIs
  <2> QED
    BY <2>2, <2>3, <2>5, <2>8
<1> QED
  BY <1>1, <1>2, <1>4, <1>5, <1>6 DEF Walk

\* The function Length of ShortestPaths is defined to be, in terms of itself.
LengthBody(walk, f) ==
  [i \in 1 .. Len(walk) |-> IF i = 1 THEN 0 ELSE f[i - 1] + Lightest(walk[i - 1], walk[i])]

\* The length of the first i edges printed is the distance of the vertex they lead to.
LEMMA LengthIsDistance ==
  ASSUME SearchInv, TraceOK, at = "return", dist[des] # INF, NEW f, f = LengthBody(Printed, f)
  PROVE  \A i \in 1 .. Len(Printed) : f[i] = dist[Printed[i]]
<1>1. PICK n \in Nat \ {0} : n = Len(Printed)
  BY PrintedEdges
<1>2. \A i \in 1 .. n : f[i] = IF i = 1 THEN 0 ELSE f[i - 1] + Lightest(Printed[i - 1], Printed[i])
  BY <1>1 DEF LengthBody
<1>3. PICK T : T = {i \in 1 .. n : f[i] # dist[Printed[i]]}
  OBVIOUS
<1>4. CASE T = {}
  BY <1>1, <1>3, <1>4
<1>5. CASE T # {}
  <2>1. PICK i \in T : \A j \in T : i <= j
    <3>1. T \subseteq Nat
      BY <1>3
    <3> QED
      BY <3>1, <1>5, LeastMember
  <2>2. i \in 1 .. n /\ f[i] # dist[Printed[i]]
    BY <1>3
  <2>3. i # 1
    BY <1>2, <2>2, PrintedEdges
  <2>4. PICK j \in 1 .. n - 1 : i = j + 1
    <3>1. i - 1 \in 1 .. n - 1 /\ i = (i - 1) + 1
      BY <2>2, <2>3
    <3> QED
      BY <3>1
  <2>5. j \in 1 .. n /\ f[j] = dist[Printed[j]] /\ i - 1 = j
    BY <1>3, <2>1, <2>4
  <2>6. f[i] = f[j] + Lightest(Printed[j], Printed[i])
    BY <1>2, <2>2, <2>3, <2>5
  <2>7. dist[Printed[j + 1]] = dist[Printed[j]] + Lightest(Printed[j], Printed[j + 1])
    BY <1>1, <2>4, PrintedEdges
  <2> QED
    BY <2>2, <2>4, <2>5, <2>6, <2>7
<1> QED
  BY <1>4, <1>5

\* The distances are such a function.
LEMMA LengthExists ==
  ASSUME SearchInv, TraceOK, at = "return", dist[des] # INF
  PROVE  \E f : f = LengthBody(Printed, f)
<1>1. PICK n \in Nat \ {0} : n = Len(Printed)
  BY PrintedEdges
<1>2. PICK f : f = [i \in 1 .. n |-> dist[Printed[i]]]
  OBVIOUS
<1>3. ASSUME NEW i \in 1 .. n
      PROVE  f[i] = IF i = 1 THEN 0 ELSE f[i - 1] + Lightest(Printed[i - 1], Printed[i])
  <2>1. CASE i = 1
    BY <1>2, <2>1, PrintedEdges
  <2>2. CASE i # 1
    <3>1. i - 1 \in 1 .. n - 1 /\ (i - 1) + 1 = i /\ i - 1 \in 1 .. n
      BY <2>2
    <3>2. dist[Printed[i]] = dist[Printed[i - 1]] + Lightest(Printed[i - 1], Printed[i])
      BY <1>1, <3>1, PrintedEdges
    <3> QED
      BY <1>2, <2>2, <3>1, <3>2
  <2> QED
    BY <2>1, <2>2
<1>4. f = [i \in 1 .. n |-> IF i = 1 THEN 0 ELSE f[i - 1] + Lightest(Printed[i - 1], Printed[i])]
  BY <1>2, <1>3
<1> QED
  BY <1>1, <1>4 DEF LengthBody

\* Both parts together.
LEMMA ShortestPathsHold ==
  ASSUME SearchInv, Attained, TraceOK PROVE ShortestPaths
<1> SUFFICES ASSUME at = "return" PROVE ShortestPaths
  BY DEF ShortestPaths
<1>1. dist = Reach[m_size]
  BY DistancesAreReach
<1>2. dist[des] = INF => result = <<>>
  BY PrintedIsWalk
<1>3. ASSUME dist[des] # INF
      PROVE  Printed[1] = src /\ (CHOOSE f : f = LengthBody(Printed, f))[Len(Printed)] = dist[des]
  <2>1. PICK g : g = CHOOSE f : f = LengthBody(Printed, f)
    OBVIOUS
  <2>2. g = LengthBody(Printed, g)
    BY <1>3, <2>1, LengthExists, Zenon
  <2>3. Len(Printed) \in 1 .. Len(Printed)
    BY <1>3, PrintedEdges
  <2>4. g[Len(Printed)] = dist[Printed[Len(Printed)]]
    BY <1>3, <2>2, <2>3, LengthIsDistance
  <2> QED
    BY <1>3, <2>1, <2>4, PrintedEdges
<1> QED
  BY <1>1, <1>2, <1>3, Zenon DEF ShortestPaths, Printed, LengthBody

\* ShortPath and GetPath, in every graph: the distances are those the recursion over the
\* number of edges computes, and what GetPath prints is a path from src as long as the
\* distance of des, by the lightest edges.
THEOREM SearchIsCorrect == SearchSpec => []ShortestPaths
<1>1. SearchInv /\ Attained /\ TraceOK => ShortestPaths
  BY ShortestPathsHold
<1> QED
  BY <1>1, SearchInvariant, PTL
=============================================================================
