------------------------------ MODULE Dijkstra ------------------------------
(***************************************************************************)
(* pathserver/dijkstra.cpp: shortest paths on the adjacency lists of       *)
(* pathserver/graph.cpp. A vertex is pushed each time its distance drops;  *)
(* what was pushed before stays in the queue and is popped like the rest.  *)
(***************************************************************************)
EXTENDS Integers, Sequences, FiniteSets

CONSTANTS
  m_size,
  INF,      \* 2016062613 in the code: no distance, and no predecessor
  Weights,  \* the weights of edges
  MaxEdges  \* BOUND: edges added in a run

\* A vertex is never taken for INF. (dist[u] + w is below INF + w, which an int holds
\* for every weight up to 131421034.)
ASSUME GraphAssumption ==
  /\ m_size \in Nat \ {0} /\ INF \in Nat /\ m_size <= INF
  /\ Weights \subseteq Nat /\ MaxEdges \in Nat

Vertices == 0 .. m_size - 1
Edges == [to : Vertices, weight : Weights]

VARIABLES
  m_edges, added, \* the lists of the graph, the edges added so far
  at,             \* where main and the function it calls are
  src, dist, path,
  prio_queue,     \* pairs of a distance and a vertex; no pair is pushed twice
  u, iter,        \* the vertex that was popped, the edge looked at next
  des, index, result

graphVars == <<m_edges, added>>
queueState == <<dist, path, prio_queue>>
loopVars == <<u, iter>>
traceVars == <<des, index, result>>
searchVars == <<graphVars, at, src, queueState, loopVars, traceVars>>

\* Graph(sz)
SearchInit ==
  /\ m_edges = [v \in Vertices |-> <<>>] /\ added = 0
  /\ at = "build" /\ src = 0
  /\ dist = [v \in Vertices |-> INF] /\ path = [v \in Vertices |-> INF] /\ prio_queue = {}
  /\ u = 0 /\ iter = 1
  /\ des = 0 /\ index = 0 /\ result = <<>>

AddEdge(a, b, w) ==
  /\ at = "build" /\ added < MaxEdges
  /\ LET once == [m_edges EXCEPT ![a] = Append(@, [to |-> b, weight |-> w])]
     IN m_edges' = [once EXCEPT ![b] = Append(@, [to |-> a, weight |-> w])]
  /\ added' = added + 1
  /\ UNCHANGED <<at, src, queueState, loopVars, traceVars>>

\* ShortPath and GetPath begin alike, with fresh local variables.
Begin(s) ==
  /\ at = "build"
  /\ src' = s
  /\ prio_queue' = {<<0, s>>}
  /\ dist' = [dist EXCEPT ![s] = 0]
  /\ at' = "pop"
  /\ UNCHANGED <<graphVars, path, loopVars, traceVars>>

\* The order of std::greater on pairs.
NotAbove(p, q) == p[1] < q[1] \/ (p[1] = q[1] /\ p[2] <= q[2])

\* One turn of the outer loop takes the least pair; only its vertex is used.
Pop ==
  /\ at = "pop"
  /\ \E p \in prio_queue :
       /\ \A q \in prio_queue : NotAbove(p, q)
       /\ prio_queue' = prio_queue \ {p}
       /\ u' = p[2]
  /\ iter' = 1
  /\ at' = "edges"
  /\ UNCHANGED <<graphVars, src, dist, path, traceVars>>

\* Mutant of Through: the weight of the last edge only.
ThroughEdge(w) == w
\* The length of the path that ends with an edge from u.
Through(w) == dist[u] + w

\* Mutant of Predecessor: the first one found is kept.
PredecessorFirst(v) == IF path[v] = INF THEN u ELSE path[v]
Predecessor(v) == u

\* One turn of the inner loop.
Relax ==
  /\ at = "edges" /\ iter <= Len(m_edges[u])
  /\ LET v == m_edges[u][iter].to
         d == Through(m_edges[u][iter].weight)
     IN IF dist[v] > d
          THEN /\ dist' = [dist EXCEPT ![v] = d]
               /\ path' = [path EXCEPT ![v] = Predecessor(v)]
               /\ prio_queue' = prio_queue \cup {<<d, v>>}
          ELSE UNCHANGED queueState
  /\ iter' = iter + 1
  /\ UNCHANGED <<graphVars, at, src, u, traceVars>>

EdgesEnd ==
  /\ at = "edges" /\ iter > Len(m_edges[u])
  /\ at' = "pop"
  /\ UNCHANGED <<graphVars, src, queueState, loopVars, traceVars>>

\* ShortPath prints the distances and returns.
ShortPathReturns ==
  /\ at = "pop" /\ prio_queue = {}
  /\ at' = "return"
  /\ des' = src
  /\ UNCHANGED <<graphVars, src, queueState, loopVars, index, result>>

\* GetPath looks at des for the first time.
TraceFrom(d) ==
  /\ at = "pop" /\ prio_queue = {}
  /\ des' = d /\ index' = d
  /\ at' = "trace"
  /\ UNCHANGED <<graphVars, src, queueState, loopVars, result>>

\* The vertex before index goes on the stack, which is printed from its top.
Trace ==
  /\ at = "trace" /\ path[index] # INF
  /\ result' = <<path[index]>> \o result
  /\ index' = path[index]
  /\ UNCHANGED <<graphVars, at, src, queueState, loopVars, des>>

GetPathReturns ==
  /\ at = "trace" /\ path[index] = INF
  /\ at' = "return"
  /\ UNCHANGED <<graphVars, src, queueState, loopVars, traceVars>>

Search ==
  \/ \E s \in Vertices : Begin(s)
  \/ Pop \/ Relax \/ EdgesEnd \/ ShortPathReturns
  \/ \E d \in Vertices : TraceFrom(d)
  \/ Trace \/ GetPathReturns

SearchNext ==
  \/ \E a, b \in Vertices, w \in Weights : AddEdge(a, b, w)
  \/ Search

SearchSpec == SearchInit /\ [][SearchNext]_searchVars

-----------------------------------------------------------------------------
EdgesOf(x) == {m_edges[x][i] : i \in DOMAIN m_edges[x]}

\* When the queue is empty no edge makes a distance shorter, and every vertex but src
\* is as far as its predecessor and the edge between them: the distances are those of
\* shortest paths and path holds a tree of them (ShortPath, GetPath), whatever was
\* popped more than once and in whichever order edges were added.
Certified ==
  at \in {"trace", "return"} =>
    /\ dist[src] = 0 /\ path[src] = INF
    /\ \A x \in Vertices : dist[x] < INF =>
         \A e \in EdgesOf(x) : dist[e.to] <= dist[x] + e.weight
    /\ \A v \in Vertices \ {src} :
         \/ dist[v] = INF /\ path[v] = INF
         \/ \E e \in EdgesOf(path[v]) : e.to = v /\ dist[v] = dist[path[v]] + e.weight

\* The lengths of the shortest walks from src of at most k edges, below INF.
Reach[k \in 0 .. m_size] ==
  IF k = 0 THEN [v \in Vertices |-> IF v = src THEN 0 ELSE INF]
  ELSE [v \in Vertices |->
          LET lengths == {Reach[k - 1][v]} \cup
                UNION {{Reach[k - 1][x] + e.weight : e \in {f \in EdgesOf(x) : f.to = v}} :
                         x \in Vertices}
          IN CHOOSE l \in lengths : \A m \in lengths : l <= m]

\* The weight of the lightest edge between two vertices, of which there is one.
Lightest(x, y) ==
  CHOOSE w \in Weights :
    /\ [to |-> y, weight |-> w] \in EdgesOf(x)
    /\ \A e \in EdgesOf(x) : e.to = y => w <= e.weight

\* What GetPath prints are the vertices of a shortest path from src to des, des left
\* out, or nothing when there is no path shorter than INF.
ShortestPaths ==
  at = "return" =>
    LET walk == Append(result, des)
        Length[i \in 1 .. Len(walk)] ==
          IF i = 1 THEN 0 ELSE Length[i - 1] + Lightest(walk[i - 1], walk[i])
    IN /\ dist = Reach[m_size]
       /\ IF dist[des] = INF THEN result = <<>>
          ELSE walk[1] = src /\ Length[Len(walk)] = dist[des]
=============================================================================
