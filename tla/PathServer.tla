----------------------------- MODULE PathServer ------------------------------
(***************************************************************************)
(* pathserver/main.cpp: main builds a graph, has paths searched on it, and *)
(* then creates a thread pool and submits its tasks. The pool is used as   *)
(* any program may use it: it can be destroyed at any time.                *)
(***************************************************************************)
EXTENDS ThreadPool, Dijkstra

pathServerVars == <<vars, searchVars>>

PathServerInit == Init /\ SearchInit

Searching == SearchNext /\ UNCHANGED vars

\* Main goes on to the pool; it looks at no graph and no result again.
SearchEnds ==
  /\ at = "return"
  /\ at' = "pool"
  /\ m_edges' = [v \in Vertices |-> <<>>] /\ added' = 0 /\ src' = 0
  /\ dist' = [v \in Vertices |-> INF] /\ path' = dist' /\ prio_queue' = {}
  /\ u' = 0 /\ iter' = 1 /\ des' = 0 /\ index' = 0 /\ result' = <<>>
  /\ UNCHANGED vars

Pooling == at = "pool" /\ Next /\ UNCHANGED searchVars

PathServerNext == Searching \/ SearchEnds \/ Pooling

InPool(A) == at = "pool" /\ A /\ UNCHANGED searchVars

\* All threads run; main ends its searches, creates the pool, submits its tasks and
\* goes on in a destructor or constructor that it has begun.
PathServerSpec ==
  /\ PathServerInit /\ [][PathServerNext]_pathServerVars
  /\ WF_pathServerVars(Searching \/ SearchEnds)
  /\ WF_pathServerVars(InPool(CreateThread \/ Submit \/ Join \/ Gone))
  /\ \A w \in Workers : WF_pathServerVars(InPool(Work(w)))

-----------------------------------------------------------------------------
\* Both searches end and all tasks main submits are started, unless the pool cannot
\* be created or is destroyed: no worker stops early, none waits for what is there.
TasksStarted == <>(Len(started) = MaxSubmit \/ m_done)
=============================================================================
