\* Graphs of four vertices and up to three edges, loops and parallel edges included,
\* with distances beyond INF. Then three workers and three tasks; the pool fails to start
\* or is destroyed at any time, and nothing happens after that.
SPECIFICATION PathServerSpec
CONSTANTS
  thread_count = 3
  MaxSubmit = 3
  m_size = 4
  INF = 5
  Weights = {1, 3}
  MaxEdges = 3
INVARIANT RunOnce
INVARIANT OutlivesWorkers
INVARIANT Certified
INVARIANT ShortestPaths
PROPERTY TasksStarted
PROPERTY DestructorEnds
CHECK_DEADLOCK FALSE
