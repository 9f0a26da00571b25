----------------------------- MODULE ThreadPool -----------------------------
(***************************************************************************)
(* core/thread_pool.h: the workers, the thread that creates, uses and      *)
(* destroys the pool, and the pool's ThreadSafeQueue of tasks. PathServer  *)
(* uses it and says what is fair.                                          *)
(***************************************************************************)
EXTENDS Integers, Sequences, FiniteSets

CONSTANTS
  thread_count, \* threads of the pool, at least two
  MaxSubmit     \* BOUND: tasks submitted in a run

ASSUME PoolAssumption == MaxSubmit \in Nat /\ thread_count \in Nat \ {0, 1}

Workers == 1 .. thread_count

VARIABLES
  m_queue, submitted, started, \* the queue, tasks pushed and popped so far
  m_done,
  threads,  \* m_threads: workers created so far
  owner,    \* where the thread that owns the pool is
  joined,   \* threads ~ThreadJoin has joined
  pc, task  \* where each worker is, and the task it holds

queueVars == <<m_queue, submitted, started>>
ownerVars == <<m_done, threads, owner, joined>>
vars == <<queueVars, ownerVars, pc, task>>

\* Nobody waits on the condition variable: workers only try_pop.
Queue == INSTANCE ThreadSafeQueue WITH
  Consumers <- Workers, MaxPush <- MaxSubmit, MaxThrows <- 0, thrown <- 0,
  waiting <- {}, woken <- {}, count <- submitted, taken <- started

Init ==
  /\ Queue!Init
  /\ m_done = FALSE
  /\ threads = 0
  /\ owner = "create"
  /\ joined = 0
  /\ pc = [w \in Workers |-> "none"]
  /\ task = [w \in Workers |-> 0]

\* The constructor starts its threads one by one ...
CreateThread ==
  /\ owner = "create" /\ threads < thread_count
  /\ threads' = threads + 1
  /\ pc' = [pc EXCEPT ![threads'] = "check"]
  /\ owner' = IF threads' < thread_count THEN "create" ELSE "use"
  /\ UNCHANGED <<queueVars, m_done, joined, task>>

\* Mutant of Cancel: the constructor rethrows and tells nobody.
CancelSilently == UNCHANGED m_done
\* The workers are told to stop.
Cancel == m_done' = TRUE

\* ... and when one cannot be started it throws, which destroys the members.
CreateFails ==
  /\ owner = "create"
  /\ Cancel
  /\ owner' = "join"
  /\ UNCHANGED <<queueVars, threads, joined, pc, task>>

Submit ==
  /\ owner = "use" /\ submitted < MaxSubmit
  /\ Queue!Push
  /\ UNCHANGED <<ownerVars, pc, task>>

\* ~ThreadPool
Destroy ==
  /\ owner = "use"
  /\ m_done' = TRUE
  /\ owner' = "join"
  /\ UNCHANGED <<queueVars, threads, joined, pc, task>>

\* Mutant of Joinable: only the first thread is joined.
JoinableFirst == IF joined = 0 /\ threads > 0 THEN {1} ELSE {}
\* The thread the loop of ~ThreadJoin joins next, if any is left.
Joinable == IF joined < threads THEN {joined + 1} ELSE {}

\* ~ThreadJoin, m_joiner being the first member destroyed.
Join ==
  /\ owner = "join"
  /\ \E w \in Joinable : pc[w] = "exit" /\ joined' = w
  /\ UNCHANGED <<queueVars, m_done, threads, owner, pc, task>>

\* The other members are destroyed, the queue with the tasks still in it.
Gone ==
  /\ owner = "join" /\ Joinable = {}
  /\ owner' = "gone"
  /\ UNCHANGED <<queueVars, m_done, threads, joined, pc, task>>

Goto(w, label) == pc' = [pc EXCEPT ![w] = label]

\* while (!m_done)
WorkerCheck(w) ==
  /\ pc[w] = "check"
  /\ Goto(w, IF m_done THEN "exit" ELSE "pop")
  /\ UNCHANGED <<queueVars, ownerVars, task>>

\* Mutant of Idle: a worker that finds no task ends.
IdleEnds == "exit"
\* Where a worker goes from yield.
Idle == "check"

\* m_queue.try_pop(task)
WorkerPop(w) ==
  /\ pc[w] = "pop"
  /\ \/ /\ Queue!TryPop(w)
        /\ task' = [task EXCEPT ![w] = Head(m_queue)]
        /\ Goto(w, "run")
     \/ /\ m_queue = <<>>
        /\ Goto(w, Idle)
        /\ UNCHANGED <<queueVars, task>>
  /\ UNCHANGED ownerVars

\* task() returns.
WorkerRun(w) ==
  /\ pc[w] = "run"
  /\ task' = [task EXCEPT ![w] = 0]
  /\ Goto(w, "check")
  /\ UNCHANGED <<queueVars, ownerVars>>

Work(w) == WorkerCheck(w) \/ WorkerPop(w) \/ WorkerRun(w)

Next ==
  \/ CreateThread \/ CreateFails \/ Submit \/ Destroy \/ Join \/ Gone
  \/ \E w \in Workers : Work(w)

-----------------------------------------------------------------------------
\* The variables keep their types, and a worker holds a task exactly while it
\* runs: calling an empty std::function would throw.
TypeOK ==
  /\ m_queue \in Seq(1 .. MaxSubmit) /\ started \in Seq(1 .. MaxSubmit)
  /\ submitted \in 0 .. MaxSubmit
  /\ m_done \in BOOLEAN /\ owner \in {"create", "use", "join", "gone"}
  /\ threads \in 0 .. thread_count /\ joined \in 0 .. thread_count
  /\ pc \in [Workers -> {"none", "check", "pop", "run", "exit"}]
  /\ task \in [Workers -> 0 .. MaxSubmit]
  /\ \A w \in Workers : pc[w] = "run" <=> task[w] # 0

\* A task is run by one worker, once (try_pop, work).
RunOnce ==
  /\ \A i, j \in DOMAIN started : started[i] = started[j] => i = j
  /\ \A v, w \in Workers : pc[v] = "run" /\ pc[w] = "run" /\ task[v] = task[w] => v = w

\* The queue and m_done are destroyed only when no worker uses them any more, the
\* constructor that failed half way included.
OutlivesWorkers == owner = "gone" => \A w \in Workers : pc[w] \in {"none", "exit"}

\* The destructor, and the constructor that throws, end.
DestructorEnds == owner = "join" ~> owner = "gone"
=============================================================================
