------------------------------ MODULE RouterReq ------------------------------
(***************************************************************************)
(* example/routerreq.cpp, and routerdealer.cpp, which does the same with   *)
(* DEALER sockets: workers ask for work; when its time is up the main      *)
(* thread fires each of them and joins them.                               *)
(***************************************************************************)
EXTENDS Integers

CONSTANT work_count \* 10 in the code

WorkThreads == 1 .. work_count

VARIABLES
  worker,       \* "send", "recv" or "gone"
  ready,        \* the workers whose READY the broker holds
  told,         \* the answer on its way to each worker, or ""
  late,         \* whether end_time has passed
  worker_fired,
  joined,       \* the threads main has joined, in their order
  pc            \* "recv", "join" or "end"

vars == <<worker, ready, told, late, worker_fired, joined, pc>>

Init ==
  /\ worker = [w \in WorkThreads |-> "send"]
  /\ ready = {} /\ told = [w \in WorkThreads |-> ""]
  /\ late = FALSE /\ worker_fired = 0 /\ joined = 0 /\ pc = "recv"

WorkerSend(w) ==
  /\ worker[w] = "send"
  /\ worker' = [worker EXCEPT ![w] = "recv"]
  /\ ready' = ready \cup {w}
  /\ UNCHANGED <<told, late, worker_fired, joined, pc>>

\* A worker ends when it is fired. (The tasks it counts are printed and left out.)
WorkerRecv(w) ==
  /\ worker[w] = "recv" /\ told[w] # ""
  /\ worker' = [worker EXCEPT ![w] = IF told[w] = "FIRED!" THEN "gone" ELSE "send"]
  /\ told' = [told EXCEPT ![w] = ""]
  /\ UNCHANGED <<ready, late, worker_fired, joined, pc>>

\* The clock passes end_time.
TimeUp ==
  /\ ~late /\ late' = TRUE
  /\ UNCHANGED <<worker, ready, told, worker_fired, joined, pc>>

\* Mutant of FiredAll: the last worker is not waited for.
FiredAllButOne(n) == n = work_count - 1
FiredAll(n) == n = work_count

\* A READY is answered; when all workers are fired the loop is left.
Serve ==
  /\ pc = "recv"
  /\ \E w \in ready :
       /\ ready' = ready \ {w}
       /\ told' = [told EXCEPT ![w] = IF late THEN "FIRED!" ELSE "WORK HARDER"]
  /\ worker_fired' = IF late THEN worker_fired + 1 ELSE worker_fired
  /\ pc' = IF late /\ FiredAll(worker_fired') THEN "join" ELSE "recv"
  /\ UNCHANGED <<worker, late, joined>>

Join ==
  /\ pc = "join" /\ joined < work_count
  /\ worker[joined + 1] = "gone"
  /\ joined' = joined + 1
  /\ UNCHANGED <<worker, ready, told, late, worker_fired, pc>>

End ==
  /\ pc = "join" /\ joined = work_count
  /\ pc' = "end"
  /\ UNCHANGED <<worker, ready, told, late, worker_fired, joined>>

Main == Serve \/ Join \/ End

Next == Main \/ TimeUp \/ \E w \in WorkThreads : WorkerSend(w) \/ WorkerRecv(w)

-----------------------------------------------------------------------------
\* Main ends with every worker gone; none waits for an answer that will not come.
Ends == <>(pc = "end" /\ \A w \in WorkThreads : worker[w] = "gone")
=============================================================================
