------------------------------ MODULE LbBroker ------------------------------
(***************************************************************************)
(* example/lbbroker.cpp: clients and workers are threads with REQ sockets, *)
(* the main thread is a broker between two ROUTER sockets that hands each  *)
(* request to the worker that is idle longest.                             *)
(***************************************************************************)
EXTENDS Integers, Sequences, FiniteSets, SequencesExt

CONSTANTS Clients, Workers, READY

VARIABLES
  client,       \* "send", "recv" or, once its answer is sent to it, "done"
  worker,       \* what worker_thread is to send: READY or the client it serves;
                \* <<>> while it waits for a request
  frontend,     \* the clients whose requests the frontend holds
  backend,      \* the messages the backend holds: worker and what it sent
  toWorker,     \* the requests on their way to each worker
  worker_queue,
  client_count,
  revents,      \* what poll found readable
  pc            \* where the main loop is

queues == <<frontend, backend, toWorker>>
broker == <<worker_queue, client_count, revents, pc>>
vars == <<client, worker, queues, broker>>

Init ==
  /\ client = [c \in Clients |-> "send"]
  /\ worker = [w \in Workers |-> READY]
  /\ frontend = {} /\ backend = {} /\ toWorker = [w \in Workers |-> <<>>]
  /\ worker_queue = <<>> /\ client_count = Cardinality(Clients)
  /\ revents = {} /\ pc = "poll"

\* client_thread sends its request, its only one.
ClientSend(c) ==
  /\ client[c] = "send"
  /\ client' = [client EXCEPT ![c] = "recv"]
  /\ frontend' = frontend \cup {c}
  /\ UNCHANGED <<worker, backend, toWorker, broker>>

\* worker_thread sends READY, or its answer under the address it was given.
WorkerSend(w) ==
  /\ worker[w] # <<>>
  /\ backend' = backend \cup {[worker |-> w, addr |-> worker[w]]}
  /\ worker' = [worker EXCEPT ![w] = <<>>]
  /\ UNCHANGED <<client, frontend, toWorker, broker>>

WorkerRecv(w) ==
  /\ worker[w] = <<>> /\ toWorker[w] # <<>>
  /\ worker' = [worker EXCEPT ![w] = Head(toWorker[w])]
  /\ toWorker' = [toWorker EXCEPT ![w] = Tail(@)]
  /\ UNCHANGED <<client, frontend, backend, broker>>

\* The sockets poll is asked about: the frontend only if some worker is idle.
Items == IF worker_queue # <<>> THEN {"backend", "frontend"} ELSE {"backend"}

Readable ==
  {i \in Items : (i = "backend" /\ backend # {}) \/ (i = "frontend" /\ frontend # {})}

\* zmq::poll waits until something is readable.
Poll ==
  /\ pc = "poll" /\ Readable # {}
  /\ revents' = Readable
  /\ pc' = "backend"
  /\ UNCHANGED <<client, worker, queues, worker_queue, client_count>>

\* A message of a worker, who is idle then: an answer goes to its client, the last one
\* ends the loop.
Backend ==
  /\ pc = "backend" /\ "backend" \in revents
  /\ \E m \in backend :
       /\ backend' = backend \ {m}
       /\ worker_queue' = Append(worker_queue, m.worker)
       /\ IF m.addr = READY
            THEN UNCHANGED <<client, client_count>>
            ELSE /\ client' = [client EXCEPT ![m.addr] = "done"]
                 /\ client_count' = client_count - 1
  /\ pc' = IF client_count' = 0 THEN "end" ELSE "frontend"
  /\ UNCHANGED <<worker, frontend, toWorker, revents>>

NoBackend ==
  /\ pc = "backend" /\ "backend" \notin revents
  /\ pc' = "frontend"
  /\ UNCHANGED <<client, worker, queues, worker_queue, client_count, revents>>

\* Mutant of Popped: the worker stays in the queue.
PoppedNot == worker_queue
Popped == Tail(worker_queue)

\* A request goes to the worker at the front of the queue.
Frontend ==
  /\ pc = "frontend" /\ "frontend" \in revents
  /\ worker_queue # <<>>
  /\ \E c \in frontend :
       /\ frontend' = frontend \ {c}
       /\ toWorker' = [toWorker EXCEPT ![Head(worker_queue)] = Append(@, c)]
  /\ worker_queue' = Popped
  /\ pc' = "poll"
  /\ UNCHANGED <<client, worker, backend, client_count, revents>>

NoFrontend ==
  /\ pc = "frontend" /\ "frontend" \notin revents
  /\ pc' = "poll"
  /\ UNCHANGED <<client, worker, queues, worker_queue, client_count, revents>>

Main == Poll \/ Backend \/ NoBackend \/ Frontend \/ NoFrontend

\* The end of main ends the process and all its threads.
Next ==
  /\ pc # "end"
  /\ \/ Main
     \/ \E c \in Clients : ClientSend(c)
     \/ \E w \in Workers : WorkerSend(w) \/ WorkerRecv(w)

-----------------------------------------------------------------------------
\* worker_queue.front() is never called on an empty queue.
FrontExists == pc = "frontend" /\ "frontend" \in revents => worker_queue # <<>>

\* A worker is in the queue once, and only while it has nothing to do and nothing on
\* its way: a REQ socket would not take a second request.
IdleWorkers ==
  /\ IsInjective(worker_queue)
  /\ \A w \in ToSet(worker_queue) :
       worker[w] = <<>> /\ toWorker[w] = <<>> /\ \A m \in backend : m.worker # w
  /\ \A w \in Workers : Len(toWorker[w]) <= 1

\* Where the request of each client is, and the client each worker works for.
Place ==
  [c \in Clients |-> CASE client[c] = "send" -> "idle"
                       [] client[c] = "done" -> "answered"
                       [] c \in frontend -> "waiting"
                       [] OTHER -> "working"]
Work ==
  [w \in Workers |->
     LET held == {worker[w]} \cup ToSet(toWorker[w]) \cup {m.addr : m \in {n \in backend : n.worker = w}}
     IN IF held \subseteq {<<>>, READY} THEN READY ELSE CHOOSE c \in held \ {<<>>, READY} : TRUE]

Service == INSTANCE RequestReply WITH state <- Place, work <- Work, NoClient <- READY

\* Every step is one of RequestReply or none: no request is lost, worked on twice or
\* answered without having been worked on.
ImplementsRequestReply == Service!Spec

\* client_count counts the clients that wait for an answer or have not asked yet; the
\* program ends when there is none.
Ends == <>(pc = "end" /\ \A c \in Clients : client[c] = "done")
=============================================================================
