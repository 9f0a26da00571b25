------------------------------- MODULE Peering -------------------------------
(***************************************************************************)
(* example/peering1.cpp: brokers with REQ clients and workers of their     *)
(* own. With every request it hands to a worker a broker tells a peer      *)
(* CLOUD, which the peer answers; both are ROUTER messages, which are      *)
(* dropped when the pipe to the peer is full.                              *)
(***************************************************************************)
EXTENDS Integers, Sequences, FiniteSets, SequencesExt

CONSTANTS
  Brokers, Clients, Workers,
  Self,  \* the broker of each client and worker
  Cloud, \* the peer of each broker, its last argument: one was given
  READY,
  HWM    \* messages a pipe between two brokers holds (2000 by default)

VARIABLES
  client,       \* "send", "recv", or "reply" when its answer is on its way
  worker,       \* what worker_task is to send: READY or the client it serves;
                \* <<>> while it waits for a request
  localfe,      \* the clients whose requests wait at each broker, in the order in
                \* which the socket, fair to its connections, takes them
  localbe,      \* the messages of workers that wait there: worker and what it sent
  toWorker,     \* the request on its way to each worker
  clouds, acks, \* CLOUD messages sent by each broker, and answers to it, not yet read
  worker_queue, capacity,
  revents,      \* what poll found readable and was not read since
  pc            \* where each broker is: "outer", "serve" or "inner"

peerVars == <<clouds, acks>>
queueVars == <<worker_queue, capacity>>
vars ==
  <<client, worker, localfe, localbe, toWorker, peerVars, queueVars, revents, pc>>

Peers(b) == {p \in Brokers : Cloud[p] = b}

Init ==
  /\ client = [c \in Clients |-> "send"]
  /\ worker = [w \in Workers |-> READY]
  /\ localfe = [b \in Brokers |-> <<>>] /\ localbe = [b \in Brokers |-> <<>>]
  /\ toWorker = [w \in Workers |-> <<>>]
  /\ clouds = [b \in Brokers |-> 0] /\ acks = [b \in Brokers |-> 0]
  /\ worker_queue = [b \in Brokers |-> <<>>] /\ capacity = [b \in Brokers |-> 0]
  /\ revents = [b \in Brokers |-> {}] /\ pc = [b \in Brokers |-> "outer"]

\* client_task
ClientSend(c) ==
  /\ client[c] = "send"
  /\ client' = [client EXCEPT ![c] = "recv"]
  /\ localfe' = [localfe EXCEPT ![Self[c]] = Append(@, c)]
  /\ UNCHANGED <<worker, localbe, toWorker, peerVars, queueVars, revents, pc>>

ClientRecv(c) ==
  /\ client[c] = "reply"
  /\ client' = [client EXCEPT ![c] = "send"]
  /\ UNCHANGED <<worker, localfe, localbe, toWorker, peerVars, queueVars, revents, pc>>

\* worker_task sends READY, or an answer under the address it was given.
WorkerSend(w) ==
  /\ worker[w] # <<>>
  /\ localbe' = [localbe EXCEPT ![Self[w]] = Append(@, [worker |-> w, addr |-> worker[w]])]
  /\ worker' = [worker EXCEPT ![w] = <<>>]
  /\ UNCHANGED <<client, localfe, toWorker, peerVars, queueVars, revents, pc>>

WorkerRecv(w) ==
  /\ worker[w] = <<>> /\ toWorker[w] # <<>>
  /\ worker' = [worker EXCEPT ![w] = Head(toWorker[w])]
  /\ toWorker' = [toWorker EXCEPT ![w] = Tail(@)]
  /\ UNCHANGED <<client, localfe, localbe, peerVars, queueVars, revents, pc>>

\* The sockets of b, of those asked about, that have something to read.
Readable(b, sockets) ==
  {s \in sockets :
     \/ s = "localbe" /\ localbe[b] # <<>>
     \/ s = "cloudbe" /\ acks[b] > 0
     \/ s = "localfe" /\ localfe[b] # <<>>
     \/ s = "cloudfe" /\ \E p \in Peers(b) : clouds[p] > 0}

\* poll does not wait.
PollBackends(b) ==
  /\ pc[b] = "outer"
  /\ revents' = [revents EXCEPT ![b] = Readable(b, {"localbe", "cloudbe"})]
  /\ pc' = [pc EXCEPT ![b] = "serve"]
  /\ UNCHANGED <<client, worker, localfe, localbe, toWorker, peerVars, queueVars>>

Served(b, s) == revents' = [revents EXCEPT ![b] = @ \ {s}]

\* A message of a worker, who is idle then; an answer goes to its client.
Localbe(b) ==
  /\ pc[b] = "serve" /\ "localbe" \in revents[b]
  /\ LET m == Head(localbe[b])
     IN /\ worker_queue' = [worker_queue EXCEPT ![b] = Append(@, m.worker)]
        /\ client' = IF m.addr = READY THEN client ELSE [client EXCEPT ![m.addr] = "reply"]
  /\ localbe' = [localbe EXCEPT ![b] = Tail(@)]
  /\ capacity' = [capacity EXCEPT ![b] = @ + 1]
  /\ Served(b, "localbe")
  /\ UNCHANGED <<worker, localfe, toWorker, peerVars, pc>>

\* A peer's answer to CLOUD.
Cloudbe(b) ==
  /\ pc[b] = "serve" /\ "localbe" \notin revents[b] /\ "cloudbe" \in revents[b]
  /\ acks' = [acks EXCEPT ![b] = @ - 1]
  /\ Served(b, "cloudbe")
  /\ UNCHANGED <<client, worker, localfe, localbe, toWorker, clouds, queueVars, pc>>

\* Mutant of Idle: the frontends are polled whether or not a worker is idle.
IdleOrNot(b) == TRUE
\* while (capacity)
Idle(b) == capacity[b] # 0

\* The inner loop polls the frontends, or there is none to do.
PollFrontends(b) ==
  /\ pc[b] = "serve" /\ revents[b] = {}
  /\ IF Idle(b)
       THEN /\ revents' = [revents EXCEPT ![b] = Readable(b, {"localfe", "cloudfe"})]
            /\ pc' = [pc EXCEPT ![b] = "inner"]
       ELSE pc' = [pc EXCEPT ![b] = "outer"] /\ UNCHANGED revents
  /\ UNCHANGED <<client, worker, localfe, localbe, toWorker, peerVars, queueVars>>

\* A pipe that is full takes nothing more.
Sent(pipe, b) == [pipe EXCEPT ![b] = IF @ < HWM THEN @ + 1 ELSE @]

\* A CLOUD message of peer p, which is answered.
Cloudfe(b) ==
  /\ pc[b] = "inner" /\ "cloudfe" \in revents[b]
  /\ \E p \in Peers(b) :
       /\ clouds[p] > 0
       /\ clouds' = [clouds EXCEPT ![p] = @ - 1]
       /\ acks' = Sent(acks, p)
  /\ Served(b, "cloudfe")
  /\ UNCHANGED <<client, worker, localfe, localbe, toWorker, queueVars, pc>>

\* A request goes to the worker in front, and CLOUD to the peer.
Localfe(b) ==
  /\ pc[b] = "inner" /\ "cloudfe" \notin revents[b] /\ "localfe" \in revents[b]
  /\ worker_queue[b] # <<>>
  /\ toWorker' = [toWorker EXCEPT ![Head(worker_queue[b])] = Append(@, Head(localfe[b]))]
  /\ localfe' = [localfe EXCEPT ![b] = Tail(@)]
  /\ clouds' = Sent(clouds, b)
  /\ worker_queue' = [worker_queue EXCEPT ![b] = Tail(@)]
  /\ capacity' = [capacity EXCEPT ![b] = @ - 1]
  /\ Served(b, "localfe")
  /\ pc' = [pc EXCEPT ![b] = "serve"]
  /\ UNCHANGED <<client, worker, localbe, acks>>

\* No request: the inner loop is left.
Break(b) ==
  /\ pc[b] = "inner" /\ revents[b] = {}
  /\ pc' = [pc EXCEPT ![b] = "outer"]
  /\ UNCHANGED <<client, worker, localfe, localbe, toWorker, peerVars, queueVars, revents>>

Main(b) ==
  \/ PollBackends(b) \/ Localbe(b) \/ Cloudbe(b)
  \/ PollFrontends(b) \/ Cloudfe(b) \/ Localfe(b) \/ Break(b)

Next ==
  \/ \E b \in Brokers : Main(b)
  \/ \E c \in Clients : ClientSend(c) \/ ClientRecv(c)
  \/ \E w \in Workers : WorkerSend(w) \/ WorkerRecv(w)

-----------------------------------------------------------------------------
\* front() of worker_queue is called only when there is one: capacity counts the queue.
FrontExists ==
  \A b \in Brokers :
    /\ capacity[b] = Len(worker_queue[b])
    /\ pc[b] = "inner" => worker_queue[b] # <<>>

\* A worker is in the queue of its broker once, and only while it has nothing to do and
\* nothing on its way.
IdleWorkers ==
  /\ \A b \in Brokers :
       /\ IsInjective(worker_queue[b])
       /\ \A w \in ToSet(worker_queue[b]) :
            /\ Self[w] = b /\ worker[w] = <<>> /\ toWorker[w] = <<>>
            /\ \A m \in ToSet(localbe[b]) : m.worker # w
  /\ \A w \in Workers : Len(toWorker[w]) <= 1

\* Where the request of each client is, and the client each worker works for.
Place ==
  [c \in Clients |-> CASE client[c] = "send" -> "idle"
                       [] client[c] = "reply" -> "answered"
                       [] c \in ToSet(localfe[Self[c]]) -> "waiting"
                       [] OTHER -> "working"]
Work ==
  [w \in Workers |->
     LET held == {worker[w]} \cup ToSet(toWorker[w])
                   \cup {m.addr : m \in {n \in ToSet(localbe[Self[w]]) : n.worker = w}}
     IN IF held \subseteq {<<>>, READY} THEN READY ELSE CHOOSE c \in held \ {<<>>, READY} : TRUE]

Service == INSTANCE RequestReply WITH state <- Place, work <- Work, NoClient <- READY

\* Every step is one of RequestReply or none.
ImplementsRequestReply == Service!Spec

\* A client that has sent its request gets an answer.
ClientsAnswered == \A c \in Clients : client[c] = "recv" ~> client[c] = "send"

\* CLOUD messages are read only while a worker is idle; read they are, so that a pipe that
\* is full gets room again, and so do the answers.
PeersHeard ==
  \A b \in Brokers :
    (clouds[b] = HWM ~> clouds[b] < HWM) /\ (acks[b] = HWM ~> acks[b] < HWM)
=============================================================================
