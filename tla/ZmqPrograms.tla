----------------------------- MODULE ZmqPrograms ------------------------------
(***************************************************************************)
(* The programs around ZeroMQ sockets: the load-balancing broker, the      *)
(* peered brokers, the db server and the broker that fires its workers.    *)
(* They have nothing to do with each other: a behaviour is one of one of   *)
(* them, and the variables of the others do not change.                    *)
(***************************************************************************)
EXTENDS Integers, Sequences

CONSTANTS
  Programs,                            \* those that are run
  Clients, Workers, READY,             \* of LbBroker
  PeerClients, PeerWorkers, Brokers, Self, Cloud, HWM, \* of Peering
  DbClients, NUL, PERCENT, COMMAND_LEN, Requests, \* of DbServer
  work_count                           \* of RouterReq

ASSUME ZmqAssumption ==
  /\ Programs \subseteq {"lbbroker", "peering", "dbserver", "routerreq"}
  /\ Clients # {} /\ <<>> \notin Clients \cup PeerClients
  /\ READY \notin Clients \cup PeerClients \cup {<<>>}
  /\ Self \in [PeerClients \cup PeerWorkers -> Brokers]
  /\ Cloud \in [Brokers -> Brokers] /\ HWM \in Nat \ {0}
  /\ {NUL, PERCENT} \cap DbClients = {} /\ NUL # PERCENT
  /\ COMMAND_LEN \in Nat \ {0}
  /\ Requests \in [DbClients -> SUBSET Seq(DbClients \cup {NUL, PERCENT})]
  /\ work_count \in Nat \ {0}

VARIABLES
  program,
  client, worker, frontend, backend, toWorker, worker_queue, client_count, revents, pc,
  peer_client, peer_worker, localfe, localbe, toPeerWorker, clouds, acks,
  peer_queue, capacity, peer_revents, peer_pc,
  sent, answer, waiting, requests, owes, command, serving, redis, db_pc,
  firing_worker, ready, told, late, worker_fired, joined, firing_pc

L == INSTANCE LbBroker
P == INSTANCE Peering WITH
  Clients <- PeerClients, Workers <- PeerWorkers,
  client <- peer_client, worker <- peer_worker, toWorker <- toPeerWorker,
  worker_queue <- peer_queue, revents <- peer_revents, pc <- peer_pc
D == INSTANCE DbServer WITH Clients <- DbClients, pc <- db_pc
R == INSTANCE RouterReq WITH worker <- firing_worker, pc <- firing_pc

lbVars ==
  <<client, worker, frontend, backend, toWorker, worker_queue, client_count, revents, pc>>
peeringVars ==
  <<peer_client, peer_worker, localfe, localbe, toPeerWorker, clouds, acks, peer_queue,
    capacity, peer_revents, peer_pc>>
dbVars == <<sent, answer, waiting, requests, owes, command, serving, redis, db_pc>>
firingVars == <<firing_worker, ready, told, late, worker_fired, joined, firing_pc>>
vars == <<program, lbVars, peeringVars, dbVars, firingVars>>

Init == program \in Programs /\ L!Init /\ P!Init /\ D!Init /\ R!Init

LbBroker(A) == program = "lbbroker" /\ A /\ UNCHANGED <<program, peeringVars, dbVars, firingVars>>
Peering(A) == program = "peering" /\ A /\ UNCHANGED <<program, lbVars, dbVars, firingVars>>
DbServer(A) == program = "dbserver" /\ A /\ UNCHANGED <<program, lbVars, peeringVars, firingVars>>
RouterReq(A) == program = "routerreq" /\ A /\ UNCHANGED <<program, lbVars, peeringVars, dbVars>>

Next == LbBroker(L!Next) \/ Peering(P!Next) \/ DbServer(D!Next) \/ RouterReq(R!Next)

\* All threads run; no client of the db server has to ask. The clock goes on.
Fairness ==
  /\ WF_vars(LbBroker(pc # "end" /\ L!Main))
  /\ \A c \in Clients : WF_vars(LbBroker(pc # "end" /\ L!ClientSend(c)))
  /\ \A w \in Workers : WF_vars(LbBroker(pc # "end" /\ (L!WorkerSend(w) \/ L!WorkerRecv(w))))
  /\ \A b \in Brokers : WF_vars(Peering(P!Main(b)))
  /\ \A c \in PeerClients : WF_vars(Peering(P!ClientSend(c) \/ P!ClientRecv(c)))
  /\ \A w \in PeerWorkers : WF_vars(Peering(P!WorkerSend(w) \/ P!WorkerRecv(w)))
  /\ WF_vars(DbServer(D!Serve))
  /\ WF_vars(RouterReq(R!Main)) /\ WF_vars(RouterReq(R!TimeUp))
  /\ \A w \in 1 .. work_count : WF_vars(RouterReq(R!WorkerSend(w) \/ R!WorkerRecv(w)))

Spec == Init /\ [][Next]_vars /\ Fairness

-----------------------------------------------------------------------------
\* lbbroker.cpp, peering1.cpp: when front() of the queue of idle workers is called there
\* is one, and the workers in the queue are idle: nothing is sent to a worker that works
\* or has not said it is ready, which its REQ socket would not take.
IdleWorkers == L!FrontExists /\ L!IdleWorkers /\ P!FrontExists /\ P!IdleWorkers

\* lbbroker.cpp, peering1.cpp: no request is lost, handed to two workers, answered twice
\* or answered before a worker has done it.
ImplementsRequestReply == L!ImplementsRequestReply /\ P!ImplementsRequestReply

\* dbserver/main.cpp: a client gets the answer to the text of its own request.
OwnAnswer == D!OwnAnswer

\* peering1.cpp, dbserver/main.cpp: clients get their answers, and peers hear each other.
Answered ==
  /\ program = "peering" => P!ClientsAnswered /\ P!PeersHeard
  /\ program = "dbserver" => D!ClientsAnswered

\* lbbroker.cpp, routerreq.cpp: the programs that count to their end reach it, and not
\* before every client was answered and every worker is gone.
Ends == (program = "lbbroker" => L!Ends) /\ (program = "routerreq" => R!Ends)
===============================================================================
