------------------------------ MODULE ZmqProofs -------------------------------
(***************************************************************************)
(* Theorems about the brokers and the db server of ZmqPrograms for any     *)
(* number of clients, workers and brokers.                                 *)
(***************************************************************************)
EXTENDS ZmqPrograms, SequenceTheorems, TLAPS

Elements(s) == {s[i] : i \in DOMAIN s}
Distinct(s) == \A i, j \in DOMAIN s : s[i] = s[j] => i = j

\* A new element at the end of a sequence of distinct ones.
LEMMA AppendElements ==
  ASSUME NEW S, NEW s \in Seq(S), NEW x \in S
  PROVE  /\ Elements(Append(s, x)) = Elements(s) \cup {x}
         /\ Distinct(s) /\ x \notin Elements(s) => Distinct(Append(s, x))
  <1> DEFINE t == Append(s, x)
  <1>1. /\ Len(s) \in Nat /\ DOMAIN s = 1 .. Len(s) /\ DOMAIN t = 1 .. Len(s) + 1
        /\ \A i \in 1 .. Len(s) : t[i] = s[i]
        /\ t[Len(s) + 1] = x
    BY AppendProperties
  <1> HIDE DEF t
  <1>2. \A y : y \in Elements(t) <=> y \in Elements(s) \/ y = x
    <2>1. \A y : y \in Elements(t) <=> \E i \in 1 .. Len(s) + 1 : t[i] = y
      BY <1>1 DEF Elements
    <2>2. \A y : y \in Elements(s) <=> \E i \in 1 .. Len(s) : s[i] = y
      BY <1>1 DEF Elements
    <2> QED BY <1>1, <2>1, <2>2
  <1>3. Distinct(s) /\ x \notin Elements(s) => Distinct(t)
    BY <1>1 DEF Distinct, Elements
  <1> QED BY <1>2, <1>3 DEF t

\* A sequence of distinct elements without its first one.
LEMMA TailElements ==
  ASSUME NEW S, NEW s \in Seq(S), s # <<>>, Distinct(s)
  PROVE  /\ Head(s) \in Elements(s)
         /\ Elements(Tail(s)) = Elements(s) \ {Head(s)}
         /\ Distinct(Tail(s))
  <1> DEFINE t == Tail(s)
  <1>1. /\ Len(s) \in Nat /\ Len(s) > 0 /\ DOMAIN s = 1 .. Len(s) /\ DOMAIN t = 1 .. Len(s) - 1
        /\ \A i \in 1 .. Len(s) - 1 : t[i] = s[i + 1]
        /\ Head(s) = s[1]
    BY HeadTailProperties
  <1> HIDE DEF t
  <1>2. \A y : y \in Elements(t) <=> y \in Elements(s) /\ y # s[1]
    <2>1. \A y : y \in Elements(t) <=> \E i \in 1 .. Len(s) - 1 : s[i + 1] = y
      BY <1>1 DEF Elements
    <2>2. \A y : y \in Elements(s) /\ y # s[1] <=> \E j \in 2 .. Len(s) : s[j] = y
      BY <1>1 DEF Elements, Distinct
    <2>3. \A y : (\E i \in 1 .. Len(s) - 1 : s[i + 1] = y) <=> \E j \in 2 .. Len(s) : s[j] = y
      <3>1. \A i \in 1 .. Len(s) - 1 : i + 1 \in 2 .. Len(s)
        BY <1>1
      <3>2. \A j \in 2 .. Len(s) : j - 1 \in 1 .. Len(s) - 1 /\ (j - 1) + 1 = j
        BY <1>1
      <3> QED BY <3>1, <3>2
    <2> QED BY <2>1, <2>2, <2>3
  <1>3. Distinct(t)
    BY <1>1 DEF Distinct
  <1> QED BY <1>1, <1>2, <1>3 DEF t, Elements

\* A sequence of one element without it.
LEMMA OnlyElement ==
  ASSUME NEW S, NEW s \in Seq(S), s # <<>>, Len(s) = 1
  PROVE  Head(s) \in S /\ Tail(s) = <<>>
  <1>1. Head(s) \in S /\ Tail(s) \in Seq(S) /\ Len(Tail(s)) = 0
    BY HeadTailProperties
  <1> QED BY <1>1, EmptySeq

-----------------------------------------------------------------------------
\* lbbroker.cpp: the types of what the broker and its threads pass on.
LTypes ==
  /\ client \in [Clients -> {"send", "recv", "done"}]
  /\ worker \in [Workers -> Clients \cup {READY, <<>>}]
  /\ frontend \subseteq Clients
  /\ backend \subseteq [worker : Workers, addr : Clients \cup {READY}]
  /\ toWorker \in [Workers -> Seq(Clients)]
  /\ worker_queue \in Seq(Workers)

\* A worker is in one place only: it waits in the queue, has a request on its way, has
\* something to send, or has sent it.
LPlaces ==
  /\ Distinct(worker_queue)
  /\ \A w \in Elements(worker_queue) :
       worker[w] = <<>> /\ toWorker[w] = <<>> /\ \A m \in backend : m.worker # w
  /\ \A w \in Workers :
       /\ worker[w] # <<>> => toWorker[w] = <<>> /\ \A m \in backend : m.worker # w
       /\ toWorker[w] # <<>> => Len(toWorker[w]) = 1 /\ \A m \in backend : m.worker # w
  /\ \A m, n \in backend : m.worker = n.worker => m = n

\* What poll said of the frontend is true until it is used.
LFront == pc \in {"backend", "frontend"} /\ "frontend" \in revents => worker_queue # <<>>

LInv == LTypes /\ LPlaces /\ LFront

LEMMA LBegins == L!Init => LInv
  <1> SUFFICES ASSUME L!Init PROVE LInv
    OBVIOUS
  <1>1. LTypes
    BY EmptySeq DEF L!Init, LTypes
  <1>2. LPlaces /\ LFront
    BY DEF L!Init, LPlaces, LFront, Distinct, Elements
  <1> QED BY <1>1, <1>2 DEF LInv

LEMMA LClientSend == ASSUME LInv, NEW c \in Clients, L!ClientSend(c) PROVE LInv'
  BY DEF L!ClientSend, L!broker, LInv, LTypes, LPlaces, LFront, Distinct, Elements

LEMMA LWorkerSend == ASSUME LInv, NEW w \in Workers, L!WorkerSend(w) PROVE LInv'
  <1> USE ZmqAssumption DEF LInv, L!WorkerSend, L!broker
  <1>1. LTypes'
    BY DEF LTypes
  <1>2. LPlaces'
    <2>1. w \notin Elements(worker_queue) /\ toWorker[w] = <<>> /\ \A m \in backend : m.worker # w
      BY DEF LPlaces
    <2>2. worker' = [worker EXCEPT ![w] = <<>>] /\ UNCHANGED <<worker_queue, toWorker>>
          /\ backend' = backend \cup {[worker |-> w, addr |-> worker[w]]}
      OBVIOUS
    <2>3. UNCHANGED Elements(worker_queue) /\ UNCHANGED Distinct(worker_queue)
      BY <2>2 DEF Elements, Distinct
    <2>4. Elements(worker_queue) \subseteq Workers
      BY DEF LTypes, Elements
    <2> QED BY <2>1, <2>2, <2>3, <2>4 DEF LTypes, LPlaces
  <1>3. LFront'
    BY DEF LFront
  <1> QED BY <1>1, <1>2, <1>3

LEMMA LWorkerRecv == ASSUME LInv, NEW w \in Workers, L!WorkerRecv(w) PROVE LInv'
  <1> USE ZmqAssumption DEF LInv, L!WorkerRecv, L!broker
  <1>1. Head(toWorker[w]) \in Clients /\ Tail(toWorker[w]) = <<>>
    <2>1. toWorker[w] \in Seq(Clients) /\ toWorker[w] # <<>> /\ Len(toWorker[w]) = 1
      BY DEF LTypes, LPlaces
    <2> QED BY <2>1, OnlyElement
  <1>2. LTypes'
    <2>1. worker' = [worker EXCEPT ![w] = Head(toWorker[w])]
          /\ toWorker' = [toWorker EXCEPT ![w] = <<>>]
      BY <1>1
    <2>2. <<>> \in Seq(Clients)
      BY EmptySeq
    <2>3. (worker \in [Workers -> Clients \cup {READY, <<>>}])'
      BY <1>1, <2>1 DEF LTypes
    <2>4. (toWorker \in [Workers -> Seq(Clients)])'
      BY <2>1, <2>2 DEF LTypes
    <2> QED BY <2>3, <2>4 DEF LTypes
  <1>3. LPlaces'
    <2>1. w \notin Elements(worker_queue) /\ \A m \in backend : m.worker # w
      BY DEF LPlaces
    <2>2. /\ worker' = [worker EXCEPT ![w] = Head(toWorker[w])]
          /\ toWorker' = [toWorker EXCEPT ![w] = <<>>]
          /\ UNCHANGED <<worker_queue, backend>>
      BY <1>1
    <2>3. UNCHANGED Elements(worker_queue) /\ UNCHANGED Distinct(worker_queue)
      BY <2>2 DEF Elements, Distinct
    <2>4. Elements(worker_queue) \subseteq Workers
      BY DEF LTypes, Elements
    <2> QED BY <2>1, <2>2, <2>3, <2>4 DEF LTypes, LPlaces
  <1>4. LFront'
    BY DEF LFront
  <1> QED BY <1>2, <1>3, <1>4

\* poll asks about the frontend only if a worker is in the queue.
LEMMA LPoll == ASSUME LInv, L!Poll PROVE LInv'
  BY DEF L!Poll, L!Readable, L!Items, L!queues, LInv, LTypes, LPlaces, LFront, Distinct, Elements

\* A worker that has sent something has nothing more to do, and joins the queue.
LEMMA LBackend == ASSUME LInv, L!Backend PROVE LInv'
  <1> USE ZmqAssumption DEF LInv
  <1>1. PICK m \in backend :
          /\ backend' = backend \ {m}
          /\ worker_queue' = Append(worker_queue, m.worker)
          /\ client' = client \/ client' = [client EXCEPT ![m.addr] = "done"]
          /\ UNCHANGED <<worker, frontend, toWorker, revents>>
          /\ pc = "backend"
    BY DEF L!Backend
  <1>2. m.worker \in Workers /\ worker_queue \in Seq(Workers)
    BY <1>1 DEF LTypes
  <1>3. LTypes'
    <2>1. worker_queue' \in Seq(Workers)
      BY <1>1, <1>2, AppendProperties
    <2>2. client' \in [Clients -> {"send", "recv", "done"}]
      BY <1>1 DEF LTypes
    <2> QED BY <1>1, <2>1, <2>2 DEF LTypes
  <1>4. m.worker \notin Elements(worker_queue)
    BY DEF LPlaces
  <1>5. Distinct(worker_queue)' /\ Elements(worker_queue)' = Elements(worker_queue) \cup {m.worker}
    BY <1>1, <1>2, <1>4, AppendElements DEF LPlaces
  <1>6. LPlaces'
    BY <1>1, <1>2, <1>5 DEF LPlaces, LTypes
  <1>7. LFront'
    BY <1>1, <1>2 DEF LFront
  <1> QED BY <1>3, <1>6, <1>7

\* The worker in front leaves the queue with a request.
LEMMA LFrontend == ASSUME LInv, L!Frontend PROVE LInv'
  <1> USE ZmqAssumption DEF LInv
  <1> DEFINE w == Head(worker_queue)
  <1>1. PICK c \in frontend :
          /\ frontend' = frontend \ {c}
          /\ toWorker' = [toWorker EXCEPT ![w] = Append(@, c)]
          /\ worker_queue' = Tail(worker_queue) /\ worker_queue # <<>>
          /\ pc' = "poll"
          /\ UNCHANGED <<client, worker, backend, client_count, revents>>
    BY DEF L!Frontend, L!Popped
  <1>2. /\ w \in Elements(worker_queue) /\ w \in Workers
        /\ Elements(worker_queue)' = Elements(worker_queue) \ {w} /\ Distinct(worker_queue)'
    BY <1>1, TailElements DEF LTypes, LPlaces
  <1>3. toWorker[w] = <<>> /\ worker[w] = <<>> /\ \A m \in backend : m.worker # w
    BY <1>2 DEF LPlaces
  <1>4. c \in Clients /\ toWorker' = [toWorker EXCEPT ![w] = <<c>>]
    BY <1>1, <1>3 DEF LTypes
  <1>5. LTypes'
    BY <1>1, <1>2, <1>4 DEF LTypes
  <1>6. LPlaces'
    <2>1. Elements(worker_queue) \subseteq Workers /\ Len(<<c>>) = 1
      BY DEF LTypes, Elements
    <2> HIDE DEF w
    <2> QED BY <1>1, <1>2, <1>3, <1>4, <2>1 DEF LPlaces, LTypes
  <1>7. LFront'
    BY <1>1 DEF LFront
  <1> QED BY <1>5, <1>6, <1>7

LEMMA LElse == ASSUME LInv, L!NoBackend \/ L!NoFrontend \/ UNCHANGED lbVars PROVE LInv'
  BY DEF L!NoBackend, L!NoFrontend, L!queues, lbVars, LInv, LTypes, LPlaces, LFront, Distinct, Elements

LEMMA LStep == ASSUME LInv, L!Next \/ UNCHANGED lbVars PROVE LInv'
  BY LClientSend, LWorkerSend, LWorkerRecv, LPoll, LBackend, LFrontend, LElse DEF L!Next, L!Main

LEMMA LIdle == LInv => L!FrontExists /\ L!IdleWorkers
  <1> SUFFICES ASSUME LInv PROVE L!FrontExists /\ L!IdleWorkers
    OBVIOUS
  <1>1. L!FrontExists
    BY DEF LInv, LFront, L!FrontExists
  <1>2. \A w \in Workers : Len(toWorker[w]) <= 1
    <2> SUFFICES ASSUME NEW w \in Workers PROVE Len(toWorker[w]) <= 1
      OBVIOUS
    <2>1. CASE toWorker[w] = <<>>
      BY <2>1, EmptySeq
    <2>2. CASE toWorker[w] # <<>>
      <3>1. Len(toWorker[w]) = 1
        BY <2>2 DEF LInv, LPlaces
      <3> QED BY <3>1
    <2> QED BY <2>1, <2>2
  <1>3. L!IdleWorkers
    BY <1>2 DEF LInv, LPlaces, L!IdleWorkers, L!ToSet, L!IsInjective, Elements, Distinct
  <1> QED BY <1>1, <1>3

-----------------------------------------------------------------------------
\* peering1.cpp: the types of what a broker and its threads pass on.
Messages == [worker : PeerWorkers, addr : PeerClients \cup {READY}]
PTypes ==
  /\ peer_worker \in [PeerWorkers -> PeerClients \cup {READY, <<>>}]
  /\ localfe \in [Brokers -> Seq(PeerClients)]
  /\ localbe \in [Brokers -> Seq(Messages)]
  /\ toPeerWorker \in [PeerWorkers -> Seq(PeerClients)]
  /\ peer_queue \in [Brokers -> Seq(PeerWorkers)] /\ capacity \in [Brokers -> Nat]
  /\ peer_revents \in [Brokers -> SUBSET {"localbe", "cloudbe", "localfe", "cloudfe"}]
  /\ peer_pc \in [Brokers -> {"outer", "serve", "inner"}]

\* What poll said is true until it is used, and capacity counts the queue.
PFound ==
  \A b \in Brokers :
    /\ capacity[b] = Len(peer_queue[b])
    /\ peer_pc[b] = "serve" /\ "localbe" \in peer_revents[b] => localbe[b] # <<>>
    /\ peer_pc[b] = "inner" =>
         /\ peer_queue[b] # <<>> /\ "localbe" \notin peer_revents[b]
         /\ "localfe" \in peer_revents[b] => localfe[b] # <<>>

\* Nothing that worker w sent waits at its broker.
NothingSent(w) == \A m \in Elements(localbe[Self[w]]) : m.worker # w

\* A worker is in one place only, at its own broker.
PPlaces ==
  /\ \A b \in Brokers :
       /\ Distinct(peer_queue[b])
       /\ \A w \in Elements(peer_queue[b]) :
            Self[w] = b /\ peer_worker[w] = <<>> /\ toPeerWorker[w] = <<>> /\ NothingSent(w)
  /\ \A w \in PeerWorkers :
       /\ peer_worker[w] # <<>> => toPeerWorker[w] = <<>> /\ NothingSent(w)
       /\ toPeerWorker[w] # <<>> => Len(toPeerWorker[w]) = 1 /\ NothingSent(w)
  /\ \A b \in Brokers :
       /\ Distinct(localbe[b])
       /\ \A m \in Elements(localbe[b]) : Self[m.worker] = b
       /\ \A m, n \in Elements(localbe[b]) : m.worker = n.worker => m = n

PInv == PTypes /\ PFound /\ PPlaces

LEMMA PBegins == P!Init => PInv
  <1> SUFFICES ASSUME P!Init PROVE PInv
    OBVIOUS
  <1> USE DEF P!Init
  <1>1. PTypes
    <2>1. /\ localfe \in [Brokers -> Seq(PeerClients)]
          /\ localbe \in [Brokers -> Seq(Messages)]
      BY EmptySeq
    <2>2. /\ toPeerWorker \in [PeerWorkers -> Seq(PeerClients)]
          /\ peer_queue \in [Brokers -> Seq(PeerWorkers)]
      BY EmptySeq
    <2> QED BY <2>1, <2>2 DEF PTypes
  <1>2. PFound
    BY DEF PFound
  <1>3. PPlaces
    BY ZmqAssumption DEF PPlaces, NothingSent, Distinct, Elements
  <1> QED BY <1>1, <1>2, <1>3 DEF PInv

\* Places are about workers, queues and messages alone.
LEMMA PPlacesKept ==
  ASSUME PPlaces, UNCHANGED <<peer_worker, toPeerWorker, localbe, peer_queue>>
  PROVE  PPlaces'
  BY DEF PPlaces, NothingSent, Distinct, Elements

LEMMA PClientSend == ASSUME PInv, NEW c \in PeerClients, P!ClientSend(c) PROVE PInv'
  <1> USE ZmqAssumption DEF PInv, P!ClientSend, P!peerVars, P!queueVars
  <1>1. Self[c] \in Brokers /\ localfe' = [localfe EXCEPT ![Self[c]] = Append(@, c)]
    OBVIOUS
  <1>2. (localfe \in [Brokers -> Seq(PeerClients)])'
    BY <1>1, AppendProperties DEF PTypes
  <1>3. PTypes'
    BY <1>2 DEF PTypes
  <1>4. \A b \in Brokers : localfe[b] # <<>> => localfe'[b] # <<>>
    <2>1. localfe[Self[c]] \in Seq(PeerClients)
      BY <1>1 DEF PTypes
    <2>2. Append(localfe[Self[c]], c) # <<>>
      BY <2>1, AppendProperties
    <2> QED BY <1>1, <2>2 DEF PTypes
  <1>5. PFound'
    BY <1>4 DEF PFound
  <1> QED BY <1>3, <1>5, PPlacesKept

LEMMA PWorkerSend == ASSUME PInv, NEW w \in PeerWorkers, P!WorkerSend(w) PROVE PInv'
  <1> USE ZmqAssumption DEF PInv
  <1> DEFINE b == Self[w]
             m == [worker |-> w, addr |-> peer_worker[w]]
  <1>1. /\ peer_worker' = [peer_worker EXCEPT ![w] = <<>>]
        /\ localbe' = [localbe EXCEPT ![b] = Append(@, m)]
        /\ UNCHANGED <<localfe, toPeerWorker, peer_queue, capacity, peer_revents, peer_pc>>
        /\ b \in Brokers /\ m \in Messages /\ peer_worker[w] # <<>>
    BY DEF P!WorkerSend, P!peerVars, P!queueVars, PTypes, Messages
  <1>2. /\ localbe[b] \in Seq(Messages)
        /\ Append(localbe[b], m) \in Seq(Messages) /\ Append(localbe[b], m) # <<>>
    <2>1. localbe[b] \in Seq(Messages)
      BY <1>1 DEF PTypes
    <2> HIDE DEF b, m
    <2> QED BY <1>1, <2>1, AppendProperties
  <1>3. PTypes'
    <2>1. (localbe \in [Brokers -> Seq(Messages)])'
      BY <1>1, <1>2 DEF PTypes
    <2>2. (peer_worker \in [PeerWorkers -> PeerClients \cup {READY, <<>>}])'
      BY <1>1 DEF PTypes
    <2> QED BY <1>1, <2>1, <2>2 DEF PTypes
  <1>4. PFound'
    BY <1>1, <1>2 DEF PFound, PTypes
  <1>5. PPlaces'
    <2>1. NothingSent(w) /\ toPeerWorker[w] = <<>> /\ \A c \in Brokers : w \notin Elements(peer_queue[c])
      BY <1>1 DEF PPlaces
    <2>2. m \notin Elements(localbe[b])
      BY <2>1 DEF NothingSent
    <2>3. /\ Elements(localbe'[b]) = Elements(localbe[b]) \cup {m} /\ Distinct(localbe'[b])
          /\ \A c \in Brokers \ {b} : localbe'[c] = localbe[c]
      BY <1>1, <1>2, <2>2, AppendElements DEF PTypes, PPlaces
    <2>4. \A c \in Brokers : Elements(peer_queue[c]) \subseteq PeerWorkers
      BY DEF PTypes, Elements
    <2>5. \A v \in PeerWorkers \ {w} : NothingSent(v) => NothingSent(v)'
      BY <1>1, <2>3 DEF NothingSent
    <2> HIDE DEF b, m
    <2>6. m.worker = w /\ b = Self[w]
      BY DEF m, b
    <2>7. \A c \in Brokers :
             /\ Distinct(peer_queue[c])'
             /\ \A v \in Elements(peer_queue[c])' :
                  (Self[v] = c /\ peer_worker[v] = <<>> /\ toPeerWorker[v] = <<>> /\ NothingSent(v))'
      BY <1>1, <2>1, <2>4, <2>5 DEF PPlaces, PTypes
    <2>8. \A v \in PeerWorkers :
             /\ (peer_worker[v] # <<>> => toPeerWorker[v] = <<>> /\ NothingSent(v))'
             /\ (toPeerWorker[v] # <<>> => Len(toPeerWorker[v]) = 1 /\ NothingSent(v))'
      BY <1>1, <2>1, <2>5 DEF PPlaces, PTypes
    <2>9. \A c \in Brokers :
             /\ Distinct(localbe[c])'
             /\ \A n \in Elements(localbe'[c]) : Self[n.worker] = c
             /\ \A n, o \in Elements(localbe'[c]) : n.worker = o.worker => n = o
      BY <1>1, <2>1, <2>3, <2>6 DEF PPlaces, NothingSent
    <2> QED BY <2>7, <2>8, <2>9 DEF PPlaces
  <1> QED BY <1>3, <1>4, <1>5

LEMMA PWorkerRecv == ASSUME PInv, NEW w \in PeerWorkers, P!WorkerRecv(w) PROVE PInv'
  <1> USE ZmqAssumption DEF PInv
  <1>1. /\ toPeerWorker[w] # <<>> /\ peer_worker[w] = <<>>
        /\ peer_worker' = [peer_worker EXCEPT ![w] = Head(toPeerWorker[w])]
        /\ toPeerWorker' = [toPeerWorker EXCEPT ![w] = Tail(@)]
        /\ UNCHANGED <<localfe, localbe, peer_queue, capacity, peer_revents, peer_pc>>
    BY DEF P!WorkerRecv, P!peerVars, P!queueVars
  <1>2. Head(toPeerWorker[w]) \in PeerClients /\ Tail(toPeerWorker[w]) = <<>>
    <2>1. toPeerWorker[w] \in Seq(PeerClients) /\ Len(toPeerWorker[w]) = 1
      BY <1>1 DEF PTypes, PPlaces
    <2> QED BY <1>1, <2>1, OnlyElement
  <1>3. toPeerWorker' = [toPeerWorker EXCEPT ![w] = <<>>]
    BY <1>1, <1>2
  <1>4. PTypes'
    <2>1. (peer_worker \in [PeerWorkers -> PeerClients \cup {READY, <<>>}])'
      BY <1>1, <1>2 DEF PTypes
    <2>2. (toPeerWorker \in [PeerWorkers -> Seq(PeerClients)])'
      BY <1>3, EmptySeq DEF PTypes
    <2> QED BY <1>1, <2>1, <2>2 DEF PTypes
  <1>5. PFound'
    BY <1>1 DEF PFound
  <1>6. PPlaces'
    <2>1. NothingSent(w) /\ \A c \in Brokers : w \notin Elements(peer_queue[c])
      BY <1>1 DEF PPlaces
    <2>2. \A v \in PeerWorkers : NothingSent(v) => NothingSent(v)'
      BY <1>1 DEF NothingSent
    <2>3. \A c \in Brokers : Elements(peer_queue[c]) \subseteq PeerWorkers
      BY DEF PTypes, Elements
    <2>4. Len(<<>>) = 0 /\ NothingSent(w)'
      BY <2>1, <2>2, EmptySeq
    <2>5. \A v \in PeerWorkers :
             /\ v # w => peer_worker'[v] = peer_worker[v] /\ toPeerWorker'[v] = toPeerWorker[v]
             /\ toPeerWorker'[w] = <<>>
      BY <1>1, <1>3 DEF PTypes
    <2>6. \A c \in Brokers :
             /\ Distinct(peer_queue[c])'
             /\ \A v \in Elements(peer_queue[c])' :
                  (Self[v] = c /\ peer_worker[v] = <<>> /\ toPeerWorker[v] = <<>> /\ NothingSent(v))'
      BY <1>1, <2>1, <2>2, <2>3, <2>5 DEF PPlaces
    <2>7. \A v \in PeerWorkers :
             /\ (peer_worker[v] # <<>> => toPeerWorker[v] = <<>> /\ NothingSent(v))'
             /\ (toPeerWorker[v] # <<>> => Len(toPeerWorker[v]) = 1 /\ NothingSent(v))'
      BY <1>1, <2>2, <2>4, <2>5 DEF PPlaces
    <2>8. \A c \in Brokers :
             /\ Distinct(localbe[c])'
             /\ \A n \in Elements(localbe'[c]) : Self[n.worker] = c
             /\ \A n, o \in Elements(localbe'[c]) : n.worker = o.worker => n = o
      BY <1>1 DEF PPlaces
    <2> QED BY <2>6, <2>7, <2>8 DEF PPlaces
  <1> QED BY <1>4, <1>5, <1>6

LEMMA PClientRecv == ASSUME PInv, NEW c \in PeerClients, P!ClientRecv(c) PROVE PInv'
  <1> USE DEF PInv, P!ClientRecv, P!peerVars, P!queueVars
  <1>1. PTypes' /\ PFound'
    BY DEF PTypes, PFound
  <1> QED BY <1>1, PPlacesKept

\* What changes in the steps of a broker that move no worker, at that broker alone.
PollsOrAnswers(b) ==
  /\ peer_revents' \in [Brokers -> SUBSET {"localbe", "cloudbe", "localfe", "cloudfe"}]
  /\ peer_pc' \in [Brokers -> {"outer", "serve", "inner"}]
  /\ \A c \in Brokers \ {b} : peer_revents'[c] = peer_revents[c] /\ peer_pc'[c] = peer_pc[c]
  /\ UNCHANGED <<peer_worker, localfe, localbe, toPeerWorker, peer_queue, capacity>>
  /\ peer_pc'[b] = "serve" => ("localbe" \in peer_revents'[b] => localbe[b] # <<>>)
  /\ peer_pc'[b] = "inner" =>
       /\ peer_queue[b] # <<>> /\ "localbe" \notin peer_revents'[b]
       /\ "localfe" \in peer_revents'[b] => localfe[b] # <<>>

LEMMA PPolls == ASSUME PInv, NEW b \in Brokers, PollsOrAnswers(b) PROVE PInv'
  <1> USE DEF PInv, PollsOrAnswers
  <1>1. PTypes'
    BY DEF PTypes
  <1>2. PFound'
    BY DEF PFound
  <1> QED BY <1>1, <1>2, PPlacesKept

LEMMA PPollBackends == ASSUME PInv, NEW b \in Brokers, P!PollBackends(b) PROVE PInv'
  <1>1. P!Readable(b, {"localbe", "cloudbe"}) \subseteq {"localbe", "cloudbe"}
        /\ ("localbe" \in P!Readable(b, {"localbe", "cloudbe"}) => localbe[b] # <<>>)
    BY DEF P!Readable
  <1>2. PollsOrAnswers(b)
    BY <1>1 DEF PInv, PTypes, PFound, PollsOrAnswers, P!PollBackends, P!peerVars, P!queueVars
  <1> QED BY <1>2, PPolls

LEMMA PCloudbe == ASSUME PInv, NEW b \in Brokers, P!Cloudbe(b) PROVE PInv'
  <1>1. PollsOrAnswers(b)
    BY DEF PInv, PTypes, PFound, PollsOrAnswers, P!Cloudbe, P!Served, P!peerVars, P!queueVars
  <1> QED BY <1>1, PPolls

\* The inner loop is entered only if capacity, the length of the queue, is not 0.
LEMMA PPollFrontends == ASSUME PInv, NEW b \in Brokers, P!PollFrontends(b) PROVE PInv'
  <1>1. P!Readable(b, {"localfe", "cloudfe"}) \subseteq {"localfe", "cloudfe"}
        /\ ("localfe" \in P!Readable(b, {"localfe", "cloudfe"}) => localfe[b] # <<>>)
    BY DEF P!Readable
  <1>2. P!Idle(b) => peer_queue[b] # <<>>
    BY EmptySeq DEF PInv, PFound, P!Idle
  <1> DEFINE R1 == P!Readable(b, {"localfe", "cloudfe"})
  <1>3. CASE P!Idle(b)
    <2>1. /\ peer_revents' = [peer_revents EXCEPT ![b] = R1]
          /\ peer_pc' = [peer_pc EXCEPT ![b] = "inner"]
          /\ UNCHANGED <<peer_worker, localfe, localbe, toPeerWorker, peer_queue, capacity>>
      BY <1>3 DEF P!PollFrontends, P!peerVars, P!queueVars
    <2> HIDE DEF R1
    <2>2. PollsOrAnswers(b)
      BY <1>1, <1>2, <1>3, <2>1 DEF R1, PInv, PTypes, PollsOrAnswers
    <2> QED BY <2>2, PPolls
  <1>4. CASE ~P!Idle(b)
    <2>1. PollsOrAnswers(b)
      BY <1>4 DEF PInv, PTypes, PollsOrAnswers, P!PollFrontends, P!peerVars, P!queueVars
    <2> QED BY <2>1, PPolls
  <1> QED BY <1>3, <1>4

LEMMA PCloudfe == ASSUME PInv, NEW b \in Brokers, P!Cloudfe(b) PROVE PInv'
  <1>1. PollsOrAnswers(b)
    BY DEF PInv, PTypes, PFound, PollsOrAnswers, P!Cloudfe, P!Served, P!peerVars, P!queueVars
  <1> QED BY <1>1, PPolls

LEMMA PBreak == ASSUME PInv, NEW b \in Brokers, P!Break(b) PROVE PInv'
  <1>1. PollsOrAnswers(b)
    BY DEF PInv, PTypes, PFound, PollsOrAnswers, P!Break, P!peerVars, P!queueVars
  <1> QED BY <1>1, PPolls

\* A worker that has sent something has nothing more to do, and joins the queue.
LEMMA PLocalbe == ASSUME PInv, NEW b \in Brokers, P!Localbe(b) PROVE PInv'
  <1> USE DEF PInv
  <1> DEFINE m == Head(localbe[b])
  <1>0. PICK w : w = m.worker
    OBVIOUS
  <1>1. /\ peer_pc[b] = "serve" /\ "localbe" \in peer_revents[b]
        /\ peer_queue' = [peer_queue EXCEPT ![b] = Append(@, w)]
        /\ localbe' = [localbe EXCEPT ![b] = Tail(@)]
        /\ capacity' = [capacity EXCEPT ![b] = @ + 1]
        /\ peer_revents' = [peer_revents EXCEPT ![b] = @ \ {"localbe"}]
        /\ UNCHANGED <<peer_worker, localfe, toPeerWorker, peer_pc>>
    BY <1>0 DEF P!Localbe, P!Served, P!peerVars
  <1>2. localbe[b] \in Seq(Messages) /\ localbe[b] # <<>> /\ peer_queue[b] \in Seq(PeerWorkers)
    BY <1>1 DEF PTypes, PFound
  <1>3. m \in Messages /\ w \in PeerWorkers /\ Tail(localbe[b]) \in Seq(Messages)
    <2>1. Head(localbe[b]) \in Messages /\ Tail(localbe[b]) \in Seq(Messages)
      BY <1>2, HeadTailProperties
    <2> QED BY <1>0, <2>1 DEF Messages
  <1>4. /\ m \in Elements(localbe[b])
        /\ Elements(Tail(localbe[b])) = Elements(localbe[b]) \ {m}
        /\ Distinct(Tail(localbe[b]))
    BY <1>2, TailElements DEF PPlaces
  <1>5. Self[w] = b
    BY <1>0, <1>4 DEF PPlaces
  <1>6. ~NothingSent(w)
    BY <1>0, <1>4, <1>5 DEF NothingSent
  <1>7. /\ peer_worker[w] = <<>> /\ toPeerWorker[w] = <<>>
        /\ \A c \in Brokers : w \notin Elements(peer_queue[c])
    BY <1>3, <1>6 DEF PPlaces
  <1> HIDE DEF m
  <1>8. /\ Append(peer_queue[b], w) \in Seq(PeerWorkers)
        /\ Append(peer_queue[b], w) # <<>>
        /\ Len(Append(peer_queue[b], w)) = Len(peer_queue[b]) + 1
        /\ Elements(Append(peer_queue[b], w)) = Elements(peer_queue[b]) \cup {w}
        /\ Distinct(Append(peer_queue[b], w))
    BY <1>2, <1>3, <1>7, AppendProperties, AppendElements DEF PPlaces
  <1>9. /\ localbe'[b] = Tail(localbe[b]) /\ peer_queue'[b] = Append(peer_queue[b], w)
        /\ \A c \in Brokers \ {b} : localbe'[c] = localbe[c] /\ peer_queue'[c] = peer_queue[c]
    BY <1>1 DEF PTypes
  <1>10. PTypes'
    <2>1. (localbe \in [Brokers -> Seq(Messages)])'
      BY <1>1, <1>3 DEF PTypes
    <2>2. (peer_queue \in [Brokers -> Seq(PeerWorkers)])'
      BY <1>1, <1>8 DEF PTypes
    <2>3. (peer_revents \in [Brokers -> SUBSET {"localbe", "cloudbe", "localfe", "cloudfe"}])'
      BY <1>1 DEF PTypes
    <2>4. (capacity \in [Brokers -> Nat])'
      BY <1>1 DEF PTypes
    <2> QED BY <1>1, <2>1, <2>2, <2>3, <2>4 DEF PTypes
  <1>11. PFound'
    <2>1. capacity[b] + 1 = Len(peer_queue'[b])
      BY <1>8, <1>9 DEF PFound
    <2>2. \A c \in Brokers : capacity'[c] = Len(peer_queue'[c])
      BY <1>1, <1>9, <2>1 DEF PFound, PTypes
    <2>3. "localbe" \notin peer_revents'[b] /\ \A c \in Brokers \ {b} : peer_revents'[c] = peer_revents[c]
      BY <1>1 DEF PTypes
    <2> QED BY <1>1, <1>9, <2>2, <2>3 DEF PFound
  <1>12. PPlaces'
    <2>1. \A c \in Brokers : Elements(peer_queue[c]) \subseteq PeerWorkers
      BY DEF PTypes, Elements
    <2>2. \A c \in Brokers : Elements(localbe'[c]) \subseteq Elements(localbe[c])
      BY <1>4, <1>9
    <2>3. \A v \in PeerWorkers : Self[v] \in Brokers
      BY ZmqAssumption
    <2>4. \A v \in PeerWorkers : NothingSent(v) => NothingSent(v)'
      BY <2>2, <2>3 DEF NothingSent
    <2>5. NothingSent(w)'
      <3>1. \A n \in Elements(localbe[b]) : n.worker = m.worker => n = m
        BY <1>4 DEF PPlaces
      <3>2. \A n \in Elements(localbe'[b]) : n \in Elements(localbe[b]) /\ n # m
        BY <1>4, <1>9
      <3>3. \A n \in Elements(localbe'[b]) : n.worker # w
        BY <1>0, <3>1, <3>2
      <3> QED BY <1>5, <3>3 DEF NothingSent
    <2>6. \A c \in Brokers :
             /\ Distinct(peer_queue[c])'
             /\ \A v \in Elements(peer_queue[c])' :
                  (Self[v] = c /\ peer_worker[v] = <<>> /\ toPeerWorker[v] = <<>> /\ NothingSent(v))'
      <3>1. ASSUME NEW c \in Brokers PROVE Distinct(peer_queue'[c])
        BY <1>8, <1>9 DEF PPlaces
      <3>2. ASSUME NEW c \in Brokers, NEW v \in Elements(peer_queue'[c])
            PROVE  (Self[v] = c /\ peer_worker[v] = <<>> /\ toPeerWorker[v] = <<>> /\ NothingSent(v))'
        <4>1. CASE v = w /\ c = b
          BY <1>1, <1>5, <1>7, <2>5, <4>1
        <4>2. CASE v \in Elements(peer_queue[c])
          BY <1>1, <2>1, <2>4, <4>2 DEF PPlaces
        <4> QED BY <1>8, <1>9, <4>1, <4>2
      <3>3. \A c \in Brokers : Distinct(peer_queue[c])' <=> Distinct(peer_queue'[c])
        BY DEF Distinct
      <3> QED BY <3>1, <3>2, <3>3 DEF Elements
    <2>7. \A v \in PeerWorkers :
             /\ (peer_worker[v] # <<>> => toPeerWorker[v] = <<>> /\ NothingSent(v))'
             /\ (toPeerWorker[v] # <<>> => Len(toPeerWorker[v]) = 1 /\ NothingSent(v))'
      BY <1>1, <2>4 DEF PPlaces
    <2>8. \A c \in Brokers :
             /\ Distinct(localbe[c])'
             /\ \A n \in Elements(localbe'[c]) : Self[n.worker] = c
             /\ \A n, o \in Elements(localbe'[c]) : n.worker = o.worker => n = o
      BY <1>4, <1>9, <2>2 DEF PPlaces
    <2> QED BY <2>6, <2>7, <2>8 DEF PPlaces
  <1> QED BY <1>10, <1>11, <1>12

\* The worker in front leaves the queue with a request.
LEMMA PLocalfe == ASSUME PInv, NEW b \in Brokers, P!Localfe(b) PROVE PInv'
  <1> USE DEF PInv
  <1> DEFINE w == Head(peer_queue[b])
             c == Head(localfe[b])
  <1>1. /\ peer_pc[b] = "inner" /\ "localfe" \in peer_revents[b] /\ peer_queue[b] # <<>>
        /\ toPeerWorker' = [toPeerWorker EXCEPT ![w] = Append(@, c)]
        /\ localfe' = [localfe EXCEPT ![b] = Tail(@)]
        /\ peer_queue' = [peer_queue EXCEPT ![b] = Tail(@)]
        /\ capacity' = [capacity EXCEPT ![b] = @ - 1]
        /\ peer_revents' = [peer_revents EXCEPT ![b] = @ \ {"localfe"}]
        /\ peer_pc' = [peer_pc EXCEPT ![b] = "serve"]
        /\ UNCHANGED <<peer_worker, localbe>>
    BY DEF P!Localfe, P!Served
  <1>2. /\ localfe[b] \in Seq(PeerClients) /\ localfe[b] # <<>>
        /\ peer_queue[b] \in Seq(PeerWorkers) /\ "localbe" \notin peer_revents[b]
    BY <1>1 DEF PTypes, PFound
  <1>3. /\ c \in PeerClients /\ Tail(localfe[b]) \in Seq(PeerClients)
        /\ w \in PeerWorkers /\ Tail(peer_queue[b]) \in Seq(PeerWorkers)
        /\ Len(Tail(peer_queue[b])) = Len(peer_queue[b]) - 1
    BY <1>1, <1>2, HeadTailProperties
  <1>4. /\ w \in Elements(peer_queue[b])
        /\ Elements(Tail(peer_queue[b])) = Elements(peer_queue[b]) \ {w}
        /\ Distinct(Tail(peer_queue[b]))
    BY <1>1, <1>2, TailElements DEF PPlaces
  <1>5. Self[w] = b /\ peer_worker[w] = <<>> /\ toPeerWorker[w] = <<>> /\ NothingSent(w)
    BY <1>4 DEF PPlaces
  <1> HIDE DEF w, c
  <1>6. toPeerWorker' = [toPeerWorker EXCEPT ![w] = <<c>>] /\ <<c>> \in Seq(PeerClients) /\ Len(<<c>>) = 1
    <2>1. Append(<<>>, c) = <<c>>
      OBVIOUS
    <2> QED BY <1>1, <1>3, <1>5, <2>1 DEF PTypes
  <1>7. PTypes'
    <2>1. (toPeerWorker \in [PeerWorkers -> Seq(PeerClients)])'
      BY <1>6 DEF PTypes
    <2>2. (localfe \in [Brokers -> Seq(PeerClients)])'
      BY <1>1, <1>3 DEF PTypes
    <2>3. (peer_queue \in [Brokers -> Seq(PeerWorkers)])'
      BY <1>1, <1>3 DEF PTypes
    <2>4. /\ (peer_revents \in [Brokers -> SUBSET {"localbe", "cloudbe", "localfe", "cloudfe"}])'
          /\ (peer_pc \in [Brokers -> {"outer", "serve", "inner"}])'
      BY <1>1 DEF PTypes
    <2>5. (capacity \in [Brokers -> Nat])'
      <3>1. Len(peer_queue[b]) - 1 \in Nat
        BY <1>2, <1>1, EmptySeq
      <3> QED BY <1>1, <3>1 DEF PTypes, PFound
    <2> QED BY <1>1, <2>1, <2>2, <2>3, <2>4, <2>5 DEF PTypes
  <1>8. /\ peer_queue'[b] = Tail(peer_queue[b])
        /\ \A d \in Brokers \ {b} :
             /\ peer_queue'[d] = peer_queue[d] /\ peer_pc'[d] = peer_pc[d]
             /\ localfe'[d] = localfe[d] /\ peer_revents'[d] = peer_revents[d]
        /\ peer_pc'[b] = "serve" /\ "localbe" \notin peer_revents'[b]
    BY <1>1, <1>2 DEF PTypes
  <1>9. PFound'
    <2>1. capacity[b] - 1 = Len(peer_queue'[b])
      BY <1>3, <1>8 DEF PFound
    <2>2. \A d \in Brokers : capacity'[d] = Len(peer_queue'[d])
      BY <1>1, <1>8, <2>1 DEF PFound, PTypes
    <2> QED BY <1>1, <1>8, <2>2 DEF PFound
  <1>10. PPlaces'
    <2>1. \A d \in Brokers : Elements(peer_queue[d]) \subseteq PeerWorkers
      BY DEF PTypes, Elements
    <2>2. \A v \in PeerWorkers : NothingSent(v)' = NothingSent(v)
      BY <1>1 DEF NothingSent
    <2>3. /\ \A v \in PeerWorkers \ {w} : toPeerWorker'[v] = toPeerWorker[v]
          /\ toPeerWorker'[w] = <<c>>
      BY <1>3, <1>6 DEF PTypes
    <2>4. \A d \in Brokers :
             /\ Distinct(peer_queue[d])' /\ w \notin Elements(peer_queue'[d])
             /\ Elements(peer_queue'[d]) \subseteq Elements(peer_queue[d])
      BY <1>4, <1>5, <1>8 DEF PPlaces
    <2>5. \A d \in Brokers : \A v \in Elements(peer_queue[d])' :
             (Self[v] = d /\ peer_worker[v] = <<>> /\ toPeerWorker[v] = <<>> /\ NothingSent(v))'
      <3>1. ASSUME NEW d \in Brokers, NEW v \in Elements(peer_queue'[d])
            PROVE  (Self[v] = d /\ peer_worker[v] = <<>> /\ toPeerWorker[v] = <<>> /\ NothingSent(v))'
        <4>1. v \in Elements(peer_queue[d]) /\ v # w /\ v \in PeerWorkers
          BY <2>1, <2>4
        <4> QED BY <1>1, <2>2, <2>3, <4>1 DEF PPlaces
      <3> QED BY <3>1 DEF Elements
    <2>6. \A v \in PeerWorkers :
             /\ (peer_worker[v] # <<>> => toPeerWorker[v] = <<>> /\ NothingSent(v))'
             /\ (toPeerWorker[v] # <<>> => Len(toPeerWorker[v]) = 1 /\ NothingSent(v))'
      BY <1>1, <1>5, <1>6, <2>2, <2>3 DEF PPlaces
    <2>7. \A d \in Brokers :
             /\ Distinct(localbe[d])'
             /\ \A n \in Elements(localbe'[d]) : Self[n.worker] = d
             /\ \A n, o \in Elements(localbe'[d]) : n.worker = o.worker => n = o
      BY <1>1 DEF PPlaces
    <2> QED BY <2>4, <2>5, <2>6, <2>7 DEF PPlaces
  <1> QED BY <1>7, <1>9, <1>10

LEMMA PStep == ASSUME PInv, P!Next \/ UNCHANGED peeringVars PROVE PInv'
  <1>1. CASE UNCHANGED peeringVars
    <2>1. PTypes' /\ PFound'
      BY <1>1 DEF peeringVars, PInv, PTypes, PFound
    <2> QED BY <1>1, <2>1, PPlacesKept DEF peeringVars, PInv
  <1>2. CASE P!Next
    BY <1>2, PClientSend, PClientRecv, PWorkerSend, PWorkerRecv, PPollBackends, PLocalbe, PCloudbe,
       PPollFrontends, PCloudfe, PLocalfe, PBreak DEF P!Next, P!Main
  <1> QED BY <1>1, <1>2

LEMMA PIdle == PInv => P!FrontExists /\ P!IdleWorkers
  <1> SUFFICES ASSUME PInv PROVE P!FrontExists /\ P!IdleWorkers
    OBVIOUS
  <1>1. P!FrontExists
    BY DEF PInv, PFound, P!FrontExists
  <1>2. \A w \in PeerWorkers : Len(toPeerWorker[w]) <= 1
    <2> SUFFICES ASSUME NEW w \in PeerWorkers PROVE Len(toPeerWorker[w]) <= 1
      OBVIOUS
    <2>1. CASE toPeerWorker[w] = <<>>
      BY <2>1, EmptySeq
    <2>2. CASE toPeerWorker[w] # <<>>
      <3>1. Len(toPeerWorker[w]) = 1
        BY <2>2 DEF PInv, PPlaces
      <3> QED BY <3>1
    <2> QED BY <2>1, <2>2
  <1>3. P!IdleWorkers
    <2>1. \A s : P!ToSet(s) = Elements(s) /\ (P!IsInjective(s) <=> Distinct(s))
      BY DEF P!ToSet, P!IsInjective, Elements, Distinct
    <2> QED BY <1>2, <2>1 DEF PInv, PPlaces, NothingSent, P!IdleWorkers
  <1> QED BY <1>1, <1>3

-----------------------------------------------------------------------------
\* lbbroker.cpp, peering1.cpp: whatever the number of clients, workers and brokers, a
\* broker calls front() only on a queue that holds a worker, and hands a request only to
\* a worker that has nothing to do.
THEOREM RequestsGoToIdleWorkers == Spec => []IdleWorkers
  <1>1. Init => LInv /\ PInv
    BY LBegins, PBegins DEF Init
  <1>2. LInv /\ PInv /\ [Next]_vars => (LInv /\ PInv)'
    <2> SUFFICES ASSUME LInv, PInv, [Next]_vars PROVE LInv' /\ PInv'
      OBVIOUS
    <2>1. (L!Next \/ UNCHANGED lbVars) /\ (P!Next \/ UNCHANGED peeringVars)
      BY DEF Next, vars, LbBroker, Peering, DbServer, RouterReq
    <2> QED BY <2>1, LStep, PStep
  <1>3. LInv /\ PInv => IdleWorkers
    BY LIdle, PIdle DEF IdleWorkers
  <1> QED BY <1>1, <1>2, <1>3, PTL DEF Spec

-----------------------------------------------------------------------------
(* The brokers implement RequestReply *)

\* A set S of what a worker holds: the client it works for is the one in it, and `idler'
\* stands for none.
LEMMA HeldClient ==
  ASSUME NEW C, NEW idler, NEW none, NEW S \in SUBSET (C \cup {idler, none}), idler \notin C, none \notin C,
         \A c, d \in S \cap C : c = d
  PROVE  LET work == IF S \subseteq {none, idler} THEN idler ELSE CHOOSE c \in S \ {none, idler} : TRUE
         IN /\ S \cap C = {} => work = idler
            /\ \A c \in S \cap C : work = c
  <1>1. S \cap C = S \ {none, idler} /\ (S \subseteq {none, idler} <=> S \cap C = {})
    OBVIOUS
  <1>2. ASSUME NEW c \in S \cap C
        PROVE  ~(S \subseteq {none, idler}) /\ (CHOOSE d \in S \ {none, idler} : TRUE) = c
    <2>1. S \ {none, idler} = {c}
      BY <1>1
    <2> QED BY <2>1
  <1> QED BY <1>1, <1>2

\* lbbroker.cpp: the clients whose requests worker w has, on their way, in its hands or
\* answered.
LOf(w) ==
  {c \in Clients :
     \/ worker[w] = c \/ toWorker[w] = <<c>>
     \/ \E m \in backend : m.worker = w /\ m.addr = c}

\* One of them at most.
LEMMA LOneAtMost ==
  ASSUME LInv, NEW w \in Workers PROVE \A c, d \in LOf(w) : c = d
  BY ZmqAssumption DEF LInv, LPlaces, LOf

\* LOf is the work the service sees.
LWorks ==
  \A w \in Workers :
    /\ LOf(w) = {} => L!Work[w] = READY
    /\ \A c \in LOf(w) : L!Work[w] = c

LEMMA LWork == LInv => LWorks
  <1> SUFFICES ASSUME LInv, NEW w \in Workers
               PROVE  /\ LOf(w) = {} => L!Work[w] = READY
                      /\ \A c \in LOf(w) : L!Work[w] = c
    BY DEF LWorks
  <1> DEFINE held == {worker[w]} \cup L!ToSet(toWorker[w])
                       \cup {m.addr : m \in {n \in backend : n.worker = w}}
  <1>1. L!ToSet(toWorker[w]) = IF toWorker[w] = <<>> THEN {} ELSE {Head(toWorker[w])}
    <2>1. CASE toWorker[w] = <<>>
      BY <2>1 DEF L!ToSet
    <2>2. CASE toWorker[w] # <<>>
      <3>1. toWorker[w] \in Seq(Clients) /\ Len(toWorker[w]) = 1
        BY <2>2 DEF LInv, LTypes, LPlaces
      <3>2. DOMAIN toWorker[w] = {1} /\ Head(toWorker[w]) = toWorker[w][1]
        BY <2>2, <3>1, HeadTailProperties
      <3> QED BY <2>2, <3>2 DEF L!ToSet
    <2> QED BY <2>1, <2>2
  <1>2. \A c \in Clients : toWorker[w] = <<c>> <=> toWorker[w] # <<>> /\ Head(toWorker[w]) = c
    <2>1. CASE toWorker[w] = <<>>
      BY <2>1
    <2>2. CASE toWorker[w] # <<>>
      <3>1. toWorker[w] \in Seq(Clients) /\ Len(toWorker[w]) = 1
        BY <2>2 DEF LInv, LTypes, LPlaces
      <3>2. Head(toWorker[w]) \in Clients /\ toWorker[w] = <<Head(toWorker[w])>>
        BY <2>2, <3>1
      <3> QED BY <2>2, <3>2
    <2> QED BY <2>1, <2>2
  <1>3. held \in SUBSET (Clients \cup {READY, <<>>}) /\ held \cap Clients = LOf(w)
    <2>1. toWorker[w] # <<>> => Head(toWorker[w]) \in Clients
      BY DEF LInv, LTypes
    <2> QED BY <1>1, <1>2, <2>1 DEF LInv, LTypes, LOf
  <1>4. L!Work[w] = IF held \subseteq {<<>>, READY} THEN READY ELSE CHOOSE c \in held \ {<<>>, READY} : TRUE
    BY DEF L!Work
  <1> HIDE DEF held
  <1> QED BY <1>3, <1>4, LOneAtMost, HeldClient, ZmqAssumption

\* lbbroker.cpp: a request is in one place, waiting or with one worker, and its client
\* waits for the answer.
LRequests ==
  /\ \A c \in frontend : client[c] = "recv"
  /\ \A w \in Workers : \A c \in LOf(w) : client[c] = "recv" /\ c \notin frontend
  /\ \A v, w \in Workers : \A c \in LOf(v) \cap LOf(w) : v = w

\* What the service sees of client c.
LPlaceIs(c, p) ==
  \/ client[c] = "send" /\ p = "idle"
  \/ client[c] = "done" /\ p = "answered"
  \/ client[c] = "recv" /\ p = IF c \in frontend THEN "waiting" ELSE "working"

LPlaced == \A c \in Clients : LPlaceIs(c, L!Place[c])

LEMMA LPlace == LInv /\ LRequests => LPlaced
  <1> SUFFICES ASSUME LInv, LRequests, NEW c \in Clients PROVE LPlaceIs(c, L!Place[c])
    BY DEF LPlaced
  <1>1. L!Place[c] = CASE client[c] = "send" -> "idle"
                       [] client[c] = "done" -> "answered"
                       [] c \in frontend -> "waiting"
                       [] OTHER -> "working"
    BY DEF L!Place
  <1>2. client[c] \in {"send", "recv", "done"} /\ (c \in frontend => client[c] = "recv")
    BY DEF LInv, LTypes, LRequests
  <1>3. CASE client[c] = "send"
    BY <1>1, <1>2, <1>3 DEF LPlaceIs
  <1>4. CASE client[c] = "done"
    BY <1>1, <1>2, <1>4 DEF LPlaceIs
  <1>5. CASE client[c] = "recv"
    BY <1>1, <1>5 DEF LPlaceIs
  <1> QED BY <1>2, <1>3, <1>4, <1>5

\* The two lemmas before and after a step.
LEMMA LViews ==
  ASSUME LInv, LRequests, LInv', LRequests' PROVE LWorks /\ LWorks' /\ LPlaced /\ LPlaced'
  BY LWork, LPlace, PTL

\* Nothing that the abstract service sees has changed.
LEMMA LStutter ==
  ASSUME LInv, LInv', LRequests, UNCHANGED <<client, frontend>>,
         \A w \in Workers : LOf(w)' = LOf(w)
  PROVE  LRequests' /\ UNCHANGED <<L!Place, L!Work>>
  <1>1. LRequests'
    BY DEF LRequests
  <1>2. UNCHANGED L!Place
    BY DEF L!Place
  <1>3. L!Work' = L!Work
    <2>1. \A w \in Workers : L!Work'[w] = L!Work[w]
      BY <1>1, LViews DEF LWorks
    <2> QED BY <2>1 DEF L!Work
  <1> QED BY <1>1, <1>2, <1>3

\* Every step of the broker and its threads is one of the service, or none.
LServes == L!Service!Next \/ UNCHANGED <<L!Place, L!Work>>

\* A request is made.
LEMMA LSendServes ==
  ASSUME LInv, LInv', LRequests, NEW c \in Clients, L!ClientSend(c) PROVE LRequests' /\ LServes
  <1>1. /\ client[c] = "send" /\ client' = [client EXCEPT ![c] = "recv"]
        /\ frontend' = frontend \cup {c}
        /\ UNCHANGED <<worker, backend, toWorker>>
    BY DEF L!ClientSend
  <1>2. \A w \in Workers : LOf(w)' = LOf(w)
    BY <1>1 DEF LOf
  <1>3. LRequests'
    <2>1. c \notin frontend /\ \A w \in Workers : c \notin LOf(w)
      BY <1>1 DEF LRequests
    <2>2. client'[c] = "recv" /\ \A d \in Clients \ {c} : client'[d] = client[d]
      BY <1>1 DEF LInv, LTypes
    <2>3. \A w \in Workers : LOf(w) \subseteq Clients
      BY DEF LOf
    <2>4. frontend \subseteq Clients
      BY DEF LInv, LTypes
    <2> QED BY <1>1, <1>2, <2>1, <2>2, <2>3, <2>4 DEF LRequests
  <1>4. L!Work' = L!Work
    BY <1>1 DEF L!Work
  <1>5. L!Place[c] = "idle" /\ L!Place' = [L!Place EXCEPT ![c] = "waiting"]
    <2>1. /\ client'[c] = "recv" /\ c \in frontend'
          /\ \A d \in Clients \ {c} : client'[d] = client[d] /\ (d \in frontend' <=> d \in frontend)
      BY <1>1 DEF LInv, LTypes
    <2>2. \A d \in Clients : L!Place'[d] = IF d = c THEN "waiting" ELSE L!Place[d]
      BY <1>3, <2>1, LViews DEF LPlaced, LPlaceIs
    <2>3. L!Place[c] = "idle"
      BY <1>1, <1>3, LViews DEF LPlaced, LPlaceIs
    <2> QED BY <2>2, <2>3 DEF L!Place
  <1> QED BY <1>3, <1>4, <1>5 DEF LServes, L!Service!Next, L!Service!Request, L!Service!Goto

\* A worker passes on what it has, which the service does not see.
LEMMA LWorkerServes ==
  ASSUME LInv, LInv', LRequests, NEW w \in Workers, L!WorkerSend(w) \/ L!WorkerRecv(w)
  PROVE  LRequests' /\ LServes
  <1>1. UNCHANGED <<client, frontend>>
    BY DEF L!WorkerSend, L!WorkerRecv
  <1>2. CASE L!WorkerSend(w)
    <2>1. /\ worker[w] # <<>> /\ worker' = [worker EXCEPT ![w] = <<>>]
          /\ backend' = backend \cup {[worker |-> w, addr |-> worker[w]]}
          /\ UNCHANGED toWorker
      BY <1>2 DEF L!WorkerSend
    <2>2. \A v \in Workers : LOf(v)' = LOf(v)
      <3> SUFFICES ASSUME NEW v \in Workers, NEW d \in Clients
                   PROVE  d \in LOf(v)' <=> d \in LOf(v)
        BY DEF LOf
      <3>1. CASE v = w
        <4>1. worker'[w] = <<>> /\ d # <<>>
          BY <2>1, ZmqAssumption DEF LInv, LTypes
        <4>2. (\E m \in backend' : m.worker = w /\ m.addr = d)
                <=> worker[w] = d \/ \E m \in backend : m.worker = w /\ m.addr = d
          <5>1. PICK r : r = [worker |-> w, addr |-> worker[w]]
            OBVIOUS
          <5>2. r.worker = w /\ r.addr = worker[w] /\ backend' = backend \cup {r}
            BY <2>1, <5>1
          <5> QED BY <5>2
        <4> QED BY <2>1, <3>1, <4>1, <4>2 DEF LOf
      <3>2. CASE v # w
        <4>1. worker'[v] = worker[v]
          BY <2>1, <3>2 DEF LInv, LTypes
        <4>2. (\E m \in backend' : m.worker = v /\ m.addr = d)
                <=> \E m \in backend : m.worker = v /\ m.addr = d
          BY <2>1, <3>2
        <4> QED BY <2>1, <4>1, <4>2 DEF LOf
      <3> QED BY <3>1, <3>2
    <2> QED BY <1>1, <2>2, LStutter DEF LServes
  <1>3. CASE L!WorkerRecv(w)
    <2>1. /\ worker[w] = <<>> /\ toWorker[w] # <<>>
          /\ worker' = [worker EXCEPT ![w] = Head(toWorker[w])]
          /\ toWorker' = [toWorker EXCEPT ![w] = Tail(@)]
          /\ UNCHANGED backend
      BY <1>3 DEF L!WorkerRecv
    <2>2. PICK c \in Clients : toWorker[w] = <<c>>
      <3>1. toWorker[w] \in Seq(Clients) /\ Len(toWorker[w]) = 1
        BY <2>1 DEF LInv, LTypes, LPlaces
      <3>2. Head(toWorker[w]) \in Clients /\ toWorker[w] = <<Head(toWorker[w])>>
        BY <2>1, <3>1
      <3> QED BY <3>2
    <2>3. Head(toWorker[w]) = c /\ Tail(toWorker[w]) = <<>>
      BY <2>2
    <2>4. \A d : <<d>> = <<c>> <=> d = c
      OBVIOUS
    <2>5. \A d : <<>> # <<d>>
      OBVIOUS
    <2>6. \A v \in Workers : LOf(v)' = LOf(v)
      <3> SUFFICES ASSUME NEW v \in Workers, NEW d \in Clients
                   PROVE  d \in LOf(v)' <=> d \in LOf(v)
        BY DEF LOf
      <3>1. CASE v = w
        <4>1. worker'[w] = c /\ toWorker'[w] = <<>>
          BY <2>1, <2>3 DEF LInv, LTypes
        <4> QED BY <2>1, <2>2, <2>4, <2>5, <3>1, <4>1, ZmqAssumption DEF LOf
      <3>2. CASE v # w
        BY <2>1, <3>2 DEF LOf, LInv, LTypes
      <3> QED BY <3>1, <3>2
    <2> QED BY <1>1, <2>6, LStutter DEF LServes
  <1> QED BY <1>2, <1>3

\* An answer goes to its client, unless the message is READY.
LEMMA LBackendServes ==
  ASSUME LInv, LInv', LRequests, L!Backend PROVE LRequests' /\ LServes
  <1>1. PICK m \in backend :
          /\ backend' = backend \ {m}
          /\ client' = IF m.addr = READY THEN client ELSE [client EXCEPT ![m.addr] = "done"]
          /\ UNCHANGED <<worker, frontend, toWorker>>
    BY DEF L!Backend
  <1> DEFINE w == m.worker
             c == m.addr
  <1>2. /\ w \in Workers /\ c \in Clients \cup {READY}
        /\ worker[w] = <<>> /\ toWorker[w] = <<>>
        /\ \A n \in backend : n.worker = w => n = m
    BY <1>1 DEF LInv, LTypes, LPlaces
  <1>3. \A v \in Workers \ {w} : LOf(v)' = LOf(v)
    BY <1>1 DEF LOf
  <1>4. \A d : <<>> # <<d>>
    OBVIOUS
  <1>5. LOf(w)' = {}
    BY <1>1, <1>2, <1>4, ZmqAssumption DEF LOf
  <1>6. CASE c = READY
    <2>1. LOf(w) = {}
      BY <1>2, <1>4, <1>6, ZmqAssumption DEF LOf
    <2> QED BY <1>1, <1>3, <1>5, <1>6, <2>1, LStutter DEF LServes
  <1>7. CASE c \in Clients
    <2>1. LOf(w) = {c} /\ c # READY
      BY <1>1, <1>2, <1>4, <1>7, ZmqAssumption DEF LOf
    <2>2. client[c] = "recv" /\ c \notin frontend /\ \A v \in Workers \ {w} : c \notin LOf(v)
      BY <1>2, <2>1 DEF LRequests
    <2>3. client' = [client EXCEPT ![c] = "done"]
      BY <1>1, <2>1
    <2>4. LRequests'
      <3>1. \A d \in Clients \ {c} : client'[d] = client[d]
        BY <2>3 DEF LInv, LTypes
      <3>2. \A v \in Workers : \A d \in LOf(v)' : d \in LOf(v) /\ d \in Clients \ {c} /\ v # w
        BY <1>3, <1>5, <2>2 DEF LOf
      <3>3. \A d \in frontend : d \in Clients \ {c}
        BY <2>2 DEF LInv, LTypes
      <3> HIDE DEF w, c
      <3> QED BY <1>1, <3>1, <3>2, <3>3 DEF LRequests
    <2>5. L!Place' = [L!Place EXCEPT ![c] = "answered"]
      <3>1. client'[c] = "done" /\ \A d \in Clients \ {c} : client'[d] = client[d]
        BY <1>7, <2>3 DEF LInv, LTypes
      <3>2. \A d \in Clients : L!Place'[d] = IF d = c THEN "answered" ELSE L!Place[d]
        <4> HIDE DEF c
        <4> QED BY <1>1, <2>4, <3>1, LViews DEF LPlaced, LPlaceIs
      <3> HIDE DEF c
      <3> QED BY <1>7, <3>2 DEF L!Place
    <2>6. L!Work' = [L!Work EXCEPT ![w] = READY] /\ L!Work[w] = c
      <3> HIDE DEF w, c
      <3>1. \A v \in Workers \ {w} : L!Work'[v] = L!Work[v]
        BY <1>3, <2>4, LViews DEF LWorks
      <3>2. L!Work[w] = c
        BY <1>2, <2>1, <2>4, LViews DEF LWorks
      <3>3. L!Work'[w] = READY
        BY <1>2, <1>5, <2>4, LViews DEF LWorks
      <3> QED BY <1>5, <3>1, <3>2, <3>3 DEF L!Work
    <2>7. L!Service!Answer(w)
      <3> HIDE DEF w, c
      <3> QED BY <2>1, <2>5, <2>6 DEF L!Service!Answer, L!Service!Goto
    <2> QED BY <1>2, <2>4, <2>7 DEF LServes, L!Service!Next
  <1> QED BY <1>2, <1>6, <1>7

\* A request goes to the worker in front.
LEMMA LFrontendServes ==
  ASSUME LInv, LInv', LRequests, L!Frontend PROVE LRequests' /\ LServes
  <1>0. PICK w : w = Head(worker_queue)
    OBVIOUS
  <1>1. PICK c \in frontend :
          /\ frontend' = frontend \ {c}
          /\ toWorker' = [toWorker EXCEPT ![w] = Append(@, c)]
          /\ worker_queue # <<>>
          /\ UNCHANGED <<client, worker, backend>>
    BY <1>0 DEF L!Frontend, L!Popped
  <1>2. w \in Elements(worker_queue) /\ w \in Workers
    BY <1>0, <1>1, TailElements DEF LInv, LTypes, LPlaces
  <1>3. toWorker[w] = <<>> /\ worker[w] = <<>> /\ \A m \in backend : m.worker # w
    BY <1>2 DEF LInv, LPlaces
  <1>4. c \in Clients /\ client[c] = "recv" /\ \A v \in Workers : c \notin LOf(v)
    BY <1>1 DEF LInv, LTypes, LRequests
  <1>5. toWorker' = [toWorker EXCEPT ![w] = <<c>>]
    BY <1>1, <1>3, <1>4
  <1>6. LOf(w) = {} /\ LOf(w)' = {c} /\ \A v \in Workers \ {w} : LOf(v)' = LOf(v)
    <2>1. \A d : <<>> # <<d>> /\ (<<d>> = <<c>> <=> d = c)
      OBVIOUS
    <2>2. toWorker'[w] = <<c>> /\ \A v \in Workers \ {w} : toWorker'[v] = toWorker[v]
      BY <1>2, <1>5 DEF LInv, LTypes
    <2>3. LOf(w) = {}
      BY <1>3, <2>1, ZmqAssumption DEF LOf
    <2>4. LOf(w)' = {c}
      BY <1>1, <1>3, <1>4, <2>1, <2>2, ZmqAssumption DEF LOf
    <2>5. \A v \in Workers \ {w} : LOf(v)' = LOf(v)
      BY <1>1, <2>2 DEF LOf
    <2> QED BY <2>3, <2>4, <2>5
  <1>7. LRequests'
    BY <1>1, <1>4, <1>6 DEF LRequests
  <1>8. L!Place[c] = "waiting" /\ L!Place' = [L!Place EXCEPT ![c] = "working"]
    <2>1. \A d \in Clients : L!Place'[d] = IF d = c THEN "working" ELSE L!Place[d]
      BY <1>1, <1>4, <1>7, LViews DEF LPlaced, LPlaceIs
    <2>2. L!Place[c] = "waiting"
      BY <1>1, <1>4, <1>7, LViews DEF LPlaced, LPlaceIs
    <2> QED BY <2>1, <2>2 DEF L!Place
  <1>9. L!Work[w] = READY /\ L!Work' = [L!Work EXCEPT ![w] = c]
    <2>1. \A v \in Workers \ {w} : L!Work'[v] = L!Work[v]
      BY <1>6, <1>7, LViews DEF LWorks
    <2>2. L!Work[w] = READY /\ L!Work'[w] = c
      BY <1>2, <1>6, <1>7, LViews DEF LWorks
    <2>3. DOMAIN L!Work = Workers /\ DOMAIN L!Work' = Workers
          /\ L!Work = [v \in Workers |-> L!Work[v]] /\ L!Work' = [v \in Workers |-> L!Work'[v]]
      BY DEF L!Work
    <2> QED BY <1>2, <2>1, <2>2, <2>3
  <1> QED BY <1>2, <1>4, <1>7, <1>8, <1>9 DEF LServes, L!Service!Next, L!Service!Assign, L!Service!Goto

\* The rest moves nothing.
LEMMA LElseServes ==
  ASSUME LInv, LInv', LRequests, L!Poll \/ L!NoBackend \/ L!NoFrontend \/ UNCHANGED lbVars
  PROVE  LRequests' /\ LServes
  <1>1. UNCHANGED <<client, worker, frontend, backend, toWorker>>
    BY DEF L!Poll, L!NoBackend, L!NoFrontend, L!queues, lbVars
  <1>2. \A w \in Workers : LOf(w)' = LOf(w)
    BY <1>1 DEF LOf
  <1> QED BY <1>1, <1>2, LStutter DEF LServes

LEMMA LRefines ==
  ASSUME LInv, LInv', LRequests, L!Next \/ UNCHANGED lbVars PROVE LRequests' /\ LServes
  BY LSendServes, LWorkerServes, LBackendServes, LFrontendServes, LElseServes DEF L!Next, L!Main

LEMMA LRequestsBegin == L!Init => LRequests /\ L!Service!Init
  <1> SUFFICES ASSUME L!Init PROVE LRequests /\ L!Service!Init
    OBVIOUS
  <1>1. \A w \in Workers : LOf(w) = {}
    <2>1. \A d : <<>> # <<d>>
      OBVIOUS
    <2> QED BY <2>1, ZmqAssumption DEF L!Init, LOf
  <1>2. LRequests
    BY <1>1 DEF L!Init, LRequests
  <1>3. L!Place = [c \in Clients |-> "idle"] /\ L!Work = [w \in Workers |-> READY]
    <2>1. LInv
      BY LBegins
    <2>2. LWorks /\ LPlaced
      BY <1>2, <2>1, LWork, LPlace
    <2>3. \A w \in Workers : L!Work[w] = READY
      BY <1>1, <2>2 DEF LWorks
    <2>4. \A c \in Clients : L!Place[c] = "idle"
      BY <2>2 DEF LPlaced, LPlaceIs, L!Init
    <2> QED BY <2>3, <2>4 DEF L!Place, L!Work
  <1> QED BY <1>2, <1>3 DEF L!Service!Init

-----------------------------------------------------------------------------
\* peering1.cpp: the clients whose requests worker w has, on their way, in its hands or
\* answered.
POf(w) ==
  {c \in PeerClients :
     \/ peer_worker[w] = c \/ toPeerWorker[w] = <<c>>
     \/ \E m \in Elements(localbe[Self[w]]) : m.worker = w /\ m.addr = c}

\* One of them at most.
LEMMA POneAtMost ==
  ASSUME PInv, NEW w \in PeerWorkers PROVE \A c, d \in POf(w) : c = d
  <1>1. \A m, n \in Elements(localbe[Self[w]]) : m.worker = n.worker => m = n
    BY ZmqAssumption DEF PInv, PPlaces
  <1>2. /\ peer_worker[w] # <<>> => toPeerWorker[w] = <<>> /\ NothingSent(w)
        /\ toPeerWorker[w] # <<>> => NothingSent(w)
    BY DEF PInv, PPlaces
  <1>3. \A d, e : <<>> # <<d>> /\ (<<d>> = <<e>> => d = e)
    OBVIOUS
  <1> QED BY <1>1, <1>2, <1>3, ZmqAssumption DEF POf, NothingSent

\* POf is the work the service sees.
PWorks ==
  \A w \in PeerWorkers :
    /\ POf(w) = {} => P!Work[w] = READY
    /\ \A c \in POf(w) : P!Work[w] = c

LEMMA PWork == PInv => PWorks
  <1> SUFFICES ASSUME PInv, NEW w \in PeerWorkers
               PROVE  /\ POf(w) = {} => P!Work[w] = READY
                      /\ \A c \in POf(w) : P!Work[w] = c
    BY DEF PWorks
  <1> DEFINE held == {peer_worker[w]} \cup P!ToSet(toPeerWorker[w])
                       \cup {m.addr : m \in {n \in P!ToSet(localbe[Self[w]]) : n.worker = w}}
  <1>1. P!ToSet(toPeerWorker[w]) = IF toPeerWorker[w] = <<>> THEN {} ELSE {Head(toPeerWorker[w])}
    <2>1. CASE toPeerWorker[w] = <<>>
      BY <2>1 DEF P!ToSet
    <2>2. CASE toPeerWorker[w] # <<>>
      <3>1. toPeerWorker[w] \in Seq(PeerClients) /\ Len(toPeerWorker[w]) = 1
        BY <2>2 DEF PInv, PTypes, PPlaces
      <3>2. DOMAIN toPeerWorker[w] = {1} /\ Head(toPeerWorker[w]) = toPeerWorker[w][1]
        BY <2>2, <3>1, HeadTailProperties
      <3> QED BY <2>2, <3>2 DEF P!ToSet
    <2> QED BY <2>1, <2>2
  <1>2. \A c \in PeerClients : toPeerWorker[w] = <<c>> <=> toPeerWorker[w] # <<>> /\ Head(toPeerWorker[w]) = c
    <2>1. CASE toPeerWorker[w] = <<>>
      BY <2>1
    <2>2. CASE toPeerWorker[w] # <<>>
      <3>1. toPeerWorker[w] \in Seq(PeerClients) /\ Len(toPeerWorker[w]) = 1
        BY <2>2 DEF PInv, PTypes, PPlaces
      <3>2. Head(toPeerWorker[w]) \in PeerClients /\ toPeerWorker[w] = <<Head(toPeerWorker[w])>>
        BY <2>2, <3>1
      <3> QED BY <2>2, <3>2
    <2> QED BY <2>1, <2>2
  <1>3. P!ToSet(localbe[Self[w]]) = Elements(localbe[Self[w]])
    BY DEF P!ToSet, Elements
  <1>4. \A m \in Elements(localbe[Self[w]]) : m.addr \in PeerClients \cup {READY}
    <2>1. localbe[Self[w]] \in Seq(Messages)
      BY ZmqAssumption DEF PInv, PTypes
    <2>2. \A i \in DOMAIN localbe[Self[w]] : localbe[Self[w]][i] \in Messages
      BY <2>1
    <2>3. \A m \in Elements(localbe[Self[w]]) : m \in Messages
      BY <2>2 DEF Elements
    <2> QED BY <2>3 DEF Messages
  <1>5. held \in SUBSET (PeerClients \cup {READY, <<>>}) /\ held \cap PeerClients = POf(w)
    <2>1. toPeerWorker[w] # <<>> => Head(toPeerWorker[w]) \in PeerClients
      BY DEF PInv, PTypes
    <2>2. peer_worker[w] \in PeerClients \cup {READY, <<>>}
      BY DEF PInv, PTypes
    <2> QED BY <1>1, <1>2, <1>3, <1>4, <2>1, <2>2 DEF POf
  <1>6. P!Work[w] = IF held \subseteq {<<>>, READY} THEN READY ELSE CHOOSE c \in held \ {<<>>, READY} : TRUE
    BY DEF P!Work
  <1> HIDE DEF held
  <1> QED BY <1>5, <1>6, POneAtMost, HeldClient, ZmqAssumption

\* peering1.cpp: a request is in one place, waiting at its client's broker or with one
\* worker, and its client waits for the answer.
PRequests ==
  /\ peer_client \in [PeerClients -> {"send", "recv", "reply"}]
  /\ \A b \in Brokers :
       /\ Distinct(localfe[b])
       /\ \A c \in Elements(localfe[b]) : Self[c] = b /\ peer_client[c] = "recv"
  /\ \A w \in PeerWorkers : \A c \in POf(w) :
       peer_client[c] = "recv" /\ c \notin Elements(localfe[Self[c]])
  /\ \A v, w \in PeerWorkers : \A c \in POf(v) \cap POf(w) : v = w

\* Who waits at a broker is a client of it that wants an answer.
LEMMA PWaiting ==
  ASSUME PInv, PRequests
  PROVE  \A b \in Brokers : \A c \in Elements(localfe[b]) :
           c \in PeerClients /\ Self[c] = b /\ peer_client[c] = "recv"
  <1>1. \A b \in Brokers : Elements(localfe[b]) \subseteq PeerClients
    <2>1. \A b \in Brokers : localfe[b] \in Seq(PeerClients)
      BY DEF PInv, PTypes
    <2> QED BY <2>1 DEF Elements
  <1>2. \A b \in Brokers : \A c \in Elements(localfe[b]) : Self[c] = b /\ peer_client[c] = "recv"
    BY DEF PRequests
  <1> QED BY <1>1, <1>2

\* What the service sees of client c.
PPlaceIs(c, p) ==
  \/ peer_client[c] = "send" /\ p = "idle"
  \/ peer_client[c] = "reply" /\ p = "answered"
  \/ peer_client[c] = "recv" /\ p = IF c \in Elements(localfe[Self[c]]) THEN "waiting" ELSE "working"

PPlaced == \A c \in PeerClients : PPlaceIs(c, P!Place[c])

LEMMA PPlace == PRequests => PPlaced
  <1> SUFFICES ASSUME PRequests, NEW c \in PeerClients PROVE PPlaceIs(c, P!Place[c])
    BY DEF PPlaced
  <1> DEFINE waits == c \in Elements(localfe[Self[c]])
  <1>1. P!Place[c] = CASE peer_client[c] = "send" -> "idle"
                       [] peer_client[c] = "reply" -> "answered"
                       [] waits -> "waiting"
                       [] OTHER -> "working"
    BY DEF P!Place, P!ToSet, Elements
  <1>2. peer_client[c] \in {"send", "recv", "reply"} /\ (waits => peer_client[c] = "recv")
    BY ZmqAssumption DEF PRequests
  <1>3. PPlaceIs(c, P!Place[c])
          <=> \/ peer_client[c] = "send" /\ P!Place[c] = "idle"
              \/ peer_client[c] = "reply" /\ P!Place[c] = "answered"
              \/ peer_client[c] = "recv" /\ P!Place[c] = IF waits THEN "waiting" ELSE "working"
    BY DEF PPlaceIs
  <1> HIDE DEF waits
  <1>4. CASE peer_client[c] = "send"
    BY <1>1, <1>2, <1>3, <1>4
  <1>5. CASE peer_client[c] = "reply"
    BY <1>1, <1>2, <1>3, <1>5
  <1>6. CASE peer_client[c] = "recv"
    BY <1>1, <1>3, <1>6
  <1> QED BY <1>2, <1>4, <1>5, <1>6

\* The two lemmas before and after a step.
LEMMA PViews ==
  ASSUME PInv, PRequests, PInv', PRequests' PROVE PWorks /\ PWorks' /\ PPlaced /\ PPlaced'
  BY PWork, PPlace, PTL

\* The functions the service sees, by their values.
LEMMA PFunctions ==
  /\ P!Place = [c \in PeerClients |-> P!Place[c]] /\ P!Place' = [c \in PeerClients |-> P!Place'[c]]
  /\ P!Work = [w \in PeerWorkers |-> P!Work[w]] /\ P!Work' = [w \in PeerWorkers |-> P!Work'[w]]
  <1>1. P!Place = [c \in PeerClients |-> P!Place[c]] /\ P!Place' = [c \in PeerClients |-> P!Place'[c]]
    BY DEF P!Place
  <1>2. P!Work = [w \in PeerWorkers |-> P!Work[w]] /\ P!Work' = [w \in PeerWorkers |-> P!Work'[w]]
    BY DEF P!Work
  <1> QED BY <1>1, <1>2

\* Nothing that the abstract service sees has changed.
LEMMA PStutter ==
  ASSUME PInv, PInv', PRequests, UNCHANGED <<peer_client, localfe>>,
         \A w \in PeerWorkers : POf(w)' = POf(w)
  PROVE  PRequests' /\ UNCHANGED <<P!Place, P!Work>>
  <1>1. PRequests'
    BY DEF PRequests, Distinct, Elements
  <1>2. UNCHANGED P!Place
    BY DEF P!Place, P!ToSet
  <1>3. P!Work' = P!Work
    <2>1. \A w \in PeerWorkers : P!Work'[w] = P!Work[w]
      BY <1>1, PViews DEF PWorks
    <2> QED BY <2>1, PFunctions
  <1> QED BY <1>1, <1>2, <1>3

\* Every step of the brokers and their threads is one of the service, or none.
PServes == P!Service!Next \/ UNCHANGED <<P!Place, P!Work>>

\* A request is made.
LEMMA PSendServes ==
  ASSUME PInv, PInv', PRequests, NEW c \in PeerClients, P!ClientSend(c) PROVE PRequests' /\ PServes
  <1> DEFINE b == Self[c]
  <1>1. /\ peer_client[c] = "send" /\ peer_client' = [peer_client EXCEPT ![c] = "recv"]
        /\ localfe' = [localfe EXCEPT ![b] = Append(@, c)]
        /\ UNCHANGED <<peer_worker, localbe, toPeerWorker>>
    BY DEF P!ClientSend
  <1>2. \A w \in PeerWorkers : POf(w)' = POf(w)
    BY <1>1 DEF POf, Elements
  <1>3. b \in Brokers /\ localfe[b] \in Seq(PeerClients)
    BY ZmqAssumption DEF PInv, PTypes
  <1>4. /\ \A d \in Brokers \ {b} : localfe'[d] = localfe[d]
        /\ localfe'[b] = Append(localfe[b], c)
    BY <1>1, <1>3 DEF PInv, PTypes
  <1>5. /\ \A d \in Brokers : c \notin Elements(localfe[d])
        /\ \A w \in PeerWorkers : c \notin POf(w)
    BY <1>1 DEF PRequests
  <1>6. Elements(localfe'[b]) = Elements(localfe[b]) \cup {c} /\ Distinct(localfe'[b])
    <2>1. Distinct(localfe[b]) /\ c \notin Elements(localfe[b])
      BY <1>3, <1>5 DEF PRequests
    <2> QED BY <1>3, <1>4, <2>1, AppendElements
  <1>7. peer_client'[c] = "recv" /\ \A d \in PeerClients \ {c} : peer_client'[d] = peer_client[d]
    BY <1>1 DEF PRequests
  <1>8. \A d \in Brokers : Elements(localfe[d]) \subseteq PeerClients
    BY PWaiting
  <1>9. PRequests'
    <2>1. (peer_client \in [PeerClients -> {"send", "recv", "reply"}])'
      BY <1>1 DEF PRequests
    <2>2. \A d \in Brokers : Distinct(localfe'[d])
      BY <1>4, <1>6 DEF PRequests
    <2>3. \A d \in Brokers : \A e \in Elements(localfe'[d]) : Self[e] = d /\ peer_client'[e] = "recv"
      BY <1>4, <1>5, <1>6, <1>7, <1>8 DEF PRequests
    <2>4. \A w \in PeerWorkers : \A e \in POf(w)' :
             peer_client'[e] = "recv" /\ e \notin Elements(localfe'[Self[e]])
      <3>1. \A w \in PeerWorkers : \A e \in POf(w) : e \in PeerClients \ {c} /\ Self[e] \in Brokers
        BY <1>5, ZmqAssumption DEF POf
      <3>2. \A d \in Brokers : Elements(localfe'[d]) \subseteq Elements(localfe[d]) \cup {c}
        BY <1>4, <1>6
      <3>3. \A w \in PeerWorkers : \A e \in POf(w) :
               peer_client[e] = "recv" /\ e \notin Elements(localfe[Self[e]])
        BY DEF PRequests
      <3> QED BY <1>2, <1>7, <3>1, <3>2, <3>3
    <2>5. \A v, w \in PeerWorkers : \A e \in POf(v)' \cap POf(w)' : v = w
      BY <1>2 DEF PRequests
    <2> QED BY <2>1, <2>2, <2>3, <2>4, <2>5 DEF PRequests, Elements, Distinct
  <1>10. UNCHANGED P!Work
    BY <1>1 DEF P!Work, P!ToSet
  <1>11. P!Place[c] = "idle" /\ P!Place' = [P!Place EXCEPT ![c] = "waiting"]
    <2>1. \A d \in PeerClients : (d \in Elements(localfe'[Self[d]])) <=> d = c \/ d \in Elements(localfe[Self[d]])
      BY <1>4, <1>6, ZmqAssumption
    <2>2. \A d \in PeerClients : P!Place'[d] = IF d = c THEN "waiting" ELSE P!Place[d]
      BY <1>7, <1>9, <2>1, PViews DEF PPlaced, PPlaceIs
    <2>3. P!Place[c] = "idle"
      BY <1>1, <1>9, PViews DEF PPlaced, PPlaceIs
    <2> QED BY <2>2, <2>3, PFunctions
  <1> QED BY <1>9, <1>10, <1>11 DEF PServes, P!Service!Next, P!Service!Request, P!Service!Goto

\* An answer is received.
LEMMA PRecvServes ==
  ASSUME PInv, PInv', PRequests, NEW c \in PeerClients, P!ClientRecv(c) PROVE PRequests' /\ PServes
  <1>1. /\ peer_client[c] = "reply" /\ peer_client' = [peer_client EXCEPT ![c] = "send"]
        /\ UNCHANGED <<peer_worker, localfe, localbe, toPeerWorker>>
    BY DEF P!ClientRecv
  <1>2. \A w \in PeerWorkers : POf(w)' = POf(w)
    BY <1>1 DEF POf, Elements
  <1>3. peer_client'[c] = "send" /\ \A d \in PeerClients \ {c} : peer_client'[d] = peer_client[d]
    BY <1>1 DEF PRequests
  <1>4. PRequests'
    <2>1. /\ \A w \in PeerWorkers : \A e \in POf(w) : e \in PeerClients \ {c}
          /\ \A d \in Brokers : \A e \in Elements(localfe[d]) : e \in PeerClients \ {c}
      <3>1. \A w \in PeerWorkers : \A e \in POf(w) : e \in PeerClients /\ peer_client[e] = "recv"
        BY DEF PRequests, POf
      <3>2. \A d \in Brokers : \A e \in Elements(localfe[d]) : e \in PeerClients /\ peer_client[e] = "recv"
        BY PWaiting
      <3> QED BY <1>1, <3>1, <3>2
    <2>2. (peer_client \in [PeerClients -> {"send", "recv", "reply"}])'
      BY <1>1 DEF PRequests
    <2>3. \A d \in Brokers :
            Distinct(localfe'[d]) /\ \A e \in Elements(localfe'[d]) : Self[e] = d /\ peer_client'[e] = "recv"
      BY <1>1, <1>3, <2>1 DEF PRequests
    <2>4. \A w \in PeerWorkers : \A e \in POf(w)' :
             peer_client'[e] = "recv" /\ e \notin Elements(localfe'[Self[e]])
      BY <1>1, <1>2, <1>3, <2>1 DEF PRequests
    <2>5. \A v, w \in PeerWorkers : \A e \in POf(v)' \cap POf(w)' : v = w
      BY <1>2 DEF PRequests
    <2> QED BY <2>2, <2>3, <2>4, <2>5 DEF PRequests, Elements, Distinct
  <1>5. UNCHANGED P!Work
    BY <1>1 DEF P!Work, P!ToSet
  <1>6. P!Place[c] = "answered" /\ P!Place' = [P!Place EXCEPT ![c] = "idle"]
    <2>1. \A d \in PeerClients : P!Place'[d] = IF d = c THEN "idle" ELSE P!Place[d]
      BY <1>1, <1>3, <1>4, PViews DEF PPlaced, PPlaceIs
    <2>2. P!Place[c] = "answered"
      BY <1>1, <1>4, PViews DEF PPlaced, PPlaceIs
    <2> QED BY <2>1, <2>2, PFunctions
  <1> QED BY <1>4, <1>5, <1>6 DEF PServes, P!Service!Next, P!Service!Receive, P!Service!Goto

\* A worker passes on what it has, which the service does not see.
LEMMA PWorkerSendServes ==
  ASSUME PInv, PInv', PRequests, NEW w \in PeerWorkers, P!WorkerSend(w) PROVE PRequests' /\ PServes
  <1>1. PICK b \in Brokers : b = Self[w]
    BY ZmqAssumption
  <1>2. PICK m : m = [worker |-> w, addr |-> peer_worker[w]]
    OBVIOUS
  <1>3. /\ peer_worker[w] # <<>> /\ peer_worker' = [peer_worker EXCEPT ![w] = <<>>]
        /\ localbe' = [localbe EXCEPT ![b] = Append(@, m)]
        /\ m.worker = w /\ m.addr = peer_worker[w]
        /\ UNCHANGED <<peer_client, localfe, toPeerWorker>>
    BY <1>1, <1>2 DEF P!WorkerSend
  <1>4. localbe[b] \in Seq(Messages) /\ m \in Messages
    BY <1>2, <1>3 DEF PInv, PTypes, Messages
  <1>5. Elements(localbe'[b]) = Elements(localbe[b]) \cup {m}
        /\ \A d \in Brokers \ {b} : localbe'[d] = localbe[d]
    <2>1. localbe'[b] = Append(localbe[b], m) /\ \A d \in Brokers \ {b} : localbe'[d] = localbe[d]
      BY <1>3 DEF PInv, PTypes
    <2> QED BY <1>4, <2>1, AppendElements
  <1>6. \A v \in PeerWorkers : POf(v)' = POf(v)
    <2> SUFFICES ASSUME NEW v \in PeerWorkers, NEW d \in PeerClients
                 PROVE  d \in POf(v)' <=> d \in POf(v)
      BY DEF POf
    <2>1. d \in POf(v)' <=> \/ peer_worker'[v] = d \/ toPeerWorker[v] = <<d>>
                           \/ \E n \in Elements(localbe'[Self[v]]) : n.worker = v /\ n.addr = d
      BY <1>3 DEF POf, Elements
    <2>2. CASE v = w
      <3>1. peer_worker'[w] = <<>> /\ d # <<>>
        BY <1>3, ZmqAssumption DEF PInv, PTypes
      <3>2. (\E n \in Elements(localbe'[b]) : n.worker = w /\ n.addr = d)
              <=> peer_worker[w] = d \/ \E n \in Elements(localbe[b]) : n.worker = w /\ n.addr = d
        BY <1>3, <1>5
      <3> QED BY <1>1, <2>1, <2>2, <3>1, <3>2 DEF POf
    <2>3. CASE v # w
      <3>1. peer_worker'[v] = peer_worker[v] /\ Self[v] \in Brokers
        BY <1>3, <2>3, ZmqAssumption DEF PInv, PTypes
      <3>2. (\E n \in Elements(localbe'[Self[v]]) : n.worker = v /\ n.addr = d)
              <=> \E n \in Elements(localbe[Self[v]]) : n.worker = v /\ n.addr = d
        BY <1>3, <1>5, <2>3, <3>1
      <3> QED BY <2>1, <3>1, <3>2 DEF POf
    <2> QED BY <2>2, <2>3
  <1> QED BY <1>3, <1>6, PStutter DEF PServes

LEMMA PWorkerRecvServes ==
  ASSUME PInv, PInv', PRequests, NEW w \in PeerWorkers, P!WorkerRecv(w) PROVE PRequests' /\ PServes
  <1>1. /\ peer_worker[w] = <<>> /\ toPeerWorker[w] # <<>>
        /\ peer_worker' = [peer_worker EXCEPT ![w] = Head(toPeerWorker[w])]
        /\ toPeerWorker' = [toPeerWorker EXCEPT ![w] = Tail(@)]
        /\ UNCHANGED <<peer_client, localfe, localbe>>
    BY DEF P!WorkerRecv
  <1>2. PICK c \in PeerClients : toPeerWorker[w] = <<c>>
    <2>1. toPeerWorker[w] \in Seq(PeerClients) /\ Len(toPeerWorker[w]) = 1
      BY <1>1 DEF PInv, PTypes, PPlaces
    <2>2. Head(toPeerWorker[w]) \in PeerClients /\ toPeerWorker[w] = <<Head(toPeerWorker[w])>>
      BY <1>1, <2>1
    <2> QED BY <2>2
  <1>3. Head(toPeerWorker[w]) = c /\ Tail(toPeerWorker[w]) = <<>>
    BY <1>2
  <1>4. \A d : (<<d>> = <<c>> <=> d = c) /\ <<>> # <<d>>
    OBVIOUS
  <1>5. \A v \in PeerWorkers : POf(v)' = POf(v)
    <2> SUFFICES ASSUME NEW v \in PeerWorkers, NEW d \in PeerClients
                 PROVE  d \in POf(v)' <=> d \in POf(v)
      BY DEF POf
    <2>1. d \in POf(v)' <=> \/ peer_worker'[v] = d \/ toPeerWorker'[v] = <<d>>
                           \/ \E n \in Elements(localbe[Self[v]]) : n.worker = v /\ n.addr = d
      BY <1>1 DEF POf, Elements
    <2>2. CASE v = w
      <3>1. peer_worker'[w] = c /\ toPeerWorker'[w] = <<>>
        BY <1>1, <1>3 DEF PInv, PTypes
      <3> QED BY <1>1, <1>2, <1>4, <2>1, <2>2, <3>1, ZmqAssumption DEF POf
    <2>3. CASE v # w
      <3>1. peer_worker'[v] = peer_worker[v] /\ toPeerWorker'[v] = toPeerWorker[v]
        BY <1>1, <2>3 DEF PInv, PTypes
      <3> QED BY <2>1, <3>1 DEF POf
    <2> QED BY <2>2, <2>3
  <1> QED BY <1>1, <1>5, PStutter DEF PServes

\* An answer goes to its client, unless the message is READY.
LEMMA PLocalbeServes ==
  ASSUME PInv, PInv', PRequests, NEW b \in Brokers, P!Localbe(b) PROVE PRequests' /\ PServes
  <1>1. PICK m : m = Head(localbe[b])
    OBVIOUS
  <1>2. /\ peer_client' = IF m.addr = READY THEN peer_client ELSE [peer_client EXCEPT ![m.addr] = "reply"]
        /\ localbe' = [localbe EXCEPT ![b] = Tail(@)]
        /\ peer_pc[b] = "serve" /\ "localbe" \in peer_revents[b]
        /\ UNCHANGED <<peer_worker, localfe, toPeerWorker>>
    BY <1>1 DEF P!Localbe
  <1>3. /\ localbe[b] # <<>> /\ localbe[b] \in Seq(Messages) /\ Distinct(localbe[b])
        /\ localbe'[b] = Tail(localbe[b]) /\ \A d \in Brokers \ {b} : localbe'[d] = localbe[d]
    BY <1>2 DEF PInv, PTypes, PFound, PPlaces
  <1>4. /\ m \in Elements(localbe[b]) /\ m \in Messages
        /\ Elements(localbe'[b]) = Elements(localbe[b]) \ {m}
    BY <1>1, <1>3, TailElements
  <1>5. PICK w \in PeerWorkers : w = m.worker
    BY <1>4 DEF Messages
  <1>6. PICK c \in PeerClients \cup {READY} : c = m.addr
    BY <1>4 DEF Messages
  <1>7. Self[w] = b /\ \A n \in Elements(localbe[b]) : n.worker = w => n = m
    BY <1>4, <1>5 DEF PInv, PPlaces
  <1>8. peer_worker[w] = <<>> /\ toPeerWorker[w] = <<>>
    BY <1>4, <1>5, <1>7 DEF PInv, PPlaces, NothingSent
  <1>9. \A d : <<>> # <<d>>
    OBVIOUS
  <1>10. \A v \in PeerWorkers \ {w} : POf(v)' = POf(v)
    <2> SUFFICES ASSUME NEW v \in PeerWorkers \ {w}, NEW d \in PeerClients
                 PROVE  d \in POf(v)' <=> d \in POf(v)
      BY DEF POf
    <2>1. d \in POf(v)' <=> \/ peer_worker[v] = d \/ toPeerWorker[v] = <<d>>
                           \/ \E n \in Elements(localbe'[Self[v]]) : n.worker = v /\ n.addr = d
      BY <1>2 DEF POf, Elements
    <2>2. \A n : n.worker = v => (n \in Elements(localbe'[Self[v]]) <=> n \in Elements(localbe[Self[v]]))
      <3>1. Self[v] \in Brokers
        BY ZmqAssumption
      <3> QED BY <1>3, <1>4, <1>5, <3>1
    <2> QED BY <2>1, <2>2 DEF POf
  <1>11. POf(w)' = {}
    <2>1. \A n \in Elements(localbe'[b]) : n.worker # w
      BY <1>4, <1>7
    <2>2. \A d \in PeerClients : d \in POf(w)' <=> \/ peer_worker[w] = d \/ toPeerWorker[w] = <<d>>
                           \/ \E n \in Elements(localbe'[Self[w]]) : n.worker = w /\ n.addr = d
      BY <1>2 DEF POf, Elements
    <2>3. POf(w)' \subseteq PeerClients
      BY DEF POf
    <2>4. \A d \in PeerClients : d \notin POf(w)'
      BY <1>7, <1>8, <1>9, <2>1, <2>2, ZmqAssumption
    <2> QED BY <2>3, <2>4
  <1>12. POf(w) = {c} \cap PeerClients
    <2>1. \A d \in PeerClients : d \in POf(w) <=> \E n \in Elements(localbe[b]) : n.worker = w /\ n.addr = d
      BY <1>7, <1>8, <1>9, ZmqAssumption DEF POf
    <2>2. \A d \in PeerClients : d \in POf(w) <=> d = c
      BY <1>4, <1>5, <1>6, <1>7, <2>1
    <2>3. POf(w) \subseteq PeerClients
      BY DEF POf
    <2> QED BY <2>2, <2>3
  <1>13. CASE c = READY
    <2>1. POf(w) = {}
      BY <1>12, <1>13, ZmqAssumption
    <2> QED BY <1>2, <1>6, <1>10, <1>11, <1>13, <2>1, PStutter DEF PServes
  <1>14. CASE c \in PeerClients
    <2>1. POf(w) = {c} /\ c # READY /\ peer_client' = [peer_client EXCEPT ![c] = "reply"]
      BY <1>2, <1>6, <1>12, <1>14, ZmqAssumption
    <2>2. /\ peer_client[c] = "recv" /\ \A v \in PeerWorkers \ {w} : c \notin POf(v)
          /\ c \notin Elements(localfe[Self[c]])
      BY <2>1 DEF PRequests
    <2>3. peer_client'[c] = "reply" /\ \A d \in PeerClients \ {c} : peer_client'[d] = peer_client[d]
      BY <1>14, <2>1 DEF PRequests
    <2>4. PRequests'
      <3>1. \A v \in PeerWorkers : \A e \in POf(v)' : e \in POf(v) /\ e \in PeerClients \ {c} /\ v # w
        BY <1>10, <1>11, <2>2 DEF POf
      <3>2. \A d \in Brokers : \A e \in Elements(localfe[d]) : e \in PeerClients \ {c}
        <4>1. \A d \in Brokers : \A e \in Elements(localfe[d]) : e \in PeerClients /\ Self[e] = d
          BY PWaiting
        <4> QED BY <2>2, <4>1
      <3>3. (peer_client \in [PeerClients -> {"send", "recv", "reply"}])'
        BY <2>1 DEF PRequests
      <3>4. \A d \in Brokers :
              Distinct(localfe'[d]) /\ \A e \in Elements(localfe'[d]) : Self[e] = d /\ peer_client'[e] = "recv"
        BY <1>2, <2>3, <3>2 DEF PRequests
      <3>5. \A v \in PeerWorkers : \A e \in POf(v)' :
               peer_client'[e] = "recv" /\ e \notin Elements(localfe'[Self[e]])
        BY <1>2, <2>3, <3>1 DEF PRequests
      <3>6. \A u, v \in PeerWorkers : \A e \in POf(u)' \cap POf(v)' : u = v
        BY <3>1 DEF PRequests
      <3> QED BY <3>3, <3>4, <3>5, <3>6 DEF PRequests, Elements, Distinct
    <2>5. P!Place' = [P!Place EXCEPT ![c] = "answered"]
      <3>1. \A d \in PeerClients : P!Place'[d] = IF d = c THEN "answered" ELSE P!Place[d]
        BY <1>2, <2>3, <2>4, PViews DEF PPlaced, PPlaceIs
      <3> QED BY <1>14, <3>1, PFunctions
    <2>6. P!Work' = [P!Work EXCEPT ![w] = READY] /\ P!Work[w] = c
      <3>1. \A v \in PeerWorkers \ {w} : P!Work'[v] = P!Work[v]
        BY <1>10, <2>4, PViews DEF PWorks
      <3>2. P!Work[w] = c /\ P!Work'[w] = READY
        BY <1>11, <2>1, <2>4, PViews DEF PWorks
      <3> QED BY <3>1, <3>2, PFunctions
    <2>7. P!Service!Answer(w)
      BY <2>1, <2>5, <2>6 DEF P!Service!Answer, P!Service!Goto
    <2> QED BY <2>4, <2>7 DEF PServes, P!Service!Next
  <1> QED BY <1>13, <1>14

\* A request goes to the worker in front.
LEMMA PLocalfeServes ==
  ASSUME PInv, PInv', PRequests, NEW b \in Brokers, P!Localfe(b) PROVE PRequests' /\ PServes
  <1>1. PICK w : w = Head(peer_queue[b])
    OBVIOUS
  <1>2. PICK c : c = Head(localfe[b])
    OBVIOUS
  <1>3. /\ peer_pc[b] = "inner" /\ "localfe" \in peer_revents[b] /\ peer_queue[b] # <<>>
        /\ toPeerWorker' = [toPeerWorker EXCEPT ![w] = Append(@, c)]
        /\ localfe' = [localfe EXCEPT ![b] = Tail(@)]
        /\ UNCHANGED <<peer_client, peer_worker, localbe>>
    BY <1>1, <1>2 DEF P!Localfe
  <1>4. w \in Elements(peer_queue[b]) /\ w \in PeerWorkers
    <2>1. peer_queue[b] \in Seq(PeerWorkers) /\ Distinct(peer_queue[b])
      BY DEF PInv, PTypes, PPlaces
    <2> QED BY <1>1, <1>3, <2>1, TailElements
  <1>5. toPeerWorker[w] = <<>> /\ peer_worker[w] = <<>> /\ NothingSent(w)
    BY <1>4 DEF PInv, PPlaces
  <1>6. /\ localfe[b] \in Seq(PeerClients) /\ localfe[b] # <<>> /\ Distinct(localfe[b])
        /\ localfe'[b] = Tail(localfe[b]) /\ \A d \in Brokers \ {b} : localfe'[d] = localfe[d]
    BY <1>3 DEF PInv, PTypes, PFound, PRequests
  <1>7. /\ c \in Elements(localfe[b]) /\ c \in PeerClients
        /\ Elements(localfe'[b]) = Elements(localfe[b]) \ {c} /\ Distinct(localfe'[b])
    BY <1>2, <1>6, TailElements
  <1>8. Self[c] = b /\ peer_client[c] = "recv" /\ \A v \in PeerWorkers : c \notin POf(v)
    BY <1>7 DEF PRequests
  <1>9. toPeerWorker' = [toPeerWorker EXCEPT ![w] = <<c>>]
    BY <1>3, <1>5, <1>7
  <1>10. POf(w) = {} /\ POf(w)' = {c} /\ \A v \in PeerWorkers \ {w} : POf(v)' = POf(v)
    <2>1. \A d : <<>> # <<d>> /\ (<<d>> = <<c>> <=> d = c)
      OBVIOUS
    <2>2. toPeerWorker'[w] = <<c>> /\ \A v \in PeerWorkers \ {w} : toPeerWorker'[v] = toPeerWorker[v]
      BY <1>4, <1>9 DEF PInv, PTypes
    <2>3. POf(w) = {}
      BY <1>5, <2>1, ZmqAssumption DEF POf, NothingSent
    <2>4. \A v \in PeerWorkers : \A d \in PeerClients : d \in POf(v)' <=>
             \/ peer_worker[v] = d \/ toPeerWorker'[v] = <<d>>
             \/ \E n \in Elements(localbe[Self[v]]) : n.worker = v /\ n.addr = d
      BY <1>3 DEF POf, Elements
    <2>5. \A v \in PeerWorkers : POf(v)' \subseteq PeerClients /\ POf(v) \subseteq PeerClients
      BY DEF POf
    <2>6. \A d \in PeerClients : d \in POf(w)' <=> d = c
      BY <1>4, <1>5, <2>1, <2>2, <2>4, ZmqAssumption DEF NothingSent
    <2>7. POf(w)' = {c}
      BY <1>4, <1>7, <2>5, <2>6
    <2>8. \A v \in PeerWorkers \ {w} : \A d \in PeerClients : d \in POf(v)' <=> d \in POf(v)
      BY <2>2, <2>4 DEF POf
    <2>9. \A v \in PeerWorkers \ {w} : POf(v)' = POf(v)
      BY <2>5, <2>8
    <2> QED BY <2>3, <2>7, <2>9
  <1>11. PRequests'
    <2>1. \A d \in Brokers : Elements(localfe'[d]) \subseteq Elements(localfe[d]) \ {c}
      <3>1. \A d \in Brokers \ {b} : c \notin Elements(localfe[d])
        BY <1>8 DEF PRequests
      <3> QED BY <1>6, <1>7, <3>1
    <2>2. (peer_client \in [PeerClients -> {"send", "recv", "reply"}])'
      BY <1>3 DEF PRequests
    <2>3. \A d \in Brokers :
            Distinct(localfe'[d]) /\ \A e \in Elements(localfe'[d]) : Self[e] = d /\ peer_client'[e] = "recv"
      BY <1>3, <1>6, <1>7, <2>1 DEF PRequests
    <2>4. \A v \in PeerWorkers : \A e \in POf(v)' :
             peer_client'[e] = "recv" /\ e \notin Elements(localfe'[Self[e]])
      <3>1. \A v \in PeerWorkers : \A e \in POf(v) : Self[e] \in Brokers
        BY ZmqAssumption DEF POf
      <3>2. \A v \in PeerWorkers : \A e \in POf(v) :
               peer_client[e] = "recv" /\ e \notin Elements(localfe[Self[e]])
        BY DEF PRequests
      <3>3. \A v \in PeerWorkers : \A e \in POf(v)' : e \in POf(v) \/ e = c
        BY <1>10
      <3>4. peer_client'[c] = "recv" /\ c \notin Elements(localfe'[Self[c]])
        BY <1>3, <1>7, <1>8
      <3> QED BY <1>3, <2>1, <3>1, <3>2, <3>3, <3>4
    <2>5. \A u, v \in PeerWorkers : \A e \in POf(u)' \cap POf(v)' : u = v
      BY <1>8, <1>10 DEF PRequests
    <2> QED BY <2>2, <2>3, <2>4, <2>5 DEF PRequests, Elements, Distinct
  <1>12. P!Place[c] = "waiting" /\ P!Place' = [P!Place EXCEPT ![c] = "working"]
    <2>1. \A d \in PeerClients : d \in Elements(localfe'[Self[d]]) <=> d # c /\ d \in Elements(localfe[Self[d]])
      BY <1>6, <1>7, <1>8, ZmqAssumption
    <2>2. \A d \in PeerClients : P!Place'[d] = IF d = c THEN "working" ELSE P!Place[d]
      BY <1>3, <1>8, <1>11, <2>1, PViews DEF PPlaced, PPlaceIs
    <2>3. P!Place[c] = "waiting"
      BY <1>7, <1>8, <1>11, PViews DEF PPlaced, PPlaceIs
    <2> QED BY <1>7, <2>2, <2>3, PFunctions
  <1>13. P!Work[w] = READY /\ P!Work' = [P!Work EXCEPT ![w] = c]
    <2>1. \A v \in PeerWorkers \ {w} : P!Work'[v] = P!Work[v]
      BY <1>10, <1>11, PViews DEF PWorks
    <2>2. P!Work[w] = READY /\ P!Work'[w] = c
      BY <1>4, <1>10, <1>11, PViews DEF PWorks
    <2> QED BY <1>4, <2>1, <2>2, PFunctions
  <1> QED BY <1>4, <1>7, <1>11, <1>12, <1>13 DEF PServes, P!Service!Next, P!Service!Assign, P!Service!Goto

\* The rest moves nothing.
LEMMA PElseServes ==
  ASSUME PInv, PInv', PRequests, UNCHANGED <<peer_client, peer_worker, localfe, localbe, toPeerWorker>>
  PROVE  PRequests' /\ PServes
  <1>1. \A w \in PeerWorkers : POf(w)' = POf(w)
    BY DEF POf, Elements
  <1> QED BY <1>1, PStutter DEF PServes

LEMMA PRefines ==
  ASSUME PInv, PInv', PRequests, P!Next \/ UNCHANGED peeringVars PROVE PRequests' /\ PServes
  <1>1. CASE \E b \in Brokers : P!PollBackends(b) \/ P!Cloudbe(b) \/ P!PollFrontends(b) \/ P!Cloudfe(b) \/ P!Break(b)
    <2>1. UNCHANGED <<peer_client, peer_worker, localfe, localbe, toPeerWorker>>
      BY <1>1 DEF P!PollBackends, P!Cloudbe, P!PollFrontends, P!Cloudfe, P!Break
    <2> QED BY <2>1, PElseServes
  <1>2. CASE UNCHANGED peeringVars
    BY <1>2, PElseServes DEF peeringVars
  <1> QED BY <1>1, <1>2, PSendServes, PRecvServes, PWorkerSendServes, PWorkerRecvServes, PLocalbeServes,
             PLocalfeServes DEF P!Next, P!Main

LEMMA PRequestsBegin == P!Init => PRequests /\ P!Service!Init
  <1> SUFFICES ASSUME P!Init PROVE PRequests /\ P!Service!Init
    OBVIOUS
  <1>1. \A b \in Brokers : Elements(localbe[b]) = {} /\ Elements(localfe[b]) = {} /\ Distinct(localfe[b])
    BY DEF P!Init, Elements, Distinct
  <1>2. \A w \in PeerWorkers : POf(w) = {}
    <2>1. \A d : <<>> # <<d>>
      OBVIOUS
    <2>2. \A w \in PeerWorkers : Self[w] \in Brokers
      BY ZmqAssumption
    <2> QED BY <1>1, <2>1, <2>2, ZmqAssumption DEF P!Init, POf
  <1>3. PRequests
    BY <1>1, <1>2 DEF P!Init, PRequests
  <1>4. P!Place = [c \in PeerClients |-> "idle"] /\ P!Work = [w \in PeerWorkers |-> READY]
    <2>1. PWorks /\ PPlaced
      BY <1>3, PBegins, PWork, PPlace
    <2>2. \A w \in PeerWorkers : P!Work[w] = READY
      BY <1>2, <2>1 DEF PWorks
    <2>3. \A c \in PeerClients : P!Place[c] = "idle"
      BY <2>1 DEF PPlaced, PPlaceIs, P!Init
    <2> QED BY <2>2, <2>3, PFunctions
  <1> QED BY <1>3, <1>4 DEF P!Service!Init

\* lbbroker.cpp, peering1.cpp: whatever the number of clients, workers and brokers, every
\* step of a broker is one of the service RequestReply describes, or none that it sees:
\* a request goes to one worker that has none, and is answered once, after that worker
\* has done it, to the client that made it.
THEOREM BrokersImplementRequestReply == Spec => ImplementsRequestReply
  <1> DEFINE Inv == LInv /\ PInv /\ LRequests /\ PRequests
  <1>1. Init => Inv /\ L!Service!Init /\ P!Service!Init
    BY LBegins, PBegins, LRequestsBegin, PRequestsBegin DEF Init
  <1>2. Inv /\ [Next]_vars => Inv' /\ LServes /\ PServes
    <2> SUFFICES ASSUME Inv, [Next]_vars PROVE Inv' /\ LServes /\ PServes
      OBVIOUS
    <2>1. (L!Next \/ UNCHANGED lbVars) /\ (P!Next \/ UNCHANGED peeringVars)
      BY DEF Next, vars, LbBroker, Peering, DbServer, RouterReq
    <2>2. LInv' /\ PInv'
      BY <2>1, LStep, PStep
    <2>3. LRequests' /\ LServes
      BY <2>1, <2>2, LRefines
    <2>4. PRequests' /\ PServes
      BY <2>1, <2>2, PRefines
    <2> QED BY <2>2, <2>3, <2>4
  <1>3. LServes => [L!Service!Next]_<<L!Place, L!Work>>
    BY DEF LServes
  <1>4. PServes => [P!Service!Next]_<<P!Place, P!Work>>
    BY DEF PServes
  <1> HIDE DEF Inv
  <1> QED BY <1>1, <1>2, <1>3, <1>4, PTL DEF Spec, ImplementsRequestReply, L!ImplementsRequestReply,
             P!ImplementsRequestReply, L!Service!Spec, P!Service!Spec

-----------------------------------------------------------------------------
\* dbserver/main.cpp: the types of what clients and server pass on.
DTypes ==
  /\ sent \in [DbClients -> Seq(DbClients \cup {NUL, PERCENT})]
  /\ answer = [c \in DbClients |-> answer[c]]
  /\ requests \in Seq(DbClients)

\* A client waits for its answer while its request is held by the socket or served, which
\* is never both, and while it is served the buffer holds it and NULs.
DHeld ==
  /\ Distinct(requests)
  /\ Elements(requests) \subseteq waiting
  /\ db_pc \in {"copy", "redis"} =>
       /\ serving \in DbClients \ Elements(requests)
       /\ serving \in waiting
       /\ Len(sent[serving]) <= COMMAND_LEN
  /\ db_pc = "redis" =>
       \A i \in 1 .. COMMAND_LEN :
         command[i] = IF i <= Len(sent[serving]) THEN sent[serving][i] ELSE NUL

DInv == DTypes /\ DHeld /\ D!OwnAnswer

LEMMA DBegins == D!Init => DInv
  <1> SUFFICES ASSUME D!Init PROVE DInv
    OBVIOUS
  <1> USE DEF D!Init
  <1>1. DTypes
    BY EmptySeq DEF DTypes
  <1>2. DHeld /\ D!OwnAnswer
    BY DEF DHeld, D!OwnAnswer, Distinct, Elements
  <1> QED BY <1>1, <1>2 DEF DInv

LEMMA DAsk == ASSUME DInv, NEW c \in DbClients, D!Ask(c) PROVE DInv'
  <1> USE DEF DInv
  <1>1. PICK s \in Requests[c] : sent' = [sent EXCEPT ![c] = s]
    BY DEF D!Ask
  <1>2. /\ c \notin waiting /\ waiting' = waiting \cup {c}
        /\ answer' = [answer EXCEPT ![c] = <<>>]
        /\ requests' = Append(requests, c)
        /\ UNCHANGED <<command, serving, db_pc>>
    BY DEF D!Ask
  <1>3. \A d \in DbClients \ {c} : sent'[d] = sent[d] /\ answer'[d] = answer[d]
    BY <1>1, <1>2 DEF DTypes
  <1>4. DTypes'
    <2>1. s \in Seq(DbClients \cup {NUL, PERCENT})
      BY ZmqAssumption
    <2>2. (sent \in [DbClients -> Seq(DbClients \cup {NUL, PERCENT})])'
      BY <1>1, <2>1 DEF DTypes
    <2>3. (requests \in Seq(DbClients))'
      BY <1>2, AppendProperties DEF DTypes
    <2>4. (answer = [d \in DbClients |-> answer[d]])'
      BY <1>2 DEF DTypes
    <2> QED BY <2>2, <2>3, <2>4 DEF DTypes
  <1>5. c \notin Elements(requests) /\ (db_pc \in {"copy", "redis"} => serving # c)
    BY <1>2 DEF DHeld
  <1>6. Elements(requests') = Elements(requests) \cup {c} /\ Distinct(requests')
    BY <1>2, <1>5, AppendElements DEF DTypes, DHeld
  <1>7. DHeld'
    <2>1. Distinct(requests)' /\ (Elements(requests) \subseteq waiting)'
      BY <1>2, <1>6 DEF DHeld, Distinct, Elements
    <2>2. db_pc \in {"copy", "redis"} =>
            /\ serving \in DbClients \ Elements(requests')
            /\ sent'[serving] = sent[serving]
      BY <1>3, <1>5, <1>6 DEF DHeld
    <2> QED BY <1>2, <2>1, <2>2 DEF DHeld
  <1>8. D!OwnAnswer'
    BY <1>2, <1>3 DEF D!OwnAnswer
  <1> QED BY <1>4, <1>7, <1>8

LEMMA DRecv == ASSUME DInv, D!Recv PROVE DInv'
  <1> USE DEF DInv
  <1>1. /\ requests # <<>> /\ serving' = Head(requests) /\ requests' = Tail(requests)
        /\ db_pc' = IF D!Oversized(Len(sent[serving'])) THEN "recv" ELSE "copy"
        /\ UNCHANGED <<sent, answer, waiting, command>>
    BY DEF D!Recv
  <1>2. /\ Head(requests) \in Elements(requests)
        /\ Elements(Tail(requests)) = Elements(requests) \ {Head(requests)}
        /\ Distinct(Tail(requests))
    BY <1>1, TailElements DEF DTypes, DHeld
  <1>3. Head(requests) \in DbClients /\ Tail(requests) \in Seq(DbClients)
    BY <1>1, HeadTailProperties DEF DTypes
  <1>4. DTypes' /\ D!OwnAnswer'
    BY <1>1, <1>3 DEF DTypes, D!OwnAnswer
  <1>5. DHeld'
    <2>1. Distinct(requests)' /\ Elements(requests)' = Elements(requests) \ {serving'}
      BY <1>1, <1>2
    <2>2. db_pc' = "copy" => Len(sent[serving']) <= COMMAND_LEN
      <3>1. Len(sent[serving']) \in Nat
        BY <1>1, <1>3, LenProperties DEF DTypes
      <3> QED BY <1>1, <3>1, ZmqAssumption DEF D!Oversized
    <2> QED BY <1>1, <1>2, <1>3, <2>1, <2>2 DEF DHeld
  <1> QED BY <1>4, <1>5

\* Behind the request the buffer holds what memset wrote.
LEMMA DCopy == ASSUME DInv, D!Copy PROVE DInv'
  <1> USE DEF DInv
  <1>1. /\ db_pc = "copy" /\ db_pc' = "redis"
        /\ command' = [i \in 1 .. COMMAND_LEN |->
                         IF i <= Len(sent[serving]) THEN sent[serving][i] ELSE NUL]
        /\ UNCHANGED <<sent, answer, waiting, requests, serving>>
    BY DEF D!Copy, D!Cleared
  <1>2. DTypes' /\ D!OwnAnswer'
    BY <1>1 DEF DTypes, D!OwnAnswer
  <1>3. DHeld'
    BY <1>1 DEF DHeld, Distinct, Elements
  <1> QED BY <1>2, <1>3

\* The text in a buffer that holds a sequence and NULs behind it is the text of the
\* sequence: the places before the first NUL are the same in both.
LEMMA TextOfBuffer ==
  ASSUME NEW S, NEW s \in Seq(S), NEW n \in Nat, Len(s) < n,
         NEW buffer, buffer = [i \in 1 .. n |-> IF i <= Len(s) THEN s[i] ELSE NUL]
  PROVE  D!Text(buffer) = D!Text(s)
  <1> DEFINE Before(t) == {i \in 1 .. Len(t) : \A j \in 1 .. i : t[j] # NUL}
  <1>1. Len(s) \in Nat /\ Len(buffer) = n
    BY LenProperties
  <1>2. \A i \in 1 .. Len(s) : buffer[i] = s[i]
    BY <1>1
  <1>3. \A i \in 1 .. n : i \in Before(buffer) => i <= Len(s)
    <2> SUFFICES ASSUME NEW i \in 1 .. n, i \in Before(buffer), ~(i <= Len(s)) PROVE FALSE
      OBVIOUS
    <2>1. Len(s) + 1 \in 1 .. i /\ Len(s) + 1 \in 1 .. n /\ ~(Len(s) + 1 <= Len(s))
      BY <1>1
    <2>2. buffer[Len(s) + 1] = NUL
      BY <2>1
    <2> QED BY <2>1, <2>2
  <1>4. Before(buffer) = Before(s)
    <2>1. \A i \in 1 .. Len(s) : (\A j \in 1 .. i : buffer[j] = s[j]) /\ i \in 1 .. n
      BY <1>1, <1>2
    <2>2. \A i \in 1 .. Len(s) : i \in Before(buffer) <=> i \in Before(s)
      BY <1>1, <2>1
    <2>3. Before(s) \subseteq 1 .. Len(s) /\ Before(buffer) \subseteq 1 .. n
      BY <1>1
    <2> HIDE DEF Before
    <2>4. \A i \in Before(buffer) : i \in 1 .. Len(s)
      BY <1>1, <1>3, <2>3
    <2> QED BY <2>2, <2>3, <2>4
  <1>5. Before(s) \subseteq 1 .. Len(s)
    OBVIOUS
  <1>6. D!Text(s) = [i \in Before(s) |-> s[i]] /\ D!Text(buffer) = [i \in Before(buffer) |-> buffer[i]]
    BY DEF D!Text
  <1> HIDE DEF Before
  <1>7. \A i \in Before(s) : buffer[i] = s[i]
    BY <1>2, <1>5
  <1>8. [i \in Before(s) |-> buffer[i]] = [i \in Before(s) |-> s[i]]
    BY <1>7
  <1> QED BY <1>4, <1>6, <1>8

\* The only string redis is given when the request leaves room for its NUL is the text of
\* the request.
LEMMA StringIsText ==
  ASSUME DInv, db_pc = "redis", Len(sent[serving]) < COMMAND_LEN, NEW string \in D!Strings
  PROVE  string = D!Text(sent[serving])
  <1> DEFINE buffer == [i \in 1 .. COMMAND_LEN |-> command[i]]
             n == Len(sent[serving])
  <1>1. sent[serving] \in Seq(DbClients \cup {NUL, PERCENT}) /\ n \in Nat /\ COMMAND_LEN \in Nat
    BY ZmqAssumption, LenProperties DEF DInv, DTypes, DHeld
  <1>2. \A i \in 1 .. COMMAND_LEN :
          command[i] = IF i <= n THEN sent[serving][i] ELSE NUL
    BY DEF DInv, DHeld
  <1>3. buffer = [i \in 1 .. COMMAND_LEN |-> IF i <= n THEN sent[serving][i] ELSE NUL]
    BY <1>2
  <1>4. D!Text(buffer) = D!Text(sent[serving])
    BY <1>1, <1>3, TextOfBuffer
  <1>5. COMMAND_LEN \in 1 .. COMMAND_LEN /\ buffer[COMMAND_LEN] = NUL
    BY <1>1, <1>3
  <1>6. string \in {D!Text(buffer)}
    BY <1>5 DEF D!Strings
  <1> QED BY <1>4, <1>6

LEMMA DAnswer == ASSUME DInv, D!Answer PROVE DInv'
  <1> USE DEF DInv
  <1>1. PICK string, sentence :
          /\ string \in D!Strings /\ sentence \in D!Commands(string)
          /\ answer' = [answer EXCEPT ![serving] = sentence]
    BY DEF D!Answer
  <1>2. /\ db_pc = "redis" /\ db_pc' = "recv" /\ waiting' = waiting \ {serving}
        /\ UNCHANGED <<sent, requests, command, serving>>
    BY DEF D!Answer
  <1>3. /\ serving \in DbClients \ Elements(requests)
        /\ answer'[serving] = sentence
        /\ \A c \in DbClients \ {serving} : answer'[c] = answer[c]
    BY <1>1, <1>2 DEF DTypes, DHeld
  <1>4. DTypes'
    BY <1>1, <1>2 DEF DTypes
  <1>5. DHeld'
    BY <1>2, <1>3 DEF DHeld, Distinct, Elements
  <1>6. D!OwnAnswer'
    <2>1. /\ Len(sent[serving]) < COMMAND_LEN /\ ~D!Converts(D!Text(sent[serving]))
          => sentence = D!Formatted(D!Text(sent[serving]))
      <3> SUFFICES ASSUME Len(sent[serving]) < COMMAND_LEN, ~D!Converts(D!Text(sent[serving]))
                   PROVE  sentence = D!Formatted(D!Text(sent[serving]))
        OBVIOUS
      <3>1. string = D!Text(sent[serving])
        BY <1>1, <1>2, StringIsText
      <3> QED BY <1>1, <3>1 DEF D!Commands
    <2> QED BY <1>2, <1>3, <2>1 DEF D!OwnAnswer
  <1> QED BY <1>4, <1>5, <1>6

LEMMA DElse ==
  ASSUME DInv, D!RecvThrows \/ D!NoResult \/ D!RedisLost \/ UNCHANGED dbVars PROVE DInv'
  <1> USE DEF DInv
  <1>1. /\ UNCHANGED <<sent, answer, waiting, requests, command, serving>>
        /\ db_pc' = db_pc \/ db_pc' = "dead"
    BY DEF D!RecvThrows, D!NoResult, D!RedisLost, dbVars
  <1>2. DTypes' /\ D!OwnAnswer'
    BY <1>1 DEF DTypes, D!OwnAnswer
  <1>3. Distinct(requests)' = Distinct(requests) /\ Elements(requests)' = Elements(requests)
    BY <1>1 DEF Distinct, Elements
  <1>4. DHeld'
    BY <1>1, <1>3 DEF DHeld
  <1> QED BY <1>2, <1>4

\* dbserver/main.cpp: for a buffer of any length and any number of clients, each with any
\* set of requests, the command run for a client whose request leaves room for a NUL in
\* the buffer and holds no conversion is the text of its own request, up to its first NUL,
\* with one '%' for two. Nothing is said of requests that fill the buffer or hold a
\* conversion.
THEOREM AnswersAreOwn == Spec => []OwnAnswer
  <1>1. Init => DInv
    BY DBegins DEF Init
  <1>2. DInv /\ [Next]_vars => DInv'
    <2> SUFFICES ASSUME DInv, [Next]_vars PROVE DInv'
      OBVIOUS
    <2>1. D!Next \/ UNCHANGED dbVars
      BY DEF Next, vars, LbBroker, Peering, DbServer, RouterReq
    <2> QED BY <2>1, DAsk, DRecv, DCopy, DAnswer, DElse DEF D!Next, D!Serve
  <1>3. DInv => OwnAnswer
    BY DEF DInv, OwnAnswer
  <1> QED BY <1>1, <1>2, <1>3, PTL DEF Spec
===============================================================================
