----------------------- MODULE SocketDescriptorProofs ------------------------
(***************************************************************************)
(* Theorems about the descriptors, the events and the messages of          *)
(* SocketServer, for every number of threads, slots, ids and descriptors,  *)
(* every pipe length and every batch size: who owns a descriptor, what     *)
(* epoll points to, and which sockets a message is about.                  *)
(***************************************************************************)
EXTENDS SocketServerProofs

-----------------------------------------------------------------------------
(* Descriptors *)

\* The requests on their way to the poll thread: in a thread, or in the pipe.
Requested == {request[p] : p \in Procs} \cup {pipe[k] : k \in 1 .. Len(pipe)}

\* A request that names a descriptor, and one the descriptor belongs to: the
\* one server_bind is given stays the application's, which may bind it twice.
HasFd(r)  == r.type \in {"L", "B", "ACCEPT"}
OwnsFd(r) == r.type \in {"L", "ACCEPT"}

\* The kernel's states of the descriptor of a slot, or of a request, of a type.
FdStateFor(type) ==
  CASE type \in {"PLISTEN", "LISTEN", "L"} -> {"listen"}
    [] type \in {"PACCEPT", "ACCEPT"}      -> {"conn"}
    [] type \in {"BIND", "B"}              -> {"user"}
    [] OTHER                               -> {"connecting", "failed", "conn"}

\* Slots and requests have open descriptors of the right kind, the descriptor a
\* request owns is no slot's and no other request's.
SlotFdOK ==
  \A s \in Slots : sType[s] \in LiveTypes => sFd[s] \in FDs /\ fdState[sFd[s]] \in FdStateFor(sType[s])
RequestFdOK ==
  \A r \in Requested : IF HasFd(r) THEN r.fd \in FDs /\ fdState[r.fd] \in FdStateFor(r.type) ELSE r.fd = NoFd
Disjoint ==
  \A r \in Requested : OwnsFd(r) => \A s \in Slots : sType[s] \in LiveTypes => sFd[s] # r.fd
OneCarrier ==
  /\ \A p, q \in Procs : OwnsFd(request[p]) /\ OwnsFd(request[q]) /\ request[p].fd = request[q].fd => p = q
  /\ \A p \in Procs : \A k \in 1 .. Len(pipe) :
       OwnsFd(request[p]) /\ OwnsFd(pipe[k]) => request[p].fd # pipe[k].fd
  /\ \A j, k \in 1 .. Len(pipe) : OwnsFd(pipe[j]) /\ OwnsFd(pipe[k]) /\ pipe[j].fd = pipe[k].fd => j = k

DescriptorInv == ClaimedInv /\ SlotFdOK /\ RequestFdOK /\ Disjoint /\ OneCarrier /\ FdOwned

\* Thread p changes its request for r.
LEMMA RequestedPut ==
  ASSUME TypeInv, OneCarrier, NEW p \in Procs, NEW r, request' = [request EXCEPT ![p] = r], UNCHANGED pipe,
         OwnsFd(r) => \/ OwnsFd(request[p]) /\ r.fd = request[p].fd
                      \/ \A o \in Requested : OwnsFd(o) => o.fd # r.fd
  PROVE  /\ Requested' \subseteq Requested \cup {r}
         /\ Requested \subseteq Requested' \cup {request[p]}
         /\ request[p] \in Requested
         /\ OneCarrier'
         /\ OwnsFd(request[p]) /\ ~OwnsFd(r) => \A o \in Requested' : OwnsFd(o) => o.fd # request[p].fd
  <1>1. request'[p] = r /\ \A q \in Procs : q # p => request'[q] = request[q]
    BY DEF TypeInv, TypeOK, CallTypeOK
  <1>2. \A q \in Procs : request[q] \in Requested
    BY DEF Requested
  <1>3. \A k \in 1 .. Len(pipe) : pipe[k] \in Requested
    BY DEF Requested
  <1>4. /\ Requested' \subseteq Requested \cup {r}
        /\ Requested \subseteq Requested' \cup {request[p]}
    BY <1>1 DEF Requested
  <1>5. OneCarrier'
    <2>1. \A a, b \in Procs : OwnsFd(request[a])' /\ OwnsFd(request[b])' /\ request'[a].fd = request'[b].fd => a = b
      BY <1>1, <1>2 DEF OneCarrier, OwnsFd
    <2>2. \A a \in Procs : \A k \in 1 .. Len(pipe) :
            OwnsFd(request[a])' /\ OwnsFd(pipe[k]) => request'[a].fd # pipe[k].fd
      BY <1>1, <1>3 DEF OneCarrier, OwnsFd
    <2> QED BY <2>1, <2>2 DEF OneCarrier, OwnsFd
  <1>6. OwnsFd(request[p]) /\ ~OwnsFd(r) => \A o \in Requested' : OwnsFd(o) => o.fd # request[p].fd
    BY <1>1 DEF Requested, OneCarrier
  <1> QED BY <1>2, <1>4, <1>5, <1>6

\* The poll thread reads a command.
LEMMA RequestedPop ==
  ASSUME TypeInv, OneCarrier, pipe # <<>>, pipe' = Tail(pipe), UNCHANGED request
  PROVE  /\ Requested' \subseteq Requested
         /\ Requested \subseteq Requested' \cup {Cmd}
         /\ Cmd \in Requested
         /\ OneCarrier'
         /\ OwnsFd(Cmd) => \A o \in Requested' : OwnsFd(o) => o.fd # Cmd.fd
  <1>1. /\ \A k \in 1 .. Len(pipe') : k + 1 \in 1 .. Len(pipe) /\ k + 1 # 1 /\ pipe'[k] = pipe[k + 1]
        /\ \A k \in 2 .. Len(pipe) : k - 1 \in 1 .. Len(pipe') /\ pipe'[k - 1] = pipe[k]
        /\ 1 \in 1 .. Len(pipe) /\ Cmd = pipe[1]
        /\ \A k \in 1 .. Len(pipe) : k = 1 \/ k \in 2 .. Len(pipe)
    BY DEF TypeInv, TypeOK, PipeTypeOK, Cmd
  <1>2. Requested' \subseteq Requested /\ Cmd \in Requested
    BY <1>1 DEF Requested
  <1>3. Requested \subseteq Requested' \cup {Cmd}
    BY <1>1 DEF Requested
  <1>4. OneCarrier'
    <2>1. \A p \in Procs : \A k \in 1 .. Len(pipe') :
            OwnsFd(request[p]) /\ OwnsFd(pipe'[k]) => request[p].fd # pipe'[k].fd
      BY <1>1 DEF OneCarrier
    <2>2. ASSUME NEW j \in 1 .. Len(pipe'), NEW k \in 1 .. Len(pipe'),
                 OwnsFd(pipe'[j]), OwnsFd(pipe'[k]), pipe'[j].fd = pipe'[k].fd
          PROVE  j = k
      <3>1. j + 1 = k + 1
        BY <1>1, <2>2 DEF OneCarrier
      <3> QED BY <3>1
    <2> QED BY <2>1, <2>2 DEF OneCarrier, OwnsFd
  <1>5. ASSUME OwnsFd(Cmd), NEW o \in Requested', OwnsFd(o) PROVE o.fd # Cmd.fd
    <2>1. CASE \E p \in Procs : o = request[p]
      BY <1>1, <1>5, <2>1 DEF OneCarrier
    <2>2. CASE \E k \in 1 .. Len(pipe') : o = pipe'[k]
      BY <1>1, <1>5, <2>2 DEF OneCarrier
    <2> QED BY <2>1, <2>2 DEF Requested
  <1> QED BY <1>2, <1>3, <1>4, <1>5

\* A call writes its request to the pipe.
LEMMA RequestedSend ==
  ASSUME TypeInv, OneCarrier, NEW t \in Procs, pipe' = Append(pipe, request[t]),
         request' = [request EXCEPT ![t] = NoRequest]
  PROVE  /\ Requested' \subseteq Requested \cup {NoRequest}
         /\ Requested \subseteq Requested'
         /\ OneCarrier'
  <1>1. request'[t] = NoRequest /\ \A q \in Procs : q # t => request'[q] = request[q]
    BY DEF TypeInv, TypeOK, CallTypeOK
  <1>2. PICK n \in Nat : n = Len(pipe) + 1
    BY DEF TypeInv, TypeOK, PipeTypeOK
  <1>3. /\ Len(pipe') = n /\ n \in 1 .. Len(pipe') /\ pipe'[n] = request[t]
        /\ \A k \in 1 .. Len(pipe') : k = n \/ k \in 1 .. Len(pipe)
        /\ \A k \in 1 .. Len(pipe) : k \in 1 .. Len(pipe') /\ k # n /\ pipe'[k] = pipe[k]
    BY <1>2 DEF TypeInv, TypeOK, PipeTypeOK
  <1>4. Requested' \subseteq Requested \cup {NoRequest}
    BY <1>1, <1>3 DEF Requested
  <1>5. Requested \subseteq Requested'
    BY <1>1, <1>3 DEF Requested
  <1>6. ~OwnsFd(NoRequest)
    BY DEF OwnsFd, NoRequest
  <1>7. OneCarrier'
    <2>1. \A a, b \in Procs : OwnsFd(request'[a]) /\ OwnsFd(request'[b]) /\ request'[a].fd = request'[b].fd => a = b
      BY <1>1, <1>6 DEF OneCarrier
    <2>2. \A a \in Procs : \A k \in 1 .. Len(pipe') :
            OwnsFd(request'[a]) /\ OwnsFd(pipe'[k]) => request'[a].fd # pipe'[k].fd
      BY <1>1, <1>3, <1>6 DEF OneCarrier
    <2>3. \A j, k \in 1 .. Len(pipe') : OwnsFd(pipe'[j]) /\ OwnsFd(pipe'[k]) /\ pipe'[j].fd = pipe'[k].fd => j = k
      BY <1>1, <1>3 DEF OneCarrier
    <2> QED BY <2>1, <2>2, <2>3 DEF OneCarrier, OwnsFd
  <1> QED BY <1>4, <1>5, <1>7

\* What DescriptorInv says of slots, kernel and requests, the carriers aside.
DescriptorsOK == SlotFdOK /\ RequestFdOK /\ Disjoint /\ FdOwned

\* No live slot, descriptor or registration changes, and no request owns more.
LEMMA DescriptorsKept ==
  ASSUME DescriptorsOK, UNCHANGED fdState,
         \A f \in FDs : epoll'[f] # NoSlot <=> epoll[f] # NoSlot,
         \A s \in Slots : sType'[s] \in LiveTypes =>
           /\ sType[s] \in LiveTypes /\ sFd'[s] = sFd[s]
           /\ FdStateFor(sType[s]) \subseteq FdStateFor(sType'[s])
         \* the polled slots stay, and stay what they are
         , \A s \in Slots : sType[s] \in PolledTypes <=> sType'[s] \in PolledTypes,
         \A r \in Requested' : \/ r \in Requested
                               \/ ~HasFd(r) /\ r.fd = NoFd
                               \/ \E q \in Requested : q.type = r.type /\ q.fd = r.fd
  PROVE  DescriptorsOK'
  <1>1. SlotFdOK'
    BY DEF DescriptorsOK, SlotFdOK
  <1>2. RequestFdOK'
    BY DEF DescriptorsOK, RequestFdOK, HasFd
  <1>3. Disjoint'
    BY DEF DescriptorsOK, Disjoint, OwnsFd, HasFd
  <1>4. PolledTypes \subseteq LiveTypes
    BY DEF PolledTypes
  <1>5. \A s, r \in Slots : sType'[s] \in LiveTypes /\ sType'[r] \in LiveTypes /\ sFd'[s] = sFd'[r] => s = r
    BY DEF DescriptorsOK, FdOwned
  <1>6. \A f \in FDs : epoll'[f] # NoSlot <=> \E s \in Slots : sType'[s] \in PolledTypes /\ sFd'[s] = f
    BY <1>4 DEF DescriptorsOK, FdOwned
  <1>7. \A s \in Slots : sType'[s] \in LiveTypes => sFd'[s] \in FDs /\ fdState'[sFd'[s]] # "free"
    BY DEF DescriptorsOK, FdOwned
  <1> QED BY <1>1, <1>2, <1>3, <1>5, <1>6, <1>7 DEF DescriptorsOK, FdOwned

\* A live slot is closed, its descriptor with it unless it is the application's.
LEMMA DescriptorsClosed ==
  ASSUME TypeInv, DescriptorsOK, NEW s \in Slots, sType[s] \in LiveTypes,
         ForceClose(s), UNCHANGED sFd, Requested' \subseteq Requested
  PROVE  DescriptorsOK'
  <1> DEFINE f == sFd[s]
  <1>0. /\ f \in FDs /\ fdState[f] \in FdStateFor(sType[s])
        /\ sType \in [Slots -> SocketTypes] /\ epoll \in [FDs -> Slots \cup {NoSlot}]
        /\ fdState \in [FDs -> FdStates]
    BY DEF DescriptorsOK, SlotFdOK, TypeInv, TypeOK, SlotTypeOK, KernelTypeOK
  <1>1. /\ sType'[s] = "INVALID" /\ \A r \in Slots : r # s => sType'[r] = sType[r]
        /\ \A g \in FDs : g # f => fdState'[g] = fdState[g] /\ epoll'[g] = epoll[g]
        /\ sType[s] = "BIND" => UNCHANGED fdState
        /\ epoll'[f] = NoSlot
    <2>1. sType[s] \in DeletedOnForce \cup ClosedOnForce
      BY <1>0 DEF DeletedOnForce, ClosedOnForce, LiveTypes, SocketTypes
    <2>2. /\ sType' = [sType EXCEPT ![s] = "INVALID"]
          /\ fdState' = [g \in FDs |-> IF g = f /\ sType[s] \in ClosedOnForce THEN "free" ELSE fdState[g]]
          /\ epoll' = [g \in FDs |-> IF g = f THEN NoSlot ELSE epoll[g]]
      BY <2>1 DEF ForceClose
    <2> QED BY <1>0, <2>2 DEF ClosedOnForce
  <1>2. \A r \in Slots : sType'[r] \in LiveTypes =>
          r # s /\ sType[r] \in LiveTypes /\ sType'[r] = sType[r] /\ sFd'[r] = sFd[r] /\ sFd[r] # f
    BY <1>1 DEF DescriptorsOK, FdOwned, LiveTypes
  <1>3. SlotFdOK'
    BY <1>1, <1>2 DEF DescriptorsOK, SlotFdOK
  <1>4. RequestFdOK'
    <2>1. SUFFICES ASSUME NEW r \in Requested, HasFd(r), r.fd = f, sType[s] # "BIND"
                   PROVE  FALSE
      BY <1>1 DEF DescriptorsOK, RequestFdOK
    <2>2. r.type = "B"
      BY <2>1 DEF DescriptorsOK, Disjoint, HasFd, OwnsFd
    <2>3. fdState[f] = "user"
      BY <2>1, <2>2 DEF DescriptorsOK, RequestFdOK, FdStateFor
    <2> QED BY <1>0, <2>1, <2>3 DEF FdStateFor, LiveTypes, SocketTypes
  <1>5. Disjoint'
    BY <1>2 DEF DescriptorsOK, Disjoint
  <1>6. \A r, q \in Slots : sType'[r] \in LiveTypes /\ sType'[q] \in LiveTypes /\ sFd'[r] = sFd'[q] => r = q
    BY <1>2 DEF DescriptorsOK, FdOwned
  <1>7. ASSUME NEW g \in FDs
        PROVE  epoll'[g] # NoSlot <=> \E r \in Slots : sType'[r] \in PolledTypes /\ sFd'[r] = g
    <2>1. CASE g = f
      BY <1>1, <1>2, <2>1 DEF PolledTypes
    <2>2. CASE g # f
      BY <1>1, <1>2, <2>2 DEF DescriptorsOK, FdOwned, PolledTypes
    <2> QED BY <2>1, <2>2
  <1>8. \A r \in Slots : sType'[r] \in LiveTypes => sFd'[r] \in FDs /\ fdState'[sFd'[r]] # "free"
    BY <1>1, <1>2 DEF DescriptorsOK, FdOwned
  <1> QED BY <1>3, <1>4, <1>5, <1>6, <1>7, <1>8 DEF DescriptorsOK, FdOwned

\* A reserved slot is filled with a descriptor f of the right kind, which no live
\* slot has and no request still owns; it is registered if the new type is polled.
LEMMA DescriptorsOpened ==
  ASSUME TypeInv, DescriptorsOK, NEW s \in Slots, NEW f \in FDs, NEW type \in LiveTypes,
         sType[s] = "RESERVE", sType' = [sType EXCEPT ![s] = type], sFd' = [sFd EXCEPT ![s] = f],
         \A g \in FDs : g # f => fdState'[g] = fdState[g] /\ (epoll'[g] # NoSlot <=> epoll[g] # NoSlot),
         fdState'[f] = fdState[f] \/ fdState[f] = "free", fdState'[f] \in FdStateFor(type),
         epoll'[f] # NoSlot <=> type \in PolledTypes,
         \A r \in Slots : sType[r] \in LiveTypes => sFd[r] # f,
         Requested' \subseteq Requested \cup {NoRequest},
         \A r \in Requested' : OwnsFd(r) => r.fd # f
  PROVE  DescriptorsOK'
  <1>0. /\ sType'[s] = type /\ sFd'[s] = f
        /\ \A r \in Slots : r # s => sType'[r] = sType[r] /\ sFd'[r] = sFd[r]
        /\ sType[s] \notin LiveTypes
    BY DEF TypeInv, TypeOK, SlotTypeOK, LiveTypes
  <1>1. "free" \notin FdStateFor(type)
    BY DEF FdStateFor
  <1>2. ~HasFd(NoRequest) /\ ~OwnsFd(NoRequest) /\ NoRequest.fd = NoFd
    BY DEF HasFd, OwnsFd, NoRequest
  <1>3. SlotFdOK'
    BY <1>0 DEF DescriptorsOK, SlotFdOK
  <1>4. RequestFdOK'
    <2>1. \A r \in Requested : HasFd(r) => fdState'[r.fd] = fdState[r.fd]
      <3>1. \A r \in Requested : HasFd(r) => r.fd \in FDs /\ fdState[r.fd] # "free"
        BY DEF DescriptorsOK, RequestFdOK, FdStateFor
      <3> QED BY <3>1
    <2> QED BY <1>2, <2>1 DEF DescriptorsOK, RequestFdOK
  <1>5. Disjoint'
    BY <1>0, <1>2 DEF DescriptorsOK, Disjoint
  <1>6. \A r, q \in Slots : sType'[r] \in LiveTypes /\ sType'[q] \in LiveTypes /\ sFd'[r] = sFd'[q] => r = q
    BY <1>0 DEF DescriptorsOK, FdOwned
  <1>7. ASSUME NEW g \in FDs
        PROVE  epoll'[g] # NoSlot <=> \E r \in Slots : sType'[r] \in PolledTypes /\ sFd'[r] = g
    <2>0. PolledTypes \subseteq LiveTypes
      BY DEF PolledTypes
    <2>1. CASE g = f
      BY <1>0, <2>0, <2>1
    <2>2. CASE g # f
      BY <1>0, <2>0, <2>2 DEF DescriptorsOK, FdOwned
    <2> QED BY <2>1, <2>2
  <1>8. \A r \in Slots : sType'[r] \in LiveTypes => sFd'[r] \in FDs /\ fdState'[sFd'[r]] # "free"
    BY <1>0, <1>1 DEF DescriptorsOK, FdOwned
  <1> QED BY <1>3, <1>4, <1>5, <1>6, <1>7, <1>8 DEF DescriptorsOK, FdOwned

\* The kernel hands out descriptor f, which was free, or the application binds
\* its own, for the request r.
LEMMA DescriptorsTaken ==
  ASSUME TypeInv, DescriptorsOK, NEW f \in FDs, NEW r, HasFd(r), r.fd = f,
         fdState[f] = "free" \/ (fdState[f] = "user" /\ r.type = "B" /\ UNCHANGED fdState),
         NEW st \in FdStateFor(r.type), fdState' = [fdState EXCEPT ![f] = st],
         UNCHANGED <<sType, sFd, epoll>>, Requested' \subseteq Requested \cup {r}
  PROVE  DescriptorsOK' /\ (OwnsFd(r) => \A o \in Requested : OwnsFd(o) => o.fd # f)
  <1>1. /\ fdState'[f] = st /\ \A g \in FDs : g # f => fdState'[g] = fdState[g]
        /\ st # "free"
    BY DEF TypeInv, TypeOK, KernelTypeOK, FdStateFor
  <1>2. \A s \in Slots : sType[s] \in LiveTypes => sFd[s] \in FDs /\ fdState'[sFd[s]] = fdState[sFd[s]]
    BY <1>1 DEF DescriptorsOK, FdOwned
  <1>3. \A o \in Requested : HasFd(o) => o.fd \in FDs /\ fdState[o.fd] # "free" /\ fdState'[o.fd] = fdState[o.fd]
    <2>1. \A o \in Requested : HasFd(o) => o.fd \in FDs /\ fdState[o.fd] # "free"
      BY DEF DescriptorsOK, RequestFdOK, FdStateFor
    <2> QED BY <1>1, <2>1
  <1>4. SlotFdOK'
    BY <1>2 DEF DescriptorsOK, SlotFdOK
  <1>5. RequestFdOK'
    BY <1>1, <1>3 DEF DescriptorsOK, RequestFdOK
  <1>6. OwnsFd(r) => fdState[f] = "free"
    BY DEF OwnsFd
  <1>7. Disjoint'
    <2>1. ASSUME OwnsFd(r), NEW s \in Slots, sType[s] \in LiveTypes PROVE sFd[s] # f
      BY <1>6, <2>1 DEF DescriptorsOK, FdOwned
    <2> QED BY <2>1 DEF DescriptorsOK, Disjoint
  <1>8. FdOwned'
    BY <1>2 DEF DescriptorsOK, FdOwned
  <1>9. ASSUME OwnsFd(r), NEW o \in Requested, OwnsFd(o) PROVE o.fd # f
    BY <1>3, <1>6, <1>9 DEF OwnsFd, HasFd
  <1> QED BY <1>4, <1>5, <1>7, <1>8, <1>9 DEF DescriptorsOK

\* Steps of reserve_id touch no live slot; a full table gives the descriptor back.
LEMMA DescriptorsReserve ==
  ASSUME DescriptorInv, NEW p \in Procs, Reserve(p) \/ ReserveFull(p)
  PROVE  DescriptorsOK' /\ OneCarrier'
  <1> DEFINE s == HASH_ID(request[p].id)
  <1>0. /\ request \in [Procs -> Requests] /\ sType \in [Slots -> SocketTypes]
        /\ sFd \in [Slots -> FDs \cup {NoFd}] /\ fdState \in [FDs -> FdStates]
        /\ s \in Slots /\ s = HeldSlot(p)
        /\ TypeInv /\ OneCarrier /\ DescriptorsOK /\ ReservationOwned
    BY SlotsOfOwners
    DEF DescriptorInv, DescriptorsOK, ClaimedInv, ReservationInv, TypeInv, TypeOK, CallTypeOK, SlotTypeOK, KernelTypeOK, HeldSlot
  <1>1. CASE ReserveAdd(p) \/ ReserveMask(p)
    <2>1. PICK i : request' = [request EXCEPT ![p].id = i]
      BY <1>1 DEF ReserveAdd, ReserveMask
    <2>2. PICK r : r = [request[p] EXCEPT !.id = i]
      OBVIOUS
    <2>3. request' = [request EXCEPT ![p] = r] /\ r.type = request[p].type /\ r.fd = request[p].fd
      BY <1>0, <2>1, <2>2 DEF Requests
    <2>4. UNCHANGED <<pipe, sType, sFd, fdState, epoll>>
      BY <1>1 DEF ReserveAdd, ReserveMask, slotVars, kernelVars
    <2>5. /\ Requested' \subseteq Requested \cup {r} /\ request[p] \in Requested /\ OneCarrier'
      BY <1>0, <2>3, <2>4, RequestedPut DEF OwnsFd
    <2>6. DescriptorsOK'
      BY <1>0, <2>3, <2>4, <2>5, DescriptorsKept
    <2> QED BY <2>5, <2>6
  <1>2. CASE ReserveLook(p) \/ ReserveCas(p) \/ ReserveSetId(p) \/ ReserveSetFd(p)
    <2>1. UNCHANGED <<request, pipe, fdState, epoll>>
      BY <1>2 DEF ReserveLook, ReserveCas, ReserveSetId, ReserveSetFd, callVars, kernelVars
    <2>2. UNCHANGED <<Requested, OneCarrier>>
      BY <2>1 DEF Requested, OneCarrier
    <2>3. CASE UNCHANGED <<sType, sFd>>
      BY <1>0, <2>1, <2>2, <2>3, DescriptorsKept
    <2>4. CASE ReserveCas(p) /\ ~ UNCHANGED <<sType, sFd>>
      <3>1. /\ sType[s] = "INVALID" /\ sType' = [sType EXCEPT ![s] = "RESERVE"] /\ UNCHANGED sFd
        BY <2>4 DEF ReserveCas, CasSucceeds
      <3>2. \A r \in Slots : sType'[r] = sType[r] \/ (sType[r] = "INVALID" /\ sType'[r] = "RESERVE")
        BY <1>0, <3>1
      <3> QED BY <1>0, <2>1, <2>2, <3>1, <3>2, DescriptorsKept DEF PolledTypes, LiveTypes
    <2>5. CASE ReserveSetFd(p)
      <3>1. sType[s] = "RESERVE"
        BY <1>0, <2>5 DEF ReserveSetFd, Holds, ReservationOwned, ClaimIsReserved
      <3>2. UNCHANGED sType /\ \A r \in Slots : r # s => sFd'[r] = sFd[r]
        BY <1>0, <2>5 DEF ReserveSetFd
      <3>3. s \notin {r \in Slots : sType[r] \in LiveTypes}
        BY <3>1 DEF LiveTypes
      <3> QED BY <1>0, <2>1, <2>2, <3>2, <3>3, DescriptorsKept
    <2> QED BY <1>2, <2>3, <2>4, <2>5 DEF ReserveLook, ReserveCas, ReserveSetId, slotVars
  <1>3. CASE ReserveFull(p)
    <2> DEFINE f == request[p].fd
    <2>1. /\ UNCHANGED <<pipe, sType, sFd, epoll>> /\ request' = [request EXCEPT ![p] = NoRequest]
          /\ fdState' = [g \in FDs |->
               IF g = f /\ request[p].type \in {"L", "ACCEPT"} THEN "free" ELSE fdState[g]]
      BY <1>3 DEF ReserveFull, slotVars
    <2>2. ~OwnsFd(NoRequest) /\ ~HasFd(NoRequest) /\ NoRequest.fd = NoFd
      BY DEF OwnsFd, HasFd, NoRequest
    <2>3. /\ Requested' \subseteq Requested \cup {NoRequest} /\ request[p] \in Requested /\ OneCarrier'
          /\ OwnsFd(request[p]) => \A o \in Requested' : OwnsFd(o) => o.fd # f
      BY <1>0, <2>1, <2>2, RequestedPut
    <2>4. CASE ~OwnsFd(request[p])
      <3>1. UNCHANGED fdState
        BY <1>0, <2>1, <2>4 DEF OwnsFd
      <3> QED BY <1>0, <2>1, <2>2, <2>3, <3>1, DescriptorsKept
    <2>5. CASE OwnsFd(request[p])
      <3>1. f \in FDs /\ fdState[f] \in {"listen", "conn"}
        BY <1>0, <2>3, <2>5 DEF DescriptorsOK, RequestFdOK, HasFd, OwnsFd, FdStateFor
      <3>2. \A g \in FDs : g # f => fdState'[g] = fdState[g]
        BY <2>1
      <3>3. \A r \in Slots : sType[r] \in LiveTypes => sFd[r] # f
        BY <1>0, <2>3, <2>5 DEF DescriptorsOK, Disjoint
      <3>4. SlotFdOK' /\ FdOwned' /\ Disjoint'
        <4>1. SlotFdOK'
          BY <1>0, <2>1, <3>2, <3>3 DEF DescriptorsOK, SlotFdOK
        <4>2. FdOwned'
          BY <1>0, <2>1, <3>2, <3>3 DEF DescriptorsOK, FdOwned
        <4>3. Disjoint'
          BY <1>0, <2>1, <2>2, <2>3 DEF DescriptorsOK, Disjoint
        <4> QED BY <4>1, <4>2, <4>3
      <3>5. \A o \in Requested : HasFd(o) /\ o.fd = f => OwnsFd(o)
        <4>1. \A o \in Requested : HasFd(o) /\ ~OwnsFd(o) => fdState[o.fd] = "user"
          BY <1>0 DEF DescriptorsOK, RequestFdOK, HasFd, OwnsFd, FdStateFor
        <4> QED BY <3>1, <4>1
      <3>6. RequestFdOK'
        BY <1>0, <2>2, <2>3, <2>5, <3>2, <3>5 DEF DescriptorsOK, RequestFdOK
      <3> QED BY <2>3, <3>4, <3>6 DEF DescriptorsOK
    <2> QED BY <2>3, <2>4, <2>5
  <1> QED BY <1>1, <1>2, <1>3 DEF Reserve

\* server_listen and server_bind take a descriptor; SendRequest passes it on.
LEMMA DescriptorsCall ==
  ASSUME DescriptorInv, NEW t \in Threads, Call(t) \/ SendRequest(t)
  PROVE  DescriptorsOK' /\ OneCarrier'
  <1>0. /\ t \in Procs /\ TypeInv /\ OneCarrier /\ DescriptorsOK
        /\ fdState \in [FDs -> FdStates]
    BY DEF DescriptorInv, DescriptorsOK, ClaimedInv, ReservationInv, Procs, TypeInv, TypeOK, KernelTypeOK
  <1>1. CASE ServerListen(t) \/ ServerBind(t)
    <2>1. PICK f, r, st :
            /\ f \in FDs /\ r.fd = f /\ request' = [request EXCEPT ![t] = r]
            /\ fdState' = [fdState EXCEPT ![f] = st] /\ UNCHANGED <<pipe, sType, sFd, epoll>>
            /\ \/ r.type = "L" /\ fdState[f] = "free" /\ st = "listen"
               \/ r.type = "B" /\ fdState[f] \in {"free", "user"} /\ st = "user"
      <3>1. CASE ServerListen(t)
        <4>1. PICK f \in FDs :
                /\ fdState[f] = "free" /\ fdState' = [fdState EXCEPT ![f] = "listen"]
                /\ StartReserve(t, "L", f)
          BY <3>1 DEF ServerListen
        <4>2. PICK r : r = [type |-> "L", id |-> 0, fd |-> f]
          OBVIOUS
        <4>3. r.fd = f /\ r.type = "L" /\ request' = [request EXCEPT ![t] = r]
          BY <4>1, <4>2 DEF StartReserve
        <4>4. UNCHANGED <<pipe, sType, sFd, epoll>>
          BY <3>1 DEF ServerListen, slotVars
        <4> QED BY <4>1, <4>3, <4>4
      <3>2. CASE ServerBind(t)
        <4>1. PICK f \in FDs :
                /\ fdState[f] \in {"free", "user"} /\ fdState' = [fdState EXCEPT ![f] = "user"]
                /\ StartReserve(t, "B", f)
          BY <3>2 DEF ServerBind
        <4>2. PICK r : r = [type |-> "B", id |-> 0, fd |-> f]
          OBVIOUS
        <4>3. r.fd = f /\ r.type = "B" /\ request' = [request EXCEPT ![t] = r]
          BY <4>1, <4>2 DEF StartReserve
        <4>4. UNCHANGED <<pipe, sType, sFd, epoll>>
          BY <3>2 DEF ServerBind, slotVars
        <4> QED BY <4>1, <4>3, <4>4
      <3> QED BY <1>1, <3>1, <3>2
    <2>2. HasFd(r) /\ st \in FdStateFor(r.type)
      BY <2>1 DEF HasFd, FdStateFor
    <2>3. fdState[f] = "user" => UNCHANGED fdState
      BY <1>0, <2>1
    <2>4. Requested' \subseteq Requested \cup {r}
      BY <2>1, <1>0 DEF Requested, TypeInv, TypeOK, CallTypeOK
    <2>5. DescriptorsOK' /\ (OwnsFd(r) => \A o \in Requested : OwnsFd(o) => o.fd # f)
      BY <1>0, <2>1, <2>2, <2>3, <2>4, DescriptorsTaken
    <2>6. OneCarrier'
      BY <1>0, <2>1, <2>5, RequestedPut
    <2> QED BY <2>5, <2>6
  <1>2. CASE ServerConnect(t) \/ ServerCommand(t) \/ ServerSend(t)
    <2>1. PICK r : /\ request' = [request EXCEPT ![t] = r] /\ r.fd = NoFd /\ r.type \in {"O", "S", "K", "X", "D"}
                   /\ UNCHANGED <<pipe, sType, sFd, fdState, epoll>>
      <3>1. CASE ServerConnect(t)
        <4>1. PICK r : r = [type |-> "O", id |-> 0, fd |-> NoFd]
          OBVIOUS
        <4>2. r.fd = NoFd /\ r.type = "O" /\ request' = [request EXCEPT ![t] = r]
          BY <3>1, <4>1 DEF ServerConnect, StartReserve
        <4>3. UNCHANGED <<pipe, sType, sFd, fdState, epoll>>
          BY <3>1 DEF ServerConnect, slotVars, kernelVars
        <4> QED BY <4>2, <4>3
      <3>2. CASE ServerCommand(t)
        <4>0. PICK c \in {"S", "K", "X"} : \E i : request' = [request EXCEPT ![t] = [type |-> c, id |-> i, fd |-> NoFd]]
          BY <3>2 DEF ServerCommand
        <4>1. PICK i : request' = [request EXCEPT ![t] = [type |-> c, id |-> i, fd |-> NoFd]]
          BY <4>0
        <4>2. PICK r : r = [type |-> c, id |-> i, fd |-> NoFd]
          OBVIOUS
        <4>3. r.fd = NoFd /\ r.type \in {"S", "K", "X"} /\ request' = [request EXCEPT ![t] = r]
          BY <4>1, <4>2
        <4>4. UNCHANGED <<pipe, sType, sFd, fdState, epoll>>
          BY <3>2 DEF ServerCommand, slotVars, kernelVars
        <4> QED BY <4>3, <4>4
      <3>3. CASE ServerSend(t)
        <4>1. PICK i : request' = [request EXCEPT ![t] = [type |-> "D", id |-> i, fd |-> NoFd]]
          BY <3>3 DEF ServerSend
        <4>2. PICK r : r = [type |-> "D", id |-> i, fd |-> NoFd]
          OBVIOUS
        <4>3. r.fd = NoFd /\ r.type \in {"D"} /\ request' = [request EXCEPT ![t] = r]
          BY <4>1, <4>2
        <4>4. UNCHANGED <<pipe, sType, sFd, fdState, epoll>>
          BY <3>3 DEF ServerSend, slotVars, kernelVars
        <4> QED BY <4>3, <4>4
      <3> QED BY <1>2, <3>1, <3>2, <3>3
    <2>2. ~HasFd(r) /\ ~OwnsFd(r)
      BY <2>1 DEF HasFd, OwnsFd
    <2>3. Requested' \subseteq Requested \cup {r} /\ OneCarrier'
      BY <1>0, <2>1, <2>2, RequestedPut
    <2>4. DescriptorsOK'
      BY <1>0, <2>1, <2>2, <2>3, DescriptorsKept
    <2> QED BY <2>3, <2>4
  <1>3. CASE SendRequest(t)
    <2>1. /\ pipe' = Append(pipe, request[t]) /\ request' = [request EXCEPT ![t] = NoRequest]
          /\ UNCHANGED <<sType, sFd, fdState, epoll>>
      BY <1>3 DEF SendRequest, slotVars, kernelVars
    <2>2. Requested' \subseteq Requested \cup {NoRequest} /\ OneCarrier'
      BY <1>0, <2>1, RequestedSend
    <2>3. ~HasFd(NoRequest) /\ NoRequest.fd = NoFd
      BY DEF HasFd, NoRequest
    <2>4. DescriptorsOK'
      BY <1>0, <2>1, <2>2, <2>3, DescriptorsKept
    <2> QED BY <2>2, <2>4
  <1> QED BY <1>1, <1>2, <1>3 DEF Call

\* A command moves its descriptor into the slot it fills, opens a new one, or
\* closes the slot of its id.
LEMMA DescriptorsCommand ==
  ASSUME DescriptorInv, CtrlCmd
  PROVE  DescriptorsOK' /\ OneCarrier'
  <1> DEFINE h == HASH_ID(Cmd.id)
  <1>0. /\ sType \in [Slots -> SocketTypes] /\ sFd \in [Slots -> FDs \cup {NoFd}]
        /\ fdState \in [FDs -> FdStates] /\ epoll \in [FDs -> Slots \cup {NoSlot}]
        /\ TypeInv /\ OneCarrier /\ DescriptorsOK
    BY DEF DescriptorInv, DescriptorsOK, ClaimedInv, ReservationInv, TypeInv, TypeOK, SlotTypeOK, KernelTypeOK
  <1>1. pipe # <<>> /\ pipe' = Tail(pipe)
    BY DEF CtrlCmd, Command,
       CmdListen, CmdBind, CmdOpenUnresolved, CmdOpenExhausted, CmdOpen, CmdStartPending,
       CmdStartOther, CmdClose, CmdSend, CmdExit
  <1>2. UNCHANGED request
    BY DEF CtrlCmd, Abort, callVars,
       CmdListen, CmdBind, CmdOpenUnresolved, CmdOpenExhausted, CmdOpen, CmdStartPending,
       CmdStartOther, CmdClose, CmdSend, CmdExit
  <1>3. /\ Requested' \subseteq Requested /\ Cmd \in Requested /\ OneCarrier'
        /\ OwnsFd(Cmd) => \A o \in Requested' : OwnsFd(o) => o.fd # Cmd.fd
    BY <1>0, <1>1, <1>2, RequestedPop
  <1>4. h \in Slots /\ Cmd = pipe[1] /\ 1 \in 1 .. Len(pipe)
    BY <1>0, <1>1, CmdType DEF TypeInv, TypeOK, PipeTypeOK, Cmd
  <1>5. Cmd.type \in OpenCommands => sType[h] = "RESERVE"
    BY <1>4 DEF DescriptorInv, ClaimedInv, ReservationInv, ReservationOwned, ClaimIsReserved, Carries, CarriedSlot
  <1>6. CASE UNCHANGED <<sType, sFd, fdState, epoll>>
    BY <1>0, <1>3, <1>6, DescriptorsKept
  <1>7. ASSUME UNCHANGED <<sFd, fdState, epoll>>, sType' = [sType EXCEPT ![h] = "INVALID"], sType[h] \notin PolledTypes
        PROVE  DescriptorsOK'
    <2>1. \A s \in Slots : sType'[s] = sType[s] \/ (sType'[s] = "INVALID" /\ sType[s] \notin PolledTypes)
      BY <1>0, <1>7
    <2> QED BY <1>0, <1>3, <1>7, <2>1, DescriptorsKept DEF LiveTypes, PolledTypes
  <1>8. CASE CmdListen \/ CmdBind \/ CmdOpenUnresolved \/ CmdOpen
    <2>1. sType[h] = "RESERVE" /\ ~NewSocketFails
      BY <1>5, <1>8 DEF Command, OpenCommands, NewSocketFails, CmdListen, CmdBind, CmdOpenUnresolved, CmdOpen
    <2>2. CASE CmdOpenUnresolved
      BY <1>3, <1>7, <2>1, <2>2 DEF CmdOpenUnresolved, kernelVars, PolledTypes, LiveTypes
    <2>3. CASE CmdListen
      <3>1. /\ Cmd.type = "L" /\ UNCHANGED <<fdState, epoll>>
            /\ sType' = [sType EXCEPT ![h] = "PLISTEN"] /\ sFd' = [sFd EXCEPT ![h] = Cmd.fd]
        BY <2>1, <2>3 DEF CmdListen, Command, NewSocket, kernelVars
      <3>2. /\ Cmd.fd \in FDs /\ fdState[Cmd.fd] \in FdStateFor("PLISTEN")
            /\ \A r \in Slots : sType[r] \in LiveTypes => sFd[r] # Cmd.fd
            /\ \A o \in Requested' : OwnsFd(o) => o.fd # Cmd.fd
        BY <1>0, <1>3, <3>1 DEF DescriptorsOK, RequestFdOK, Disjoint, HasFd, OwnsFd, FdStateFor
      <3>3. epoll[Cmd.fd] = NoSlot
        BY <1>0, <3>2 DEF DescriptorsOK, FdOwned, PolledTypes
      <3>4. "PLISTEN" \in LiveTypes /\ "PLISTEN" \notin PolledTypes
        BY DEF LiveTypes, SocketTypes, PolledTypes
      <3> QED BY <1>0, <1>3, <1>4, <2>1, <3>1, <3>2, <3>3, <3>4, DescriptorsOpened
    <2>4. CASE CmdBind /\ sType'[h] = "BIND"
      <3>1. /\ Cmd.type = "B" /\ UNCHANGED fdState /\ TRUE \in AddOutcomes(Cmd.fd)
            /\ epoll' = [epoll EXCEPT ![Cmd.fd] = h]
            /\ sType' = [sType EXCEPT ![h] = "BIND"] /\ sFd' = [sFd EXCEPT ![h] = Cmd.fd]
        BY <1>0, <1>4, <2>1, <2>4 DEF CmdBind, Command, NewSocket
      <3>2. Cmd.fd \in FDs /\ fdState[Cmd.fd] = "user"
        BY <1>0, <1>3, <3>1 DEF DescriptorsOK, RequestFdOK, HasFd, FdStateFor
      <3>3. epoll[Cmd.fd] = NoSlot
        BY <3>1, <3>2 DEF AddOutcomes
      <3>4. \A r \in Slots : sType[r] \in LiveTypes => sFd[r] # Cmd.fd
        <4>1. \A r \in Slots : sType[r] \in PolledTypes => sFd[r] # Cmd.fd
          BY <1>0, <3>2, <3>3 DEF DescriptorsOK, FdOwned
        <4>2. \A r \in Slots : sType[r] \in {"PLISTEN", "PACCEPT"} => fdState[sFd[r]] # "user"
          BY <1>0 DEF DescriptorsOK, SlotFdOK, FdStateFor, LiveTypes, SocketTypes
        <4> QED BY <3>2, <4>1, <4>2 DEF PolledTypes
      <3>5. \A o \in Requested' : OwnsFd(o) => o.fd # Cmd.fd
        BY <1>0, <1>3, <3>2 DEF DescriptorsOK, RequestFdOK, OwnsFd, HasFd, FdStateFor
      <3>6. "BIND" \in LiveTypes /\ "BIND" \in PolledTypes /\ fdState'[Cmd.fd] \in FdStateFor("BIND")
        BY <3>1, <3>2 DEF LiveTypes, SocketTypes, PolledTypes, FdStateFor
      <3>7. \A g \in FDs : g # Cmd.fd => epoll'[g] = epoll[g]
        BY <1>0, <3>1, <3>2
      <3>8. epoll'[Cmd.fd] # NoSlot
        BY <1>0, <1>4, <3>1, <3>2 DEF Slots, NoSlot
      <3> QED BY <1>0, <1>3, <1>4, <2>1, <3>1, <3>2, <3>4, <3>5, <3>6, <3>7, <3>8, DescriptorsOpened
    <2>5. CASE CmdBind /\ sType'[h] # "BIND"
      BY <1>0, <1>3, <1>4, <1>7, <2>1, <2>5 DEF CmdBind, NewSocket, PolledTypes, LiveTypes
    <2>6. CASE CmdOpen /\ ~ UNCHANGED <<sType, sFd, fdState, epoll>>
      <3>1. PICK f \in FDs, type \in {"CONNECTED", "CONNECTING"}, st \in {"conn", "connecting"} :
              /\ fdState[f] = "free" /\ epoll' = [epoll EXCEPT ![f] = h]
              /\ sType' = [sType EXCEPT ![h] = type] /\ sFd' = [sFd EXCEPT ![h] = f]
              /\ fdState' = [fdState EXCEPT ![f] = st]
        BY <2>1, <2>6 DEF CmdOpen, Abort, NewSocket, slotVars, kernelVars
      <3>2. \A r \in Slots : sType[r] \in LiveTypes => sFd[r] # f
        BY <1>0, <3>1 DEF DescriptorsOK, FdOwned
      <3>3. \A o \in Requested' : OwnsFd(o) => o.fd # f
        BY <1>0, <1>3, <3>1 DEF DescriptorsOK, RequestFdOK, OwnsFd, HasFd, FdStateFor
      <3>4. \A g \in FDs : g # f => fdState'[g] = fdState[g] /\ epoll'[g] = epoll[g]
        BY <1>0, <3>1
      <3>5. epoll'[f] # NoSlot /\ fdState'[f] = st
        BY <1>0, <1>4, <3>1 DEF Slots, NoSlot
      <3>6. type \in LiveTypes /\ type \in PolledTypes /\ st \in FdStateFor(type)
        BY DEF LiveTypes, SocketTypes, PolledTypes, FdStateFor
      <3> QED BY <1>0, <1>3, <1>4, <2>1, <3>1, <3>2, <3>3, <3>4, <3>5, <3>6, DescriptorsOpened
    <2> QED BY <1>6, <1>8, <2>2, <2>3, <2>4, <2>5, <2>6
  <1>9. CASE CmdStartPending
    <2>1. /\ sType[h] \in {"PACCEPT", "PLISTEN"} /\ UNCHANGED <<sFd, fdState>>
          /\ \/ /\ sType' = [sType EXCEPT ![h] = IF @ = "PACCEPT" THEN "CONNECTED" ELSE "LISTEN"]
                /\ epoll' = [epoll EXCEPT ![sFd[h]] = h]
             \/ sType' = [sType EXCEPT ![h] = "INVALID"] /\ UNCHANGED epoll
      BY <1>9 DEF CmdStartPending
    <2>2. CASE sType' = [sType EXCEPT ![h] = "INVALID"] /\ UNCHANGED epoll
      BY <1>3, <1>7, <2>1, <2>2 DEF PolledTypes
    <2>3. CASE /\ sType' = [sType EXCEPT ![h] = IF @ = "PACCEPT" THEN "CONNECTED" ELSE "LISTEN"]
               /\ epoll' = [epoll EXCEPT ![sFd[h]] = h]
      <3>1. sType[h] \in LiveTypes /\ sFd[h] \in FDs
        BY <1>0, <1>4, <2>1 DEF DescriptorsOK, FdOwned, LiveTypes, SocketTypes
      <3>2. /\ sType'[h] \in PolledTypes /\ sType'[h] \in LiveTypes
            /\ FdStateFor(sType[h]) \subseteq FdStateFor(sType'[h])
            /\ \A s \in Slots : s # h => sType'[s] = sType[s]
        BY <1>0, <1>4, <2>1, <2>3 DEF PolledTypes, LiveTypes, SocketTypes, FdStateFor
      <3>3. epoll'[sFd[h]] # NoSlot /\ \A g \in FDs : g # sFd[h] => epoll'[g] = epoll[g]
        BY <1>0, <1>4, <2>3, <3>1 DEF Slots, NoSlot
      <3>4. \A s \in Slots : sType'[s] \in LiveTypes => sType[s] \in LiveTypes
        BY <3>1, <3>2
      <3>5. SlotFdOK' /\ RequestFdOK' /\ Disjoint'
        <4>1. SlotFdOK'
          BY <1>0, <2>1, <3>2, <3>4 DEF DescriptorsOK, SlotFdOK
        <4>2. RequestFdOK'
          BY <1>0, <1>3, <2>1 DEF DescriptorsOK, RequestFdOK
        <4>3. Disjoint'
          BY <1>0, <1>3, <2>1, <3>4 DEF DescriptorsOK, Disjoint
        <4> QED BY <4>1, <4>2, <4>3
      <3>6. /\ \A s \in Slots : sType'[s] \in LiveTypes => sFd'[s] \in FDs /\ fdState'[sFd'[s]] # "free"
            /\ \A s, r \in Slots : sType'[s] \in LiveTypes /\ sType'[r] \in LiveTypes /\ sFd'[s] = sFd'[r] => s = r
        BY <1>0, <2>1, <3>4 DEF DescriptorsOK, FdOwned
      <3>7. ASSUME NEW g \in FDs
            PROVE  epoll'[g] # NoSlot <=> \E r \in Slots : sType'[r] \in PolledTypes /\ sFd'[r] = g
        <4>1. CASE g = sFd[h]
          BY <1>4, <2>1, <3>2, <3>3, <4>1
        <4>2. CASE g # sFd[h]
          BY <1>0, <2>1, <3>2, <3>3, <4>2 DEF DescriptorsOK, FdOwned
        <4> QED BY <4>1, <4>2
      <3> QED BY <1>3, <3>5, <3>6, <3>7 DEF DescriptorsOK, FdOwned
    <2> QED BY <2>1, <2>2, <2>3
  <1>10. CASE (CmdClose \/ CmdSend) /\ ~ UNCHANGED <<sType, sFd, fdState, epoll>>
    <2>1. CASE ForceClose(h) /\ sType[h] \notin {"INVALID", "RESERVE"} /\ UNCHANGED sFd
      BY <1>0, <1>3, <1>4, <2>1, DescriptorsClosed DEF LiveTypes
    <2>2. CASE EpollWrite(sFd[h], h, TRUE) /\ UNCHANGED <<sType, sFd, fdState>>
      <3>1. \A g \in FDs : epoll'[g] # NoSlot <=> epoll[g] # NoSlot
        BY <1>0, <1>4, <2>2 DEF EpollWrite, Slots, NoSlot
      <3> QED BY <1>0, <1>3, <2>2, <3>1, DescriptorsKept
    <2>3. \/ ForceClose(h) /\ sType[h] \notin {"INVALID", "RESERVE"} /\ UNCHANGED sFd
          \/ EpollWrite(sFd[h], h, TRUE) /\ UNCHANGED <<sType, sFd, fdState>>
      BY <1>10 DEF CmdClose, CmdSend, Abort, slotVars, kernelVars, Stale
    <2> QED BY <2>1, <2>2, <2>3
  <1> QED BY <1>3, <1>6, <1>8, <1>9, <1>10 DEF CtrlCmd, CmdOpenExhausted, CmdStartOther, CmdExit, Abort,
     slotVars, kernelVars

\* An event closes the slot it is about or leaves its descriptor to it; accept
\* opens a descriptor, which AcceptFill puts into the slot reserved for it.
LEMMA DescriptorsPoll ==
  ASSUME DescriptorInv,
         PollEnter \/ NoCommand \/ Wait \/ WaitInterrupted \/ HandleEvent
           \/ AcceptFill \/ ClearClosedEvent \/ Return
  PROVE  DescriptorsOK' /\ OneCarrier'
  <1>0. /\ sType \in [Slots -> SocketTypes] /\ sFd \in [Slots -> FDs \cup {NoFd}]
        /\ fdState \in [FDs -> FdStates] /\ epoll \in [FDs -> Slots \cup {NoSlot}]
        /\ TypeInv /\ OneCarrier /\ DescriptorsOK /\ Poller \in Procs
    BY DEF DescriptorInv, DescriptorsOK, ClaimedInv, ReservationInv, TypeInv, TypeOK, SlotTypeOK, KernelTypeOK, Procs
  <1>1. CASE PollEnter \/ NoCommand \/ Wait \/ WaitInterrupted \/ EventDrop \/ ClearClosedEvent \/ Return
    <2>1. UNCHANGED <<sType, sFd, fdState, epoll, request, pipe>>
      BY <1>1 DEF PollEnter, NoCommand, Wait, WaitInterrupted, EventDrop, ClearClosedEvent, Return,
         slotVars, kernelVars, callVars
    <2>2. UNCHANGED <<Requested, OneCarrier>>
      BY <2>1 DEF Requested, OneCarrier
    <2> QED BY <1>0, <2>1, <2>2, DescriptorsKept
  <1>2. CASE EventConnect \/ EventRead \/ EventWrite
    <2>1. Ev.slot \in Slots /\ UNCHANGED <<sFd, request, pipe>>
      BY <1>0, <1>2, EvType DEF EventConnect, EventRead, EventWrite, Event, Events, slotVars, callVars
    <2>2. UNCHANGED <<Requested, OneCarrier>>
      BY <2>1 DEF Requested, OneCarrier
    <2>3. CASE ForceClose(Ev.slot) /\ sType[Ev.slot] \notin {"INVALID", "RESERVE"}
      BY <1>0, <2>1, <2>2, <2>3, DescriptorsClosed DEF LiveTypes
    <2>4. ASSUME NEW b \in BOOLEAN, EpollWrite(sFd[Ev.slot], Ev.slot, b)
          PROVE  \A g \in FDs : epoll'[g] # NoSlot <=> epoll[g] # NoSlot
      BY <1>0, <2>1, <2>4 DEF EpollWrite, Slots, NoSlot
    <2>5. CASE EventWrite
      <3>1. UNCHANGED <<sType, fdState>> /\ EpollWrite(sFd[Ev.slot], Ev.slot, FALSE)
        BY <2>5 DEF EventWrite, slotVars
      <3> QED BY <1>0, <2>1, <2>2, <2>4, <3>1, DescriptorsKept
    <2>6. CASE /\ sType[Ev.slot] = "CONNECTING" /\ sType' = [sType EXCEPT ![Ev.slot] = "CONNECTED"]
               /\ EpollWrite(sFd[Ev.slot], Ev.slot, FALSE) /\ UNCHANGED fdState
      <3>1. \A s \in Slots : \/ sType'[s] = sType[s]
                             \/ sType[s] = "CONNECTING" /\ sType'[s] = "CONNECTED"
        BY <1>0, <2>6
      <3> QED BY <1>0, <2>1, <2>2, <2>4, <2>6, <3>1, DescriptorsKept
          DEF LiveTypes, SocketTypes, PolledTypes, FdStateFor
    <2>7. CASE UNCHANGED <<sType, fdState, epoll>>
      BY <1>0, <2>1, <2>2, <2>7, DescriptorsKept
    <2>8. CASE EventConnect
      BY <2>3, <2>6, <2>8 DEF EventConnect, Event
    <2>9. CASE EventRead
      BY <2>3, <2>7, <2>9 DEF EventRead, Event, DefaultTypes, kernelVars
    <2> QED BY <1>2, <2>5, <2>8, <2>9
  <1>3. CASE EventAccept
    <2>1. UNCHANGED <<sType, sFd, epoll, pipe>>
      BY <1>3 DEF EventAccept, slotVars
    <2>2. CASE UNCHANGED <<request, fdState>>
      <3>1. UNCHANGED <<Requested, OneCarrier>>
        BY <2>1, <2>2 DEF Requested, OneCarrier
      <3> QED BY <1>0, <2>1, <2>2, <3>1, DescriptorsKept
    <2>3. CASE \E f \in FDs : /\ fdState[f] = "free" /\ fdState' = [fdState EXCEPT ![f] = "conn"]
                              /\ StartReserve(Poller, "ACCEPT", f)
      <3>1. PICK f \in FDs : /\ fdState[f] = "free" /\ fdState' = [fdState EXCEPT ![f] = "conn"]
                             /\ StartReserve(Poller, "ACCEPT", f)
        BY <2>3
      <3>2. PICK r : r = [type |-> "ACCEPT", id |-> 0, fd |-> f]
        OBVIOUS
      <3>3. r.fd = f /\ r.type = "ACCEPT" /\ request' = [request EXCEPT ![Poller] = r]
        BY <3>1, <3>2 DEF StartReserve
      <3>4. HasFd(r) /\ "conn" \in FdStateFor(r.type)
        BY <3>3 DEF HasFd, FdStateFor
      <3>5. Requested' \subseteq Requested \cup {r}
        BY <1>0, <2>1, <3>3 DEF Requested, TypeInv, TypeOK, CallTypeOK
      <3>6. DescriptorsOK' /\ (OwnsFd(r) => \A o \in Requested : OwnsFd(o) => o.fd # f)
        BY <1>0, <2>1, <3>1, <3>3, <3>4, <3>5, DescriptorsTaken
      <3>7. OneCarrier'
        BY <1>0, <2>1, <3>3, <3>6, RequestedPut
      <3> QED BY <3>6, <3>7
    <2> QED BY <1>3, <2>2, <2>3 DEF EventAccept, callVars
  <1>4. CASE AcceptFill
    <2> DEFINE s == HASH_ID(request[Poller].id)
    <2>1. sType[s] = "RESERVE" /\ s \in Slots
      BY <1>0, <1>4, SlotsOfOwners
      DEF AcceptFill, Holds, HeldSlot, DescriptorInv, ClaimedInv, ReservationInv, ReservationOwned, ClaimIsReserved
    <2>2. /\ sType' = [sType EXCEPT ![s] = "PACCEPT"] /\ sFd' = [sFd EXCEPT ![s] = request[Poller].fd]
          /\ request' = [request EXCEPT ![Poller] = NoRequest] /\ UNCHANGED <<pipe, fdState, epoll>>
      BY <1>4, <2>1 DEF AcceptFill, kernelVars
    <2>3. ~OwnsFd(NoRequest)
      BY DEF OwnsFd, NoRequest
    <2>4. /\ Requested' \subseteq Requested \cup {NoRequest} /\ request[Poller] \in Requested /\ OneCarrier'
          /\ OwnsFd(request[Poller]) => \A o \in Requested' : OwnsFd(o) => o.fd # request[Poller].fd
      BY <1>0, <2>2, <2>3, RequestedPut
    <2>5. request[Poller].type = "ACCEPT"
      BY <1>0, <1>4 DEF AcceptFill, DescriptorInv, ClaimedInv, CallersOK, Reserving
    <2>6. /\ request[Poller].fd \in FDs /\ fdState[request[Poller].fd] \in FdStateFor("PACCEPT")
          /\ \A r \in Slots : sType[r] \in LiveTypes => sFd[r] # request[Poller].fd
          /\ \A o \in Requested' : OwnsFd(o) => o.fd # request[Poller].fd
      BY <1>0, <2>4, <2>5 DEF DescriptorsOK, RequestFdOK, Disjoint, HasFd, OwnsFd, FdStateFor
    <2>7. epoll[request[Poller].fd] = NoSlot
      BY <1>0, <2>6 DEF DescriptorsOK, FdOwned, PolledTypes
    <2>8. "PACCEPT" \in LiveTypes /\ "PACCEPT" \notin PolledTypes
      BY DEF LiveTypes, SocketTypes, PolledTypes
    <2>9. DescriptorsOK'
      BY <1>0, <2>1, <2>2, <2>4, <2>6, <2>7, <2>8, DescriptorsOpened
    <2> QED BY <2>4, <2>9
  <1> QED BY <1>1, <1>2, <1>3, <1>4 DEF HandleEvent

\* A connection that is established or refused keeps its owner.
LEMMA DescriptorsKernel ==
  ASSUME DescriptorInv, NEW f \in FDs, Connected(f)
  PROVE  DescriptorsOK' /\ OneCarrier'
  <1>0. TypeInv /\ OneCarrier /\ DescriptorsOK
    BY DEF DescriptorInv, DescriptorsOK, ClaimedInv, ReservationInv
  <1>1. UNCHANGED <<sType, sFd, epoll, request, pipe>>
    BY DEF Connected, slotVars, callVars
  <1>2. UNCHANGED <<Requested, OneCarrier>>
    BY <1>1 DEF Requested, OneCarrier
  <1>3. /\ fdState[f] = "connecting" /\ fdState'[f] \in {"conn", "failed"}
        /\ \A g \in FDs : g # f => fdState'[g] = fdState[g]
    BY <1>0 DEF Connected, TypeInv, TypeOK, KernelTypeOK
  <1>4. SlotFdOK'
    BY <1>0, <1>1, <1>3 DEF DescriptorsOK, SlotFdOK, FdStateFor
  <1>5. RequestFdOK'
    <2>1. \A r \in Requested : HasFd(r) => r.fd \in FDs /\ fdState[r.fd] # "connecting"
      BY <1>0 DEF DescriptorsOK, RequestFdOK, HasFd, FdStateFor
    <2>2. \A r \in Requested : HasFd(r) => r.fd \in FDs /\ fdState'[r.fd] = fdState[r.fd]
      BY <1>3, <2>1
    <2> QED BY <1>0, <1>2, <2>2 DEF DescriptorsOK, RequestFdOK
  <1>6. Disjoint'
    BY <1>0, <1>1, <1>2 DEF DescriptorsOK, Disjoint
  <1>7. FdOwned'
    BY <1>0, <1>1, <1>3 DEF DescriptorsOK, FdOwned
  <1> QED BY <1>0, <1>2, <1>4, <1>5, <1>6, <1>7 DEF DescriptorsOK

\* After socket_server::initialize nothing has a descriptor.
LEMMA DescriptorInit == Init => DescriptorInv
  <1> SUFFICES ASSUME Init PROVE DescriptorInv
    OBVIOUS
  <1>1. \A s \in Slots : sType[s] \notin LiveTypes
    BY DEF Init, LiveTypes
  <1>2. /\ \A p \in Procs : request[p] = NoRequest
        /\ Len(pipe) = 0
    BY DEF Init
  <1>3. ~OwnsFd(NoRequest) /\ ~HasFd(NoRequest) /\ NoRequest.fd = NoFd
    BY DEF OwnsFd, HasFd, NoRequest
  <1>4. \A r \in Requested : r = NoRequest
    BY <1>2 DEF Requested
  <1>5. SlotFdOK /\ RequestFdOK /\ Disjoint
    BY <1>1, <1>3, <1>4 DEF SlotFdOK, RequestFdOK, Disjoint
  <1>6. OneCarrier
    BY <1>2, <1>3 DEF OneCarrier
  <1>7. FdOwned
    BY <1>1 DEF Init, FdOwned, PolledTypes
  <1> QED BY <1>5, <1>6, <1>7, ClaimedInit DEF DescriptorInv

\* Every step keeps descriptors with their owners.
LEMMA DescriptorStep == DescriptorInv /\ [Next]_vars => DescriptorInv'
  <1> SUFFICES ASSUME DescriptorInv, [Next]_vars PROVE DescriptorsOK' /\ OneCarrier'
    BY ClaimedStep DEF DescriptorInv, DescriptorsOK
  <1>1. CASE \E t \in Threads : Call(t) \/ AppStep(t)
    BY <1>1, DescriptorsCall, DescriptorsReserve DEF AppStep, Procs
  <1>2. CASE PollStep \/ WaitInterrupted
    <2>1. CASE Reserve(Poller) \/ ReserveFull(Poller)
      BY <2>1, DescriptorsReserve DEF Procs
    <2>2. CASE CtrlCmd
      BY <2>2, DescriptorsCommand
    <2>3. CASE Poll \/ WaitInterrupted
      BY <2>2, <2>3, DescriptorsPoll DEF Poll
    <2> QED BY <1>2, <2>1, <2>2, <2>3 DEF PollStep
  <1>3. CASE \E f \in FDs : Connected(f)
    BY <1>3, DescriptorsKernel
  <1>4. CASE UNCHANGED vars
    <2>1. UNCHANGED <<sType, sFd, fdState, epoll, request, pipe>>
      BY <1>4 DEF vars, slotVars, callVars, kernelVars
    <2>2. UNCHANGED <<Requested, OneCarrier>>
      BY <2>1 DEF Requested, OneCarrier
    <2> QED BY <2>1, <2>2, DescriptorsKept DEF DescriptorInv, DescriptorsOK
  <1> QED BY <1>1, <1>2, <1>3, <1>4 DEF Next

\* A live slot has an open descriptor no other slot has, and epoll watches exactly
\* the descriptors of the polled slots, whatever calls fail and threads interleave.
THEOREM DescriptorsOwned == Spec => []FdOwned
  <1>1. DescriptorInv => FdOwned
    BY DEF DescriptorInv
  <1> QED BY <1>1, DescriptorInit, DescriptorStep, PTL DEF Spec

-----------------------------------------------------------------------------
(* Leaks *)

\* Outside a call, and outside report_accept, a thread carries no request.
QuietOK == \A p \in Procs : pc[p] \notin Reserving \cup {"write"} => request[p] = NoRequest

LeakInv == DescriptorInv /\ QuietOK /\ NoFdLeak

\* Descriptor f is owned after the step: by a live slot or by a request.
OwnedNext(f) == \/ \E s \in Slots : sType'[s] \in LiveTypes /\ sFd'[s] = f
                \/ \E r \in Requested' : r.fd = f

\* No owner loses its descriptor unless it is closed.
LEMMA LeakKept ==
  ASSUME NoFdLeak,
         \A f \in FDs : fdState'[f] \notin {"free", "user"} =>
           fdState[f] \notin {"free", "user"} \/ OwnedNext(f),
         \A s \in Slots : sType[s] \in LiveTypes =>
           \/ sType'[s] \in LiveTypes /\ sFd'[s] = sFd[s]
           \/ fdState'[sFd[s]] \in {"free", "user"},
         \A r \in Requested : r.fd \in FDs => fdState'[r.fd] \in {"free", "user"} \/ OwnedNext(r.fd)
  PROVE  NoFdLeak'
  <1>1. ASSUME NEW f \in FDs, fdState'[f] \notin {"free", "user"}
        PROVE  OwnedNext(f)
    <2>1. CASE fdState[f] \in {"free", "user"}
      BY <1>1, <2>1
    <2>2. CASE \E s \in Slots : sType[s] \in LiveTypes /\ sFd[s] = f
      BY <1>1, <2>2 DEF OwnedNext
    <2>3. CASE \E r \in Requested : r.fd = f
      BY <1>1, <2>3
    <2>4. fdState[f] \in {"free", "user"} \/ (\E s \in Slots : sType[s] \in LiveTypes /\ sFd[s] = f)
            \/ \E r \in Requested : r.fd = f
      BY DEF NoFdLeak, Requested
    <2> QED BY <2>1, <2>2, <2>3, <2>4
  <1> QED BY <1>1 DEF OwnedNext, NoFdLeak, Requested

\* A step of a thread's call leaves it with a request until the call returns.
LEMMA QuietCall ==
  ASSUME LeakInv, NEW p \in Procs,
         Reserve(p) \/ ReserveFull(p) \/ (p \in Threads /\ (Call(p) \/ SendRequest(p)))
  PROVE  QuietOK'
  <1>0. request \in [Procs -> Requests] /\ pc \in [Procs -> Labels]
    BY DEF LeakInv, DescriptorInv, ClaimedInv, ReservationInv, TypeInv, TypeOK, CallTypeOK
  <1>1. \A q \in Procs : q # p => pc'[q] = pc[q] /\ request'[q] = request[q]
    BY <1>0 DEF Reserve, ReserveFull, ReserveAdd, ReserveMask, ReserveLook, ReserveCas, ReserveSetId,
       ReserveSetFd, Goto, callVars, Call, ServerListen, ServerBind, ServerConnect, ServerCommand,
       ServerSend, SendRequest, StartReserve
  <1>2. pc'[p] \in Reserving \cup {"write"} \/ request'[p] = NoRequest
    BY <1>0 DEF Reserve, ReserveFull, ReserveAdd, ReserveMask, ReserveLook, ReserveCas, ReserveSetId,
       ReserveSetFd, Goto, callVars, Call, ServerListen, ServerBind, ServerConnect, ServerCommand,
       ServerSend, SendRequest, StartReserve, Reserving
  <1> QED BY <1>1, <1>2 DEF LeakInv, QuietOK

\* A step of poll moves no other thread.
LEMMA PollMoves ==
  ASSUME TypeInv, Poll \/ WaitInterrupted
  PROVE  \A q \in Procs : q # Poller => pc'[q] = pc[q] /\ request'[q] = request[q]
  <1>0. request \in [Procs -> Requests] /\ pc \in [Procs -> Labels]
    BY DEF TypeInv, TypeOK, CallTypeOK
  <1>1. CASE CtrlCmd
    BY <1>0, <1>1 DEF CtrlCmd, Abort, callVars, Answer, Continue, Goto,
       CmdListen, CmdBind, CmdOpenUnresolved, CmdOpenExhausted, CmdOpen, CmdStartPending,
       CmdStartOther, CmdClose, CmdSend, CmdExit
  <1>2. CASE HandleEvent
    BY <1>0, <1>2 DEF HandleEvent, EventDrop, EventConnect, EventAccept, EventRead, EventWrite, Loop, Goto,
       Answer, callVars, StartReserve
  <1>3. CASE AcceptFill
    BY <1>0, <1>3 DEF AcceptFill, Abort, callVars, Goto
  <1>4. CASE PollEnter \/ NoCommand \/ Wait \/ WaitInterrupted \/ ClearClosedEvent \/ Return
    BY <1>0, <1>4 DEF PollEnter, NoCommand, Wait, WaitInterrupted, ClearClosedEvent, Return, callVars, Goto
  <1> QED BY <1>1, <1>2, <1>3, <1>4 DEF Poll

\* The poll thread carries a request only from accept to new_socket.
LEMMA QuietPoll ==
  ASSUME LeakInv, Poll \/ WaitInterrupted
  PROVE  QuietOK'
  <1>0. request \in [Procs -> Requests] /\ pc \in [Procs -> Labels] /\ Poller \in Procs
    BY DEF LeakInv, DescriptorInv, ClaimedInv, ReservationInv, TypeInv, TypeOK, CallTypeOK, Procs
  <1>1. \A q \in Procs : q # Poller => pc'[q] = pc[q] /\ request'[q] = request[q]
    BY PollMoves DEF LeakInv, DescriptorInv, ClaimedInv, ReservationInv
  <1>2. CASE UNCHANGED request /\ pc[Poller] \notin Reserving
    <2>1. pc[Poller] # "write"
      BY <1>0 DEF LeakInv, DescriptorInv, ClaimedInv, CallersOK
    <2> QED BY <1>1, <1>2, <2>1 DEF LeakInv, QuietOK
  <1>3. CASE EventAccept
    <2>1. pc'[Poller] \in Reserving \/ (UNCHANGED request /\ pc[Poller] \notin Reserving)
      BY <1>0, <1>3 DEF EventAccept, Event, StartReserve, Goto, Reserving, callVars
    <2> QED BY <1>1, <1>2, <2>1 DEF LeakInv, QuietOK
  <1>4. CASE AcceptFill
    <2>1. request'[Poller] = NoRequest \/ (UNCHANGED <<pc, request>>)
      BY <1>0, <1>4 DEF AcceptFill, Abort, callVars
    <2> QED BY <1>1, <2>1 DEF LeakInv, QuietOK
  <1>5. CASE CtrlCmd
    <2>1. UNCHANGED request /\ pc[Poller] = "loop"
      BY <1>5 DEF CtrlCmd, Abort, callVars, Command,
         CmdListen, CmdBind, CmdOpenUnresolved, CmdOpenExhausted, CmdOpen, CmdStartPending,
         CmdStartOther, CmdClose, CmdSend, CmdExit
    <2> QED BY <1>2, <2>1 DEF Reserving
  <1>6. CASE EventDrop \/ EventConnect \/ EventRead \/ EventWrite
    <2>1. UNCHANGED request /\ pc[Poller] \in {"loop", "event"}
      BY <1>6 DEF EventDrop, EventConnect, EventRead, EventWrite, Event, callVars
    <2> QED BY <1>2, <2>1 DEF Reserving
  <1>7. CASE PollEnter \/ NoCommand \/ Wait \/ WaitInterrupted \/ ClearClosedEvent \/ Return
    <2>1. UNCHANGED request /\ pc[Poller] \in {"idle", "loop", "clear", "return"}
      BY <1>7 DEF PollEnter, NoCommand, Wait, AtWait, WaitInterrupted, ClearClosedEvent, Return, callVars
    <2> QED BY <1>2, <2>1 DEF Reserving
  <1> QED BY <1>3, <1>4, <1>5, <1>6, <1>7 DEF Poll, HandleEvent

\* reserve_id keeps the descriptor of its request, or gives it back.
LEMMA LeakReserve ==
  ASSUME LeakInv, NEW p \in Procs, Reserve(p) \/ ReserveFull(p)
  PROVE  NoFdLeak'
  <1> DEFINE s == HASH_ID(request[p].id)
  <1>0. /\ request \in [Procs -> Requests] /\ sType \in [Slots -> SocketTypes]
        /\ sFd \in [Slots -> FDs \cup {NoFd}] /\ fdState \in [FDs -> FdStates]
        /\ s \in Slots /\ s = HeldSlot(p)
        /\ TypeInv /\ OneCarrier /\ DescriptorsOK /\ ReservationOwned /\ NoFdLeak
    BY SlotsOfOwners
    DEF LeakInv, DescriptorInv, DescriptorsOK, ClaimedInv, ReservationInv, TypeInv, TypeOK, CallTypeOK,
        SlotTypeOK, KernelTypeOK, HeldSlot
  <1>1. CASE ReserveAdd(p) \/ ReserveMask(p)
    <2>1. PICK i : request' = [request EXCEPT ![p].id = i]
      BY <1>1 DEF ReserveAdd, ReserveMask
    <2>2. PICK r : r = [request[p] EXCEPT !.id = i]
      OBVIOUS
    <2>3. request' = [request EXCEPT ![p] = r] /\ r.fd = request[p].fd
      BY <1>0, <2>1, <2>2 DEF Requests
    <2>4. UNCHANGED <<pipe, sType, sFd, fdState>>
      BY <1>1 DEF ReserveAdd, ReserveMask, slotVars, kernelVars
    <2>5. \A o \in Requested : \E q \in Requested' : q.fd = o.fd
      <3>1. request'[p] = r /\ \A q \in Procs : q # p => request'[q] = request[q]
        BY <1>0, <2>3
      <3> QED BY <2>3, <2>4, <3>1 DEF Requested
    <2> QED BY <1>0, <2>4, <2>5, LeakKept DEF OwnedNext
  <1>2. CASE ReserveLook(p) \/ ReserveCas(p) \/ ReserveSetId(p) \/ ReserveSetFd(p)
    <2>1. UNCHANGED <<request, pipe, fdState>>
      BY <1>2 DEF ReserveLook, ReserveCas, ReserveSetId, ReserveSetFd, callVars, kernelVars
    <2>2. \A r \in Slots : sType[r] \in LiveTypes => sType'[r] \in LiveTypes /\ sFd'[r] = sFd[r]
      <3>1. CASE UNCHANGED <<sType, sFd>>
        BY <3>1
      <3>2. CASE ReserveCas(p) /\ ~ UNCHANGED <<sType, sFd>>
        <4>1. /\ sType[s] = "INVALID" /\ sType' = [sType EXCEPT ![s] = "RESERVE"] /\ UNCHANGED sFd
          BY <3>2 DEF ReserveCas, CasSucceeds
        <4> QED BY <1>0, <4>1 DEF LiveTypes
      <3>3. CASE ReserveSetFd(p)
        <4>1. sType[s] = "RESERVE"
          BY <1>0, <3>3 DEF ReserveSetFd, Holds, ReservationOwned, ClaimIsReserved
        <4>2. UNCHANGED sType /\ \A r \in Slots : r # s => sFd'[r] = sFd[r]
          BY <1>0, <3>3 DEF ReserveSetFd
        <4> QED BY <4>1, <4>2 DEF LiveTypes
      <3> QED BY <1>2, <3>1, <3>2, <3>3 DEF ReserveLook, ReserveCas, ReserveSetId, slotVars
    <2>3. UNCHANGED Requested
      BY <2>1 DEF Requested
    <2> QED BY <1>0, <2>1, <2>2, <2>3, LeakKept DEF OwnedNext
  <1>3. CASE ReserveFull(p)
    <2>1. /\ UNCHANGED <<pipe, sType, sFd>> /\ request' = [request EXCEPT ![p] = NoRequest]
          /\ fdState' = [g \in FDs |->
               IF g = request[p].fd /\ request[p].type \in {"L", "ACCEPT"} THEN "free" ELSE fdState[g]]
      BY <1>3 DEF ReserveFull, slotVars
    <2>2. ~OwnsFd(NoRequest)
      BY DEF OwnsFd, NoRequest
    <2>3. Requested \subseteq Requested' \cup {request[p]} /\ request[p] \in Requested
      BY <1>0, <2>1, <2>2, RequestedPut
    <2>4. request[p].fd \in FDs => fdState'[request[p].fd] \in {"free", "user"}
      BY <1>0, <2>1, <2>3, FdAssumption DEF DescriptorsOK, RequestFdOK, HasFd, FdStateFor
    <2>5. \A g \in FDs : fdState'[g] \in {"free", fdState[g]}
      BY <2>1
    <2>6. \A r \in Slots : sType[r] \in LiveTypes => sType'[r] \in LiveTypes /\ sFd'[r] = sFd[r]
      BY <2>1
    <2>7. \A r \in Requested : r.fd \in FDs => fdState'[r.fd] \in {"free", "user"} \/ OwnedNext(r.fd)
      BY <2>3, <2>4 DEF OwnedNext
    <2>8. \A g \in FDs : fdState'[g] \notin {"free", "user"} => fdState[g] \notin {"free", "user"} \/ OwnedNext(g)
      BY <2>5
    <2> QED BY <1>0, <2>6, <2>7, <2>8, LeakKept
  <1> QED BY <1>1, <1>2, <1>3 DEF Reserve

\* A call gives the descriptor it opened to its request, then to the pipe.
LEMMA LeakCall ==
  ASSUME LeakInv, NEW t \in Threads, Call(t) \/ SendRequest(t)
  PROVE  NoFdLeak'
  <1>0. /\ t \in Procs /\ TypeInv /\ OneCarrier /\ NoFdLeak
        /\ fdState \in [FDs -> FdStates] /\ request \in [Procs -> Requests]
    BY DEF LeakInv, DescriptorInv, ClaimedInv, ReservationInv, Procs, TypeInv, TypeOK, CallTypeOK, KernelTypeOK
  <1>1. CASE Call(t)
    <2>1. pc[t] = "idle" /\ UNCHANGED <<pipe, sType, sFd>>
      BY <1>1 DEF Call, ServerListen, ServerBind, ServerConnect, ServerCommand, ServerSend, MayCall, slotVars
    <2>2. request[t] = NoRequest
      BY <1>0, <2>1 DEF LeakInv, QuietOK, Reserving
    <2>3. \A q \in Procs : q # t => request'[q] = request[q]
      BY <1>0, <1>1 DEF Call, ServerListen, ServerBind, ServerConnect, ServerCommand, ServerSend, StartReserve
    <2>4. \A r \in Requested : r = NoRequest \/ r \in Requested'
      BY <2>1, <2>2, <2>3 DEF Requested
    <2>5. \A f \in FDs : fdState'[f] \notin {"free", "user"} =>
            fdState[f] \notin {"free", "user"} \/ request'[t].fd = f
      <3>1. CASE ServerListen(t)
        BY <1>0, <3>1 DEF ServerListen, StartReserve
      <3>2. CASE ServerBind(t)
        BY <1>0, <3>2 DEF ServerBind
      <3>3. CASE ServerConnect(t) \/ ServerCommand(t) \/ ServerSend(t)
        BY <3>3 DEF ServerConnect, ServerCommand, ServerSend, kernelVars
      <3> QED BY <1>1, <3>1, <3>2, <3>3 DEF Call
    <2>6. request'[t] \in Requested'
      BY <1>0 DEF Requested
    <2>7. NoRequest.fd \notin FDs
      BY FdAssumption DEF NoRequest
    <2> QED BY <1>0, <2>1, <2>4, <2>5, <2>6, <2>7, LeakKept DEF OwnedNext
  <1>2. CASE SendRequest(t)
    <2>1. /\ pipe' = Append(pipe, request[t]) /\ request' = [request EXCEPT ![t] = NoRequest]
          /\ UNCHANGED <<sType, sFd, fdState>>
      BY <1>2 DEF SendRequest, slotVars, kernelVars
    <2>2. Requested \subseteq Requested'
      BY <1>0, <2>1, RequestedSend
    <2> QED BY <1>0, <2>1, <2>2, LeakKept DEF OwnedNext
  <1> QED BY <1>1, <1>2

\* Established or refused, a connection keeps its owner.
LEMMA LeakKernel ==
  ASSUME LeakInv, NEW f \in FDs, Connected(f)
  PROVE  NoFdLeak'
  <1>0. fdState \in [FDs -> FdStates] /\ NoFdLeak
    BY DEF LeakInv, DescriptorInv, ClaimedInv, ReservationInv, TypeInv, TypeOK, KernelTypeOK
  <1>1. UNCHANGED <<sType, sFd, request, pipe>> /\ fdState[f] = "connecting"
        /\ \A g \in FDs : g # f => fdState'[g] = fdState[g]
    BY <1>0 DEF Connected, slotVars, callVars
  <1>2. UNCHANGED Requested
    BY <1>1 DEF Requested
  <1> QED BY <1>0, <1>1, <1>2, LeakKept DEF OwnedNext

\* force_close closes the descriptor of the slot, or it is the application's.
LEMMA LeakClosed ==
  ASSUME TypeInv, DescriptorsOK, NoFdLeak, NEW s \in Slots, sType[s] \in LiveTypes,
         ForceClose(s), UNCHANGED <<sFd, request>>, pipe' = pipe \/ (Requested \subseteq Requested' \cup {Cmd} /\ Cmd.fd \notin FDs)
  PROVE  NoFdLeak'
  <1> DEFINE f == sFd[s]
  <1>0. /\ f \in FDs /\ fdState[f] \in FdStateFor(sType[s])
        /\ sType \in [Slots -> SocketTypes] /\ fdState \in [FDs -> FdStates]
    BY DEF DescriptorsOK, SlotFdOK, TypeInv, TypeOK, SlotTypeOK, KernelTypeOK
  <1>1. /\ \A r \in Slots : r # s => sType'[r] = sType[r]
        /\ \A g \in FDs : fdState'[g] \in {"free", fdState[g]}
        /\ sType[s] \in ClosedOnForce => fdState'[f] = "free"
    BY <1>0 DEF ForceClose
  <1>2. fdState'[f] \in {"free", "user"}
    <2>1. CASE sType[s] \in ClosedOnForce
      BY <1>1, <2>1
    <2>2. CASE sType[s] \notin ClosedOnForce
      <3>1. sType[s] = "BIND"
        BY <1>0, <2>2 DEF ClosedOnForce
      <3>2. fdState[f] = "user"
        BY <1>0, <3>1 DEF FdStateFor
      <3> QED BY <1>0, <1>1, <3>2
    <2> QED BY <2>1, <2>2
  <1>3. \A r \in Slots : sType[r] \in LiveTypes =>
          (sType'[r] \in LiveTypes /\ sFd'[r] = sFd[r]) \/ fdState'[sFd[r]] \in {"free", "user"}
    BY <1>1, <1>2
  <1>4. \A r \in Requested : r.fd \in FDs => OwnedNext(r.fd)
    <2>1. pipe' = pipe => Requested' = Requested
      BY DEF Requested
    <2> QED BY <2>1 DEF OwnedNext
  <1>5. \A g \in FDs : fdState'[g] \notin {"free", "user"} => fdState[g] \notin {"free", "user"}
    BY <1>1
  <1> QED BY <1>3, <1>4, <1>5, LeakKept

\* A command that opens passes its descriptor on to its slot; a failed bind
\* leaves it to the application, and epoll, not failing, refuses no other.
LEMMA LeakCommand ==
  ASSUME LeakInv, "add" \notin Faults, CtrlCmd
  PROVE  NoFdLeak'
  <1> DEFINE h == HASH_ID(Cmd.id)
  <1>0. /\ sType \in [Slots -> SocketTypes] /\ sFd \in [Slots -> FDs \cup {NoFd}]
        /\ fdState \in [FDs -> FdStates] /\ epoll \in [FDs -> Slots \cup {NoSlot}]
        /\ TypeInv /\ OneCarrier /\ DescriptorsOK /\ NoFdLeak
    BY DEF LeakInv, DescriptorInv, DescriptorsOK, ClaimedInv, ReservationInv, TypeInv, TypeOK, SlotTypeOK, KernelTypeOK
  <1>1. pipe # <<>> /\ pipe' = Tail(pipe)
    BY DEF CtrlCmd, Command,
       CmdListen, CmdBind, CmdOpenUnresolved, CmdOpenExhausted, CmdOpen, CmdStartPending,
       CmdStartOther, CmdClose, CmdSend, CmdExit
  <1>2. UNCHANGED request
    BY DEF CtrlCmd, Abort, callVars,
       CmdListen, CmdBind, CmdOpenUnresolved, CmdOpenExhausted, CmdOpen, CmdStartPending,
       CmdStartOther, CmdClose, CmdSend, CmdExit
  <1>3. Requested \subseteq Requested' \cup {Cmd} /\ Cmd \in Requested
    BY <1>0, <1>1, <1>2, RequestedPop
  <1>4. h \in Slots /\ Cmd = pipe[1] /\ 1 \in 1 .. Len(pipe)
    BY <1>0, <1>1, CmdType DEF TypeInv, TypeOK, PipeTypeOK, Cmd
  <1>5. Cmd.type \in OpenCommands => sType[h] = "RESERVE"
    BY <1>4 DEF LeakInv, DescriptorInv, ClaimedInv, ReservationInv, ReservationOwned, ClaimIsReserved, Carries, CarriedSlot
  <1>6. \A r \in Requested : r = Cmd \/ OwnedNext(r.fd)
    BY <1>3 DEF OwnedNext
  <1>7. Cmd.type \notin {"L", "B"} /\ Cmd.type \in Commands => Cmd.fd \notin FDs
    BY <1>0, <1>3, FdAssumption DEF DescriptorsOK, RequestFdOK, HasFd, Commands
  <1>8. CASE UNCHANGED <<sType, sFd, fdState>> /\ (Cmd.fd \in FDs => fdState[Cmd.fd] = "user")
    BY <1>0, <1>6, <1>8, LeakKept
  <1>9. CASE CmdListen
    <2>1. sType[h] = "RESERVE" /\ ~NewSocketFails
      BY <1>5, <1>9 DEF Command, OpenCommands, NewSocketFails, CmdListen
    <2>2. /\ UNCHANGED fdState
          /\ sType' = [sType EXCEPT ![h] = "PLISTEN"] /\ sFd' = [sFd EXCEPT ![h] = Cmd.fd]
      BY <1>9, <2>1 DEF CmdListen, NewSocket, kernelVars
    <2>3. \A r \in Slots : sType[r] \in LiveTypes => sType'[r] \in LiveTypes /\ sFd'[r] = sFd[r]
      BY <1>0, <2>1, <2>2 DEF LiveTypes
    <2>4. OwnedNext(Cmd.fd)
      BY <1>0, <1>4, <2>2 DEF OwnedNext, LiveTypes, SocketTypes
    <2> QED BY <1>0, <1>6, <2>2, <2>3, <2>4, LeakKept
  <1>10. CASE CmdBind
    <2>1. sType[h] = "RESERVE" /\ ~NewSocketFails /\ Cmd.type = "B"
      BY <1>5, <1>10 DEF Command, OpenCommands, NewSocketFails, CmdBind
    <2>2. Cmd.fd \in FDs /\ fdState[Cmd.fd] = "user"
      BY <1>0, <1>3, <2>1 DEF DescriptorsOK, RequestFdOK, HasFd, FdStateFor
    <2>3. /\ UNCHANGED fdState
          /\ \/ sType' = [sType EXCEPT ![h] = "BIND"] /\ sFd' = [sFd EXCEPT ![h] = Cmd.fd]
             \/ sType' = [sType EXCEPT ![h] = "INVALID"] /\ UNCHANGED sFd
      BY <1>10, <2>1 DEF CmdBind, NewSocket
    <2>4. \A r \in Slots : sType[r] \in LiveTypes => sType'[r] \in LiveTypes /\ sFd'[r] = sFd[r]
      BY <1>0, <2>1, <2>3 DEF LiveTypes, SocketTypes
    <2> QED BY <1>0, <1>6, <2>2, <2>3, <2>4, LeakKept
  <1>11. CASE CmdOpenUnresolved
    <2>1. Cmd.type = "O" /\ sType[h] = "RESERVE"
      BY <1>5, <1>11 DEF Command, OpenCommands, CmdOpenUnresolved
    <2>2. UNCHANGED <<sFd, fdState>> /\ sType' = [sType EXCEPT ![h] = "INVALID"]
      BY <1>11 DEF CmdOpenUnresolved, kernelVars
    <2>3. \A r \in Slots : sType[r] \in LiveTypes => sType'[r] \in LiveTypes /\ sFd'[r] = sFd[r]
      BY <1>0, <2>1, <2>2 DEF LiveTypes
    <2> QED BY <1>0, <1>6, <1>7, <2>1, <2>2, <2>3, LeakKept DEF Commands
  <1>12. CASE CmdOpen /\ ~ UNCHANGED <<sType, sFd, fdState>>
    <2>1. sType[h] = "RESERVE" /\ ~NewSocketFails /\ Cmd.type = "O"
      BY <1>5, <1>12 DEF Command, OpenCommands, NewSocketFails, CmdOpen
    <2>2. PICK f \in FDs, type \in {"CONNECTED", "CONNECTING"}, st \in {"conn", "connecting"} :
            /\ fdState[f] = "free"
            /\ sType' = [sType EXCEPT ![h] = type] /\ sFd' = [sFd EXCEPT ![h] = f]
            /\ fdState' = [fdState EXCEPT ![f] = st]
      BY <2>1, <1>12 DEF CmdOpen, Abort, NewSocket, slotVars, kernelVars
    <2>3. \A r \in Slots : sType[r] \in LiveTypes => sType'[r] \in LiveTypes /\ sFd'[r] = sFd[r]
      BY <1>0, <2>1, <2>2 DEF LiveTypes
    <2>4. OwnedNext(f)
      BY <1>0, <1>4, <2>2 DEF OwnedNext, LiveTypes, SocketTypes
    <2>5. \A g \in FDs : g # f => fdState'[g] = fdState[g]
      BY <1>0, <2>2
    <2> QED BY <1>0, <1>6, <1>7, <2>1, <2>3, <2>4, <2>5, LeakKept DEF Commands
  <1>13. CASE CmdStartPending
    <2>1. sType[h] \in {"PACCEPT", "PLISTEN"} /\ UNCHANGED <<sFd, fdState>> /\ Cmd.type = "S"
      BY <1>13 DEF CmdStartPending, Command
    <2>2. sFd[h] \in FDs /\ fdState[sFd[h]] # "free"
      BY <1>0, <1>4, <2>1 DEF DescriptorsOK, FdOwned, LiveTypes, SocketTypes
    <2>3. epoll[sFd[h]] = NoSlot
      <3>1. \A s \in Slots : sType[s] \in PolledTypes => s # h /\ sType[s] \in LiveTypes
        BY <2>1 DEF PolledTypes
      <3>2. sType[h] \in LiveTypes
        BY <2>1 DEF LiveTypes, SocketTypes
      <3>3. \A s \in Slots : sType[s] \in PolledTypes => sFd[s] # sFd[h]
        BY <1>0, <1>4, <3>1, <3>2 DEF DescriptorsOK, FdOwned
      <3> QED BY <1>0, <2>2, <3>3 DEF DescriptorsOK, FdOwned
    <2>4. AddOutcomes(sFd[h]) = {TRUE}
      BY <2>2, <2>3 DEF AddOutcomes
    <2>5. sType' = [sType EXCEPT ![h] = IF @ = "PACCEPT" THEN "CONNECTED" ELSE "LISTEN"]
      BY <1>13, <2>4 DEF CmdStartPending
    <2>6. \A r \in Slots : sType[r] \in LiveTypes => sType'[r] \in LiveTypes /\ sFd'[r] = sFd[r]
      BY <1>0, <1>4, <2>1, <2>5 DEF LiveTypes, SocketTypes
    <2> QED BY <1>0, <1>6, <1>7, <2>1, <2>6, LeakKept DEF Commands
  <1>14. CASE CmdStartOther \/ CmdExit \/ CmdOpenExhausted
    <2>1. UNCHANGED <<sType, sFd, fdState>> /\ Cmd.type \in {"S", "X", "O"}
      BY <1>14 DEF CmdStartOther, CmdExit, CmdOpenExhausted, Command, Abort, slotVars, kernelVars
    <2> QED BY <1>7, <1>8, <2>1 DEF Commands
  <1>15. CASE CmdClose \/ CmdSend
    <2>1. Cmd.type \in {"K", "D"}
      BY <1>15 DEF CmdClose, CmdSend, Command
    <2>2. Cmd.fd \notin FDs
      BY <1>7, <2>1 DEF Commands
    <2>3. \/ ForceClose(h) /\ sType[h] \notin {"INVALID", "RESERVE"} /\ UNCHANGED sFd
          \/ UNCHANGED <<sType, sFd, fdState>>
      BY <1>15 DEF CmdClose, CmdSend, Abort, slotVars, kernelVars, Stale
    <2>4. CASE ForceClose(h) /\ sType[h] \notin {"INVALID", "RESERVE"} /\ UNCHANGED sFd
      <3>1. sType[h] \in LiveTypes
        BY <1>0, <1>4, <2>4 DEF LiveTypes
      <3> QED BY <1>0, <1>2, <1>3, <1>4, <2>2, <2>4, <3>1, LeakClosed
    <2> QED BY <1>8, <2>2, <2>3, <2>4
  <1>16. CASE CmdOpen /\ UNCHANGED <<sType, sFd, fdState>>
    <2>1. Cmd.type = "O"
      BY <1>16 DEF CmdOpen, Command
    <2> QED BY <1>7, <1>8, <1>16, <2>1 DEF Commands
  <1> QED BY <1>9, <1>10, <1>11, <1>12, <1>13, <1>14, <1>15, <1>16 DEF CtrlCmd

\* report_accept owns the descriptor accept gave it until new_socket has it.
LEMMA LeakPoll ==
  ASSUME LeakInv,
         PollEnter \/ NoCommand \/ Wait \/ WaitInterrupted \/ HandleEvent
           \/ AcceptFill \/ ClearClosedEvent \/ Return
  PROVE  NoFdLeak'
  <1>0. /\ sType \in [Slots -> SocketTypes] /\ sFd \in [Slots -> FDs \cup {NoFd}]
        /\ fdState \in [FDs -> FdStates] /\ request \in [Procs -> Requests]
        /\ TypeInv /\ OneCarrier /\ DescriptorsOK /\ Poller \in Procs /\ NoFdLeak
    BY DEF LeakInv, DescriptorInv, DescriptorsOK, ClaimedInv, ReservationInv, TypeInv, TypeOK, SlotTypeOK,
       CallTypeOK, KernelTypeOK, Procs
  <1>1. CASE UNCHANGED <<sType, sFd, fdState, request, pipe>>
    BY <1>0, <1>1 DEF NoFdLeak
  <1>2. CASE PollEnter \/ NoCommand \/ Wait \/ WaitInterrupted \/ EventDrop \/ EventWrite \/ ClearClosedEvent \/ Return
    BY <1>1, <1>2 DEF PollEnter, NoCommand, Wait, WaitInterrupted, EventDrop, EventWrite, ClearClosedEvent, Return,
         slotVars, kernelVars, callVars
  <1>3. CASE EventConnect \/ EventRead
    <2>1. Ev.slot \in Slots /\ UNCHANGED <<sFd, request, pipe>>
      BY <1>0, <1>3, EvType DEF EventConnect, EventRead, Event, Events, callVars
    <2>2. CASE ForceClose(Ev.slot) /\ sType[Ev.slot] \notin {"INVALID", "RESERVE"}
      <3>1. sType[Ev.slot] \in LiveTypes
        BY <1>0, <2>1, <2>2 DEF LiveTypes
      <3> QED BY <1>0, <2>1, <2>2, <3>1, LeakClosed
    <2>3. CASE /\ sType[Ev.slot] = "CONNECTING" /\ sType' = [sType EXCEPT ![Ev.slot] = "CONNECTED"]
               /\ UNCHANGED fdState
      <3>1. \A s \in Slots : sType[s] \in LiveTypes => sType'[s] \in LiveTypes
        BY <1>0, <2>1, <2>3 DEF LiveTypes, SocketTypes
      <3>2. UNCHANGED Requested
        BY <2>1 DEF Requested
      <3> QED BY <1>0, <2>1, <2>3, <3>1, <3>2, LeakKept DEF OwnedNext
    <2>4. CASE UNCHANGED <<sType, fdState>>
      BY <1>1, <2>1, <2>4
    <2>5. CASE EventConnect
      BY <2>2, <2>3, <2>5 DEF EventConnect, Event
    <2>6. CASE EventRead
      BY <2>2, <2>4, <2>6 DEF EventRead, Event, DefaultTypes, kernelVars
    <2> QED BY <1>3, <2>5, <2>6
  <1>4. CASE EventAccept
    <2>1. UNCHANGED <<sType, sFd, pipe>>
      BY <1>4 DEF EventAccept, slotVars
    <2>2. CASE UNCHANGED <<request, fdState>>
      BY <1>1, <2>1, <2>2
    <2>3. CASE \E f \in FDs : /\ fdState[f] = "free" /\ fdState' = [fdState EXCEPT ![f] = "conn"]
                              /\ StartReserve(Poller, "ACCEPT", f)
      <3>1. PICK f \in FDs : /\ fdState[f] = "free" /\ fdState' = [fdState EXCEPT ![f] = "conn"]
                             /\ StartReserve(Poller, "ACCEPT", f)
        BY <2>3
      <3>2. request'[Poller].fd = f /\ \A q \in Procs : q # Poller => request'[q] = request[q]
        BY <1>0, <3>1 DEF StartReserve
      <3>3. request[Poller] = NoRequest
        BY <1>0, <1>4 DEF EventAccept, Event, LeakInv, QuietOK, Reserving
      <3>4. OwnedNext(f)
        BY <1>0, <3>2 DEF OwnedNext, Requested
      <3>5. \A r \in Requested : r = NoRequest \/ r \in Requested'
        BY <2>1, <3>2, <3>3 DEF Requested
      <3>6. NoRequest.fd \notin FDs
        BY FdAssumption DEF NoRequest
      <3>7. \A r \in Requested : r.fd \in FDs => OwnedNext(r.fd)
        BY <3>5, <3>6 DEF OwnedNext
      <3>8. \A g \in FDs : g # f => fdState'[g] = fdState[g]
        BY <1>0, <3>1
      <3> QED BY <1>0, <2>1, <3>4, <3>7, <3>8, LeakKept
    <2> QED BY <1>4, <2>2, <2>3 DEF EventAccept, callVars
  <1>5. CASE AcceptFill
    <2> DEFINE s == HASH_ID(request[Poller].id)
    <2>1. sType[s] = "RESERVE" /\ s \in Slots
      BY <1>0, <1>5, SlotsOfOwners
      DEF AcceptFill, Holds, HeldSlot, LeakInv, DescriptorInv, ClaimedInv, ReservationInv, ReservationOwned, ClaimIsReserved
    <2>2. /\ sType' = [sType EXCEPT ![s] = "PACCEPT"] /\ sFd' = [sFd EXCEPT ![s] = request[Poller].fd]
          /\ request' = [request EXCEPT ![Poller] = NoRequest] /\ UNCHANGED <<pipe, fdState>>
      BY <1>5, <2>1 DEF AcceptFill, kernelVars
    <2>3. ~OwnsFd(NoRequest)
      BY DEF OwnsFd, NoRequest
    <2>4. Requested \subseteq Requested' \cup {request[Poller]}
      BY <1>0, <2>2, <2>3, RequestedPut
    <2>5. OwnedNext(request[Poller].fd)
      BY <1>0, <2>1, <2>2 DEF OwnedNext, LiveTypes, SocketTypes
    <2>6. \A r \in Requested : OwnedNext(r.fd)
      BY <2>4, <2>5 DEF OwnedNext
    <2>7. \A r \in Slots : sType[r] \in LiveTypes => sType'[r] \in LiveTypes /\ sFd'[r] = sFd[r]
      BY <1>0, <2>1, <2>2 DEF LiveTypes
    <2> QED BY <1>0, <2>2, <2>6, <2>7, LeakKept
  <1> QED BY <1>2, <1>3, <1>4, <1>5 DEF HandleEvent

\* After socket_server::initialize no descriptor is open.
LEMMA LeakInit == Init => LeakInv
  BY DescriptorInit DEF Init, LeakInv, QuietOK, NoFdLeak

\* Every step keeps every open descriptor owned.
LEMMA LeakStep == "add" \notin Faults /\ LeakInv /\ [Next]_vars => LeakInv'
  <1> SUFFICES ASSUME "add" \notin Faults, LeakInv, [Next]_vars PROVE QuietOK' /\ NoFdLeak'
    BY DescriptorStep DEF LeakInv
  <1>1. CASE \E t \in Threads : Call(t) \/ AppStep(t)
    BY <1>1, LeakCall, LeakReserve, QuietCall DEF AppStep, Procs
  <1>2. CASE PollStep \/ WaitInterrupted
    <2>1. CASE Reserve(Poller) \/ ReserveFull(Poller)
      BY <2>1, LeakReserve, QuietCall DEF Procs
    <2>2. CASE CtrlCmd
      BY <2>2, LeakCommand, QuietPoll DEF Poll
    <2>3. CASE Poll \/ WaitInterrupted
      BY <2>2, <2>3, LeakPoll, QuietPoll DEF Poll
    <2> QED BY <1>2, <2>1, <2>2, <2>3 DEF PollStep
  <1>3. CASE \E f \in FDs : Connected(f)
    <2>1. UNCHANGED <<pc, request>>
      BY <1>3 DEF Connected, callVars
    <2>2. QuietOK'
      BY <2>1 DEF LeakInv, QuietOK
    <2> QED BY <1>3, <2>2, LeakKernel
  <1>4. CASE UNCHANGED vars
    BY <1>4 DEF vars, slotVars, callVars, kernelVars, LeakInv, QuietOK, NoFdLeak
  <1> QED BY <1>1, <1>2, <1>3, <1>4 DEF Next

\* Unless epoll refuses a descriptor, every descriptor the server opened is owned
\* by a live slot, a call or a command: a full slot table, a failed connection, a
\* close and a failed read or write leak none.
THEOREM NothingLeaks == "add" \notin Faults => (Spec => []NoFdLeak)
  <1> SUFFICES ASSUME "add" \notin Faults PROVE Spec => []NoFdLeak
    OBVIOUS
  <1>1. LeakInv => NoFdLeak
    BY DEF LeakInv
  <1>2. LeakInv /\ [Next]_vars => LeakInv'
    BY LeakStep
  <1> QED BY <1>1, <1>2, LeakInit, PTL DEF Spec

-----------------------------------------------------------------------------
(* Messages *)

\* A live slot is the slot of its id.
IdHome == \A s \in Slots : sType[s] \in LiveTypes => HASH_ID(sId[s]) = s

\* What the life cycle says of one slot: a live slot stays, with its id, is
\* closed, or was opened in the slot its id belongs to.
LEMMA SlotStep ==
  ASSUME [Lifecycle!Next]_slotView, NEW s \in Slots
  PROVE  /\ sType'[s] \in LiveTypes =>
              \/ sType[s] \in LiveTypes /\ sId'[s] = sId[s]
              \/ sType[s] = "RESERVE" /\ HASH_ID(sId'[s]) = s
         /\ sType'[s] \in LiveTypes /\ sType[s] \in LiveTypes /\ sType'[s] # sType[s] =>
              <<sType[s], sType'[s]>> \in Lifecycle!Advances
  <1>1. /\ slotView[s] = ViewOf(s) /\ slotView'[s] = ViewOf(s)'
        /\ DOMAIN slotView = Slots /\ DOMAIN slotView' = Slots
    BY DEF slotView, ViewOf
  <1>2. /\ ViewOf(s).state = sType[s] /\ ViewOf(s)'.state = sType'[s]
        /\ sType[s] \in LiveTypes => ViewOf(s).id = sId[s]
        /\ sType'[s] \in LiveTypes => ViewOf(s)'.id = sId'[s]
    BY DEF ViewOf
  <1>3. CASE UNCHANGED slotView
    BY <1>1, <1>2, <1>3
  <1>4. CASE \E r \in Slots : Lifecycle!Reserve(r) \/ Lifecycle!GiveUp(r) \/ Lifecycle!Open(r)
                                \/ Lifecycle!Advance(r) \/ Lifecycle!Close(r)
    <2>1. PICK r \in Slots : Lifecycle!Reserve(r) \/ Lifecycle!GiveUp(r) \/ Lifecycle!Open(r)
                                \/ Lifecycle!Advance(r) \/ Lifecycle!Close(r)
      BY <1>4
    <2>2. CASE r # s
      <3>1. slotView'[s] = slotView[s]
        BY <1>1, <2>1, <2>2 DEF Lifecycle!Reserve, Lifecycle!GiveUp, Lifecycle!Open, Lifecycle!Advance, Lifecycle!Close
      <3> QED BY <1>1, <1>2, <3>1
    <2>3. CASE r = s
      <3>1. CASE Lifecycle!Reserve(s) \/ Lifecycle!GiveUp(s) \/ Lifecycle!Close(s)
        <4>1. slotView'[s].state \in {"RESERVE", "INVALID"}
          BY <1>1, <3>1 DEF Lifecycle!Reserve, Lifecycle!GiveUp, Lifecycle!Close, Lifecycle!Empty, Lifecycle!Taken
        <4> QED BY <1>1, <1>2, <4>1 DEF LiveTypes
      <3>2. CASE Lifecycle!Open(s)
        <4>1. PICK st, i : st \in Lifecycle!Openings /\ HASH_ID(i) = s /\ slotView' = [slotView EXCEPT ![s] = [state |-> st, id |-> i]]
          BY <3>2, SameDefinitions DEF Lifecycle!Open
        <4>2. slotView'[s].id = i /\ slotView[s].state = "RESERVE"
          BY <1>1, <3>2, <4>1 DEF Lifecycle!Open, Lifecycle!Taken
        <4> QED BY <1>1, <1>2, <4>1, <4>2 DEF LiveTypes
      <3>3. CASE Lifecycle!Advance(s)
        <4>1. PICK st \in LiveTypes : /\ <<slotView[s].state, st>> \in Lifecycle!Advances
                                      /\ slotView' = [slotView EXCEPT ![s].state = st]
          BY <3>3, SameDefinitions DEF Lifecycle!Advance
        <4>2. slotView'[s].id = slotView[s].id /\ slotView'[s].state = st
          BY <1>1, <4>1 DEF ViewOf
        <4>3. sType[s] \in LiveTypes
          BY <1>1, <1>2, <4>1 DEF Lifecycle!Advances, LiveTypes, SocketTypes
        <4> QED BY <1>1, <1>2, <4>1, <4>2, <4>3
      <3> QED BY <2>1, <2>3, <3>1, <3>2, <3>3
    <2> QED BY <2>2, <2>3
  <1> QED BY <1>3, <1>4, SameDefinitions DEF Lifecycle!Next

\* Live slots stay at home.
LEMMA HomeStep == ReservationInv /\ IdHome /\ [Next]_vars => IdHome'
  BY LifecycleStep, SlotStep DEF IdHome

ClosedInv == ReservationInv /\ IdHome /\ ClosedIsDead

\* A thread in a call, and the kernel, make no slot live.
LEMMA NothingOpens ==
  ASSUME TypeInv, \/ \E p \in Procs : Reserve(p) \/ ReserveFull(p)
                  \/ \E t \in Threads : Call(t) \/ SendRequest(t)
                  \/ \E f \in FDs : Connected(f)
  PROVE  \A s \in Slots : sType'[s] = sType[s] \/ (sType'[s] = "RESERVE" /\ sType[s] = "INVALID")
  <1>0. sType \in [Slots -> SocketTypes]
    BY DEF TypeInv, TypeOK, SlotTypeOK
  <1>1. CASE UNCHANGED sType
    BY <1>1
  <1>2. ASSUME NEW p \in Procs, ReserveCas(p)
        PROVE  \A s \in Slots : sType'[s] = sType[s] \/ (sType'[s] = "RESERVE" /\ sType[s] = "INVALID")
    BY <1>0, <1>2 DEF ReserveCas, CasSucceeds
  <1> QED BY <1>1, <1>2 DEF Reserve, ReserveFull, ReserveAdd, ReserveMask, ReserveLook, ReserveSetId, ReserveSetFd,
       Call, ServerListen, ServerBind, ServerConnect, ServerCommand, ServerSend, SendRequest, Connected, slotVars

\* A command answered with CLOSE or ERROR leaves its id without a live socket.
LEMMA ClosedCommand ==
  ASSUME ReservationInv, CtrlCmd, Returning({"CLOSE", "ERROR"})'
  PROVE  ~LiveId(result.id)'
  <1> DEFINE h == HASH_ID(Cmd.id)
  <1>0. sType \in [Slots -> SocketTypes] /\ pc \in [Procs -> Labels] /\ Poller \in Procs
    BY DEF ReservationInv, TypeInv, TypeOK, SlotTypeOK, CallTypeOK, Procs
  <1>1. pipe # <<>> /\ pc[Poller] = "loop"
    BY DEF CtrlCmd, Command,
       CmdListen, CmdBind, CmdOpenUnresolved, CmdOpenExhausted, CmdOpen, CmdStartPending,
       CmdStartOther, CmdClose, CmdSend, CmdExit
  <1>2. h \in Slots
    BY <1>1, CmdType DEF ReservationInv
  <1>3. pc'[Poller] # "loop" /\ result'.type \in {"CLOSE", "ERROR"}
    BY DEF Returning
  <1>4. \/ result' = Result("ERROR", Cmd.id) /\ sType' = [sType EXCEPT ![h] = "INVALID"]
        \/ result' = Result("ERROR", Cmd.id) /\ Stale /\ UNCHANGED slotVars
        \/ result' = Result("CLOSE", Cmd.id) /\ Stale /\ UNCHANGED <<sType, sId>>
        \/ result' = Result("CLOSE", Cmd.id) /\ ForceClose(h)
    <2>1. CASE CmdListen
      BY <1>1, <1>3, <2>1 DEF CmdListen, Abort, Continue
    <2>2. CASE CmdBind
      BY <1>1, <1>3, <2>2 DEF CmdBind, Abort, Answer, Result
    <2>3. CASE CmdOpenUnresolved
      BY <2>3 DEF CmdOpenUnresolved, Answer
    <2>4. CASE CmdOpenExhausted
      BY <1>1, <1>3, <2>4 DEF CmdOpenExhausted, Abort
    <2>5. CASE CmdOpen
      BY <1>1, <1>3, <2>5 DEF CmdOpen, Abort, Answer, Continue, Result
    <2>6. CASE CmdStartPending
      BY <1>3, <2>6 DEF CmdStartPending, Answer, Result
    <2>7. CASE CmdStartOther
      BY <1>1, <1>3, <2>7 DEF CmdStartOther, Answer, Continue, Result
    <2>8. CASE CmdClose
      BY <1>1, <1>3, <2>8 DEF CmdClose, Abort, Answer
    <2>9. CASE CmdSend
      BY <1>1, <1>3, <2>9 DEF CmdSend, Abort, Answer, Continue
    <2>10. CASE CmdExit
      BY <1>3, <2>10 DEF CmdExit, Answer, Result
    <2> QED BY <2>1, <2>2, <2>3, <2>4, <2>5, <2>6, <2>7, <2>8, <2>9, <2>10 DEF CtrlCmd
  <1>5. result'.id = Cmd.id
    BY <1>4 DEF Result
  <1>6. CASE sType'[h] = "INVALID"
    BY <1>5, <1>6 DEF LiveId, LiveTypes
  <1>7. CASE Stale /\ UNCHANGED <<sType, sId>>
    BY <1>5, <1>7 DEF LiveId, LiveTypes, Stale
  <1>8. CASE ForceClose(h)
    BY <1>0, <1>2, <1>6, <1>8 DEF ForceClose
  <1> QED BY <1>0, <1>2, <1>4, <1>6, <1>7, <1>8 DEF slotVars

\* A failed connection is answered with ERROR when its slot is free again.
LEMMA ClosedPoll ==
  ASSUME ClosedInv, Returning({"CLOSE", "ERROR"})',
         PollEnter \/ NoCommand \/ Wait \/ WaitInterrupted \/ HandleEvent
           \/ AcceptFill \/ ClearClosedEvent \/ Return
  PROVE  ~LiveId(result.id)'
  <1>0. /\ sType \in [Slots -> SocketTypes] /\ pc \in [Procs -> Labels] /\ Poller \in Procs
        /\ TypeInv
    BY DEF ClosedInv, ReservationInv, TypeInv, TypeOK, SlotTypeOK, CallTypeOK, Procs
  <1>1. pc'[Poller] \in {"clear", "return"} /\ result'.type \in {"CLOSE", "ERROR"}
    BY DEF Returning
  <1>2. CASE PollEnter \/ NoCommand \/ Wait \/ WaitInterrupted \/ EventDrop \/ EventAccept \/ EventWrite \/ Return
    BY <1>0, <1>1, <1>2 DEF PollEnter, NoCommand, Wait, WaitInterrupted, EventDrop, EventAccept, EventWrite, Return,
       Goto, Loop, StartReserve
  <1>3. CASE AcceptFill
    BY <1>0, <1>1, <1>3 DEF AcceptFill, AcceptMessage, Result, Abort
  <1>4. CASE ClearClosedEvent
    <2>1. pc[Poller] = "clear" /\ UNCHANGED <<sType, sId, result>>
      BY <1>4 DEF ClearClosedEvent, slotVars
    <2> QED BY <1>1, <2>1 DEF ClosedInv, ClosedIsDead, Returning, LiveId
  <1>5. CASE EventRead
    BY <1>0, <1>1, <1>5 DEF EventRead, Answer, Result, Loop, Goto
  <1>6. CASE EventConnect
    <2>1. Ev.slot \in Slots /\ sType[Ev.slot] = "CONNECTING"
      BY <1>0, <1>6, EvType DEF EventConnect, Event, Events
    <2>2. result' = Result("ERROR", sId[Ev.slot]) /\ ForceClose(Ev.slot)
      <3>1. Result("OPEN", sId[Ev.slot]).type = "OPEN"
        BY DEF Result
      <3>2. result' # Result("OPEN", sId[Ev.slot])
        BY <1>1, <3>1
      <3> QED BY <1>6, <3>2 DEF EventConnect
    <2>3. HASH_ID(sId[Ev.slot]) = Ev.slot
      BY <2>1 DEF ClosedInv, IdHome, LiveTypes, SocketTypes
    <2>4. sType'[Ev.slot] = "INVALID" /\ result'.id = sId[Ev.slot]
      BY <1>0, <2>1, <2>2 DEF ForceClose, Result
    <2> QED BY <2>3, <2>4 DEF LiveId, LiveTypes
  <1> QED BY <1>2, <1>3, <1>4, <1>5, <1>6 DEF HandleEvent

\* Every step keeps the answers of closed sockets true.
LEMMA ClosedStep == ClosedInv /\ [Next]_vars => ClosedInv'
  <1> SUFFICES ASSUME ClosedInv, [Next]_vars PROVE ClosedIsDead'
    BY ReservationStep, HomeStep DEF ClosedInv
  <1>0. /\ TypeInv /\ TypeInv' /\ pc \in [Procs -> Labels] /\ Poller \in Procs
    BY TypeStep DEF ClosedInv, ReservationInv, TypeInv, TypeOK, CallTypeOK, Procs
  <1>1. SUFFICES ASSUME Returning({"CLOSE", "ERROR"})' PROVE ~LiveId(result.id)'
    BY DEF ClosedIsDead
  <1>2. ASSUME pc'[Poller] = pc[Poller], UNCHANGED <<result, sId>>,
               \A s \in Slots : sType'[s] = sType[s] \/ (sType'[s] = "RESERVE" /\ sType[s] = "INVALID")
        PROVE  ~LiveId(result.id)'
    <2>1. HASH_ID(result.id) \in Slots
      BY <1>0, HashRange, IdsAreWords DEF TypeInv, TypeOK, PollTypeOK, Results
    <2> QED BY <1>1, <1>2, <2>1 DEF ClosedInv, ClosedIsDead, Returning, LiveId, LiveTypes
  <1>3. CASE \E t \in Threads : Call(t) \/ AppStep(t)
    <2>1. PICK t \in Threads : Call(t) \/ AppStep(t)
      BY <1>3
    <2>2. UNCHANGED result /\ pc'[Poller] = pc[Poller]
      BY <1>0, <2>1, ThreadAssumption
      DEF Reserve, ReserveFull, ReserveAdd, ReserveMask, ReserveLook, ReserveCas, ReserveSetId,
       ReserveSetFd, Goto, pollVars, Call, ServerListen, ServerBind, ServerConnect, ServerCommand,
       ServerSend, SendRequest, StartReserve, AppStep
    <2>3. \A s \in Slots : sType'[s] = sType[s] \/ (sType'[s] = "RESERVE" /\ sType[s] = "INVALID")
      BY <1>0, <2>1, NothingOpens DEF AppStep, Procs
    <2>4. LiveId(result.id)' => LiveId(result.id)
      <3>1. HASH_ID(result.id) \in Slots
        BY <1>0, HashRange, IdsAreWords DEF TypeInv, TypeOK, PollTypeOK, Results
      <3>2. \A s \in Slots : sType'[s] \in LiveTypes => sId'[s] = sId[s]
        <4>1. \A s \in Slots : sType'[s] \in LiveTypes => sType[s] \in LiveTypes
          BY <2>3 DEF LiveTypes
        <4> QED BY <4>1, LifecycleStep, SlotStep DEF LiveTypes, ClosedInv
      <3>3. \A s \in Slots : sType'[s] \in LiveTypes => sType'[s] = sType[s]
        BY <2>3 DEF LiveTypes
      <3> QED BY <2>2, <3>1, <3>2, <3>3 DEF LiveId
    <2> QED BY <1>1, <2>2, <2>4 DEF ClosedInv, ClosedIsDead, Returning
  <1>4. CASE PollStep \/ WaitInterrupted
    <2>1. CASE Reserve(Poller) \/ ReserveFull(Poller)
      <3>1. pc'[Poller] \notin {"clear", "return"}
        BY <1>0, <2>1 DEF Reserve, ReserveFull, ReserveAdd, ReserveMask, ReserveLook, ReserveCas, ReserveSetId,
           ReserveSetFd, Goto
      <3> QED BY <1>1, <3>1 DEF Returning
    <2>2. CASE CtrlCmd
      BY <1>1, <2>2, ClosedCommand DEF ClosedInv
    <2>3. CASE Poll \/ WaitInterrupted
      BY <1>1, <2>2, <2>3, ClosedPoll DEF Poll
    <2> QED BY <1>4, <2>1, <2>2, <2>3 DEF PollStep
  <1>5. CASE \E f \in FDs : Connected(f)
    <2>1. UNCHANGED <<pc, result, sId, sType>>
      BY <1>5 DEF Connected, slotVars, pollVars
    <2> QED BY <1>2, <2>1
  <1>6. CASE UNCHANGED vars
    BY <1>2, <1>6 DEF vars, slotVars, pollVars
  <1> QED BY <1>3, <1>4, <1>5, <1>6 DEF Next

\* When poll returns CLOSE or ERROR for an id, no live socket has that id any
\* more, ids that wrapped around and commands of other threads included.
THEOREM ClosedIsGone == Spec => []ClosedIsDead
  <1>1. Init => ClosedInv
    BY ReservationInit DEF Init, ClosedInv, IdHome, ClosedIsDead, Returning, LiveTypes, Procs
  <1>2. ClosedInv => ClosedIsDead
    BY DEF ClosedInv
  <1> QED BY <1>1, <1>2, ClosedStep, PTL DEF Spec

-----------------------------------------------------------------------------
(* A single-threaded application *)

\* Calls and poll take turns, and reading fails on no open connection: the two
\* conditions under which events never outlive their socket.
Serial == ~Concurrent /\ "read" \notin Faults

\* While poll runs no call is under way.
Turns == pc[Poller] = "idle" \/ \A t \in Threads : pc[t] = "idle"

\* report_accept's listening socket stays open while it reserves an id.
ListenerLive == pc[Poller] \in Reserving => sType[listener] = "LISTEN"

\* A connected socket has an established connection.
ConnectedOK == \A s \in Slots : sType[s] = "CONNECTED" => fdState[sFd[s]] = "conn"

\* A pending event is about the polled socket its slot held when epoll_wait
\* reported it, or about the socket being cleared; no two are about one slot.
EventsOK ==
  \A k \in 1 .. Len(batch) :
    LET e == batch[k] IN
    e.slot # NoSlot =>
      \/ /\ sType[e.slot] \in PolledTypes /\ sId[e.slot] = e.of
         /\ sType[e.slot] = "CONNECTING" => fdState[sFd[e.slot]] # "connecting"
      \/ pc[Poller] = "clear" /\ sType[e.slot] = "INVALID" /\ sId[e.slot] = result.id
OneEvent == \A j, k \in 1 .. Len(batch) : batch[j].slot = batch[k].slot /\ batch[j].slot # NoSlot => j = k

SocketsOK == EventsOK /\ OneEvent /\ ConnectedOK /\ EpollPointsHome

SerialInv == DescriptorInv /\ IdHome /\ Turns /\ ListenerLive /\ SocketsOK /\ MessageIsLive

\* What a step does to slot s: nothing an event could see, ...
Undisturbed(s) ==
  /\ sType'[s] = sType[s] /\ sId'[s] = sId[s] /\ sFd'[s] = sFd[s]
  /\ epoll'[sFd[s]] = epoll[sFd[s]]
  /\ fdState[sFd[s]] # "connecting" => fdState'[sFd[s]] = fdState[sFd[s]]
\* ... closing it with a message, ...
Gone(s) == pc'[Poller] = "clear" /\ sType'[s] = "INVALID" /\ sId'[s] = result'.id
\* ... or registering it.
Placed(s) ==
  /\ epoll'[sFd'[s]] = s
  /\ sType'[s] = "CONNECTED" => fdState'[sFd'[s]] = "conn"

\* The batch loses its first d events at most, and what happens to the slots of
\* the others is one of the three.
LEMMA SocketsKept ==
  ASSUME TypeInv, SocketsOK, NEW d \in {0, 1}, pc[Poller] # "clear",
         \A k \in 1 .. Len(batch') :
           k + d \in 1 .. Len(batch) /\ batch'[k].slot = batch[k + d].slot /\ batch'[k].of = batch[k + d].of,
         \A s \in Slots : sType[s] \in PolledTypes =>
           Undisturbed(s) \/ Gone(s) \/ (d = 1 /\ s = Ev.slot),
         \A s \in Slots : sType'[s] \in PolledTypes => (sType[s] \in PolledTypes /\ Undisturbed(s)) \/ Placed(s)
  PROVE  SocketsOK'
  <1>0. batch \in Seq(Events) /\ Len(batch) \in Nat /\ d \in Nat
    BY DEF TypeInv, TypeOK, PollTypeOK
  <1>1. OneEvent'
    <2>1. ASSUME NEW j \in 1 .. Len(batch'), NEW k \in 1 .. Len(batch'),
                 batch'[j].slot = batch'[k].slot, batch'[j].slot # NoSlot
          PROVE  j = k
      <3>1. j + d = k + d
        BY <2>1 DEF SocketsOK, OneEvent
      <3> QED BY <1>0, <3>1
    <2> QED BY <2>1 DEF OneEvent
  <1>2. EventsOK'
    <2>1. SUFFICES ASSUME NEW k \in 1 .. Len(batch'), batch'[k].slot # NoSlot
                   PROVE  \/ /\ sType'[batch'[k].slot] \in PolledTypes /\ sId'[batch'[k].slot] = batch'[k].of
                             /\ sType'[batch'[k].slot] = "CONNECTING" => fdState'[sFd'[batch'[k].slot]] # "connecting"
                          \/ Gone(batch'[k].slot)
      BY DEF EventsOK, Gone
    <2>2. PICK j \in 1 .. Len(batch) : j = k + d
      OBVIOUS
    <2>3. batch'[k].slot = batch[j].slot /\ batch'[k].of = batch[j].of
      BY <2>2
    <2>4. batch[j].slot \in Slots
      <3>1. batch[j] \in Events
        BY <1>0
      <3> QED BY <2>1, <2>3, <3>1 DEF Events
    <2>5. /\ sType[batch[j].slot] \in PolledTypes /\ sId[batch[j].slot] = batch[j].of
          /\ sType[batch[j].slot] = "CONNECTING" => fdState[sFd[batch[j].slot]] # "connecting"
      BY <2>1, <2>3 DEF SocketsOK, EventsOK
    <2>6. ~(d = 1 /\ batch[j].slot = Ev.slot)
      <3>1. SUFFICES ASSUME d = 1, batch[j].slot = Ev.slot PROVE FALSE
        OBVIOUS
      <3>2. Ev = batch[1] /\ 1 \in 1 .. Len(batch) /\ j # 1
        BY <1>0, <2>2, <3>1 DEF Ev
      <3> QED BY <2>1, <2>3, <3>1, <3>2 DEF SocketsOK, OneEvent
    <2> QED BY <2>3, <2>4, <2>5, <2>6 DEF Undisturbed
  <1>3. ConnectedOK' /\ EpollPointsHome'
    <2>1. "CONNECTED" \in PolledTypes
      BY DEF PolledTypes, LiveTypes, SocketTypes
    <2> QED BY <2>1 DEF SocketsOK, ConnectedOK, EpollPointsHome, Undisturbed, Placed
  <1> QED BY <1>1, <1>2, <1>3 DEF SocketsOK

\* The batch is not touched.
LEMMA SameBatch ==
  ASSUME TypeInv, UNCHANGED batch
  PROVE  \A k \in 1 .. Len(batch') :
           k + 0 \in 1 .. Len(batch) /\ batch'[k].slot = batch[k + 0].slot /\ batch'[k].of = batch[k + 0].of
  <1>1. Len(batch) \in Nat
    BY DEF TypeInv, TypeOK, PollTypeOK
  <1> QED BY <1>1

\* The event at hand is removed.
LEMMA NextBatch ==
  ASSUME TypeInv, batch # <<>>, batch' = Tail(batch)
  PROVE  \A k \in 1 .. Len(batch') :
           k + 1 \in 1 .. Len(batch) /\ batch'[k].slot = batch[k + 1].slot /\ batch'[k].of = batch[k + 1].of
  <1>1. batch \in Seq(Events)
    BY DEF TypeInv, TypeOK, PollTypeOK
  <1> QED BY <1>1

\* The event at hand is to be written only.
LEMMA ReadBatch ==
  ASSUME TypeInv, batch # <<>>, batch' = [batch EXCEPT ![1].read = FALSE]
  PROVE  \A k \in 1 .. Len(batch') :
           k + 0 \in 1 .. Len(batch) /\ batch'[k].slot = batch[k + 0].slot /\ batch'[k].of = batch[k + 0].of
  <1>1. batch \in Seq(Events) /\ Len(batch) \in Nat
    BY DEF TypeInv, TypeOK, PollTypeOK
  <1>2. PICK e : e = [batch[1] EXCEPT !.read = FALSE]
    OBVIOUS
  <1>3. 1 \in DOMAIN batch /\ DOMAIN batch = 1 .. Len(batch) /\ batch[1] \in Events
    BY <1>1
  <1>4. e.slot = batch[1].slot /\ e.of = batch[1].of
    BY <1>2, <1>3 DEF Events
  <1>5. batch' = [batch EXCEPT ![1] = e]
    BY <1>2
  <1>6. Len(batch') = Len(batch) /\ \A k \in 1 .. Len(batch) : batch'[k] = IF k = 1 THEN e ELSE batch[k]
    <2>1. e \in Events
      BY <1>2, <1>3 DEF Events
    <2>2. batch \in [1 .. Len(batch) -> Events]
      BY <1>1
    <2>3. batch' \in [1 .. Len(batch) -> Events] /\ \A k \in 1 .. Len(batch) : batch'[k] = IF k = 1 THEN e ELSE batch[k]
      BY <1>5, <2>1, <2>2
    <2>4. \A n \in Nat : \A b \in [1 .. n -> Events] : Len(b) = n
      OBVIOUS
    <2> QED BY <1>1, <2>3, <2>4
  <1>7. \A k \in 1 .. Len(batch) : k + 0 = k
    BY <1>1
  <1> QED BY <1>4, <1>6, <1>7

\* reserve_id disturbs no live slot: a descriptor given back is no slot's.
LEMMA ReserveDisturbs ==
  ASSUME DescriptorInv, NEW p \in Procs, Reserve(p) \/ ReserveFull(p)
  PROVE  /\ \A s \in Slots : sType[s] \in LiveTypes => Undisturbed(s)
         /\ \A s \in Slots : sType'[s] \in LiveTypes => sType'[s] = sType[s]
         /\ UNCHANGED <<batch, result, listener, epoll>>
  <1> DEFINE h == HASH_ID(request[p].id)
  <1>0. /\ sType \in [Slots -> SocketTypes] /\ sFd \in [Slots -> FDs \cup {NoFd}] /\ sId \in [Slots -> Ids]
        /\ h \in Slots /\ h = HeldSlot(p) /\ TypeInv /\ ReservationOwned /\ DescriptorsOK
        /\ fdState \in [FDs -> FdStates]
    BY SlotsOfOwners
    DEF DescriptorInv, DescriptorsOK, ClaimedInv, ReservationInv, TypeInv, TypeOK, SlotTypeOK, KernelTypeOK, HeldSlot
  <1>1. UNCHANGED <<batch, result, listener, epoll>>
    BY DEF Reserve, ReserveFull, ReserveAdd, ReserveMask, ReserveLook, ReserveCas, ReserveSetId,
       ReserveSetFd, pollVars, kernelVars
  <1>2. CASE ReserveAdd(p) \/ ReserveMask(p) \/ ReserveLook(p)
    BY <1>1, <1>2 DEF ReserveAdd, ReserveMask, ReserveLook, slotVars, kernelVars, Undisturbed
  <1>3. CASE ReserveCas(p)
    <2>1. /\ UNCHANGED <<sId, sFd, fdState>>
          /\ UNCHANGED sType \/ (sType[h] = "INVALID" /\ sType' = [sType EXCEPT ![h] = "RESERVE"])
      BY <1>3 DEF ReserveCas, CasSucceeds, kernelVars
    <2> QED BY <1>0, <1>1, <2>1 DEF Undisturbed, LiveTypes
  <1>4. CASE ReserveSetId(p) \/ ReserveSetFd(p)
    <2>1. sType[h] = "RESERVE"
      BY <1>0, <1>4 DEF ReserveSetId, ReserveSetFd, Holds, ReservationOwned, ClaimIsReserved
    <2>2. /\ UNCHANGED <<sType, fdState>>
          /\ \A s \in Slots : s # h => sId'[s] = sId[s] /\ sFd'[s] = sFd[s]
      BY <1>0, <1>4 DEF ReserveSetId, ReserveSetFd, kernelVars
    <2> QED BY <1>1, <2>1, <2>2 DEF Undisturbed, LiveTypes
  <1>5. CASE ReserveFull(p)
    <2>1. UNCHANGED <<sType, sId, sFd>>
      BY <1>5 DEF ReserveFull, slotVars
    <2>2. \A s \in Slots : sType[s] \in LiveTypes => sFd[s] \in FDs
      BY <1>0 DEF DescriptorsOK, FdOwned
    <2>3. request[p].type \in {"L", "ACCEPT"} => \A s \in Slots : sType[s] \in LiveTypes => sFd[s] # request[p].fd
      BY <1>0 DEF DescriptorsOK, Disjoint, OwnsFd, Requested
    <2>4. \A s \in Slots : sType[s] \in LiveTypes => fdState'[sFd[s]] = fdState[sFd[s]]
      BY <1>5, <2>2, <2>3 DEF ReserveFull
    <2> QED BY <1>1, <2>1, <2>4 DEF Undisturbed
  <1> QED BY <1>1, <1>2, <1>3, <1>4, <1>5 DEF Reserve

\* Neither does a call: the descriptor it opens was free, the one it binds is
\* its own.
LEMMA CallDisturbs ==
  ASSUME DescriptorInv, NEW t \in Threads, Call(t) \/ SendRequest(t)
  PROVE  /\ \A s \in Slots : sType[s] \in LiveTypes => Undisturbed(s)
         /\ UNCHANGED <<sType, batch, result, listener, epoll>>
  <1>0. /\ fdState \in [FDs -> FdStates] /\ DescriptorsOK
    BY DEF DescriptorInv, DescriptorsOK, ClaimedInv, ReservationInv, TypeInv, TypeOK, KernelTypeOK
  <1>1. UNCHANGED <<sType, sId, sFd, batch, result, listener, epoll>>
    BY DEF Call, ServerListen, ServerBind, ServerConnect, ServerCommand, ServerSend, SendRequest,
       slotVars, pollVars, kernelVars
  <1>2. \A s \in Slots : sType[s] \in LiveTypes => sFd[s] \in FDs /\ fdState[sFd[s]] # "free"
    BY <1>0 DEF DescriptorsOK, FdOwned
  <1>3. \A f \in FDs : fdState[f] # "free" => fdState'[f] = fdState[f]
    BY <1>0 DEF Call, ServerListen, ServerBind, ServerConnect, ServerCommand, ServerSend, SendRequest, kernelVars
  <1> QED BY <1>1, <1>2, <1>3 DEF Undisturbed

\* A connection that is established or refused was in progress.
LEMMA KernelDisturbs ==
  ASSUME DescriptorInv, NEW f \in FDs, Connected(f)
  PROVE  /\ \A s \in Slots : sType[s] \in LiveTypes => Undisturbed(s)
         /\ UNCHANGED <<sType, sId, batch, result, listener, epoll, pc>>
  <1>0. fdState \in [FDs -> FdStates] /\ DescriptorsOK
    BY DEF DescriptorInv, DescriptorsOK, ClaimedInv, ReservationInv, TypeInv, TypeOK, KernelTypeOK
  <1>1. UNCHANGED <<sType, sId, sFd, batch, result, listener, epoll, pc>>
    BY DEF Connected, slotVars, pollVars
  <1>2. \A s \in Slots : sType[s] \in LiveTypes => sFd[s] \in FDs
    BY <1>0 DEF DescriptorsOK, FdOwned
  <1>3. \A g \in FDs : fdState[g] # "connecting" => fdState'[g] = fdState[g]
    BY <1>0 DEF Connected
  <1> QED BY <1>1, <1>2, <1>3 DEF Undisturbed

\* A thread moves only while the poll thread is outside poll.
LEMMA ThreadsTurn ==
  ASSUME Serial, TypeInv, Turns, NEW t \in Threads, Call(t) \/ AppStep(t)
  PROVE  pc[Poller] = "idle" /\ pc'[Poller] = "idle"
  <1>0. pc \in [Procs -> Labels] /\ t # Poller /\ t \in Procs
    BY ThreadAssumption DEF TypeInv, TypeOK, CallTypeOK, Procs
  <1>1. pc'[Poller] = pc[Poller]
    <2>1. PICK label : Goto(t, label)
      <3>1. CASE Call(t)
        BY <3>1 DEF Call, ServerListen, ServerBind, ServerConnect, ServerCommand, ServerSend, StartReserve
      <3>2. CASE ReserveLook(t)
        BY <3>2 DEF ReserveLook
      <3>3. CASE ReserveCas(t)
        BY <3>3 DEF ReserveCas
      <3>4. CASE ReserveAdd(t) \/ ReserveMask(t) \/ ReserveSetId(t) \/ ReserveSetFd(t) \/ ReserveFull(t) \/ SendRequest(t)
        BY <3>4 DEF ReserveAdd, ReserveMask, ReserveSetId, ReserveSetFd, ReserveFull, SendRequest
      <3> QED BY <3>1, <3>2, <3>3, <3>4 DEF AppStep, Reserve
    <2> QED BY <1>0, <2>1 DEF Goto
  <1>2. CASE Call(t)
    BY <1>1, <1>2 DEF Call, ServerListen, ServerBind, ServerConnect, ServerCommand, ServerSend, MayCall, Serial
  <1>3. CASE AppStep(t)
    <2>1. pc[t] # "idle"
      BY <1>3 DEF AppStep, Reserve, ReserveFull, ReserveAdd, ReserveMask, ReserveLook, ReserveCas, ReserveSetId,
         ReserveSetFd, SendRequest
    <2> QED BY <1>1, <2>1 DEF Turns
  <1> QED BY <1>2, <1>3

\* A step of a call keeps the sockets and their events.
LEMMA SerialThread ==
  ASSUME Serial, SerialInv, NEW t \in Threads, Call(t) \/ AppStep(t)
  PROVE  Turns' /\ ListenerLive' /\ SocketsOK' /\ MessageIsLive'
  <1>0. TypeInv /\ t \in Procs /\ Turns /\ SocketsOK /\ DescriptorInv
    BY DEF SerialInv, DescriptorInv, ClaimedInv, ReservationInv, Procs
  <1>1. pc[Poller] = "idle" /\ pc'[Poller] = "idle"
    BY <1>0, ThreadsTurn
  <1>2. Turns' /\ ListenerLive' /\ MessageIsLive'
    BY <1>1 DEF Turns, ListenerLive, MessageIsLive, Returning, Reserving
  <1>3. /\ \A s \in Slots : sType[s] \in LiveTypes => Undisturbed(s)
        /\ \A s \in Slots : sType'[s] \in LiveTypes => sType'[s] = sType[s]
        /\ UNCHANGED batch
    BY <1>0, ReserveDisturbs, CallDisturbs DEF AppStep
  <1>4. PolledTypes \subseteq LiveTypes
    BY DEF PolledTypes
  <1>5. \A s \in Slots : sType[s] \in PolledTypes => Undisturbed(s)
    BY <1>3, <1>4
  <1>6. \A s \in Slots : sType'[s] \in PolledTypes => sType[s] \in PolledTypes /\ Undisturbed(s)
    BY <1>3, <1>4
  <1>7. SocketsOK'
    BY <1>0, <1>1, <1>3, <1>5, <1>6, SameBatch, SocketsKept
  <1> QED BY <1>2, <1>7

\* So does a step of reserve_id in report_accept.
LEMMA SerialReserve ==
  ASSUME Serial, SerialInv, Reserve(Poller) \/ ReserveFull(Poller)
  PROVE  Turns' /\ ListenerLive' /\ SocketsOK' /\ MessageIsLive'
  <1>0. /\ TypeInv /\ Poller \in Procs /\ Turns /\ SocketsOK /\ DescriptorInv
        /\ pc \in [Procs -> Labels] /\ ListenerOK
    BY DEF SerialInv, DescriptorInv, ClaimedInv, ReservationInv, Procs, TypeInv, TypeOK, CallTypeOK
  <1>1. pc[Poller] \in Reserving
    BY DEF Reserve, ReserveFull, ReserveAdd, ReserveMask, ReserveLook, ReserveCas, ReserveSetId,
       ReserveSetFd, Reserving
  <1>2. pc'[Poller] \notin {"clear", "return"} /\ \A q \in Procs : q # Poller => pc'[q] = pc[q]
    BY <1>0 DEF Reserve, ReserveFull, ReserveAdd, ReserveMask, ReserveLook, ReserveCas, ReserveSetId,
       ReserveSetFd, Goto
  <1>3. Turns' /\ MessageIsLive'
    <2>1. \A t \in Threads : t \in Procs /\ t # Poller
      BY ThreadAssumption DEF Procs
    <2> QED BY <1>0, <1>1, <1>2, <2>1 DEF Turns, Reserving, MessageIsLive, Returning
  <1>4. /\ \A s \in Slots : sType[s] \in LiveTypes => Undisturbed(s)
        /\ \A s \in Slots : sType'[s] \in LiveTypes => sType'[s] = sType[s]
        /\ UNCHANGED <<batch, listener>>
    BY <1>0, ReserveDisturbs
  <1>5. ListenerLive'
    <2>1. listener \in Slots /\ sType[listener] = "LISTEN"
      BY <1>0, <1>1 DEF ListenerOK, SerialInv, ListenerLive
    <2>2. sType'[listener] = "LISTEN"
      BY <1>4, <2>1 DEF Undisturbed, LiveTypes, SocketTypes
    <2> QED BY <1>4, <2>2 DEF ListenerLive
  <1>6. PolledTypes \subseteq LiveTypes
    BY DEF PolledTypes
  <1>7. \A s \in Slots : sType[s] \in PolledTypes => Undisturbed(s)
    BY <1>4, <1>6
  <1>8. \A s \in Slots : sType'[s] \in PolledTypes => sType[s] \in PolledTypes /\ Undisturbed(s)
    BY <1>4, <1>6
  <1>9. pc[Poller] # "clear"
    BY <1>1 DEF Reserving
  <1>10. SocketsOK'
    BY <1>0, <1>4, <1>7, <1>8, <1>9, SameBatch, SocketsKept
  <1> QED BY <1>3, <1>5, <1>10

\* And the kernel.
LEMMA SerialKernel ==
  ASSUME SerialInv, NEW f \in FDs, Connected(f)
  PROVE  Turns' /\ ListenerLive' /\ SocketsOK' /\ MessageIsLive'
  <1>0. TypeInv /\ SocketsOK /\ DescriptorInv /\ Turns /\ ListenerLive /\ MessageIsLive
    BY DEF SerialInv, DescriptorInv, ClaimedInv, ReservationInv
  <1>1. /\ \A s \in Slots : sType[s] \in LiveTypes => Undisturbed(s)
        /\ UNCHANGED <<sType, sId, batch, result, listener, pc>>
    BY <1>0, KernelDisturbs
  <1>2. Turns' /\ ListenerLive' /\ MessageIsLive'
    BY <1>0, <1>1 DEF Turns, ListenerLive, MessageIsLive, Returning, LiveId
  <1>3. \A s \in Slots : sType[s] \in PolledTypes => Undisturbed(s)
    BY <1>1 DEF PolledTypes
  <1>4. CASE pc[Poller] # "clear"
    BY <1>0, <1>1, <1>2, <1>3, <1>4, SameBatch, SocketsKept
  <1>5. CASE pc[Poller] = "clear"
    <2>1. EventsOK'
      <3>1. SUFFICES ASSUME NEW k \in 1 .. Len(batch), batch[k].slot # NoSlot
                     PROVE  \/ /\ sType'[batch[k].slot] \in PolledTypes /\ sId'[batch[k].slot] = batch[k].of
                               /\ sType'[batch[k].slot] = "CONNECTING" => fdState'[sFd'[batch[k].slot]] # "connecting"
                            \/ pc'[Poller] = "clear" /\ sType'[batch[k].slot] = "INVALID" /\ sId'[batch[k].slot] = result'.id
        BY <1>1 DEF EventsOK
      <3>2. batch[k] \in Events
        BY <1>0 DEF TypeInv, TypeOK, PollTypeOK
      <3>3. batch[k].slot \in Slots
        BY <3>1, <3>2 DEF Events
      <3>4. sType[batch[k].slot] \in PolledTypes => Undisturbed(batch[k].slot)
        BY <1>3, <3>3
      <3> QED BY <1>0, <1>1, <3>1, <3>4 DEF SocketsOK, EventsOK, Undisturbed
    <2>2. OneEvent'
      BY <1>0, <1>1 DEF SocketsOK, OneEvent
    <2>3. ConnectedOK' /\ EpollPointsHome'
      <3>1. "CONNECTED" \in PolledTypes
        BY DEF PolledTypes, LiveTypes, SocketTypes
      <3> QED BY <1>0, <1>1, <1>3, <3>1 DEF SocketsOK, ConnectedOK, EpollPointsHome, Undisturbed
    <2> QED BY <1>2, <2>1, <2>2, <2>3 DEF SocketsOK
  <1> QED BY <1>2, <1>4, <1>5

\* A slot without a descriptor in epoll is filled or given up; the descriptor f
\* it gets, if any, is no polled slot's.
LEMMA OpenDisturbs ==
  ASSUME TypeInv, SocketsOK, FdOwned, NEW h \in Slots, sType[h] \notin PolledTypes,
         \A s \in Slots : s # h => sType'[s] = sType[s] /\ sId'[s] = sId[s] /\ sFd'[s] = sFd[s],
         NEW f \in FDs, \A s \in Slots : s # h /\ sType[s] \in PolledTypes => sFd[s] # f,
         \A g \in FDs : g # f => epoll'[g] = epoll[g] /\ fdState'[g] = fdState[g],
         sType'[h] \in PolledTypes => Placed(h)
  PROVE  /\ \A s \in Slots : sType[s] \in PolledTypes => Undisturbed(s)
         /\ \A s \in Slots : sType'[s] \in PolledTypes => (sType[s] \in PolledTypes /\ Undisturbed(s)) \/ Placed(s)
  <1>1. \A s \in Slots : sType[s] \in PolledTypes => sFd[s] \in FDs
    BY DEF FdOwned, PolledTypes
  <1>2. \A s \in Slots : sType[s] \in PolledTypes => Undisturbed(s)
    BY <1>1 DEF Undisturbed
  <1> QED BY <1>2

\* A live slot is closed: the others keep their descriptors.
LEMMA CloseDisturbs ==
  ASSUME TypeInv, SocketsOK, FdOwned, NEW h \in Slots, sType[h] \in LiveTypes,
         ForceClose(h), UNCHANGED <<sId, sFd>>
  PROVE  /\ \A s \in Slots : s # h /\ sType[s] \in PolledTypes => Undisturbed(s)
         /\ sType'[h] = "INVALID"
         /\ \A s \in Slots : sType'[s] \in PolledTypes => sType[s] \in PolledTypes /\ Undisturbed(s)
  <1>0. sType \in [Slots -> SocketTypes]
    BY DEF TypeInv, TypeOK, SlotTypeOK
  <1>1. /\ sType'[h] = "INVALID" /\ \A s \in Slots : s # h => sType'[s] = sType[s]
        /\ \A g \in FDs : g # sFd[h] => epoll'[g] = epoll[g] /\ fdState'[g] = fdState[g]
    BY <1>0 DEF ForceClose
  <1>2. \A s \in Slots : s # h /\ sType[s] \in PolledTypes => sFd[s] \in FDs /\ sFd[s] # sFd[h]
    BY DEF FdOwned, PolledTypes
  <1>3. \A s \in Slots : s # h /\ sType[s] \in PolledTypes => Undisturbed(s)
    BY <1>1, <1>2 DEF Undisturbed
  <1>4. "INVALID" \notin PolledTypes
    BY DEF PolledTypes, LiveTypes
  <1> QED BY <1>1, <1>3, <1>4

\* Registering a live slot's descriptor again changes nothing an event sees.
LEMMA WriteDisturbs ==
  ASSUME TypeInv, SocketsOK, FdOwned, NEW h \in Slots, sType[h] \in LiveTypes, NEW b,
         EpollWrite(sFd[h], h, b), UNCHANGED <<sId, sFd, fdState>>,
         \A s \in Slots : s # h => sType'[s] = sType[s]
  PROVE  /\ \A s \in Slots : s # h /\ sType[s] \in PolledTypes => Undisturbed(s)
         /\ sType[h] \in PolledTypes => epoll'[sFd[h]] = h
  <1>0. epoll \in [FDs -> Slots \cup {NoSlot}] /\ NoSlot \notin Slots
    BY DEF TypeInv, TypeOK, KernelTypeOK, NoSlot, Slots
  <1>1. \A g \in FDs : g # sFd[h] => epoll'[g] = epoll[g]
    BY <1>0 DEF EpollWrite
  <1>2. \A s \in Slots : s # h /\ sType[s] \in PolledTypes => sFd[s] \in FDs /\ sFd[s] # sFd[h]
    BY DEF FdOwned, PolledTypes
  <1>3. \A s \in Slots : s # h /\ sType[s] \in PolledTypes => Undisturbed(s)
    BY <1>1, <1>2 DEF Undisturbed
  <1>4. sType[h] \in PolledTypes => sFd[h] \in FDs /\ epoll[sFd[h]] = h
    BY DEF FdOwned, PolledTypes, SocketsOK, EpollPointsHome
  <1>5. sType[h] \in PolledTypes => epoll'[sFd[h]] = h
    BY <1>0, <1>4 DEF EpollWrite
  <1> QED BY <1>3, <1>5

\* A command opens, starts or closes the socket of its id, in its own slot.
LEMMA SocketsCommand ==
  ASSUME SerialInv, CtrlCmd
  PROVE  SocketsOK'
  <1> DEFINE h == HASH_ID(Cmd.id)
  <1>0. /\ sType \in [Slots -> SocketTypes] /\ sFd \in [Slots -> FDs \cup {NoFd}] /\ sId \in [Slots -> Ids]
        /\ fdState \in [FDs -> FdStates] /\ epoll \in [FDs -> Slots \cup {NoSlot}]
        /\ TypeInv /\ DescriptorsOK /\ SocketsOK /\ FdOwned /\ NoSlot \notin Slots
    BY DEF SerialInv, DescriptorInv, DescriptorsOK, ClaimedInv, ReservationInv, TypeInv, TypeOK, SlotTypeOK,
       KernelTypeOK, NoSlot, Slots
  <1>01. TypeInv /\ SocketsOK /\ FdOwned
    BY <1>0
  <1>1. pipe # <<>> /\ pc[Poller] = "loop"
    BY DEF CtrlCmd, Command,
       CmdListen, CmdBind, CmdOpenUnresolved, CmdOpenExhausted, CmdOpen, CmdStartPending,
       CmdStartOther, CmdClose, CmdSend, CmdExit
  <1>2. UNCHANGED batch
    BY DEF CtrlCmd, Abort, pollVars,
       CmdListen, CmdBind, CmdOpenUnresolved, CmdOpenExhausted, CmdOpen, CmdStartPending,
       CmdStartOther, CmdClose, CmdSend, CmdExit
  <1>3. h \in Slots /\ Cmd = pipe[1] /\ 1 \in 1 .. Len(pipe)
    BY <1>0, <1>1, CmdType DEF TypeInv, TypeOK, PipeTypeOK, Cmd
  <1>4. Cmd.type \in OpenCommands => sType[h] = "RESERVE"
    BY <1>3 DEF SerialInv, DescriptorInv, ClaimedInv, ReservationInv, ReservationOwned, ClaimIsReserved, Carries, CarriedSlot
  <1>5. SUFFICES /\ \A s \in Slots : sType[s] \in PolledTypes => Undisturbed(s) \/ Gone(s)
                 /\ \A s \in Slots : sType'[s] \in PolledTypes => (sType[s] \in PolledTypes /\ Undisturbed(s)) \/ Placed(s)
    BY <1>0, <1>1, <1>2, SameBatch, SocketsKept
  <1>6. CASE UNCHANGED <<sType, sId, sFd, fdState, epoll>>
    BY <1>6 DEF Undisturbed
  <1>7. CASE CmdListen \/ CmdBind \/ CmdOpenUnresolved \/ CmdOpen
    <2>1. sType[h] = "RESERVE" /\ ~NewSocketFails /\ "RESERVE" \notin PolledTypes /\ "INVALID" \notin PolledTypes
      BY <1>4, <1>7 DEF Command, OpenCommands, NewSocketFails, CmdListen, CmdBind, CmdOpenUnresolved, CmdOpen,
         PolledTypes, LiveTypes
    <2>2. \A s \in Slots : s # h => sType'[s] = sType[s] /\ sId'[s] = sId[s] /\ sFd'[s] = sFd[s]
      <3>1. CASE CmdListen
        BY <1>0, <2>1, <3>1 DEF CmdListen, NewSocket
      <3>2. CASE CmdBind
        BY <1>0, <2>1, <3>2 DEF CmdBind, NewSocket
      <3>3. CASE CmdOpenUnresolved
        BY <1>0, <2>1, <3>3 DEF CmdOpenUnresolved
      <3>4. CASE CmdOpen
        BY <1>0, <2>1, <3>4 DEF CmdOpen, NewSocket, Abort, slotVars
      <3> QED BY <1>7, <3>1, <3>2, <3>3, <3>4
    <2>3. CASE CmdListen
      <3>1. UNCHANGED <<fdState, epoll>> /\ sType'[h] \notin PolledTypes
        BY <1>0, <1>3, <2>1, <2>3 DEF CmdListen, NewSocket, kernelVars, PolledTypes
      <3> QED BY <1>0, <1>3, <2>1, <2>2, <3>1 DEF Undisturbed
    <2>4. CASE CmdOpenUnresolved
      <3>1. UNCHANGED <<fdState, epoll>> /\ sType'[h] \notin PolledTypes
        BY <1>0, <1>3, <2>1, <2>4 DEF CmdOpenUnresolved, kernelVars
      <3> QED BY <1>0, <1>3, <2>1, <2>2, <3>1 DEF Undisturbed
    <2>5. CASE CmdBind
      <3>1. Cmd.type = "B" /\ UNCHANGED fdState
        BY <2>1, <2>5 DEF CmdBind, Command
      <3>2. Cmd \in Requested
        BY <1>3 DEF Requested
      <3>3. Cmd.fd \in FDs /\ fdState[Cmd.fd] = "user"
        BY <1>0, <3>1, <3>2 DEF DescriptorsOK, RequestFdOK, HasFd, FdStateFor
      <3>4. CASE sType' = [sType EXCEPT ![h] = "INVALID"] /\ UNCHANGED epoll
        <4>1. sType'[h] \notin PolledTypes
          BY <1>0, <1>3, <2>1, <3>4
        <4> QED BY <1>0, <1>3, <2>1, <2>2, <3>1, <3>4, <4>1 DEF Undisturbed
      <3>5. CASE TRUE \in AddOutcomes(Cmd.fd) /\ NewSocket(Cmd.fd, "BIND") /\ epoll' = [epoll EXCEPT ![Cmd.fd] = h]
        <4>1. epoll[Cmd.fd] = NoSlot
          BY <3>5 DEF AddOutcomes
        <4>2. \A s \in Slots : s # h /\ sType[s] \in PolledTypes => sFd[s] # Cmd.fd
          BY <1>0, <4>1 DEF SocketsOK, EpollPointsHome
        <4>3. Placed(h)
          BY <1>0, <1>3, <3>3, <3>5 DEF NewSocket, Placed
        <4>4. \A g \in FDs : g # Cmd.fd => epoll'[g] = epoll[g] /\ fdState'[g] = fdState[g]
          BY <1>0, <3>1, <3>5
        <4>5. sType[h] \notin PolledTypes
          BY <2>1
        <4> QED BY <1>01, <1>3, <2>2, <3>3, <4>2, <4>3, <4>4, <4>5, OpenDisturbs
      <3> QED BY <2>1, <2>5, <3>4, <3>5 DEF CmdBind
    <2>6. CASE CmdOpen /\ ~ UNCHANGED <<sType, sId, sFd, fdState, epoll>>
      <3>1. PICK f \in FDs :
              /\ fdState[f] = "free" /\ epoll' = [epoll EXCEPT ![f] = h]
              /\ \/ NewSocket(f, "CONNECTED") /\ fdState' = [fdState EXCEPT ![f] = "conn"]
                 \/ NewSocket(f, "CONNECTING") /\ fdState' = [fdState EXCEPT ![f] = "connecting"]
        BY <2>1, <2>6 DEF CmdOpen, Abort, slotVars, kernelVars
      <3>2. \A s \in Slots : s # h /\ sType[s] \in PolledTypes => sFd[s] # f
        BY <1>0, <3>1 DEF FdOwned, PolledTypes
      <3>3. Placed(h)
        BY <1>0, <1>3, <3>1 DEF NewSocket, Placed
      <3>4. \A g \in FDs : g # f => epoll'[g] = epoll[g] /\ fdState'[g] = fdState[g]
        BY <1>0, <3>1
      <3>5. sType[h] \notin PolledTypes
        BY <2>1
      <3> QED BY <1>01, <1>3, <2>2, <3>1, <3>2, <3>3, <3>4, <3>5, OpenDisturbs
    <2> QED BY <1>6, <1>7, <2>3, <2>4, <2>5, <2>6
  <1>8. CASE CmdStartPending
    <2>1. /\ sType[h] \in {"PACCEPT", "PLISTEN"} /\ UNCHANGED <<sId, sFd, fdState>>
          /\ \/ /\ sType' = [sType EXCEPT ![h] = IF @ = "PACCEPT" THEN "CONNECTED" ELSE "LISTEN"]
                /\ epoll' = [epoll EXCEPT ![sFd[h]] = h]
             \/ sType' = [sType EXCEPT ![h] = "INVALID"] /\ UNCHANGED epoll
      BY <1>8 DEF CmdStartPending
    <2>2. /\ sType[h] \notin PolledTypes /\ sType[h] \in LiveTypes
          /\ \A s \in Slots : s # h => sType'[s] = sType[s]
          /\ "INVALID" \notin PolledTypes
      BY <1>0, <2>1 DEF PolledTypes, LiveTypes, SocketTypes
    <2>3. CASE sType' = [sType EXCEPT ![h] = "INVALID"] /\ UNCHANGED epoll
      <3>1. sType'[h] \notin PolledTypes
        BY <1>0, <1>3, <2>2, <2>3
      <3> QED BY <1>0, <1>3, <2>1, <2>2, <2>3, <3>1 DEF Undisturbed
    <2>4. CASE /\ sType' = [sType EXCEPT ![h] = IF @ = "PACCEPT" THEN "CONNECTED" ELSE "LISTEN"]
               /\ epoll' = [epoll EXCEPT ![sFd[h]] = h]
      <3>1. sFd[h] \in FDs
        BY <1>0, <1>3, <2>2 DEF FdOwned
      <3>2. sType'[h] = "CONNECTED" => fdState[sFd[h]] = "conn"
        BY <1>0, <1>3, <2>1, <2>2, <2>4 DEF DescriptorsOK, SlotFdOK, FdStateFor
      <3>3. Placed(h)
        BY <1>0, <2>1, <2>4, <3>1, <3>2 DEF Placed
      <3>4. \A s \in Slots : s # h /\ sType[s] \in PolledTypes => sFd[s] # sFd[h]
        BY <1>0, <1>3, <2>2 DEF FdOwned, PolledTypes
      <3>5. \A g \in FDs : g # sFd[h] => epoll'[g] = epoll[g] /\ fdState'[g] = fdState[g]
        BY <1>0, <2>1, <2>4
      <3>6. \A s \in Slots : s # h => sType'[s] = sType[s] /\ sId'[s] = sId[s] /\ sFd'[s] = sFd[s]
        BY <2>1, <2>2
      <3>7. sType[h] \notin PolledTypes
        BY <2>2
      <3> QED BY <1>01, <1>3, <3>1, <3>3, <3>4, <3>5, <3>6, <3>7, OpenDisturbs
    <2> QED BY <2>1, <2>3, <2>4
  <1>9. CASE (CmdClose \/ CmdSend) /\ ~ UNCHANGED <<sType, sId, sFd, fdState, epoll>>
    <2>1. /\ UNCHANGED <<sId, sFd>> /\ sType[h] \in LiveTypes
          /\ \/ ForceClose(h) /\ sId[h] = Cmd.id /\ Answer(Result("CLOSE", Cmd.id))
             \/ EpollWrite(sFd[h], h, TRUE) /\ UNCHANGED <<sType, fdState>>
      BY <1>0, <1>3, <1>9 DEF CmdClose, CmdSend, Abort, slotVars, kernelVars, Stale, LiveTypes, SocketTypes
    <2>2. CASE ForceClose(h) /\ sId[h] = Cmd.id /\ Answer(Result("CLOSE", Cmd.id))
      <3>1. pc'[Poller] = "clear" /\ result'.id = Cmd.id
        BY <1>0, <2>2 DEF Answer, Result, Goto, TypeInv, TypeOK, CallTypeOK, Procs
      <3>2. sType'[h] = "INVALID" /\ \A s \in Slots : s # h /\ sType[s] \in PolledTypes => Undisturbed(s)
        BY <1>0, <1>3, <2>1, <2>2, CloseDisturbs
      <3>3. Gone(h)
        BY <2>1, <2>2, <3>1, <3>2 DEF Gone
      <3>4. \A s \in Slots : sType'[s] \in PolledTypes => sType[s] \in PolledTypes /\ Undisturbed(s)
        BY <1>0, <1>3, <2>1, <2>2, CloseDisturbs
      <3> QED BY <3>2, <3>3, <3>4
    <2>3. CASE EpollWrite(sFd[h], h, TRUE) /\ UNCHANGED <<sType, fdState>>
      <3>1. /\ \A s \in Slots : s # h /\ sType[s] \in PolledTypes => Undisturbed(s)
            /\ sType[h] \in PolledTypes => epoll'[sFd[h]] = h
        BY <1>0, <1>3, <2>1, <2>3, WriteDisturbs
      <3>2. sType[h] \in PolledTypes => Undisturbed(h)
        BY <1>0, <1>3, <2>1, <2>3, <3>1 DEF Undisturbed, SocketsOK, EpollPointsHome
      <3> QED BY <2>3, <3>1, <3>2
    <2> QED BY <2>1, <2>2, <2>3
  <1> QED BY <1>6, <1>7, <1>8, <1>9 DEF CtrlCmd, CmdOpenExhausted, CmdStartOther, CmdExit, Abort,
     slotVars, kernelVars

\* A command answered with OPEN leaves a live socket with its id.
LEMMA MessageCommand ==
  ASSUME SerialInv, CtrlCmd
  PROVE  MessageIsLive'
  <1> DEFINE h == HASH_ID(Cmd.id)
  <1>0. /\ sType \in [Slots -> SocketTypes] /\ sId \in [Slots -> Ids] /\ TypeInv
    BY DEF SerialInv, DescriptorInv, ClaimedInv, ReservationInv, TypeInv, TypeOK, SlotTypeOK
  <1>1. pipe # <<>> /\ pc[Poller] = "loop"
    BY DEF CtrlCmd, Command,
       CmdListen, CmdBind, CmdOpenUnresolved, CmdOpenExhausted, CmdOpen, CmdStartPending,
       CmdStartOther, CmdClose, CmdSend, CmdExit
  <1>2. h \in Slots
    BY <1>0, <1>1, CmdType
  <1>3. SUFFICES ASSUME pc'[Poller] # "loop", result'.type \in {"DATA", "OPEN", "ACCEPT"}
                 PROVE  result'.type = "OPEN" /\ LiveId(result.id)'
    BY DEF MessageIsLive, Returning
  <1>4. \A ty : Result(ty, Cmd.id).type = ty /\ Result(ty, Cmd.id).id = Cmd.id /\ Result(ty, 0).type = ty
    BY DEF Result
  <1>5. result' = Result("OPEN", Cmd.id) /\ sType'[h] \in LiveTypes /\ sId'[h] = Cmd.id
    <2>1. CASE CmdListen
      BY <1>1, <1>3, <2>1 DEF CmdListen, Abort, Continue
    <2>2. CASE CmdBind
      BY <1>0, <1>1, <1>2, <1>3, <1>4, <2>2 DEF CmdBind, Abort, Answer, NewSocket, LiveTypes, SocketTypes
    <2>3. CASE CmdOpenUnresolved
      BY <1>3, <1>4, <2>3 DEF CmdOpenUnresolved, Answer
    <2>4. CASE CmdOpenExhausted
      BY <1>1, <1>3, <2>4 DEF CmdOpenExhausted, Abort
    <2>5. CASE CmdOpen
      BY <1>0, <1>1, <1>2, <1>3, <1>4, <2>5 DEF CmdOpen, Abort, Answer, Continue, NewSocket, LiveTypes, SocketTypes
    <2>6. CASE CmdStartPending
      BY <1>0, <1>2, <1>3, <1>4, <2>6 DEF CmdStartPending, Answer, Stale, LiveTypes, SocketTypes
    <2>7. CASE CmdStartOther
      BY <1>1, <1>2, <1>3, <1>4, <2>7 DEF CmdStartOther, Answer, Continue, Stale, slotVars, LiveTypes, SocketTypes
    <2>8. CASE CmdClose
      BY <1>1, <1>3, <1>4, <2>8 DEF CmdClose, Abort, Answer
    <2>9. CASE CmdSend
      BY <1>1, <1>3, <1>4, <2>9 DEF CmdSend, Abort, Answer, Continue
    <2>10. CASE CmdExit
      BY <1>3, <1>4, <2>10 DEF CmdExit, Answer
    <2> QED BY <2>1, <2>2, <2>3, <2>4, <2>5, <2>6, <2>7, <2>8, <2>9, <2>10 DEF CtrlCmd
  <1> QED BY <1>4, <1>5 DEF LiveId

\* poll is entered between two calls, and report_accept accepts for a live socket.
LEMMA SerialPoll ==
  ASSUME Serial, SerialInv, Poll \/ WaitInterrupted
  PROVE  Turns' /\ ListenerLive'
  <1>0. /\ pc \in [Procs -> Labels] /\ Poller \in Procs /\ Turns /\ ListenerLive /\ TypeInv
        /\ \A t \in Threads : t \in Procs /\ t # Poller
    BY ThreadAssumption
    DEF SerialInv, DescriptorInv, ClaimedInv, ReservationInv, TypeInv, TypeOK, CallTypeOK, Procs
  <1>1. \A t \in Threads : pc'[t] = pc[t]
    BY <1>0, PollMoves
  <1>2. pc[Poller] = "idle" => \A t \in Threads : pc[t] = "idle"
    BY DEF Poll, WaitInterrupted, AtWait, PollEnter, NoCommand, CtrlCmd, Command, Wait, HandleEvent, EventDrop,
       EventConnect, EventAccept, EventRead, EventWrite, Event, AcceptFill, ClearClosedEvent, Return, Serial,
       CmdListen, CmdBind, CmdOpenUnresolved, CmdOpenExhausted, CmdOpen, CmdStartPending,
       CmdStartOther, CmdClose, CmdSend, CmdExit
  <1>3. Turns'
    BY <1>0, <1>1, <1>2 DEF Turns
  <1>4. CASE CtrlCmd
    <2>1. pc[Poller] = "loop"
      BY <1>4 DEF CtrlCmd, Command,
         CmdListen, CmdBind, CmdOpenUnresolved, CmdOpenExhausted, CmdOpen, CmdStartPending,
         CmdStartOther, CmdClose, CmdSend, CmdExit
    <2>2. UNCHANGED pc \/ Goto(Poller, "clear") \/ Goto(Poller, "return")
      BY <1>4 DEF CtrlCmd, Abort, Answer, Continue,
         CmdListen, CmdBind, CmdOpenUnresolved, CmdOpenExhausted, CmdOpen, CmdStartPending,
         CmdStartOther, CmdClose, CmdSend, CmdExit
    <2> QED BY <1>0, <1>3, <2>1, <2>2 DEF Goto, ListenerLive, Reserving
  <1>5. CASE EventAccept
    <2>1. sType[Ev.slot] = "LISTEN" /\ UNCHANGED sType
      BY <1>5 DEF EventAccept, Event, slotVars
    <2>2. Goto(Poller, "loop") \/ listener' = Ev.slot
      BY <1>5 DEF EventAccept, Loop
    <2> QED BY <1>0, <1>3, <2>1, <2>2 DEF Goto, ListenerLive, Reserving
  <1>6. CASE AcceptFill
    <2>1. Goto(Poller, "return") \/ UNCHANGED <<pc, sType, listener>>
      BY <1>6 DEF AcceptFill, Abort, slotVars, pollVars
    <2> QED BY <1>0, <1>3, <2>1 DEF Goto, ListenerLive, Reserving
  <1>7. CASE EventDrop \/ EventConnect \/ EventRead \/ EventWrite
    <2>1. Goto(Poller, "loop") \/ Goto(Poller, "return") \/ Goto(Poller, "clear")
      BY <1>7 DEF EventDrop, EventConnect, EventRead, EventWrite, Loop, Answer
    <2> QED BY <1>0, <1>3, <2>1 DEF Goto, ListenerLive, Reserving
  <1>8. CASE PollEnter \/ NoCommand \/ Wait \/ WaitInterrupted \/ ClearClosedEvent \/ Return
    <2>1. pc'[Poller] \notin Reserving
      BY <1>0, <1>8 DEF PollEnter, NoCommand, Wait, WaitInterrupted, ClearClosedEvent, Return, Goto, Reserving
    <2> QED BY <1>3, <2>1 DEF ListenerLive
  <1> QED BY <1>4, <1>5, <1>6, <1>7, <1>8 DEF Poll, HandleEvent

\* The event at hand of a polled slot, outside clear_closed_event.
LEMMA EventAtHand ==
  ASSUME SerialInv, batch # <<>>, pc[Poller] # "clear", Ev.slot # NoSlot
  PROVE  /\ Ev.slot \in Slots /\ sType[Ev.slot] \in PolledTypes /\ sId[Ev.slot] = Ev.of
         /\ sType[Ev.slot] = "CONNECTING" => fdState[sFd[Ev.slot]] \in {"conn", "failed"}
         /\ HASH_ID(sId[Ev.slot]) = Ev.slot
  <1>1. TypeInv /\ batch \in Seq(Events) /\ 1 \in 1 .. Len(batch) /\ Ev = batch[1]
    BY DEF SerialInv, DescriptorInv, ClaimedInv, ReservationInv, TypeInv, TypeOK, PollTypeOK, Ev
  <1>2. Ev \in Events
    BY <1>1
  <1>3. Ev.slot \in Slots
    BY <1>2 DEF Events
  <1>4. /\ sType[Ev.slot] \in PolledTypes /\ sId[Ev.slot] = Ev.of
        /\ sType[Ev.slot] = "CONNECTING" => fdState[sFd[Ev.slot]] # "connecting"
    BY <1>1 DEF SerialInv, SocketsOK, EventsOK
  <1>5. sType[Ev.slot] = "CONNECTING" => fdState[sFd[Ev.slot]] \in {"connecting", "failed", "conn"}
    BY <1>3 DEF SerialInv, DescriptorInv, SlotFdOK, FdStateFor, LiveTypes, SocketTypes
  <1>6. HASH_ID(sId[Ev.slot]) = Ev.slot
    BY <1>3, <1>4 DEF SerialInv, IdHome, PolledTypes
  <1> QED BY <1>3, <1>4, <1>5, <1>6

\* No read of the descriptor of a pending event fails.
LEMMA ReadSucceeds ==
  ASSUME Serial, SerialInv, batch # <<>>, pc[Poller] # "clear", Ev.slot # NoSlot, sType[Ev.slot] \in DefaultTypes
  PROVE  "error" \notin ReadOutcomes(sFd[Ev.slot]) /\ sType[Ev.slot] \in {"CONNECTED", "BIND"}
  <1> DEFINE f == sFd[Ev.slot]
  <1>1. Ev.slot \in Slots /\ sType[Ev.slot] \in {"CONNECTED", "BIND"}
    BY EventAtHand DEF DefaultTypes, PolledTypes, LiveTypes, SocketTypes
  <1>2. f \in FDs /\ fdState[f] \in {"conn", "user"}
    <2>1. f \in FDs /\ fdState[f] \in FdStateFor(sType[Ev.slot])
      BY <1>1 DEF SerialInv, DescriptorInv, SlotFdOK, LiveTypes, SocketTypes
    <2>2. sType[Ev.slot] = "CONNECTED" => fdState[f] = "conn"
      BY <1>1 DEF SerialInv, SocketsOK, ConnectedOK
    <2> QED BY <1>1, <2>1, <2>2 DEF FdStateFor
  <1>3. f # NoFd
    BY <1>2, FdAssumption
  <1>4. ReadOutcomes(f) = {"data", "none"}
    BY <1>2, <1>3 DEF ReadOutcomes, Serial
  <1> QED BY <1>1, <1>4

\* epoll_wait reports polled slots, each once.
LEMMA SocketsWait ==
  ASSUME SerialInv, Wait
  PROVE  SocketsOK'
  <1>0. TypeInv /\ SocketsOK /\ FdOwned /\ ConnectedOK /\ EpollPointsHome
    BY DEF SerialInv, DescriptorInv, ClaimedInv, ReservationInv, SocketsOK
  <1>a. PICK n \in 1 .. MAX_EVENT : \E fds \in [1 .. n -> Reportable] :
          /\ \A i, j \in 1 .. n : fds[i] = fds[j] => i = j
          /\ n = MAX_EVENT \/ \A f \in MustReport : \E i \in 1 .. n : fds[i] = f
          /\ \E rw \in [1 .. n -> BOOLEAN \X BOOLEAN] :
               /\ \A i \in 1 .. n : rw[i] \in Flags(fds[i])
               /\ batch' = [i \in 1 .. n |-> EventFor(fds[i], rw[i])]
    BY Zenon DEF Wait
  <1>b. PICK fds \in [1 .. n -> Reportable] :
          /\ \A i, j \in 1 .. n : fds[i] = fds[j] => i = j
          /\ \E rw \in [1 .. n -> BOOLEAN \X BOOLEAN] :
               batch' = [i \in 1 .. n |-> EventFor(fds[i], rw[i])]
    BY <1>a, Zenon
  <1>c. PICK rw \in [1 .. n -> BOOLEAN \X BOOLEAN] : batch' = [i \in 1 .. n |-> EventFor(fds[i], rw[i])]
    BY <1>b, Zenon
  <1>1. /\ \A i, j \in 1 .. n : fds[i] = fds[j] => i = j
        /\ batch' = [i \in 1 .. n |-> EventFor(fds[i], rw[i])]
    BY <1>b, <1>c
  <1>2. UNCHANGED <<sType, sId, sFd, fdState, epoll>>
    BY DEF Wait, slotVars, kernelVars
  <1>3. n \in Nat /\ Len(batch') = n
    BY <1>1, BoundAssumption
  <1>4. ASSUME NEW i \in 1 .. n, batch'[i].slot # NoSlot
        PROVE  /\ fds[i] \in FDs /\ batch'[i].slot \in Slots /\ sType[batch'[i].slot] \in PolledTypes
               /\ sFd[batch'[i].slot] = fds[i] /\ fdState[fds[i]] # "connecting"
               /\ batch'[i].of = sId[batch'[i].slot]
    <2>1. batch'[i] = EventFor(fds[i], rw[i]) /\ fds[i] \in Reportable
      BY <1>1
    <2>2. fds[i] # NoFd
      BY <1>4, <2>1 DEF EventFor
    <2>3. fds[i] \in FDs /\ epoll[fds[i]] # NoSlot /\ fdState[fds[i]] # "connecting"
      BY <2>1, <2>2 DEF Reportable
    <2>4. batch'[i].slot = epoll[fds[i]] /\ batch'[i].of = sId[epoll[fds[i]]]
      BY <2>1, <2>2 DEF EventFor
    <2>5. PICK s \in Slots : sType[s] \in PolledTypes /\ sFd[s] = fds[i]
      BY <1>0, <2>3 DEF FdOwned
    <2>6. epoll[fds[i]] = s
      BY <1>0, <2>5 DEF EpollPointsHome
    <2> QED BY <2>3, <2>4, <2>5, <2>6
  <1>5. OneEvent'
    BY <1>1, <1>3, <1>4 DEF OneEvent
  <1>6. EventsOK'
    BY <1>2, <1>3, <1>4 DEF EventsOK
  <1>7. ConnectedOK' /\ EpollPointsHome'
    BY <1>0, <1>2 DEF ConnectedOK, EpollPointsHome
  <1> QED BY <1>5, <1>6, <1>7 DEF SocketsOK

\* clear_closed_event removes the events of the socket that was closed.
LEMMA SocketsCleared ==
  ASSUME SerialInv, ClearClosedEvent
  PROVE  SocketsOK'
  <1>0. TypeInv /\ SocketsOK /\ pc \in [Procs -> Labels] /\ Poller \in Procs /\ Len(batch) \in Nat /\ batch \in Seq(Events)
    BY DEF SerialInv, DescriptorInv, ClaimedInv, ReservationInv, TypeInv, TypeOK, CallTypeOK, PollTypeOK, Procs
  <1>1. UNCHANGED <<sType, sId, sFd, fdState, epoll, result>> /\ pc'[Poller] = "return"
    BY <1>0 DEF ClearClosedEvent, slotVars, kernelVars, Goto
  <1>2. batch' = [i \in 1 .. Len(batch) |->
          IF Cleared(batch[i]) THEN [batch[i] EXCEPT !.slot = NoSlot] ELSE batch[i]]
    BY DEF ClearClosedEvent
  <1>3. Len(batch') = Len(batch)
    BY <1>0, <1>2
  <1>4. ASSUME NEW i \in 1 .. Len(batch), batch'[i].slot # NoSlot
        PROVE  batch'[i] = batch[i] /\ ~Cleared(batch[i])
    <2>1. batch[i] \in Events
      BY <1>0
    <2>2. [batch[i] EXCEPT !.slot = NoSlot].slot = NoSlot
      BY <2>1 DEF Events
    <2> QED BY <1>2, <1>4, <2>2
  <1>5. OneEvent'
    BY <1>0, <1>3, <1>4 DEF SocketsOK, OneEvent
  <1>6. EventsOK'
    BY <1>0, <1>1, <1>3, <1>4 DEF SocketsOK, EventsOK, Cleared
  <1>7. ConnectedOK' /\ EpollPointsHome'
    BY <1>0, <1>1 DEF SocketsOK, ConnectedOK, EpollPointsHome
  <1> QED BY <1>5, <1>6, <1>7 DEF SocketsOK

\* An event closes or registers the slot it is about, or leaves it alone.
LEMMA SocketsEvent ==
  ASSUME Serial, SerialInv,
         PollEnter \/ NoCommand \/ WaitInterrupted \/ HandleEvent \/ AcceptFill \/ Return
  PROVE  SocketsOK'
  <1>0. /\ sType \in [Slots -> SocketTypes] /\ sFd \in [Slots -> FDs \cup {NoFd}] /\ sId \in [Slots -> Ids]
        /\ fdState \in [FDs -> FdStates] /\ epoll \in [FDs -> Slots \cup {NoSlot}]
        /\ DescriptorInv
    BY DEF SerialInv, DescriptorInv, ClaimedInv, ReservationInv, TypeInv, TypeOK, SlotTypeOK, KernelTypeOK
  <1>01. TypeInv /\ SocketsOK /\ FdOwned
    BY DEF SerialInv, DescriptorInv, ClaimedInv, ReservationInv
  <1>02. pc[Poller] # "clear"
    BY DEF PollEnter, NoCommand, WaitInterrupted, AtWait, HandleEvent, EventDrop, EventConnect, EventAccept, EventRead,
       EventWrite, Event, AcceptFill, Return
  <1>1. CASE UNCHANGED <<sType, sId, sFd, fdState, epoll>>
    <2>1. /\ \A s \in Slots : sType[s] \in PolledTypes => Undisturbed(s)
          /\ \A s \in Slots : sType'[s] \in PolledTypes => sType[s] \in PolledTypes /\ Undisturbed(s)
      BY <1>1 DEF Undisturbed
    <2>2. CASE UNCHANGED batch
      BY <1>01, <1>02, <2>1, <2>2, SameBatch, SocketsKept
    <2>3. CASE batch # <<>> /\ batch' = Tail(batch)
      BY <1>01, <1>02, <2>1, <2>3, NextBatch, SocketsKept
    <2>4. CASE batch # <<>> /\ batch' = [batch EXCEPT ![1].read = FALSE]
      BY <1>01, <1>02, <2>1, <2>4, ReadBatch, SocketsKept
    <2>5. CASE AcceptFill
      <3>1. UNCHANGED batch
        BY <2>5 DEF AcceptFill, Abort, pollVars
      <3> QED BY <2>2, <3>1
    <2>6. CASE PollEnter \/ NoCommand \/ WaitInterrupted \/ Return
      <3>1. UNCHANGED batch
        BY <2>6 DEF PollEnter, NoCommand, WaitInterrupted, Return, pollVars
      <3> QED BY <2>2, <3>1
    <2>7. CASE EventDrop \/ EventConnect \/ EventAccept \/ EventWrite
      <3>1. batch # <<>> /\ batch' = Tail(batch)
        BY <2>7 DEF EventDrop, EventConnect, EventAccept, EventWrite, Event
      <3> QED BY <2>3, <3>1
    <2>8. CASE EventRead
      <3>1. batch # <<>> /\ (batch' = Tail(batch) \/ batch' = [batch EXCEPT ![1].read = FALSE])
        BY <2>8, Zenon DEF EventRead, Event
      <3> QED BY <2>3, <2>4, <3>1
    <2> QED BY <2>5, <2>6, <2>7, <2>8 DEF HandleEvent
  <1>2. CASE PollEnter \/ NoCommand \/ WaitInterrupted \/ EventDrop \/ Return
    BY <1>1, <1>2 DEF PollEnter, NoCommand, WaitInterrupted, EventDrop, Return, slotVars, kernelVars
  <1>3. CASE EventRead
    <2>1. "error" \notin ReadOutcomes(sFd[Ev.slot])
      BY <1>02, <1>3, ReadSucceeds DEF EventRead, Event
    <2>2. UNCHANGED <<sType, sId, sFd, fdState, epoll>>
      BY <1>3, <2>1 DEF EventRead, kernelVars
    <2> QED BY <1>1, <2>2
  <1>4. CASE EventWrite \/ EventConnect
    <2>1. /\ Ev.slot \in Slots /\ batch # <<>> /\ batch' = Tail(batch) /\ UNCHANGED <<sId, sFd>>
          /\ sType[Ev.slot] \in PolledTypes /\ sType[Ev.slot] \in LiveTypes
          /\ sType[Ev.slot] = "CONNECTING" => fdState[sFd[Ev.slot]] \in {"conn", "failed"}
      BY <1>02, <1>4, EventAtHand DEF EventWrite, EventConnect, Event, slotVars, PolledTypes
    <2>2. CASE ForceClose(Ev.slot)
      <3>1. /\ \A s \in Slots : s # Ev.slot /\ sType[s] \in PolledTypes => Undisturbed(s)
            /\ \A s \in Slots : sType'[s] \in PolledTypes => sType[s] \in PolledTypes /\ Undisturbed(s)
        BY <1>01, <2>1, <2>2, CloseDisturbs
      <3>2. \A s \in Slots : sType[s] \in PolledTypes => Undisturbed(s) \/ Gone(s) \/ (1 = 1 /\ s = Ev.slot)
        BY <3>1
      <3> QED BY <1>01, <1>02, <2>1, <3>1, <3>2, NextBatch, SocketsKept
    <2>3. CASE /\ EpollWrite(sFd[Ev.slot], Ev.slot, FALSE) /\ UNCHANGED fdState
               /\ \/ UNCHANGED sType
                  \/ /\ sType' = [sType EXCEPT ![Ev.slot] = "CONNECTED"]
                     /\ fdState[sFd[Ev.slot]] = "conn"
      <3>1. \A s \in Slots : s # Ev.slot => sType'[s] = sType[s]
        BY <1>0, <2>3
      <3>2. /\ \A s \in Slots : s # Ev.slot /\ sType[s] \in PolledTypes => Undisturbed(s)
            /\ epoll'[sFd[Ev.slot]] = Ev.slot
        BY <1>01, <2>1, <2>3, <3>1, WriteDisturbs
      <3>3. sType'[Ev.slot] = "CONNECTED" => fdState[sFd[Ev.slot]] = "conn"
        BY <1>0, <1>01, <2>1, <2>3 DEF SocketsOK, ConnectedOK
      <3>4. Placed(Ev.slot)
        BY <2>1, <2>3, <3>2, <3>3 DEF Placed
      <3>5. \A s \in Slots : sType[s] \in PolledTypes => Undisturbed(s) \/ Gone(s) \/ (1 = 1 /\ s = Ev.slot)
        BY <3>2
      <3>6. \A s \in Slots : sType'[s] \in PolledTypes => (sType[s] \in PolledTypes /\ Undisturbed(s)) \/ Placed(s)
        BY <3>1, <3>2, <3>4
      <3> QED BY <1>01, <1>02, <2>1, <3>5, <3>6, NextBatch, SocketsKept
    <2>4. CASE EventWrite
      BY <2>3, <2>4 DEF EventWrite, slotVars
    <2>5. CASE EventConnect
      BY <2>1, <2>2, <2>3, <2>5 DEF EventConnect, Event
    <2> QED BY <1>4, <2>4, <2>5
  <1>5. CASE EventAccept /\ ~ UNCHANGED <<sType, sId, sFd, fdState, epoll>>
    <2>1. PICK f \in FDs : fdState[f] = "free" /\ fdState' = [fdState EXCEPT ![f] = "conn"]
      BY <1>5 DEF EventAccept, slotVars
    <2>2. UNCHANGED <<sType, sId, sFd, epoll>> /\ batch # <<>> /\ batch' = Tail(batch)
      BY <1>5 DEF EventAccept, Event, slotVars
    <2>3. \A s \in Slots : sType[s] \in PolledTypes => sFd[s] \in FDs /\ sFd[s] # f
      BY <1>01, <2>1 DEF FdOwned, PolledTypes
    <2>4. \A s \in Slots : sType[s] \in PolledTypes => Undisturbed(s)
      BY <1>0, <2>1, <2>2, <2>3 DEF Undisturbed
    <2>5. \A s \in Slots : sType'[s] \in PolledTypes => sType[s] \in PolledTypes /\ Undisturbed(s)
      BY <2>2, <2>4
    <2> QED BY <1>01, <1>02, <2>2, <2>4, <2>5, NextBatch, SocketsKept
  <1>6. CASE AcceptFill /\ ~ UNCHANGED <<sType, sId, sFd, fdState, epoll>>
    <2> DEFINE h == HASH_ID(request[Poller].id)
    <2>1. /\ sType[h] = "RESERVE" /\ sType' = [sType EXCEPT ![h] = "PACCEPT"]
          /\ sId' = [sId EXCEPT ![h] = request[Poller].id] /\ sFd' = [sFd EXCEPT ![h] = request[Poller].fd]
          /\ UNCHANGED <<fdState, epoll, batch>>
      BY <1>6 DEF AcceptFill, Abort, slotVars, kernelVars
    <2>2. "RESERVE" \notin PolledTypes /\ "PACCEPT" \notin PolledTypes
      BY DEF PolledTypes, LiveTypes
    <2>3. \A s \in Slots : sType[s] \in PolledTypes => Undisturbed(s)
      BY <1>0, <2>1, <2>2 DEF Undisturbed
    <2>4. \A s \in Slots : sType'[s] \in PolledTypes => sType[s] \in PolledTypes /\ Undisturbed(s)
      BY <1>0, <2>1, <2>2, <2>3
    <2> QED BY <1>01, <1>02, <2>1, <2>3, <2>4, SameBatch, SocketsKept
  <1> QED BY <1>1, <1>2, <1>3, <1>4, <1>5, <1>6 DEF HandleEvent

\* A message made from an event is about the live socket of its slot; nothing
\* happens to it before poll returns.
LEMMA MessageEvent ==
  ASSUME Serial, SerialInv,
         PollEnter \/ NoCommand \/ Wait \/ WaitInterrupted \/ HandleEvent
           \/ AcceptFill \/ ClearClosedEvent \/ Return
  PROVE  MessageIsLive'
  <1>0. /\ sType \in [Slots -> SocketTypes] /\ sId \in [Slots -> Ids] /\ pc \in [Procs -> Labels]
        /\ Poller \in Procs /\ TypeInv /\ ListenerOK /\ ReservationOwned /\ IdHome
    BY DEF SerialInv, DescriptorInv, ClaimedInv, ReservationInv, TypeInv, TypeOK, SlotTypeOK, CallTypeOK, Procs
  <1>1. CASE pc'[Poller] \notin {"clear", "return"}
    BY <1>1 DEF MessageIsLive, Returning
  <1>2. CASE PollEnter \/ NoCommand \/ Wait \/ WaitInterrupted \/ EventDrop \/ EventAccept \/ EventWrite \/ Return
    <2>1. pc'[Poller] \notin {"clear", "return"}
      BY <1>0, <1>2 DEF PollEnter, NoCommand, Wait, WaitInterrupted, EventDrop, EventAccept, EventWrite, Return,
         Goto, Loop, StartReserve
    <2> QED BY <1>1, <2>1
  <1>3. CASE ClearClosedEvent
    <2>1. pc[Poller] = "clear" /\ UNCHANGED <<sType, sId, result>>
      BY <1>3 DEF ClearClosedEvent, slotVars
    <2> QED BY <2>1 DEF SerialInv, MessageIsLive, Returning, LiveId
  <1>4. \A ty, i : Result(ty, i).type = ty /\ Result(ty, i).id = i
    BY DEF Result
  <1>5. CASE EventRead
    <2>1. pc[Poller] # "clear" /\ batch # <<>> /\ Ev.slot # NoSlot /\ sType[Ev.slot] \in DefaultTypes /\ UNCHANGED sId
      BY <1>5 DEF EventRead, Event
    <2>2. /\ "error" \notin ReadOutcomes(sFd[Ev.slot])
          /\ Ev.slot \in Slots /\ sType[Ev.slot] \in LiveTypes /\ HASH_ID(sId[Ev.slot]) = Ev.slot
      BY <2>1, ReadSucceeds, EventAtHand DEF PolledTypes
    <2>3. UNCHANGED sType /\ (Goto(Poller, "loop") \/ result' = Result("DATA", sId[Ev.slot]))
      BY <1>5, <2>2 DEF EventRead, Loop, Answer
    <2>4. CASE Goto(Poller, "loop")
      BY <1>0, <1>1, <2>4 DEF Goto
    <2>5. CASE result' = Result("DATA", sId[Ev.slot])
      BY <1>4, <2>1, <2>2, <2>3, <2>5 DEF MessageIsLive, Returning, LiveId
    <2> QED BY <2>3, <2>4, <2>5
  <1>6. CASE EventConnect
    <2>1. pc[Poller] # "clear" /\ batch # <<>> /\ Ev.slot # NoSlot /\ UNCHANGED sId
      BY <1>6 DEF EventConnect, Event
    <2>2. Ev.slot \in Slots /\ HASH_ID(sId[Ev.slot]) = Ev.slot
      BY <2>1, EventAtHand
    <2>3. \/ result' = Result("ERROR", sId[Ev.slot])
          \/ result' = Result("OPEN", sId[Ev.slot]) /\ sType' = [sType EXCEPT ![Ev.slot] = "CONNECTED"]
      BY <1>6 DEF EventConnect
    <2>4. CASE result' = Result("ERROR", sId[Ev.slot])
      BY <1>4, <2>4 DEF MessageIsLive, Returning
    <2>5. CASE result' = Result("OPEN", sId[Ev.slot]) /\ sType' = [sType EXCEPT ![Ev.slot] = "CONNECTED"]
      <3>1. sType'[Ev.slot] \in LiveTypes
        BY <1>0, <2>2, <2>5 DEF LiveTypes, SocketTypes
      <3> QED BY <1>4, <2>1, <2>2, <2>5, <3>1 DEF MessageIsLive, Returning, LiveId
    <2> QED BY <2>3, <2>4, <2>5
  <1>7. CASE AcceptFill
    <2> DEFINE id == request[Poller].id
               h  == HASH_ID(id)
    <2>1. sType[h] = "RESERVE" /\ h \in Slots
      BY <1>0, <1>7, SlotsOfOwners DEF AcceptFill, Holds, HeldSlot, ReservationOwned, ClaimIsReserved
    <2>2. listener \in Slots /\ sType[listener] = "LISTEN"
      BY <1>0, <1>7 DEF AcceptFill, ListenerOK, Reserving, SerialInv, ListenerLive
    <2>3. /\ sType' = [sType EXCEPT ![h] = "PACCEPT"] /\ sId' = [sId EXCEPT ![h] = id]
          /\ result' = AcceptMessage(sId[listener], id)
      BY <1>7, <2>1 DEF AcceptFill
    <2>4. result'.type = "ACCEPT" /\ result'.id = sId[listener] /\ result'.ud = id
      BY <2>3 DEF AcceptMessage, Result
    <2>5. HASH_ID(sId[listener]) = listener /\ h # listener
      BY <1>0, <2>1, <2>2 DEF IdHome, LiveTypes, SocketTypes
    <2>6. LiveId(result.id)'
      BY <1>0, <2>2, <2>3, <2>4, <2>5 DEF LiveId, LiveTypes, SocketTypes
    <2>7. sType'[HASH_ID(result'.ud)] = "PACCEPT" /\ LiveId(result.ud)'
      BY <1>0, <2>1, <2>3, <2>4 DEF LiveId, LiveTypes, SocketTypes
    <2> QED BY <2>4, <2>6, <2>7 DEF MessageIsLive, Returning
  <1> QED BY <1>2, <1>3, <1>5, <1>6, <1>7 DEF HandleEvent

\* initialize starts with nothing open and nothing pending.
LEMMA SerialInit == Init => SerialInv
  <1> SUFFICES ASSUME Init PROVE SerialInv
    OBVIOUS
  <1>1. /\ \A s \in Slots : sType[s] \notin LiveTypes
        /\ pc[Poller] = "idle" /\ Len(batch) = 0
    BY DEF Init, LiveTypes, Procs
  <1>2. IdHome /\ Turns /\ ListenerLive /\ MessageIsLive
    BY <1>1 DEF IdHome, Turns, ListenerLive, Reserving, MessageIsLive, Returning
  <1>3. EventsOK /\ OneEvent
    BY <1>1 DEF EventsOK, OneEvent
  <1>4. ConnectedOK /\ EpollPointsHome
    BY <1>1 DEF ConnectedOK, EpollPointsHome, PolledTypes, LiveTypes, SocketTypes
  <1> QED BY <1>2, <1>3, <1>4, DescriptorInit DEF SerialInv, SocketsOK

\* Every step of a single-threaded application keeps events with their sockets.
LEMMA SerialStep == Serial /\ SerialInv /\ [Next]_vars => SerialInv'
  <1> SUFFICES ASSUME Serial, SerialInv, [Next]_vars
               PROVE  Turns' /\ ListenerLive' /\ SocketsOK' /\ MessageIsLive'
    BY DescriptorStep, HomeStep DEF SerialInv, DescriptorInv, ClaimedInv
  <1>1. CASE \E t \in Threads : Call(t) \/ AppStep(t)
    BY <1>1, SerialThread
  <1>2. CASE PollStep \/ WaitInterrupted
    <2>1. CASE Reserve(Poller) \/ ReserveFull(Poller)
      BY <2>1, SerialReserve
    <2>2. CASE CtrlCmd
      BY <2>2, SerialPoll, SocketsCommand, MessageCommand DEF Poll
    <2>3. CASE PollEnter \/ NoCommand \/ WaitInterrupted \/ HandleEvent \/ AcceptFill \/ Return
      BY <2>3, SerialPoll, SocketsEvent, MessageEvent DEF Poll
    <2>4. CASE Wait
      BY <2>4, SerialPoll, SocketsWait, MessageEvent DEF Poll
    <2>5. CASE ClearClosedEvent
      BY <2>5, SerialPoll, SocketsCleared, MessageEvent DEF Poll
    <2> QED BY <1>2, <2>1, <2>2, <2>3, <2>4, <2>5 DEF PollStep, Poll
  <1>3. CASE \E f \in FDs : Connected(f)
    BY <1>3, SerialKernel
  <1>4. CASE UNCHANGED vars
    <2>1. UNCHANGED <<sType, sId, sFd, fdState, epoll, pc, batch, listener, result>>
      BY <1>4 DEF vars, slotVars, kernelVars, pollVars
    <2>2. Turns' /\ ListenerLive' /\ MessageIsLive'
      BY <2>1 DEF SerialInv, Turns, ListenerLive, MessageIsLive, Returning, LiveId
    <2>3. SocketsOK'
      BY <2>1 DEF SerialInv, SocketsOK, EventsOK, OneEvent, ConnectedOK, EpollPointsHome
    <2> QED BY <2>2, <2>3
  <1> QED BY <1>1, <1>2, <1>3, <1>4 DEF Next

\* The pointer epoll has for a descriptor is the slot that owns it, as long as
\* calls and poll take turns and no read of an open connection fails.
THEOREM EventsPointHome == Serial => (Spec => []EpollPointsHome)
  <1> SUFFICES ASSUME Serial PROVE Spec => []EpollPointsHome
    OBVIOUS
  <1>1. SerialInv => EpollPointsHome
    BY DEF SerialInv, SocketsOK
  <1>2. SerialInv /\ [Next]_vars => SerialInv'
    BY SerialStep
  <1> QED BY <1>1, <1>2, SerialInit, PTL DEF Spec

\* Under the same conditions clear_closed_event leaves no event of a socket that
\* is gone: an event still to be handled is about the socket it was reported for.
THEOREM NoEventIsStale == Serial => (Spec => []NoStaleEvent)
  <1> SUFFICES ASSUME Serial PROVE Spec => []NoStaleEvent
    OBVIOUS
  <1>1. SerialInv => NoStaleEvent
    BY DEF SerialInv, SocketsOK, EventsOK, NoStaleEvent, PolledTypes, LiveTypes
  <1>2. SerialInv /\ [Next]_vars => SerialInv'
    BY SerialStep
  <1> QED BY <1>1, <1>2, SerialInit, PTL DEF Spec

\* Under the same conditions DATA, OPEN and ACCEPT are returned for a live socket,
\* and the id an ACCEPT brings is that of a pending one.
THEOREM MessagesAreLive == Serial => (Spec => []MessageIsLive)
  <1> SUFFICES ASSUME Serial PROVE Spec => []MessageIsLive
    OBVIOUS
  <1>1. SerialInv => MessageIsLive
    BY DEF SerialInv
  <1>2. SerialInv /\ [Next]_vars => SerialInv'
    BY SerialStep
  <1> QED BY <1>1, <1>2, SerialInit, PTL DEF Spec

\* What ClosedByName says of one step and one slot.
ClosedFor(s) ==
  sType[s] \in LiveTypes /\ sType'[s] = "INVALID" =>
    \/ pipe' # pipe /\ Cmd.id = sId[s]
    \/ batch' # batch /\ Ev.slot = s /\ Ev.of = sId[s]

\* A command closes the socket that has its id.
LEMMA CommandCloses ==
  ASSUME SerialInv, CtrlCmd, NEW s \in Slots
  PROVE  ClosedFor(s)
  <1> DEFINE h == HASH_ID(Cmd.id)
  <1>0. sType \in [Slots -> SocketTypes] /\ TypeInv /\ pipe \in Seq(Requests)
    BY DEF SerialInv, DescriptorInv, ClaimedInv, ReservationInv, TypeInv, TypeOK, SlotTypeOK, PipeTypeOK
  <1>1. pipe # <<>> /\ pipe' = Tail(pipe)
    BY DEF CtrlCmd, Command,
       CmdListen, CmdBind, CmdOpenUnresolved, CmdOpenExhausted, CmdOpen, CmdStartPending,
       CmdStartOther, CmdClose, CmdSend, CmdExit
  <1>2. pipe' # pipe
    <2>1. Len(pipe') = Len(pipe) - 1 /\ Len(pipe) \in Nat
      BY <1>0, <1>1
    <2> QED BY <2>1
  <1>3. h \in Slots /\ Cmd = pipe[1] /\ 1 \in 1 .. Len(pipe)
    BY <1>0, <1>1, CmdType DEF Cmd
  <1>4. Cmd.type \in OpenCommands => sType[h] = "RESERVE"
    BY <1>3 DEF SerialInv, DescriptorInv, ClaimedInv, ReservationInv, ReservationOwned, ClaimIsReserved, Carries, CarriedSlot
  <1>5. SUFFICES ASSUME sType[s] \in LiveTypes, sType'[s] = "INVALID" PROVE Cmd.id = sId[s]
    BY <1>2 DEF ClosedFor
  <1>6. sType[s] # "RESERVE" /\ sType[s] # "INVALID"
    BY <1>5 DEF LiveTypes
  <1>7. CASE CmdListen \/ CmdBind \/ CmdOpenUnresolved \/ CmdOpen
    <2>1. sType[h] = "RESERVE" /\ ~NewSocketFails
      BY <1>4, <1>7 DEF Command, OpenCommands, NewSocketFails, CmdListen, CmdBind, CmdOpenUnresolved, CmdOpen
    <2>2. UNCHANGED sType \/ \E ty : sType' = [sType EXCEPT ![h] = ty]
      BY <1>7, <2>1 DEF CmdListen, CmdBind, CmdOpenUnresolved, CmdOpen, NewSocket, Abort, slotVars
    <2> QED BY <1>0, <1>5, <1>6, <2>1, <2>2
  <1>8. CASE CmdStartPending
    <2>1. ~Stale /\ \E ty : sType' = [sType EXCEPT ![h] = ty]
      BY <1>8 DEF CmdStartPending
    <2> QED BY <1>0, <1>5, <1>6, <2>1 DEF Stale
  <1>9. CASE CmdClose \/ CmdSend
    <2>1. UNCHANGED sType \/ (~Stale /\ ForceClose(h))
      BY <1>9 DEF CmdClose, CmdSend, Abort, slotVars
    <2> QED BY <1>0, <1>5, <1>6, <2>1 DEF Stale, ForceClose
  <1> QED BY <1>5, <1>6, <1>7, <1>8, <1>9 DEF CtrlCmd, CmdOpenExhausted, CmdStartOther, CmdExit, Abort, slotVars

\* An event closes the socket it was reported for.
LEMMA EventCloses ==
  ASSUME Serial, SerialInv, NEW s \in Slots,
         PollEnter \/ NoCommand \/ Wait \/ WaitInterrupted \/ HandleEvent
           \/ AcceptFill \/ ClearClosedEvent \/ Return
  PROVE  ClosedFor(s)
  <1>0. sType \in [Slots -> SocketTypes] /\ TypeInv /\ batch \in Seq(Events)
    BY DEF SerialInv, DescriptorInv, ClaimedInv, ReservationInv, TypeInv, TypeOK, SlotTypeOK, PollTypeOK
  <1>1. SUFFICES ASSUME sType[s] \in LiveTypes, sType'[s] = "INVALID"
                 PROVE  batch' # batch /\ Ev.slot = s /\ Ev.of = sId[s]
    BY DEF ClosedFor
  <1>2. sType[s] # "RESERVE" /\ sType[s] # "INVALID"
    BY <1>1 DEF LiveTypes
  <1>3. CASE PollEnter \/ NoCommand \/ Wait \/ WaitInterrupted \/ EventDrop \/ EventAccept \/ EventWrite
               \/ ClearClosedEvent \/ Return
    BY <1>1, <1>2, <1>3 DEF PollEnter, NoCommand, Wait, WaitInterrupted, EventDrop, EventAccept, EventWrite,
       ClearClosedEvent, Return, slotVars
  <1>4. CASE AcceptFill
    BY <1>0, <1>1, <1>2, <1>4 DEF AcceptFill, Abort, slotVars
  <1>5. CASE EventRead
    <2>1. "error" \notin ReadOutcomes(sFd[Ev.slot])
      BY <1>5, ReadSucceeds DEF EventRead, Event
    <2> QED BY <1>1, <1>2, <1>5, <2>1 DEF EventRead
  <1>6. CASE EventConnect
    <2>1. pc[Poller] # "clear" /\ batch # <<>> /\ Ev.slot # NoSlot /\ batch' = Tail(batch)
      BY <1>6 DEF EventConnect, Event
    <2>2. Ev.slot \in Slots /\ sId[Ev.slot] = Ev.of
      BY <2>1, EventAtHand
    <2>3. Len(batch') = Len(batch) - 1 /\ Len(batch) \in Nat
      BY <1>0, <2>1
    <2>4. s = Ev.slot
      BY <1>0, <1>1, <1>2, <1>6 DEF EventConnect, ForceClose
    <2>5. batch' # batch
      BY <2>3
    <2> QED BY <2>2, <2>4, <2>5
  <1> QED BY <1>3, <1>4, <1>5, <1>6 DEF HandleEvent

\* Every step closes sockets by name only.
LEMMA ClosesByName == Serial /\ SerialInv /\ [Next]_vars => [\A s \in Slots : ClosedFor(s)]_vars
  <1> SUFFICES ASSUME Serial, SerialInv, Next, NEW s \in Slots PROVE ClosedFor(s)
    OBVIOUS
  <1>0. TypeInv
    BY DEF SerialInv, DescriptorInv, ClaimedInv, ReservationInv
  <1>1. ASSUME \/ \E p \in Procs : Reserve(p) \/ ReserveFull(p)
               \/ \E t \in Threads : Call(t) \/ SendRequest(t)
               \/ \E f \in FDs : Connected(f)
        PROVE  ClosedFor(s)
    BY <1>0, <1>1, NothingOpens DEF ClosedFor, LiveTypes
  <1>2. CASE \E t \in Threads : Call(t) \/ AppStep(t)
    BY <1>1, <1>2 DEF AppStep, Procs
  <1>3. CASE PollStep \/ WaitInterrupted
    <2>1. CASE Reserve(Poller) \/ ReserveFull(Poller)
      BY <1>1, <2>1 DEF Procs
    <2>2. CASE CtrlCmd
      BY <2>2, CommandCloses
    <2>3. CASE Poll \/ WaitInterrupted
      BY <2>2, <2>3, EventCloses DEF Poll
    <2> QED BY <1>3, <2>1, <2>2, <2>3 DEF PollStep
  <1>4. CASE \E f \in FDs : Connected(f)
    BY <1>1, <1>4
  <1> QED BY <1>2, <1>3, <1>4 DEF Next

\* Under the same conditions a live socket is closed only by a command that names
\* its id, or while an event reported for that very socket is handled.
THEOREM SocketsClosedByName == Serial => (Spec => ClosedByName)
  <1> SUFFICES ASSUME Serial PROVE Spec => ClosedByName
    OBVIOUS
  <1>1. SerialInv /\ [Next]_vars => SerialInv'
    BY SerialStep
  <1>2. SerialInv /\ [Next]_vars => [\A s \in Slots : ClosedFor(s)]_vars
    BY ClosesByName
  <1>3. Spec => [][\A s \in Slots : ClosedFor(s)]_vars
    BY <1>1, <1>2, SerialInit, PTL DEF Spec
  <1> QED BY <1>3 DEF ClosedByName, ClosedFor

-----------------------------------------------------------------------------
(* Ids *)

\* alloc_id has not wrapped around: fewer than 2^31 ids were drawn.
NoWrap == alloc_id < IdLimit

\* A call has drawn an id that the application has not been given yet.
Drawn(p) == pc[p] \in {"look", "cas"} \/ Holds(p)

\* No id is negative, a drawn id is new, a command names an id the application was given, and
\* s->id = id was executed for the slot that a call passes on.
CallerIds(p) ==
  /\ pc[p] # "mask"
  /\ Drawn(p) => request[p].id <= alloc_id /\ request[p].id \notin known
  /\ pc[p] = "write" /\ request[p].type \notin OpenCommands \cup {"X"} => request[p].id \in known
  /\ Holds(p) /\ pc[p] # "setid" => sId[HeldSlot(p)] = request[p].id

DistinctIds ==
  \A p, q \in Procs : Drawn(p) /\ Drawn(q) /\ request[p].id = request[q].id => p = q

KnownIds ==
  /\ \A i \in known : i <= alloc_id
  /\ Returning({"ACCEPT"}) => result.ud <= alloc_id

\* In the pipe, no command that names an id comes before the one that opens it.
PipeIds ==
  \A k \in 1 .. Len(pipe) :
    /\ pipe[k].type # "X" => pipe[k].id \in known
    /\ Carries(k) => sId[CarriedSlot(k)] = pipe[k].id
    /\ \A j \in 1 .. k - 1 : Carries(k) /\ pipe[j].type # "X" => pipe[j].id # pipe[k].id

CallersIds == \A p \in Procs : CallerIds(p)
FreshInv == CallersIds /\ DistinctIds /\ KnownIds /\ PipeIds

\* A number below the modulus.
LEMMA ModSmall == ASSUME NEW x \in Nat, NEW n \in Nat \ {0}, x < n PROVE x % n = x
  OBVIOUS

\* A step that draws no id, names none and touches none; it may take a command
\* off the pipe.
LEMMA FreshKept ==
  ASSUME TypeInv, FreshInv, UNCHANGED <<known, alloc_id, sId>>,
         pipe' = pipe \/ (pipe # <<>> /\ pipe' = Tail(pipe)),
         \A p \in Procs : pc'[p] \in {"mask", "look", "cas", "setid", "setfd", "fill", "write"} =>
                            pc'[p] = pc[p] /\ request'[p] = request[p],
         Returning({"ACCEPT"})' => \/ Returning({"ACCEPT"}) /\ result' = result
                                  \/ result'.ud <= alloc_id
  PROVE  FreshInv'
  <1>1. \A p \in Procs :
          /\ Drawn(p)' => Drawn(p) /\ pc'[p] = pc[p] /\ request'[p] = request[p]
          /\ Holds(p)' => Holds(p) /\ pc'[p] = pc[p] /\ request'[p] = request[p]
    BY DEF Drawn, Holds
  <1>2. CallersIds'
    <2> SUFFICES ASSUME NEW p \in Procs PROVE CallerIds(p)'
      BY DEF CallersIds
    <2>1. CallerIds(p)
      BY DEF FreshInv, CallersIds
    <2> QED BY <1>1, <2>1 DEF CallerIds, HeldSlot
  <1>3. DistinctIds'
    BY <1>1 DEF FreshInv, DistinctIds
  <1>4. KnownIds'
    BY DEF FreshInv, KnownIds
  <1>5. CASE pipe' = pipe
    <2>1. PipeIds'
      BY <1>5 DEF FreshInv, PipeIds, Carries, CarriedSlot
    <2> QED BY <1>2, <1>3, <1>4, <2>1 DEF FreshInv
  <1>6. CASE pipe # <<>> /\ pipe' = Tail(pipe)
    <2>1. Len(pipe') = Len(pipe) - 1 /\ Len(pipe) \in Nat /\ \A k \in 1 .. Len(pipe') : pipe'[k] = pipe[k + 1]
      BY <1>6 DEF TypeInv, TypeOK, PipeTypeOK
    <2>2. ASSUME NEW k \in 1 .. Len(pipe')
          PROVE  /\ pipe'[k].type # "X" => pipe'[k].id \in known'
                 /\ Carries(k)' => sId'[CarriedSlot(k)'] = pipe'[k].id
                 /\ \A j \in 1 .. k - 1 : Carries(k)' /\ pipe'[j].type # "X" => pipe'[j].id # pipe'[k].id
      <3>1. k + 1 \in 1 .. Len(pipe) /\ pipe'[k] = pipe[k + 1]
        BY <2>1
      <3>2. Carries(k)' => Carries(k + 1) /\ CarriedSlot(k)' = CarriedSlot(k + 1)
        BY <3>1 DEF Carries, CarriedSlot
      <3>3. \A j \in 1 .. k - 1 : j + 1 \in 1 .. (k + 1) - 1 /\ pipe'[j] = pipe[j + 1]
        BY <2>1
      <3> QED BY <3>1, <3>2, <3>3 DEF FreshInv, PipeIds
    <2>3. PipeIds'
      BY <2>2 DEF PipeIds
    <2> QED BY <1>2, <1>3, <1>4, <2>3 DEF FreshInv
  <1> QED BY <1>5, <1>6

\* reserve_id draws the next id, which nobody else has, as long as alloc_id does
\* not wrap around; a slot is named by the thread that won it.
LEMMA FreshReserve ==
  ASSUME ClaimedInv, FreshInv, NoWrap, NoWrap', NEW p \in Procs, Reserve(p) \/ ReserveFull(p)
  PROVE  FreshInv'
  <1>0. /\ request \in [Procs -> Requests] /\ pc \in [Procs -> Labels] /\ alloc_id \in Words
        /\ sId \in [Slots -> Ids] /\ p \in Procs
    BY DEF ClaimedInv, ReservationInv, TypeInv, TypeOK, CallTypeOK, SlotTypeOK
  <1>1. pc'[Poller] = pc[Poller] \/ pc'[Poller] \notin {"clear", "return"}
    <2>1. PICK l \in {"mask", "look", "cas", "add", "full", "setid", "setfd", "fill", "write", "loop", "idle"} : Goto(p, l)
      BY DEF Reserve, ReserveAdd, ReserveMask, ReserveLook, ReserveCas, ReserveSetId, ReserveSetFd, ReserveFull
    <2> QED BY <1>0, <2>1 DEF Goto, Procs
  <1>2. UNCHANGED result /\ UNCHANGED known /\ UNCHANGED pipe
    BY DEF Reserve, ReserveAdd, ReserveMask, ReserveLook, ReserveCas, ReserveSetId, ReserveSetFd, ReserveFull, pollVars
  <1>3. Returning({"ACCEPT"})' => Returning({"ACCEPT"}) /\ result' = result
    BY <1>1, <1>2 DEF Returning
  <1>4. CASE ReserveFull(p)
    <2>1. UNCHANGED <<known, alloc_id, sId, pipe>>
      BY <1>4 DEF ReserveFull, slotVars
    <2>2. \A q \in Procs : pc'[q] \in {"mask", "look", "cas", "setid", "setfd", "fill", "write"} =>
                             pc'[q] = pc[q] /\ request'[q] = request[q]
      BY <1>0, <1>4 DEF ReserveFull, Goto
    <2> QED BY <1>3, <2>1, <2>2, FreshKept DEF ClaimedInv, ReservationInv
  <1>5. CASE ReserveAdd(p)
    <2>1. /\ alloc_id' = NextWord(alloc_id) /\ request' = [request EXCEPT ![p].id = alloc_id']
          /\ UNCHANGED <<sId, known, pipe, result>> /\ pc[p] = "add"
          /\ pc' = [pc EXCEPT ![p] = IF alloc_id' >= IdLimit THEN "mask" ELSE "look"]
      BY <1>5 DEF ReserveAdd, Goto, slotVars, pollVars
    <2>2. alloc_id' = alloc_id + 1 /\ alloc_id \in Nat /\ alloc_id' < IdLimit
      <3>1. alloc_id + 1 < 2 * IdLimit /\ alloc_id + 1 \in Nat /\ 2 * IdLimit \in Nat \ {0} /\ alloc_id \in Nat
        BY <1>0, SlotAssumption DEF NoWrap, Words
      <3>2. alloc_id' = alloc_id + 1
        BY <2>1, <3>1, ModSmall DEF NextWord
      <3> QED BY <3>1, <3>2 DEF NoWrap
    <2>3. pc' = [pc EXCEPT ![p] = "look"]
      <3>1. ~(alloc_id' >= IdLimit)
        BY <2>2, SlotAssumption
      <3> QED BY <2>1, <3>1
    <2>4. \A q \in Procs : q # p => request'[q] = request[q] /\ pc'[q] = pc[q]
      BY <1>0, <2>1
    <2>5. request'[p].id = alloc_id' /\ pc'[p] = "look"
      BY <1>0, <2>1, <2>3 DEF Requests
    <2>6. \A q \in Procs : /\ Drawn(q)' => q = p \/ Drawn(q)
                           /\ q # p => HeldSlot(q)' = HeldSlot(q) /\ Holds(q)' = Holds(q)
                           /\ Drawn(q) => q # p
                           /\ ~Holds(p)'
      BY <2>1, <2>4, <2>5 DEF Drawn, Holds, HeldSlot
    <2>7. \A q \in Procs : Drawn(q) => request[q].id <= alloc_id /\ request[q].id \in Nat
      <3> SUFFICES ASSUME NEW q \in Procs, Drawn(q) PROVE request[q].id <= alloc_id /\ request[q].id \in Nat
        OBVIOUS
      <3>1. request[q].id <= alloc_id
        BY DEF FreshInv, CallersIds, CallerIds
      <3>2. request[q].id \in Ids
        BY DEF ClaimedInv, ReservationInv, TypeInv, CallIdsOK, Drawn, Holds
      <3> QED BY <3>1, <3>2, SlotAssumption DEF Ids
    <2>8. \A i \in known : i <= alloc_id /\ i \in Nat
      <3>1. known \subseteq Nat
        BY SlotAssumption DEF ClaimedInv, ReservationInv, TypeInv, TypeOK, PipeTypeOK, Ids
      <3> QED BY <3>1 DEF FreshInv, KnownIds
    <2>9. CallersIds'
      <3> SUFFICES ASSUME NEW q \in Procs PROVE CallerIds(q)'
        BY DEF CallersIds
      <3>1. CASE q = p
        <4>1. alloc_id' \notin known
          BY <2>2, <2>8
        <4> QED BY <3>1, <4>1, <2>1, <2>2, <2>5, <2>6 DEF CallerIds
      <3>2. CASE q # p
        <4>1. CallerIds(q)
          BY DEF FreshInv, CallersIds
        <4>2. Drawn(q)' => request'[q].id <= alloc_id'
          BY <3>2, <2>2, <2>4, <2>6, <2>7
        <4>3. Drawn(q)' => request'[q].id \notin known'
          BY <3>2, <4>1, <2>1, <2>4, <2>6 DEF CallerIds
        <4> QED BY <3>2, <4>1, <4>2, <4>3, <2>1, <2>4, <2>6 DEF CallerIds
      <3> QED BY <3>1, <3>2
    <2>10. DistinctIds'
      <3> SUFFICES ASSUME NEW q \in Procs, NEW r \in Procs, Drawn(q)', Drawn(r)',
                          request'[q].id = request'[r].id
                   PROVE  q = r
        BY DEF DistinctIds
      <3>1. CASE q = p \/ r = p
        BY <3>1, <2>2, <2>4, <2>5, <2>6, <2>7
      <3>2. CASE q # p /\ r # p
        BY <3>2, <2>4, <2>6 DEF FreshInv, DistinctIds
      <3> QED BY <3>1, <3>2
    <2>11. KnownIds'
      <3>1. Returning({"ACCEPT"}) => result.ud <= alloc_id /\ result.ud \in Nat
        <4>1. result.ud \in Ids
          BY DEF ClaimedInv, ReservationInv, TypeInv, TypeOK, PollTypeOK, Results
        <4> QED BY <4>1, SlotAssumption DEF FreshInv, KnownIds, Ids
      <3>2. \A i \in known' : i <= alloc_id'
        BY <2>1, <2>2, <2>8
      <3> QED BY <3>1, <3>2, <1>3, <2>2 DEF KnownIds
    <2>12. PipeIds'
      BY <2>1 DEF FreshInv, PipeIds, Carries, CarriedSlot
    <2> QED BY <2>9, <2>10, <2>11, <2>12 DEF FreshInv
  <1>6. CASE ReserveMask(p)
    BY <1>6 DEF ReserveMask, FreshInv, CallersIds, CallerIds
  <1>7. CASE ReserveLook(p) \/ ReserveCas(p)
    <2>1. /\ UNCHANGED <<known, alloc_id, sId, pipe, request>> /\ pc[p] \in {"look", "cas"}
      BY <1>7 DEF ReserveLook, ReserveCas, callVars, slotVars
    <2>2. PICK l \in {"cas", "add", "full", "setid"} : pc' = [pc EXCEPT ![p] = l]
      BY <1>7 DEF ReserveLook, ReserveCas, Goto
    <2>3. \A q \in Procs : q # p => pc'[q] = pc[q]
      BY <1>0, <2>2
    <2>4. pc'[p] \in {"cas", "add", "full", "setid"}
      BY <1>0, <2>2
    <2>5. \A q \in Procs : /\ Drawn(q)' => Drawn(q)
                           /\ Holds(q)' /\ pc'[q] # "setid" => Holds(q) /\ pc[q] # "setid"
                           /\ pc'[q] = "write" => pc[q] = "write" /\ request'[q] = request[q]
                           /\ pc'[q] = "mask" => pc[q] = "mask"
      BY <2>1, <2>3, <2>4 DEF Drawn, Holds
    <2>6. CallersIds'
      <3> SUFFICES ASSUME NEW q \in Procs PROVE CallerIds(q)'
        BY DEF CallersIds
      <3>1. CallerIds(q)
        BY DEF FreshInv, CallersIds
      <3> QED BY <3>1, <2>1, <2>5 DEF CallerIds, HeldSlot
    <2>7. DistinctIds'
      BY <2>1, <2>5 DEF FreshInv, DistinctIds
    <2>8. KnownIds'
      BY <1>3, <2>1 DEF FreshInv, KnownIds
    <2>9. PipeIds'
      BY <2>1 DEF FreshInv, PipeIds, Carries, CarriedSlot
    <2> QED BY <2>6, <2>7, <2>8, <2>9 DEF FreshInv
  <1>8. CASE ReserveSetId(p) \/ ReserveSetFd(p)
    <2>1. /\ UNCHANGED <<known, alloc_id, pipe, request>> /\ pc[p] \in {"setid", "setfd"}
          /\ sId' = IF pc[p] = "setid" THEN [sId EXCEPT ![HeldSlot(p)] = request[p].id] ELSE sId
      BY <1>8 DEF ReserveSetId, ReserveSetFd, callVars, HeldSlot
    <2>2. PICK l \in {"setfd", "fill", "write"} : pc' = [pc EXCEPT ![p] = l]
      BY <1>8 DEF ReserveSetId, ReserveSetFd, Goto
    <2>3. \A q \in Procs : q # p => pc'[q] = pc[q]
      BY <1>0, <2>2
    <2>4. pc'[p] \in {"setfd", "fill", "write"} /\ Holds(p)
      BY <1>0, <2>1, <2>2 DEF Holds
    <2>5. HeldSlot(p) \in Slots
      BY <2>4, SlotsOfOwners DEF ClaimedInv, ReservationInv
    <2>6. sId'[HeldSlot(p)] = request[p].id
      <3>1. CallerIds(p)
        BY DEF FreshInv, CallersIds
      <3> QED BY <3>1, <1>0, <2>1, <2>4, <2>5 DEF CallerIds
    <2>7. \A s \in Slots : s # HeldSlot(p) => sId'[s] = sId[s]
      BY <1>0, <2>1, <2>5
    <2>8. \A q \in Procs : Holds(q) => HeldSlot(q) \in Slots /\ (q # p => HeldSlot(q) # HeldSlot(p))
      BY <2>4, SlotsOfOwners DEF ClaimedInv, ReservationInv, ReservationOwned, ClaimIsUnique
    <2>9. \A k \in 1 .. Len(pipe) : Carries(k) => CarriedSlot(k) \in Slots /\ CarriedSlot(k) # HeldSlot(p)
      BY <2>4, SlotsOfOwners DEF ClaimedInv, ReservationInv, ReservationOwned, ClaimIsUnique
    <2>10. \A q \in Procs : Drawn(q)' => Drawn(q)
      BY <2>1, <2>3, <2>4 DEF Drawn, Holds
    <2>11. CallersIds'
      <3> SUFFICES ASSUME NEW q \in Procs PROVE CallerIds(q)'
        BY DEF CallersIds
      <3>1. CallerIds(q)
        BY DEF FreshInv, CallersIds
      <3>2. CASE q = p
        <4>1. request[p].type \in OpenCommands \/ pc'[p] # "write"
          <5>1. CASE pc'[p] = "write"
            <6>1. p \in Threads /\ pc[p] \in Reserving
              BY <1>0, <1>8, <2>1, <2>2, <5>1 DEF ReserveSetId, ReserveSetFd, Goto, Procs, Reserving
            <6> QED BY <6>1 DEF ClaimedInv, CallersOK
          <5> QED BY <5>1
        <4> QED BY <3>1, <3>2, <4>1, <2>1, <2>4, <2>6, <2>10 DEF CallerIds, HeldSlot
      <3>3. CASE q # p
        <4>1. Holds(q)' => Holds(q) /\ sId'[HeldSlot(q)] = sId[HeldSlot(q)]
          BY <3>3, <2>1, <2>3, <2>7, <2>8 DEF Holds
        <4> QED BY <3>1, <3>3, <4>1, <2>1, <2>3, <2>10 DEF CallerIds, HeldSlot
      <3> QED BY <3>2, <3>3
    <2>12. DistinctIds'
      BY <2>1, <2>10 DEF FreshInv, DistinctIds
    <2>13. KnownIds'
      BY <1>3, <2>1 DEF FreshInv, KnownIds
    <2>14. PipeIds'
      <3>1. \A k \in 1 .. Len(pipe) : Carries(k) => sId'[CarriedSlot(k)] = sId[CarriedSlot(k)]
        BY <2>7, <2>9
      <3> QED BY <3>1, <2>1 DEF FreshInv, PipeIds, Carries, CarriedSlot
    <2> QED BY <2>11, <2>12, <2>13, <2>14 DEF FreshInv
  <1> QED BY <1>4, <1>5, <1>6, <1>7, <1>8 DEF Reserve

\* A call draws its id in reserve_id, or names one the application was given.
LEMMA FreshCall ==
  ASSUME ClaimedInv, FreshInv, NEW t \in Threads, Call(t)
  PROVE  FreshInv'
  <1>0. /\ request \in [Procs -> Requests] /\ pc \in [Procs -> Labels] /\ t \in Procs /\ t # Poller
        /\ TypeInv
    BY ThreadAssumption DEF ClaimedInv, ReservationInv, TypeInv, TypeOK, CallTypeOK, Procs
  <1>1. UNCHANGED <<known, alloc_id, sId, pipe, result>>
    BY DEF Call, ServerListen, ServerBind, ServerConnect, ServerCommand, ServerSend, StartReserve,
       slotVars, pollVars
  <1>2. \A q \in Procs : q # t => pc'[q] = pc[q] /\ request'[q] = request[q]
    BY <1>0 DEF Call, ServerListen, ServerBind, ServerConnect, ServerCommand, ServerSend, StartReserve, Goto
  <1>3. Poller \in Procs /\ pc'[Poller] = pc[Poller]
    BY <1>0, <1>2 DEF Procs
  <1>4. Returning({"ACCEPT"})' => Returning({"ACCEPT"}) /\ result' = result
    BY <1>1, <1>3 DEF Returning
  <1>5. CASE ServerListen(t) \/ ServerBind(t) \/ ServerConnect(t)
    <2>1. pc'[t] = "add"
      BY <1>0, <1>5 DEF ServerListen, ServerBind, ServerConnect, StartReserve, Goto
    <2> QED BY <1>0, <1>1, <1>2, <1>4, <2>1, FreshKept
  <1>6. CASE ServerCommand(t) \/ ServerSend(t)
    <2>1. /\ pc'[t] = "write" /\ request'[t].type \in {"S", "K", "X", "D"}
          /\ request'[t].type # "X" => request'[t].id \in known
      BY <1>0, <1>6 DEF ServerCommand, ServerSend, Goto
    <2>2. \A q \in Procs : /\ Drawn(q)' => Drawn(q) /\ q # t
                           /\ Holds(q)' => Holds(q) /\ q # t
      BY <1>2, <2>1 DEF Drawn, Holds, OpenCommands
    <2>3. CallersIds'
      <3> SUFFICES ASSUME NEW q \in Procs PROVE CallerIds(q)'
        BY DEF CallersIds
      <3>1. CallerIds(q)
        BY DEF FreshInv, CallersIds
      <3>2. CASE q = t
        BY <1>1, <2>1, <2>2, <3>2 DEF CallerIds
      <3>3. CASE q # t
        BY <1>1, <1>2, <2>2, <3>1, <3>3 DEF CallerIds, HeldSlot
      <3> QED BY <3>2, <3>3
    <2>4. DistinctIds'
      BY <1>2, <2>2 DEF FreshInv, DistinctIds
    <2>5. KnownIds'
      BY <1>1, <1>4 DEF FreshInv, KnownIds
    <2>6. PipeIds'
      BY <1>1 DEF FreshInv, PipeIds, Carries, CarriedSlot
    <2> QED BY <2>3, <2>4, <2>5, <2>6 DEF FreshInv
  <1> QED BY <1>5, <1>6 DEF Call

\* send_request: the id that an open command carries has been named by no
\* command in the pipe, since the application gets it now.
LEMMA FreshSend ==
  ASSUME ClaimedInv, FreshInv, NEW t \in Threads, SendRequest(t)
  PROVE  FreshInv'
  <1>0. /\ request \in [Procs -> Requests] /\ pc \in [Procs -> Labels] /\ t \in Procs /\ t # Poller
        /\ pipe \in Seq(Requests) /\ Poller \in Procs
    BY ThreadAssumption
    DEF ClaimedInv, ReservationInv, TypeInv, TypeOK, CallTypeOK, PipeTypeOK, Procs
  <1>1. /\ UNCHANGED <<alloc_id, sId, result>> /\ pc[t] = "write"
        /\ pipe' = Append(pipe, request[t])
        /\ known' = IF Holds(t) THEN known \cup {request[t].id} ELSE known
        /\ pc' = [pc EXCEPT ![t] = "idle"] /\ request' = [request EXCEPT ![t] = NoRequest]
    BY DEF SendRequest, slotVars, pollVars, Goto, Holds
  <1>2. \A q \in Procs : q # t => pc'[q] = pc[q] /\ request'[q] = request[q]
    BY <1>0, <1>1
  <1>3. pc'[t] = "idle" /\ pc'[Poller] = pc[Poller]
    BY <1>0, <1>1
  <1>4. \A q \in Procs : /\ Drawn(q)' => Drawn(q) /\ q # t
                         /\ Holds(q)' => Holds(q) /\ q # t
    BY <1>2, <1>3 DEF Drawn, Holds
  <1>5. CallerIds(t) /\ (Holds(t) => Drawn(t))
    BY <1>0 DEF FreshInv, CallersIds, Drawn
  <1>6. CallersIds'
    <2> SUFFICES ASSUME NEW q \in Procs PROVE CallerIds(q)'
      BY DEF CallersIds
    <2>1. CallerIds(q)
      BY DEF FreshInv, CallersIds
    <2>2. CASE q = t
      BY <1>3, <1>4, <2>2 DEF CallerIds
    <2>3. CASE q # t
      <3>1. Drawn(q) => request[q].id \notin known'
        BY <1>0, <1>1, <1>5, <2>1, <2>3 DEF CallerIds, FreshInv, DistinctIds
      <3>2. Drawn(q)' => request'[q].id <= alloc_id' /\ request'[q].id \notin known'
        BY <1>1, <1>2, <1>4, <2>1, <2>3, <3>1 DEF CallerIds
      <3> QED BY <1>1, <1>2, <1>4, <2>1, <2>3, <3>2 DEF CallerIds, HeldSlot
    <2> QED BY <2>2, <2>3
  <1>7. DistinctIds'
    BY <1>2, <1>4 DEF FreshInv, DistinctIds
  <1>8. KnownIds'
    <2>1. \A i \in known' : i <= alloc_id'
      BY <1>1, <1>5 DEF FreshInv, KnownIds, CallerIds
    <2> QED BY <1>1, <1>3, <2>1 DEF FreshInv, KnownIds, Returning
  <1>9. PipeIds'
    <2>1. /\ Len(pipe') = Len(pipe) + 1 /\ Len(pipe) \in Nat
          /\ \A k \in 1 .. Len(pipe) : pipe'[k] = pipe[k]
          /\ pipe'[Len(pipe) + 1] = request[t]
      BY <1>0, <1>1
    <2>2. SUFFICES ASSUME NEW k \in 1 .. Len(pipe')
          PROVE  /\ pipe'[k].type # "X" => pipe'[k].id \in known'
                 /\ Carries(k)' => sId'[CarriedSlot(k)'] = pipe'[k].id
                 /\ \A j \in 1 .. k - 1 : Carries(k)' /\ pipe'[j].type # "X" => pipe'[j].id # pipe'[k].id
      BY DEF PipeIds
    <2>3. \A j \in 1 .. k - 1 : j \in 1 .. Len(pipe) /\ pipe'[j] = pipe[j]
      BY <2>1
    <2>4. CASE k \in 1 .. Len(pipe)
      <3>1. pipe'[k] = pipe[k] /\ (Carries(k)' => Carries(k)) /\ CarriedSlot(k)' = CarriedSlot(k)
        BY <2>1, <2>4 DEF Carries, CarriedSlot
      <3>2. /\ pipe[k].type # "X" => pipe[k].id \in known
            /\ Carries(k) => sId[CarriedSlot(k)] = pipe[k].id
            /\ \A j \in 1 .. k - 1 : Carries(k) /\ pipe[j].type # "X" => pipe[j].id # pipe[k].id
        BY <2>4 DEF FreshInv, PipeIds
      <3> QED BY <1>1, <2>3, <3>1, <3>2
    <2>5. CASE k = Len(pipe) + 1
      <3>1. pipe'[k] = request[t] /\ CarriedSlot(k)' = HeldSlot(t) /\ (Carries(k)' => Holds(t))
        BY <1>1, <2>1, <2>5 DEF Carries, CarriedSlot, HeldSlot, Holds
      <3>2. pipe'[k].type # "X" => pipe'[k].id \in known'
        BY <1>1, <1>5, <3>1 DEF CallerIds, Holds
      <3>3. Carries(k)' => sId'[CarriedSlot(k)'] = pipe'[k].id
        BY <1>1, <1>5, <3>1 DEF CallerIds
      <3>4. ASSUME NEW j \in 1 .. k - 1, Carries(k)', pipe'[j].type # "X" PROVE pipe'[j].id # pipe'[k].id
        <4>1. pipe'[j].id \in known
          BY <2>3, <3>4 DEF FreshInv, PipeIds
        <4>2. request[t].id \notin known
          BY <1>5, <3>1, <3>4 DEF CallerIds
        <4> QED BY <3>1, <4>1, <4>2
      <3> QED BY <3>2, <3>3, <3>4
    <2> QED BY <2>1, <2>4, <2>5
  <1> QED BY <1>6, <1>7, <1>8, <1>9 DEF FreshInv

\* A command that fills its slot writes the id that reserve_id put there.
LEMMA FreshCommand ==
  ASSUME ClaimedInv, FreshInv, CtrlCmd
  PROVE  FreshInv'
  <1> DEFINE h == HASH_ID(Cmd.id)
  <1>0. /\ TypeInv /\ ReservationOwned /\ pc \in [Procs -> Labels] /\ sId \in [Slots -> Ids] /\ Poller \in Procs
    BY DEF ClaimedInv, ReservationInv, TypeInv, TypeOK, CallTypeOK, SlotTypeOK, Procs
  <1>1. /\ pipe # <<>> /\ pipe' = Tail(pipe) /\ UNCHANGED <<known, alloc_id, request>> /\ pc[Poller] = "loop"
    BY DEF CtrlCmd, Command, Abort, callVars,
       CmdListen, CmdBind, CmdOpenUnresolved, CmdOpenExhausted, CmdOpen, CmdStartPending,
       CmdStartOther, CmdClose, CmdSend, CmdExit
  <1>2. h \in Slots /\ Cmd = pipe[1] /\ 1 \in 1 .. Len(pipe)
    BY <1>0, <1>1, CmdType DEF TypeInv, TypeOK, PipeTypeOK, Cmd
  <1>3. sId' = sId
    <2>1. \/ sId' = sId
          \/ Cmd.type \in OpenCommands /\ sId' = [sId EXCEPT ![h] = Cmd.id]
      BY DEF CtrlCmd, Command, OpenCommands, NewSocket, Abort, slotVars,
         CmdListen, CmdBind, CmdOpenUnresolved, CmdOpenExhausted, CmdOpen, CmdStartPending,
         CmdStartOther, CmdClose, CmdSend, CmdExit
    <2>2. Cmd.type \in OpenCommands => sId[h] = Cmd.id
      BY <1>2 DEF FreshInv, PipeIds, Carries, CarriedSlot
    <2> QED BY <1>0, <1>2, <2>1, <2>2
  <1>4. \/ UNCHANGED pc
        \/ /\ pc' = [pc EXCEPT ![Poller] = "clear"] \/ pc' = [pc EXCEPT ![Poller] = "return"]
           /\ result'.type # "ACCEPT"
    <2> DEFINE Answered == /\ pc' = [pc EXCEPT ![Poller] = "clear"] \/ pc' = [pc EXCEPT ![Poller] = "return"]
                           /\ result'.type # "ACCEPT"
    <2>1. UNCHANGED pc \/ \E r \in {"OPEN", "ERROR", "CLOSE", "EXIT"} : \E i : Answer(Result(r, i))
      BY DEF CtrlCmd, Abort, Continue,
         CmdListen, CmdBind, CmdOpenUnresolved, CmdOpenExhausted, CmdOpen, CmdStartPending,
         CmdStartOther, CmdClose, CmdSend, CmdExit
    <2>2. ASSUME NEW r \in {"OPEN", "ERROR", "CLOSE", "EXIT"}, NEW i, Answer(Result(r, i)) PROVE Answered
      BY <2>2 DEF Answer, Result, Goto
    <2> QED BY <2>1, <2>2
  <1>5. ~Returning({"ACCEPT"})'
    BY <1>0, <1>1, <1>4 DEF Returning
  <1>6. \A q \in Procs : pc'[q] = pc[q] \/ pc'[q] \in {"clear", "return"}
    BY <1>0, <1>4
  <1> QED BY <1>0, <1>1, <1>3, <1>5, <1>6, FreshKept

\* report_accept fills the slot with the id it drew, which the application gets
\* when poll returns and no call is under way.
LEMMA FreshPoll ==
  ASSUME ClaimedInv, Turns, FreshInv,
         PollEnter \/ NoCommand \/ Wait \/ WaitInterrupted \/ HandleEvent
           \/ AcceptFill \/ ClearClosedEvent \/ Return
  PROVE  FreshInv'
  <1>0. /\ TypeInv /\ ReservationOwned /\ pc \in [Procs -> Labels] /\ sId \in [Slots -> Ids] /\ Poller \in Procs
        /\ request \in [Procs -> Requests]
    BY DEF ClaimedInv, ReservationInv, TypeInv, TypeOK, CallTypeOK, SlotTypeOK, Procs
  <1>1. \A q \in Procs : q # Poller => pc'[q] = pc[q] /\ request'[q] = request[q]
    BY <1>0, PollMoves DEF Poll
  <1>2. CASE PollEnter \/ NoCommand \/ Wait \/ WaitInterrupted \/ ClearClosedEvent
    <2>1. UNCHANGED <<known, alloc_id, sId, pipe, result>>
      BY <1>2 DEF PollEnter, NoCommand, Wait, WaitInterrupted, ClearClosedEvent, slotVars, callVars, pollVars
    <2>2. /\ pc'[Poller] \in {"idle", "loop", "event", "return"}
          /\ pc'[Poller] = "return" => pc[Poller] = "clear"
      BY <1>0, <1>2 DEF PollEnter, NoCommand, Wait, WaitInterrupted, ClearClosedEvent, Goto
    <2>3. Returning({"ACCEPT"})' => Returning({"ACCEPT"}) /\ result' = result
      BY <2>1, <2>2 DEF Returning
    <2> QED BY <1>0, <1>1, <2>1, <2>2, <2>3, FreshKept
  <1>3. CASE HandleEvent
    <2>1. UNCHANGED <<known, alloc_id, sId, pipe>>
      BY <1>3 DEF HandleEvent, EventDrop, EventConnect, EventAccept, EventRead, EventWrite, StartReserve,
         slotVars, callVars
    <2>2. /\ pc'[Poller] \in {"add", "loop", "clear", "return"}
          /\ pc'[Poller] \in {"clear", "return"} => result'.type # "ACCEPT"
      <3>1. CASE EventDrop \/ EventWrite \/ EventAccept
        BY <1>0, <3>1 DEF EventDrop, EventWrite, EventAccept, StartReserve, Loop, Goto
      <3>2. CASE EventConnect
        <4>1. Goto(Poller, "return") /\ \E r \in {"OPEN", "ERROR"} : \E i : result' = Result(r, i)
          BY <3>2 DEF EventConnect
        <4> QED BY <1>0, <4>1 DEF Result, Goto
      <3>3. CASE EventRead
        <4>1. Loop \/ \E i : Answer(Result("DATA", i))
          BY <3>3 DEF EventRead
        <4> QED BY <1>0, <4>1 DEF Loop, Answer, Result, Goto
      <3> QED BY <1>3, <3>1, <3>2, <3>3 DEF HandleEvent
    <2>3. ~Returning({"ACCEPT"})'
      BY <2>2 DEF Returning
    <2> QED BY <1>0, <1>1, <2>1, <2>2, <2>3, FreshKept
  <1>4. CASE AcceptFill
    <2>1. Holds(Poller) /\ pc[Poller] = "fill"
      BY <1>4 DEF AcceptFill, Holds
    <2>2. HeldSlot(Poller) \in Slots /\ sType[HeldSlot(Poller)] = "RESERVE"
      BY <1>0, <2>1, SlotsOfOwners DEF ReservationOwned, ClaimIsReserved
    <2>3. sId[HeldSlot(Poller)] = request[Poller].id /\ request[Poller].id <= alloc_id
      BY <1>0, <2>1 DEF FreshInv, CallersIds, CallerIds, Drawn
    <2>4. /\ sId' = [sId EXCEPT ![HeldSlot(Poller)] = request[Poller].id]
          /\ result' = AcceptMessage(sId[listener], request[Poller].id)
          /\ pc' = [pc EXCEPT ![Poller] = "return"]
          /\ UNCHANGED <<pipe, alloc_id, known>>
      BY <1>4, <2>2 DEF AcceptFill, HeldSlot, Goto
    <2>5. sId' = sId
      BY <1>0, <2>2, <2>3, <2>4
    <2>6. result'.ud <= alloc_id
      BY <2>3, <2>4 DEF AcceptMessage, Result
    <2>7. pc'[Poller] = "return"
      BY <1>0, <2>4
    <2> QED BY <1>0, <1>1, <2>4, <2>5, <2>6, <2>7, FreshKept
  <1>5. CASE Return
    <2>1. /\ UNCHANGED <<alloc_id, sId, pipe>> /\ pc[Poller] = "return"
          /\ known' = IF Returning({"ACCEPT"}) THEN known \cup {result.ud} ELSE known
      BY <1>5 DEF Return, slotVars, callVars, Returning
    <2>2. \A q \in Procs : pc'[q] \in {"idle", "exit"}
      <3>1. \A q \in Threads : q \in Procs /\ q # Poller /\ pc[q] = "idle"
        BY <2>1, ThreadAssumption DEF Turns, Procs
      <3>2. pc'[Poller] \in {"idle", "exit"}
        BY <1>0, <1>5 DEF Return, Goto
      <3> QED BY <1>1, <3>1, <3>2 DEF Procs
    <2>3. CallersIds' /\ DistinctIds'
      BY <2>2 DEF CallersIds, CallerIds, DistinctIds, Drawn, Holds
    <2>4. KnownIds'
      <3>1. ~Returning({"ACCEPT"})'
        BY <1>0, <2>2 DEF Returning
      <3> QED BY <2>1, <3>1 DEF FreshInv, KnownIds
    <2>5. PipeIds'
      BY <2>1 DEF FreshInv, PipeIds, Carries, CarriedSlot
    <2> QED BY <2>3, <2>4, <2>5 DEF FreshInv
  <1> QED BY <1>2, <1>3, <1>4, <1>5

\* While poll runs a reserved slot is carried by a command, and no command before
\* that one names its id.
LEMMA NoCloseOfReserved ==
  ASSUME ClaimedInv, Turns, FreshInv, aborted = "none", pipe # <<>>, pc[Poller] = "loop",
         Cmd.type = "K", ~Stale
  PROVE  sType[HASH_ID(Cmd.id)] # "RESERVE"
  <1> DEFINE h == HASH_ID(Cmd.id)
  <1>1. TypeInv /\ h \in Slots /\ Cmd = pipe[1] /\ Len(pipe) \in Nat /\ 1 \in 1 .. Len(pipe)
    BY CmdType DEF ClaimedInv, ReservationInv, TypeInv, TypeOK, PipeTypeOK, Cmd
  <1>2. SUFFICES ASSUME sType[h] = "RESERVE" PROVE FALSE
    OBVIOUS
  <1>3. \A p \in Procs : ~Holds(p)
    BY DEF Turns, Holds, Procs
  <1>4. PICK k \in 1 .. Len(pipe) : Carries(k) /\ CarriedSlot(k) = h
    BY <1>1, <1>2, <1>3 DEF ClaimedInv, ReservedIsClaimed
  <1>5. k # 1
    BY <1>1, <1>4 DEF Carries, OpenCommands
  <1>6. 1 \in 1 .. k - 1
    BY <1>1, <1>5
  <1>7. pipe[1].id # pipe[k].id /\ sId[h] = pipe[k].id
    BY <1>1, <1>4, <1>6 DEF FreshInv, PipeIds
  <1> QED BY <1>1, <1>7 DEF Stale

\* So force_close is never called for a reserved slot.
LEMMA ForceCloseKept ==
  ASSUME Serial, SerialInv, FreshInv, ForceCloseAssert, [Next]_vars
  PROVE  ForceCloseAssert'
  <1>0. ClaimedInv /\ Turns
    BY DEF SerialInv, DescriptorInv
  <1>1. CASE UNCHANGED vars \/ \E f \in FDs : Connected(f)
    BY <1>1 DEF vars, Connected, ForceCloseAssert
  <1>2. CASE \E t \in Threads : Call(t) \/ AppStep(t)
    BY <1>2 DEF ForceCloseAssert, Call, ServerListen, ServerBind, ServerConnect, ServerCommand, ServerSend,
       AppStep, SendRequest, Reserve, ReserveFull, ReserveAdd, ReserveMask, ReserveLook, ReserveCas,
       ReserveSetId, ReserveSetFd
  <1>3. CASE Reserve(Poller) \/ ReserveFull(Poller)
    BY <1>3 DEF ForceCloseAssert, Reserve, ReserveFull, ReserveAdd, ReserveMask, ReserveLook, ReserveCas,
       ReserveSetId, ReserveSetFd
  <1>4. CASE Next /\ CtrlCmd
    <2>1. aborted' = "force_close" =>
            /\ aborted = "none" /\ pipe # <<>> /\ pc[Poller] = "loop"
            /\ Cmd.type = "K" /\ ~Stale /\ sType[HASH_ID(Cmd.id)] = "RESERVE"
      BY <1>4 DEF ForceCloseAssert, Next, CtrlCmd, Command, Abort,
         CmdListen, CmdBind, CmdOpenUnresolved, CmdOpenExhausted, CmdOpen, CmdStartPending,
         CmdStartOther, CmdClose, CmdSend, CmdExit
    <2> QED BY <1>0, <2>1, NoCloseOfReserved DEF ForceCloseAssert
  <1>5. CASE EventRead
    <2>1. /\ batch # <<>> /\ pc[Poller] # "clear" /\ Ev.slot # NoSlot /\ sType[Ev.slot] \in DefaultTypes
      BY <1>5 DEF EventRead, Event
    <2>2. "error" \notin ReadOutcomes(sFd[Ev.slot])
      BY <2>1, ReadSucceeds
    <2> QED BY <1>5, <2>2 DEF EventRead, ForceCloseAssert
  <1>6. CASE EventDrop \/ EventConnect \/ EventAccept \/ EventWrite \/ AcceptFill
             \/ PollEnter \/ NoCommand \/ Wait \/ WaitInterrupted \/ ClearClosedEvent \/ Return
    BY <1>6 DEF ForceCloseAssert, EventDrop, EventConnect, EventAccept, EventWrite, AcceptFill, Abort,
       PollEnter, NoCommand, Wait, WaitInterrupted, ClearClosedEvent, Return
  <1> QED BY <1>1, <1>2, <1>3, <1>4, <1>5, <1>6 DEF Next, PollStep, Poll, HandleEvent

\* initialize has drawn no id.
LEMMA FreshInit == Init => FreshInv
  <1> SUFFICES ASSUME Init PROVE FreshInv
    OBVIOUS
  <1>1. /\ \A p \in Procs : pc[p] = "idle"
        /\ known = {} /\ Len(pipe) = 0 /\ Poller \in Procs
    BY DEF Init, Procs
  <1> QED BY <1>1 DEF FreshInv, CallersIds, CallerIds, Drawn, Holds, DistinctIds, KnownIds, Returning, PipeIds

\* Every step keeps ids fresh, alloc_id not wrapping around.
LEMMA FreshStep ==
  ASSUME SerialInv, FreshInv, NoWrap, NoWrap', [Next]_vars
  PROVE  FreshInv'
  <1>0. ClaimedInv /\ Turns /\ TypeInv
    BY DEF SerialInv, DescriptorInv, ClaimedInv, ReservationInv
  <1>1. CASE UNCHANGED vars \/ \E f \in FDs : Connected(f)
    <2>1. UNCHANGED <<known, alloc_id, sId, pipe, pc, request, result>>
      BY <1>1 DEF vars, Connected, slotVars, callVars, pollVars
    <2> QED BY <1>0, <2>1, FreshKept DEF Returning
  <1>2. CASE \E t \in Threads : Call(t) \/ AppStep(t)
    BY <1>0, <1>2, FreshCall, FreshSend, FreshReserve DEF AppStep, Procs
  <1>3. CASE PollStep \/ WaitInterrupted
    BY <1>0, <1>3, FreshReserve, FreshCommand, FreshPoll DEF PollStep, Poll, Procs
  <1> QED BY <1>1, <1>2, <1>3 DEF Next

\* force_close's assertion never fails as long as calls and poll take turns, no
\* read of an open connection fails and fewer than 2^31 ids are drawn: a close
\* command cannot reach the slot of a call still opening, whose id is new.
THEOREM ReservedNeverClosed == Serial => (Spec /\ []NoWrap => []ForceCloseAssert)
  <1> SUFFICES ASSUME Serial PROVE Spec /\ []NoWrap => []ForceCloseAssert
    OBVIOUS
  <1> DEFINE Inv == SerialInv /\ FreshInv /\ ForceCloseAssert
  <1>1. Init => Inv
    BY SerialInit, FreshInit DEF Init, ForceCloseAssert
  <1>2. Inv /\ NoWrap /\ NoWrap' /\ [Next]_vars => Inv'
    BY SerialStep, FreshStep, ForceCloseKept
  <1>3. Inv => ForceCloseAssert
    OBVIOUS
  <1> HIDE DEF Inv
  <1> QED BY <1>1, <1>2, <1>3, PTL DEF Spec
=============================================================================
