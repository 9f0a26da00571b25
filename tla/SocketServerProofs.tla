------------------------- MODULE SocketServerProofs -------------------------
(***************************************************************************)
(* Theorems about SocketServer for every number of threads, slots, ids and *)
(* descriptors, every pipe length and every batch size.                    *)
(***************************************************************************)
EXTENDS SocketServer, TLAPS

\* A remainder is below its divisor (HASH_ID, the wrap and the mask of alloc_id).
LEMMA ModRange == ASSUME NEW x \in Nat, NEW n \in Nat \ {0} PROVE x % n \in 0 .. n - 1
  OBVIOUS

\* HASH_ID maps an id to a slot.
LEMMA HashRange == \A i \in Words : HASH_ID(i) \in Slots
  <1>1. \A i \in Words : i \in Nat /\ MAX_SOCKET \in Nat \ {0}
    BY SlotAssumption DEF Words
  <1> QED BY <1>1, ModRange DEF HASH_ID, Slots

\* alloc_id wraps around within a word, and a masked word is an id.
LEMMA NextWordRange == \A w \in Words : NextWord(w) \in Words
  <1>1. \A w \in Words : w + 1 \in Nat /\ 2 * IdLimit \in Nat \ {0}
    BY SlotAssumption DEF Words
  <1> QED BY <1>1, ModRange DEF NextWord, Words

\* Masking a word with 0x7fffffff gives a non-negative id.
LEMMA MaskWordRange == \A w \in Words : MaskWord(w) \in Ids
  <1>1. \A w \in Words : w \in Nat /\ IdLimit \in Nat \ {0}
    BY SlotAssumption DEF Words
  <1> QED BY <1>1, ModRange DEF MaskWord, Ids

\* The ids are the non-negative words, 0 among them.
LEMMA IdsAreWords == Ids \subseteq Words /\ 0 \in Ids
  BY SlotAssumption DEF Ids, Words

-----------------------------------------------------------------------------
(* Types *)

\* The labels of a thread inside reserve_id.
Reserving == {"add", "mask", "look", "cas", "setid", "setfd", "full", "fill"}

\* What types need beyond TypeOK: an id is masked before it is used, the loop
\* of reserve_id is bounded, and report_accept remembers its listener.
CallIdsOK ==
  \A p \in Procs :
    /\ pc[p] \in {"look", "cas", "setid", "setfd", "fill", "write"} => request[p].id \in Ids
    /\ pc[p] \in {"add", "mask", "look", "cas"} => tries[p] < MAX_SOCKET
PipeIdsOK == \A k \in 1 .. Len(pipe) : pipe[k].id \in Ids
ListenerOK == pc[Poller] \in Reserving => listener \in Slots

TypeInv == TypeOK /\ CallIdsOK /\ PipeIdsOK /\ ListenerOK

\* socket_server::initialize establishes the types.
LEMMA TypeInit == Init => TypeInv
  <1> SUFFICES ASSUME Init PROVE TypeInv
    OBVIOUS
  <1>1. SlotTypeOK
    BY IdsAreWords DEF Init, SlotTypeOK, SocketTypes
  <1>2. CallTypeOK /\ CallIdsOK
    BY IdsAreWords, SlotAssumption, BoundAssumption
    DEF Init, CallTypeOK, CallIdsOK, Labels, Requests, NoRequest
  <1>3. PipeTypeOK /\ PipeIdsOK
    BY DEF Init, PipeTypeOK, PipeIdsOK
  <1>4. PollTypeOK
    BY IdsAreWords DEF Init, PollTypeOK, Results, NoResult, Result
  <1>5. ListenerOK
    BY DEF Init, ListenerOK, Reserving, Procs
  <1>6. KernelTypeOK
    BY DEF Init, KernelTypeOK, FdStates, Aborts
  <1> QED BY <1>1, <1>2, <1>3, <1>4, <1>5, <1>6 DEF TypeInv, TypeOK

\* A step of reserve_id keeps the types.
LEMMA TypeReserve ==
  ASSUME TypeInv, NEW p \in Procs,
         ReserveAdd(p) \/ ReserveMask(p) \/ ReserveLook(p) \/ ReserveCas(p) \/ ReserveSetId(p) \/ ReserveSetFd(p) \/ ReserveFull(p)
  PROVE  TypeInv'
  <1>1. CASE ReserveAdd(p)
    <2>1. SlotTypeOK'
      BY <1>1
      DEF ReserveAdd, TypeInv, TypeOK, SlotTypeOK, slotVars
    <2>2. CallTypeOK' /\ CallIdsOK'
      BY <1>1, NextWordRange, SlotAssumption
      DEF ReserveAdd, TypeInv, TypeOK, CallTypeOK, CallIdsOK, callVars, Goto, Labels, Requests, Ids, Words
    <2>3. PipeTypeOK' /\ PipeIdsOK'
      BY <1>1
      DEF ReserveAdd, TypeInv, TypeOK, PipeTypeOK, PipeIdsOK
    <2>4. PollTypeOK'
      BY <1>1
      DEF ReserveAdd, TypeInv, TypeOK, PollTypeOK, pollVars
    <2>5. ListenerOK'
      BY <1>1
      DEF ReserveAdd, TypeInv, TypeOK, CallTypeOK, ListenerOK, Reserving, pollVars, Goto, Procs
    <2>6. KernelTypeOK'
      BY <1>1
      DEF ReserveAdd, TypeInv, TypeOK, KernelTypeOK, kernelVars
    <2> QED BY <2>1, <2>2, <2>3, <2>4, <2>5, <2>6 DEF TypeInv, TypeOK
  <1>2. CASE ReserveMask(p)
    <2>1. SlotTypeOK'
      BY <1>2
      DEF ReserveMask, TypeInv, TypeOK, SlotTypeOK, slotVars
    <2>2. CallTypeOK' /\ CallIdsOK'
      BY <1>2, MaskWordRange, IdsAreWords
      DEF ReserveMask, TypeInv, TypeOK, CallTypeOK, CallIdsOK, callVars, Goto, Labels, Requests
    <2>3. PipeTypeOK' /\ PipeIdsOK'
      BY <1>2
      DEF ReserveMask, TypeInv, TypeOK, PipeTypeOK, PipeIdsOK
    <2>4. PollTypeOK'
      BY <1>2
      DEF ReserveMask, TypeInv, TypeOK, PollTypeOK, pollVars
    <2>5. ListenerOK'
      BY <1>2
      DEF ReserveMask, TypeInv, TypeOK, CallTypeOK, ListenerOK, Reserving, pollVars, Goto, Procs
    <2>6. KernelTypeOK'
      BY <1>2
      DEF ReserveMask, TypeInv, TypeOK, KernelTypeOK, kernelVars
    <2> QED BY <2>1, <2>2, <2>3, <2>4, <2>5, <2>6 DEF TypeInv, TypeOK
  <1>3. CASE ReserveLook(p)
    <2>1. SlotTypeOK'
      BY <1>3
      DEF ReserveLook, TypeInv, TypeOK, SlotTypeOK, slotVars
    <2>2. CallTypeOK' /\ CallIdsOK'
      BY <1>3, SlotAssumption
      DEF ReserveLook, TypeInv, TypeOK, CallTypeOK, CallIdsOK, callVars, Goto, Labels, NextTry
    <2>3. PipeTypeOK' /\ PipeIdsOK'
      BY <1>3
      DEF ReserveLook, TypeInv, TypeOK, PipeTypeOK, PipeIdsOK
    <2>4. PollTypeOK'
      BY <1>3
      DEF ReserveLook, TypeInv, TypeOK, PollTypeOK, pollVars
    <2>5. ListenerOK'
      BY <1>3
      DEF ReserveLook, TypeInv, TypeOK, CallTypeOK, ListenerOK, Reserving, pollVars, Goto, Procs
    <2>6. KernelTypeOK'
      BY <1>3
      DEF ReserveLook, TypeInv, TypeOK, KernelTypeOK, kernelVars
    <2> QED BY <2>1, <2>2, <2>3, <2>4, <2>5, <2>6 DEF TypeInv, TypeOK
  <1>4. CASE ReserveCas(p)
    <2>1. SlotTypeOK'
      BY <1>4
      DEF ReserveCas, TypeInv, TypeOK, SlotTypeOK, slotVars, SocketTypes
    <2>2. CallTypeOK' /\ CallIdsOK'
      BY <1>4
      DEF ReserveCas, TypeInv, TypeOK, CallTypeOK, CallIdsOK, callVars, Goto, Labels
    <2>3. PipeTypeOK' /\ PipeIdsOK'
      BY <1>4
      DEF ReserveCas, TypeInv, TypeOK, PipeTypeOK, PipeIdsOK
    <2>4. PollTypeOK'
      BY <1>4
      DEF ReserveCas, TypeInv, TypeOK, PollTypeOK, pollVars
    <2>5. ListenerOK'
      BY <1>4
      DEF ReserveCas, TypeInv, TypeOK, CallTypeOK, ListenerOK, Reserving, pollVars, Goto, Procs
    <2>6. KernelTypeOK'
      BY <1>4
      DEF ReserveCas, TypeInv, TypeOK, KernelTypeOK, kernelVars
    <2> QED BY <2>1, <2>2, <2>3, <2>4, <2>5, <2>6 DEF TypeInv, TypeOK
  <1>5. CASE ReserveSetId(p)
    <2>1. SlotTypeOK'
      BY <1>5
      DEF ReserveSetId, TypeInv, TypeOK, SlotTypeOK, slotVars, CallIdsOK
    <2>2. CallTypeOK' /\ CallIdsOK'
      BY <1>5
      DEF ReserveSetId, TypeInv, TypeOK, CallTypeOK, CallIdsOK, callVars, Goto, Labels
    <2>3. PipeTypeOK' /\ PipeIdsOK'
      BY <1>5
      DEF ReserveSetId, TypeInv, TypeOK, PipeTypeOK, PipeIdsOK
    <2>4. PollTypeOK'
      BY <1>5
      DEF ReserveSetId, TypeInv, TypeOK, PollTypeOK, pollVars
    <2>5. ListenerOK'
      BY <1>5
      DEF ReserveSetId, TypeInv, TypeOK, CallTypeOK, ListenerOK, Reserving, pollVars, Goto, Procs
    <2>6. KernelTypeOK'
      BY <1>5
      DEF ReserveSetId, TypeInv, TypeOK, KernelTypeOK, kernelVars
    <2> QED BY <2>1, <2>2, <2>3, <2>4, <2>5, <2>6 DEF TypeInv, TypeOK
  <1>6. CASE ReserveSetFd(p)
    <2>1. SlotTypeOK'
      BY <1>6
      DEF ReserveSetFd, TypeInv, TypeOK, SlotTypeOK, slotVars
    <2>2. CallTypeOK' /\ CallIdsOK'
      BY <1>6
      DEF ReserveSetFd, TypeInv, TypeOK, CallTypeOK, CallIdsOK, callVars, Goto, Labels
    <2>3. PipeTypeOK' /\ PipeIdsOK'
      BY <1>6
      DEF ReserveSetFd, TypeInv, TypeOK, PipeTypeOK, PipeIdsOK
    <2>4. PollTypeOK'
      BY <1>6
      DEF ReserveSetFd, TypeInv, TypeOK, PollTypeOK, pollVars
    <2>5. ListenerOK'
      BY <1>6
      DEF ReserveSetFd, TypeInv, TypeOK, CallTypeOK, ListenerOK, Reserving, pollVars, Goto, Procs
    <2>6. KernelTypeOK'
      BY <1>6
      DEF ReserveSetFd, TypeInv, TypeOK, KernelTypeOK, kernelVars
    <2> QED BY <2>1, <2>2, <2>3, <2>4, <2>5, <2>6 DEF TypeInv, TypeOK
  <1>7. CASE ReserveFull(p)
    <2>1. SlotTypeOK'
      BY <1>7
      DEF ReserveFull, TypeInv, TypeOK, SlotTypeOK, slotVars
    <2>2. CallTypeOK' /\ CallIdsOK'
      BY <1>7, IdsAreWords, SlotAssumption
      DEF ReserveFull, TypeInv, TypeOK, CallTypeOK, CallIdsOK, callVars, Goto, Labels, Requests, NoRequest, Ids, Words
    <2>3. PipeTypeOK' /\ PipeIdsOK'
      BY <1>7
      DEF ReserveFull, TypeInv, TypeOK, PipeTypeOK, PipeIdsOK
    <2>4. PollTypeOK'
      BY <1>7
      DEF ReserveFull, TypeInv, TypeOK, PollTypeOK, pollVars
    <2>5. ListenerOK'
      BY <1>7
      DEF ReserveFull, TypeInv, TypeOK, CallTypeOK, ListenerOK, Reserving, pollVars, Goto, Procs
    <2>6. KernelTypeOK'
      BY <1>7
      DEF ReserveFull, TypeInv, TypeOK, KernelTypeOK, kernelVars, FdStates
    <2> QED BY <2>1, <2>2, <2>3, <2>4, <2>5, <2>6 DEF TypeInv, TypeOK
  <1> QED BY <1>1, <1>2, <1>3, <1>4, <1>5, <1>6, <1>7

\* A step of a call before or after reserve_id keeps the types.
LEMMA TypeCall ==
  ASSUME TypeInv, NEW t \in Threads,
         ServerListen(t) \/ ServerBind(t) \/ ServerConnect(t) \/ ServerCommand(t) \/ ServerSend(t) \/ SendRequest(t)
  PROVE  TypeInv'
  <1>1. CASE ServerListen(t)
    <2>1. SlotTypeOK'
      BY <1>1
      DEF ServerListen, MayCall, StartReserve, TypeInv, TypeOK, SlotTypeOK, slotVars
    <2>2. CallTypeOK' /\ CallIdsOK'
      BY <1>1, IdsAreWords, SlotAssumption
      DEF ServerListen, MayCall, StartReserve, TypeInv, TypeOK, CallTypeOK, CallIdsOK, callVars, Goto, Labels, Requests, Procs, Commands, Ids, Words
    <2>3. PipeTypeOK' /\ PipeIdsOK'
      BY <1>1
      DEF ServerListen, MayCall, StartReserve, TypeInv, TypeOK, PipeTypeOK, PipeIdsOK
    <2>4. PollTypeOK'
      BY <1>1
      DEF ServerListen, MayCall, StartReserve, TypeInv, TypeOK, PollTypeOK, pollVars
    <2>5. ListenerOK'
      BY <1>1, ThreadAssumption
      DEF ServerListen, MayCall, StartReserve, TypeInv, TypeOK, CallTypeOK, ListenerOK, Reserving, pollVars, Goto, Procs
    <2>6. KernelTypeOK'
      BY <1>1
      DEF ServerListen, MayCall, StartReserve, TypeInv, TypeOK, KernelTypeOK, kernelVars, FdStates
    <2> QED BY <2>1, <2>2, <2>3, <2>4, <2>5, <2>6 DEF TypeInv, TypeOK
  <1>2. CASE ServerBind(t)
    <2>1. SlotTypeOK'
      BY <1>2
      DEF ServerBind, MayCall, StartReserve, TypeInv, TypeOK, SlotTypeOK, slotVars
    <2>2. CallTypeOK' /\ CallIdsOK'
      BY <1>2, IdsAreWords, SlotAssumption
      DEF ServerBind, MayCall, StartReserve, TypeInv, TypeOK, CallTypeOK, CallIdsOK, callVars, Goto, Labels, Requests, Procs, Commands, Ids, Words
    <2>3. PipeTypeOK' /\ PipeIdsOK'
      BY <1>2
      DEF ServerBind, MayCall, StartReserve, TypeInv, TypeOK, PipeTypeOK, PipeIdsOK
    <2>4. PollTypeOK'
      BY <1>2
      DEF ServerBind, MayCall, StartReserve, TypeInv, TypeOK, PollTypeOK, pollVars
    <2>5. ListenerOK'
      BY <1>2, ThreadAssumption
      DEF ServerBind, MayCall, StartReserve, TypeInv, TypeOK, CallTypeOK, ListenerOK, Reserving, pollVars, Goto, Procs
    <2>6. KernelTypeOK'
      BY <1>2
      DEF ServerBind, MayCall, StartReserve, TypeInv, TypeOK, KernelTypeOK, kernelVars, FdStates
    <2> QED BY <2>1, <2>2, <2>3, <2>4, <2>5, <2>6 DEF TypeInv, TypeOK
  <1>3. CASE ServerConnect(t)
    <2>1. SlotTypeOK'
      BY <1>3
      DEF ServerConnect, MayCall, StartReserve, TypeInv, TypeOK, SlotTypeOK, slotVars
    <2>2. CallTypeOK' /\ CallIdsOK'
      BY <1>3, IdsAreWords, SlotAssumption
      DEF ServerConnect, MayCall, StartReserve, TypeInv, TypeOK, CallTypeOK, CallIdsOK, callVars, Goto, Labels, Requests, Procs, Commands, Ids, Words
    <2>3. PipeTypeOK' /\ PipeIdsOK'
      BY <1>3
      DEF ServerConnect, MayCall, StartReserve, TypeInv, TypeOK, PipeTypeOK, PipeIdsOK
    <2>4. PollTypeOK'
      BY <1>3
      DEF ServerConnect, MayCall, StartReserve, TypeInv, TypeOK, PollTypeOK, pollVars
    <2>5. ListenerOK'
      BY <1>3, ThreadAssumption
      DEF ServerConnect, MayCall, StartReserve, TypeInv, TypeOK, CallTypeOK, ListenerOK, Reserving, pollVars, Goto, Procs
    <2>6. KernelTypeOK'
      BY <1>3
      DEF ServerConnect, MayCall, StartReserve, TypeInv, TypeOK, KernelTypeOK, kernelVars, FdStates
    <2> QED BY <2>1, <2>2, <2>3, <2>4, <2>5, <2>6 DEF TypeInv, TypeOK
  <1>4. CASE ServerCommand(t)
    <2>1. SlotTypeOK'
      BY <1>4
      DEF ServerCommand, MayCall, TypeInv, TypeOK, SlotTypeOK, slotVars
    <2>2. CallTypeOK' /\ CallIdsOK'
      BY <1>4, IdsAreWords
      DEF ServerCommand, MayCall, TypeInv, TypeOK, CallTypeOK, CallIdsOK, callVars, Goto, PipeTypeOK, Labels, Requests, Procs, Commands
    <2>3. PipeTypeOK' /\ PipeIdsOK'
      BY <1>4
      DEF ServerCommand, MayCall, TypeInv, TypeOK, PipeTypeOK, PipeIdsOK
    <2>4. PollTypeOK'
      BY <1>4
      DEF ServerCommand, MayCall, TypeInv, TypeOK, PollTypeOK, pollVars
    <2>5. ListenerOK'
      BY <1>4, ThreadAssumption
      DEF ServerCommand, MayCall, TypeInv, TypeOK, CallTypeOK, ListenerOK, Reserving, pollVars, Goto, Procs
    <2>6. KernelTypeOK'
      BY <1>4
      DEF ServerCommand, MayCall, TypeInv, TypeOK, KernelTypeOK, kernelVars
    <2> QED BY <2>1, <2>2, <2>3, <2>4, <2>5, <2>6 DEF TypeInv, TypeOK
  <1>5. CASE ServerSend(t)
    <2>1. SlotTypeOK'
      BY <1>5
      DEF ServerSend, MayCall, TypeInv, TypeOK, SlotTypeOK, slotVars
    <2>2. CallTypeOK' /\ CallIdsOK'
      BY <1>5, IdsAreWords
      DEF ServerSend, MayCall, TypeInv, TypeOK, CallTypeOK, CallIdsOK, callVars, Goto, PipeTypeOK, Labels, Requests, Procs, Commands
    <2>3. PipeTypeOK' /\ PipeIdsOK'
      BY <1>5
      DEF ServerSend, MayCall, TypeInv, TypeOK, PipeTypeOK, PipeIdsOK
    <2>4. PollTypeOK'
      BY <1>5
      DEF ServerSend, MayCall, TypeInv, TypeOK, PollTypeOK, pollVars
    <2>5. ListenerOK'
      BY <1>5, ThreadAssumption
      DEF ServerSend, MayCall, TypeInv, TypeOK, CallTypeOK, ListenerOK, Reserving, pollVars, Goto, Procs
    <2>6. KernelTypeOK'
      BY <1>5
      DEF ServerSend, MayCall, TypeInv, TypeOK, KernelTypeOK, kernelVars
    <2> QED BY <2>1, <2>2, <2>3, <2>4, <2>5, <2>6 DEF TypeInv, TypeOK
  <1>6. CASE SendRequest(t)
    <2>1. SlotTypeOK'
      BY <1>6
      DEF SendRequest, TypeInv, TypeOK, SlotTypeOK, slotVars
    <2>2. CallTypeOK' /\ CallIdsOK'
      BY <1>6, IdsAreWords, SlotAssumption
      DEF SendRequest, TypeInv, TypeOK, CallTypeOK, CallIdsOK, callVars, Goto, Labels, Requests, Procs, NoRequest
    <2>3. PipeTypeOK' /\ PipeIdsOK'
      BY <1>6
      DEF SendRequest, TypeInv, TypeOK, PipeTypeOK, PipeIdsOK, CallTypeOK, CallIdsOK, Procs
    <2>4. PollTypeOK'
      BY <1>6
      DEF SendRequest, TypeInv, TypeOK, PollTypeOK, pollVars
    <2>5. ListenerOK'
      BY <1>6, ThreadAssumption
      DEF SendRequest, TypeInv, TypeOK, CallTypeOK, ListenerOK, Reserving, pollVars, Goto, Procs
    <2>6. KernelTypeOK'
      BY <1>6
      DEF SendRequest, TypeInv, TypeOK, KernelTypeOK, kernelVars
    <2> QED BY <2>1, <2>2, <2>3, <2>4, <2>5, <2>6 DEF TypeInv, TypeOK
  <1> QED BY <1>1, <1>2, <1>3, <1>4, <1>5, <1>6

\* The command and the event at hand are well typed.
LEMMA CmdType ==
  ASSUME TypeInv, pipe # <<>>
  PROVE  Cmd \in Requests /\ Cmd.id \in Ids /\ HASH_ID(Cmd.id) \in Slots
  <1>1. pipe \in Seq(Requests) /\ 1 \in 1 .. Len(pipe)
    BY DEF TypeInv, TypeOK, PipeTypeOK
  <1>2. Cmd = pipe[1] /\ Cmd \in Requests
    BY <1>1 DEF Cmd
  <1>3. Cmd.id \in Ids
    BY <1>1, <1>2 DEF TypeInv, PipeIdsOK
  <1> QED BY <1>2, <1>3, HashRange, IdsAreWords

\* Reading a command off the control pipe keeps the types of the rest.
LEMMA PipeTail ==
  ASSUME TypeInv, pipe # <<>>, pipe' = Tail(pipe), UNCHANGED known
  PROVE  PipeTypeOK' /\ PipeIdsOK'
  BY DEF TypeInv, TypeOK, PipeTypeOK, PipeIdsOK

\* Taking an event off the batch keeps the types of the rest.
LEMMA EvType ==
  ASSUME TypeInv, batch # <<>>
  PROVE  Ev \in Events /\ Tail(batch) \in Seq(Events)
  BY DEF TypeInv, TypeOK, PollTypeOK, Ev

\* A message built from an id is a socket_message.
LEMMA ResultType ==
  ASSUME NEW i \in Ids, NEW ty \in {"NONE", "DATA", "CLOSE", "OPEN", "ERROR", "EXIT"}
  PROVE  Result(ty, i) \in Results
  BY IdsAreWords DEF Result, Results

\* force_close keeps the types of the slot and of the kernel's tables.
LEMMA ForceCloseType ==
  ASSUME TypeInv, NEW s \in Slots, ForceClose(s), UNCHANGED <<sId, sFd, aborted>>
  PROVE  SlotTypeOK' /\ KernelTypeOK'
  <1>1. SlotTypeOK'
    BY DEF ForceClose, TypeInv, TypeOK, SlotTypeOK, SocketTypes
  <1>2. fdState' \in [FDs -> FdStates]
    BY DEF ForceClose, TypeInv, TypeOK, KernelTypeOK, FdStates
  <1>3. epoll' \in [FDs -> Slots \cup {NoSlot}] /\ epollOut' \subseteq FDs
    BY DEF ForceClose, TypeInv, TypeOK, KernelTypeOK
  <1> QED BY <1>1, <1>2, <1>3 DEF TypeInv, TypeOK, KernelTypeOK

\* event_fd.write keeps the types of the kernel's tables.
LEMMA EpollWriteType ==
  ASSUME TypeInv, NEW f, NEW s \in Slots, NEW b, EpollWrite(f, s, b), UNCHANGED <<fdState, aborted>>
  PROVE  KernelTypeOK'
  BY DEF EpollWrite, TypeInv, TypeOK, KernelTypeOK

\* Handling a command keeps the types.
LEMMA TypeCommand ==
  ASSUME TypeInv, CmdListen \/ CmdBind \/ CmdOpenUnresolved \/ CmdOpenExhausted \/ CmdOpen \/ CmdStartPending \/ CmdStartOther \/ CmdExit \/ CmdClose \/ CmdSend
  PROVE  TypeInv'
  <1>1. CASE CmdListen
    <2>1. pipe # <<>> /\ pipe' = Tail(pipe) /\ UNCHANGED known
      BY <1>1
      DEF CmdListen, Command, Abort
    <2>2. SlotTypeOK'
      BY <1>1, CmdType, <2>1
      DEF CmdListen, TypeInv, TypeOK, SlotTypeOK, slotVars, SocketTypes, Requests, Abort, NewSocket
    <2>3. CallTypeOK' /\ CallIdsOK'
      BY <1>1
      DEF CmdListen, TypeInv, TypeOK, CallTypeOK, CallIdsOK, callVars, Goto, Labels, Command, Abort, Continue, Answer, Result
    <2>4. PipeTypeOK' /\ PipeIdsOK'
      BY <1>1, <2>1, PipeTail
      DEF CmdListen
    <2>5. PollTypeOK'
      BY <1>1, CmdType, <2>1, IdsAreWords, ResultType
      DEF CmdListen, TypeInv, TypeOK, PollTypeOK, pollVars, Abort, Continue, Answer
    <2>6. ListenerOK'
      BY <1>1
      DEF CmdListen, TypeInv, TypeOK, CallTypeOK, ListenerOK, Reserving, pollVars, Goto, Procs, Command, Abort, Continue, Answer, Result
    <2>7. KernelTypeOK'
      BY <1>1, CmdType, <2>1
      DEF CmdListen, TypeInv, TypeOK, KernelTypeOK, kernelVars, FdStates, Aborts, Abort
    <2> QED BY <2>1, <2>2, <2>3, <2>4, <2>5, <2>6, <2>7 DEF TypeInv, TypeOK
  <1>2. CASE CmdBind
    <2>1. pipe # <<>> /\ pipe' = Tail(pipe) /\ UNCHANGED known
      BY <1>2
      DEF CmdBind, Command, Abort
    <2>2. SlotTypeOK'
      BY <1>2, CmdType, <2>1
      DEF CmdBind, TypeInv, TypeOK, SlotTypeOK, slotVars, SocketTypes, Requests, Abort, NewSocket
    <2>3. CallTypeOK' /\ CallIdsOK'
      BY <1>2
      DEF CmdBind, TypeInv, TypeOK, CallTypeOK, CallIdsOK, callVars, Goto, Labels, Command, Abort, Continue, Answer, Result
    <2>4. PipeTypeOK' /\ PipeIdsOK'
      BY <1>2, <2>1, PipeTail
      DEF CmdBind
    <2>5. PollTypeOK'
      BY <1>2, CmdType, <2>1, IdsAreWords, ResultType
      DEF CmdBind, TypeInv, TypeOK, PollTypeOK, pollVars, Abort, Continue, Answer
    <2>6. ListenerOK'
      BY <1>2
      DEF CmdBind, TypeInv, TypeOK, CallTypeOK, ListenerOK, Reserving, pollVars, Goto, Procs, Command, Abort, Continue, Answer, Result
    <2>7. KernelTypeOK'
      BY <1>2, CmdType, <2>1
      DEF CmdBind, TypeInv, TypeOK, KernelTypeOK, kernelVars, FdStates, Aborts, Abort
    <2> QED BY <2>1, <2>2, <2>3, <2>4, <2>5, <2>6, <2>7 DEF TypeInv, TypeOK
  <1>3. CASE CmdOpenUnresolved
    <2>1. pipe # <<>> /\ pipe' = Tail(pipe) /\ UNCHANGED known
      BY <1>3
      DEF CmdOpenUnresolved, Command, Abort
    <2>2. SlotTypeOK'
      BY <1>3, CmdType, <2>1
      DEF CmdOpenUnresolved, TypeInv, TypeOK, SlotTypeOK, slotVars, SocketTypes, Requests, Abort, NewSocket
    <2>3. CallTypeOK' /\ CallIdsOK'
      BY <1>3
      DEF CmdOpenUnresolved, TypeInv, TypeOK, CallTypeOK, CallIdsOK, callVars, Goto, Labels, Command, Abort, Continue, Answer, Result
    <2>4. PipeTypeOK' /\ PipeIdsOK'
      BY <1>3, <2>1, PipeTail
      DEF CmdOpenUnresolved
    <2>5. PollTypeOK'
      BY <1>3, CmdType, <2>1, IdsAreWords, ResultType
      DEF CmdOpenUnresolved, TypeInv, TypeOK, PollTypeOK, pollVars, Abort, Continue, Answer
    <2>6. ListenerOK'
      BY <1>3
      DEF CmdOpenUnresolved, TypeInv, TypeOK, CallTypeOK, ListenerOK, Reserving, pollVars, Goto, Procs, Command, Abort, Continue, Answer, Result
    <2>7. KernelTypeOK'
      BY <1>3, CmdType, <2>1
      DEF CmdOpenUnresolved, TypeInv, TypeOK, KernelTypeOK, kernelVars, FdStates, Aborts, Abort
    <2> QED BY <2>1, <2>2, <2>3, <2>4, <2>5, <2>6, <2>7 DEF TypeInv, TypeOK
  <1>4. CASE CmdOpenExhausted
    <2>1. pipe # <<>> /\ pipe' = Tail(pipe) /\ UNCHANGED known
      BY <1>4
      DEF CmdOpenExhausted, Command, Abort
    <2>2. SlotTypeOK'
      BY <1>4, CmdType, <2>1
      DEF CmdOpenExhausted, TypeInv, TypeOK, SlotTypeOK, slotVars, SocketTypes, Requests, Abort, NewSocket
    <2>3. CallTypeOK' /\ CallIdsOK'
      BY <1>4
      DEF CmdOpenExhausted, TypeInv, TypeOK, CallTypeOK, CallIdsOK, callVars, Goto, Labels, Command, Abort, Continue, Answer, Result
    <2>4. PipeTypeOK' /\ PipeIdsOK'
      BY <1>4, <2>1, PipeTail
      DEF CmdOpenExhausted
    <2>5. PollTypeOK'
      BY <1>4, CmdType, <2>1, IdsAreWords, ResultType
      DEF CmdOpenExhausted, TypeInv, TypeOK, PollTypeOK, pollVars, Abort, Continue, Answer
    <2>6. ListenerOK'
      BY <1>4
      DEF CmdOpenExhausted, TypeInv, TypeOK, CallTypeOK, ListenerOK, Reserving, pollVars, Goto, Procs, Command, Abort, Continue, Answer, Result
    <2>7. KernelTypeOK'
      BY <1>4, CmdType, <2>1
      DEF CmdOpenExhausted, TypeInv, TypeOK, KernelTypeOK, kernelVars, FdStates, Aborts, Abort
    <2> QED BY <2>1, <2>2, <2>3, <2>4, <2>5, <2>6, <2>7 DEF TypeInv, TypeOK
  <1>5. CASE CmdOpen
    <2>1. pipe # <<>> /\ pipe' = Tail(pipe) /\ UNCHANGED known
      BY <1>5
      DEF CmdOpen, Command, Abort
    <2>2. SlotTypeOK'
      BY <1>5, CmdType, <2>1
      DEF CmdOpen, TypeInv, TypeOK, SlotTypeOK, slotVars, SocketTypes, Requests, Abort, NewSocket
    <2>3. CallTypeOK' /\ CallIdsOK'
      BY <1>5
      DEF CmdOpen, TypeInv, TypeOK, CallTypeOK, CallIdsOK, callVars, Goto, Labels, Command, Abort, Continue, Answer, Result
    <2>4. PipeTypeOK' /\ PipeIdsOK'
      BY <1>5, <2>1, PipeTail
      DEF CmdOpen
    <2>5. PollTypeOK'
      BY <1>5, CmdType, <2>1, IdsAreWords, ResultType
      DEF CmdOpen, TypeInv, TypeOK, PollTypeOK, pollVars, Abort, Continue, Answer
    <2>6. ListenerOK'
      BY <1>5
      DEF CmdOpen, TypeInv, TypeOK, CallTypeOK, ListenerOK, Reserving, pollVars, Goto, Procs, Command, Abort, Continue, Answer, Result
    <2>7. KernelTypeOK'
      BY <1>5, CmdType, <2>1
      DEF CmdOpen, TypeInv, TypeOK, KernelTypeOK, kernelVars, FdStates, Aborts, Abort, WatchConnect
    <2> QED BY <2>1, <2>2, <2>3, <2>4, <2>5, <2>6, <2>7 DEF TypeInv, TypeOK
  <1>6. CASE CmdStartPending
    <2>1. pipe # <<>> /\ pipe' = Tail(pipe) /\ UNCHANGED known
      BY <1>6
      DEF CmdStartPending, Command, Abort
    <2>2. SlotTypeOK'
      BY <1>6, CmdType, <2>1
      DEF CmdStartPending, TypeInv, TypeOK, SlotTypeOK, slotVars, SocketTypes, Requests, Abort, NewSocket
    <2>3. CallTypeOK' /\ CallIdsOK'
      BY <1>6
      DEF CmdStartPending, TypeInv, TypeOK, CallTypeOK, CallIdsOK, callVars, Goto, Labels, Command, Abort, Continue, Answer, Result
    <2>4. PipeTypeOK' /\ PipeIdsOK'
      BY <1>6, <2>1, PipeTail
      DEF CmdStartPending
    <2>5. PollTypeOK'
      BY <1>6, CmdType, <2>1, IdsAreWords, ResultType
      DEF CmdStartPending, TypeInv, TypeOK, PollTypeOK, pollVars, Abort, Continue, Answer
    <2>6. ListenerOK'
      BY <1>6
      DEF CmdStartPending, TypeInv, TypeOK, CallTypeOK, ListenerOK, Reserving, pollVars, Goto, Procs, Command, Abort, Continue, Answer, Result
    <2>7. KernelTypeOK'
      BY <1>6, CmdType, <2>1
      DEF CmdStartPending, TypeInv, TypeOK, KernelTypeOK, kernelVars, FdStates, Aborts, Abort
    <2> QED BY <2>1, <2>2, <2>3, <2>4, <2>5, <2>6, <2>7 DEF TypeInv, TypeOK
  <1>7. CASE CmdStartOther
    <2>1. pipe # <<>> /\ pipe' = Tail(pipe) /\ UNCHANGED known
      BY <1>7
      DEF CmdStartOther, Command, Abort
    <2>2. SlotTypeOK'
      BY <1>7, CmdType, <2>1
      DEF CmdStartOther, TypeInv, TypeOK, SlotTypeOK, slotVars, SocketTypes, Requests, Abort, NewSocket
    <2>3. CallTypeOK' /\ CallIdsOK'
      BY <1>7
      DEF CmdStartOther, TypeInv, TypeOK, CallTypeOK, CallIdsOK, callVars, Goto, Labels, Command, Abort, Continue, Answer, Result
    <2>4. PipeTypeOK' /\ PipeIdsOK'
      BY <1>7, <2>1, PipeTail
      DEF CmdStartOther
    <2>5. PollTypeOK'
      BY <1>7, CmdType, <2>1, IdsAreWords, ResultType
      DEF CmdStartOther, TypeInv, TypeOK, PollTypeOK, pollVars, Abort, Continue, Answer
    <2>6. ListenerOK'
      BY <1>7
      DEF CmdStartOther, TypeInv, TypeOK, CallTypeOK, ListenerOK, Reserving, pollVars, Goto, Procs, Command, Abort, Continue, Answer, Result
    <2>7. KernelTypeOK'
      BY <1>7, CmdType, <2>1
      DEF CmdStartOther, TypeInv, TypeOK, KernelTypeOK, kernelVars, FdStates, Aborts, Abort
    <2> QED BY <2>1, <2>2, <2>3, <2>4, <2>5, <2>6, <2>7 DEF TypeInv, TypeOK
  <1>8. CASE CmdExit
    <2>1. pipe # <<>> /\ pipe' = Tail(pipe) /\ UNCHANGED known
      BY <1>8
      DEF CmdExit, Command, Abort
    <2>2. SlotTypeOK'
      BY <1>8, CmdType, <2>1
      DEF CmdExit, TypeInv, TypeOK, SlotTypeOK, slotVars, SocketTypes, Requests, Abort, NewSocket
    <2>3. CallTypeOK' /\ CallIdsOK'
      BY <1>8
      DEF CmdExit, TypeInv, TypeOK, CallTypeOK, CallIdsOK, callVars, Goto, Labels, Command, Abort, Continue, Answer, Result
    <2>4. PipeTypeOK' /\ PipeIdsOK'
      BY <1>8, <2>1, PipeTail
      DEF CmdExit
    <2>5. PollTypeOK'
      BY <1>8, CmdType, <2>1, IdsAreWords, ResultType
      DEF CmdExit, TypeInv, TypeOK, PollTypeOK, pollVars, Abort, Continue, Answer
    <2>6. ListenerOK'
      BY <1>8
      DEF CmdExit, TypeInv, TypeOK, CallTypeOK, ListenerOK, Reserving, pollVars, Goto, Procs, Command, Abort, Continue, Answer, Result
    <2>7. KernelTypeOK'
      BY <1>8, CmdType, <2>1
      DEF CmdExit, TypeInv, TypeOK, KernelTypeOK, kernelVars, FdStates, Aborts, Abort
    <2> QED BY <2>1, <2>2, <2>3, <2>4, <2>5, <2>6, <2>7 DEF TypeInv, TypeOK
  <1>9. CASE CmdClose
    <2>1. pipe # <<>> /\ pipe' = Tail(pipe) /\ UNCHANGED known
      BY <1>9
      DEF CmdClose, Command, Abort
    <2>2. SlotTypeOK' /\ KernelTypeOK'
      BY <1>9, <2>1, CmdType, ForceCloseType, EpollWriteType
      DEF CmdClose, TypeInv, TypeOK, SlotTypeOK, KernelTypeOK, slotVars, kernelVars, Aborts, Abort
    <2>3. CallTypeOK' /\ CallIdsOK'
      BY <1>9
      DEF CmdClose, TypeInv, TypeOK, CallTypeOK, CallIdsOK, callVars, Goto, Labels, Command, Abort, Continue, Answer, Result
    <2>4. PipeTypeOK' /\ PipeIdsOK'
      BY <1>9, <2>1, PipeTail
      DEF CmdClose
    <2>5. PollTypeOK'
      BY <1>9, CmdType, <2>1, IdsAreWords, ResultType
      DEF CmdClose, TypeInv, TypeOK, PollTypeOK, pollVars, Abort, Continue, Answer
    <2>6. ListenerOK'
      BY <1>9
      DEF CmdClose, TypeInv, TypeOK, CallTypeOK, ListenerOK, Reserving, pollVars, Goto, Procs, Command, Abort, Continue, Answer, Result
    <2> QED BY <2>1, <2>2, <2>3, <2>4, <2>5, <2>6 DEF TypeInv, TypeOK
  <1>10. CASE CmdSend
    <2>1. pipe # <<>> /\ pipe' = Tail(pipe) /\ UNCHANGED known
      BY <1>10
      DEF CmdSend, Command, Abort
    <2>2. SlotTypeOK' /\ KernelTypeOK'
      BY <1>10, <2>1, CmdType, ForceCloseType, EpollWriteType
      DEF CmdSend, TypeInv, TypeOK, SlotTypeOK, KernelTypeOK, slotVars, kernelVars, Aborts, Abort
    <2>3. CallTypeOK' /\ CallIdsOK'
      BY <1>10
      DEF CmdSend, TypeInv, TypeOK, CallTypeOK, CallIdsOK, callVars, Goto, Labels, Command, Abort, Continue, Answer, Result
    <2>4. PipeTypeOK' /\ PipeIdsOK'
      BY <1>10, <2>1, PipeTail
      DEF CmdSend
    <2>5. PollTypeOK'
      BY <1>10, CmdType, <2>1, IdsAreWords, ResultType
      DEF CmdSend, TypeInv, TypeOK, PollTypeOK, pollVars, Abort, Continue, Answer
    <2>6. ListenerOK'
      BY <1>10
      DEF CmdSend, TypeInv, TypeOK, CallTypeOK, ListenerOK, Reserving, pollVars, Goto, Procs, Command, Abort, Continue, Answer, Result
    <2> QED BY <2>1, <2>2, <2>3, <2>4, <2>5, <2>6 DEF TypeInv, TypeOK
  <1> QED BY <1>1, <1>2, <1>3, <1>4, <1>5, <1>6, <1>7, <1>8, <1>9, <1>10

\* Every event epoll_wait fills in is well typed.
LEMMA EventForType ==
  ASSUME TypeInv, NEW f \in Reportable, NEW rw \in BOOLEAN \X BOOLEAN
  PROVE  EventFor(f, rw) \in Events
  <1>1. f = NoFd \/ (f \in FDs /\ epoll[f] \in Slots /\ sId[epoll[f]] \in Ids)
    BY DEF Reportable, TypeInv, TypeOK, KernelTypeOK, SlotTypeOK
  <1>2. rw[1] \in BOOLEAN /\ rw[2] \in BOOLEAN
    OBVIOUS
  <1> QED BY <1>1, <1>2, IdsAreWords DEF EventFor, Events

\* Updating an event of the batch in place keeps it a batch of events.
LEMMA BatchUpdateType ==
  ASSUME TypeInv
  PROVE  /\ batch # <<>> => [batch EXCEPT ![1].read = FALSE] \in Seq(Events)
         /\ [i \in 1 .. Len(batch) |->
              IF Cleared(batch[i]) THEN [batch[i] EXCEPT !.slot = NoSlot] ELSE batch[i]] \in Seq(Events)
  <1>1. batch \in Seq(Events) /\ Len(batch) \in Nat /\ batch \in [1 .. Len(batch) -> Events]
    BY DEF TypeInv, TypeOK, PollTypeOK
  <1>2. ASSUME NEW e \in Events
        PROVE  [e EXCEPT !.read = FALSE] \in Events /\ [e EXCEPT !.slot = NoSlot] \in Events
    BY DEF Events
  <1>3. \A n \in Nat : \A b \in [1 .. n -> Events] : b \in Seq(Events)
    OBVIOUS
  <1>4. ASSUME batch # <<>> PROVE [batch EXCEPT ![1].read = FALSE] \in [1 .. Len(batch) -> Events]
    BY <1>1, <1>2, <1>4
  <1>5. [i \in 1 .. Len(batch) |->
          IF Cleared(batch[i]) THEN [batch[i] EXCEPT !.slot = NoSlot] ELSE batch[i]]
             \in [1 .. Len(batch) -> Events]
    BY <1>1, <1>2
  <1> QED BY <1>1, <1>3, <1>4, <1>5

\* Any other step of the poll thread keeps the types.
LEMMA TypeEvent ==
  ASSUME TypeInv, PollEnter \/ NoCommand \/ Wait \/ WaitInterrupted \/ EventDrop \/ EventConnect \/ EventAccept \/ AcceptFill \/ EventRead \/ EventWrite \/ ClearClosedEvent \/ Return
  PROVE  TypeInv'
  <1>1. CASE PollEnter
    <2>1. SlotTypeOK'
      BY <1>1
      DEF PollEnter, TypeInv, TypeOK, SlotTypeOK, slotVars
    <2>2. CallTypeOK' /\ CallIdsOK'
      BY <1>1
      DEF PollEnter, TypeInv, TypeOK, CallTypeOK, CallIdsOK, callVars, Goto, Labels
    <2>3. PipeTypeOK' /\ PipeIdsOK'
      BY <1>1
      DEF PollEnter, TypeInv, TypeOK, PipeTypeOK, PipeIdsOK
    <2>4. PollTypeOK'
      BY <1>1
      DEF PollEnter, TypeInv, TypeOK, PollTypeOK, pollVars
    <2>5. ListenerOK'
      BY <1>1
      DEF PollEnter, TypeInv, TypeOK, CallTypeOK, ListenerOK, Reserving, pollVars, Goto, Procs
    <2>6. KernelTypeOK'
      BY <1>1
      DEF PollEnter, TypeInv, TypeOK, KernelTypeOK, kernelVars
    <2> QED BY <2>1, <2>2, <2>3, <2>4, <2>5, <2>6 DEF TypeInv, TypeOK
  <1>2. CASE NoCommand
    <2>1. SlotTypeOK'
      BY <1>2
      DEF NoCommand, TypeInv, TypeOK, SlotTypeOK, slotVars
    <2>2. CallTypeOK' /\ CallIdsOK'
      BY <1>2
      DEF NoCommand, TypeInv, TypeOK, CallTypeOK, CallIdsOK, callVars, Goto
    <2>3. PipeTypeOK' /\ PipeIdsOK'
      BY <1>2
      DEF NoCommand, TypeInv, TypeOK, PipeTypeOK, PipeIdsOK
    <2>4. PollTypeOK'
      BY <1>2
      DEF NoCommand, TypeInv, TypeOK, PollTypeOK, pollVars
    <2>5. ListenerOK'
      BY <1>2
      DEF NoCommand, TypeInv, TypeOK, CallTypeOK, ListenerOK, Reserving, pollVars, Goto, Procs
    <2>6. KernelTypeOK'
      BY <1>2
      DEF NoCommand, TypeInv, TypeOK, KernelTypeOK, kernelVars
    <2> QED BY <2>1, <2>2, <2>3, <2>4, <2>5, <2>6 DEF TypeInv, TypeOK
  <1>3. CASE Wait
    <2>1. SlotTypeOK'
      BY <1>3
      DEF Wait, TypeInv, TypeOK, SlotTypeOK, slotVars
    <2>2. CallTypeOK' /\ CallIdsOK'
      BY <1>3
      DEF Wait, TypeInv, TypeOK, CallTypeOK, CallIdsOK, callVars, Goto, Labels
    <2>3. PipeTypeOK' /\ PipeIdsOK'
      BY <1>3
      DEF Wait, TypeInv, TypeOK, PipeTypeOK, PipeIdsOK
    <2>4. batch' \in Seq(Events)
      BY <1>3, EventForType
      DEF Wait
    <2>5. PollTypeOK'
      BY <1>3, <2>4
      DEF Wait, TypeInv, TypeOK, PollTypeOK, pollVars, CheckAfterWait
    <2>6. ListenerOK'
      BY <1>3
      DEF Wait, TypeInv, TypeOK, CallTypeOK, ListenerOK, Reserving, pollVars, Goto, Procs
    <2>7. KernelTypeOK'
      BY <1>3
      DEF Wait, TypeInv, TypeOK, KernelTypeOK, kernelVars
    <2> QED BY <2>1, <2>2, <2>3, <2>4, <2>5, <2>6, <2>7 DEF TypeInv, TypeOK
  <1>4. CASE WaitInterrupted
    <2>1. SlotTypeOK'
      BY <1>4
      DEF WaitInterrupted, TypeInv, TypeOK, SlotTypeOK, slotVars
    <2>2. CallTypeOK' /\ CallIdsOK'
      BY <1>4
      DEF WaitInterrupted, TypeInv, TypeOK, CallTypeOK, CallIdsOK, callVars, Goto, Labels
    <2>3. PipeTypeOK' /\ PipeIdsOK'
      BY <1>4
      DEF WaitInterrupted, TypeInv, TypeOK, PipeTypeOK, PipeIdsOK
    <2>4. PollTypeOK'
      BY <1>4
      DEF WaitInterrupted, TypeInv, TypeOK, PollTypeOK, pollVars, CheckAfterWait
    <2>5. ListenerOK'
      BY <1>4
      DEF WaitInterrupted, TypeInv, TypeOK, CallTypeOK, ListenerOK, Reserving, pollVars, Goto, Procs
    <2>6. KernelTypeOK'
      BY <1>4
      DEF WaitInterrupted, TypeInv, TypeOK, KernelTypeOK, kernelVars
    <2> QED BY <2>1, <2>2, <2>3, <2>4, <2>5, <2>6 DEF TypeInv, TypeOK
  <1>5. CASE EventDrop
    <2>1. SlotTypeOK'
      BY <1>5
      DEF EventDrop, TypeInv, TypeOK, SlotTypeOK, slotVars
    <2>2. CallTypeOK' /\ CallIdsOK'
      BY <1>5
      DEF EventDrop, TypeInv, TypeOK, CallTypeOK, CallIdsOK, callVars, Goto, Labels, Loop
    <2>3. PipeTypeOK' /\ PipeIdsOK'
      BY <1>5
      DEF EventDrop, TypeInv, TypeOK, PipeTypeOK, PipeIdsOK
    <2>4. PollTypeOK'
      BY <1>5, EvType
      DEF EventDrop, TypeInv, TypeOK, PollTypeOK, pollVars, Loop
    <2>5. ListenerOK'
      BY <1>5
      DEF EventDrop, TypeInv, TypeOK, CallTypeOK, ListenerOK, Reserving, pollVars, Goto, Procs, Loop
    <2>6. KernelTypeOK'
      BY <1>5
      DEF EventDrop, TypeInv, TypeOK, KernelTypeOK, kernelVars
    <2> QED BY <2>1, <2>2, <2>3, <2>4, <2>5, <2>6 DEF TypeInv, TypeOK
  <1>6. CASE EventConnect
    <2>1. Ev.slot \in Slots /\ batch # <<>> /\ Tail(batch) \in Seq(Events)
      BY <1>6, EvType
      DEF EventConnect, Event, Events
    <2>2. SlotTypeOK' /\ KernelTypeOK'
      BY <1>6, <2>1, ForceCloseType, EpollWriteType
      DEF EventConnect, TypeInv, TypeOK, SlotTypeOK, SocketTypes
    <2>3. sId[Ev.slot] \in Ids
      BY <1>6, <2>1
      DEF EventConnect, TypeInv, TypeOK, SlotTypeOK
    <2>4. CallTypeOK' /\ CallIdsOK'
      BY <1>6
      DEF EventConnect, TypeInv, TypeOK, CallTypeOK, CallIdsOK, callVars, Goto, Labels, Event, Loop
    <2>5. PipeTypeOK' /\ PipeIdsOK'
      BY <1>6
      DEF EventConnect, TypeInv, TypeOK, PipeTypeOK, PipeIdsOK
    <2>6. PollTypeOK'
      BY <1>6, <2>1, <2>3, ResultType
      DEF EventConnect, TypeInv, TypeOK, PollTypeOK, pollVars
    <2>7. ListenerOK'
      BY <1>6
      DEF EventConnect, TypeInv, TypeOK, CallTypeOK, ListenerOK, Reserving, pollVars, Goto, Procs, Event, Loop
    <2> QED BY <2>1, <2>2, <2>3, <2>4, <2>5, <2>6, <2>7 DEF TypeInv, TypeOK
  <1>7. CASE EventAccept
    <2>1. Ev.slot \in Slots /\ batch # <<>> /\ Tail(batch) \in Seq(Events)
      BY <1>7, EvType
      DEF EventAccept, Event, Events
    <2>2. SlotTypeOK'
      BY <1>7
      DEF EventAccept, TypeInv, TypeOK, SlotTypeOK, slotVars
    <2>3. CallTypeOK' /\ CallIdsOK'
      BY <1>7, IdsAreWords, SlotAssumption
      DEF EventAccept, TypeInv, TypeOK, CallTypeOK, CallIdsOK, callVars, Goto, Labels, Requests, Loop, StartReserve, Words, Procs, Ids
    <2>4. PipeTypeOK' /\ PipeIdsOK'
      BY <1>7
      DEF EventAccept, TypeInv, TypeOK, PipeTypeOK, PipeIdsOK, StartReserve, Loop
    <2>5. PollTypeOK'
      BY <1>7, <2>1
      DEF EventAccept, TypeInv, TypeOK, PollTypeOK, pollVars, Loop
    <2>6. ListenerOK'
      BY <1>7, <2>1
      DEF EventAccept, TypeInv, TypeOK, CallTypeOK, ListenerOK, Reserving, pollVars, Goto, Procs, Loop, StartReserve
    <2>7. KernelTypeOK'
      BY <1>7
      DEF EventAccept, TypeInv, TypeOK, KernelTypeOK, kernelVars, FdStates
    <2> QED BY <2>1, <2>2, <2>3, <2>4, <2>5, <2>6, <2>7 DEF TypeInv, TypeOK
  <1>8. CASE AcceptFill
    <2>1. request[Poller].id \in Ids /\ request[Poller].fd \in FDs \cup {NoFd} /\ HASH_ID(request[Poller].id) \in Slots /\ listener \in Slots
      BY <1>8, HashRange, IdsAreWords
      DEF AcceptFill, TypeInv, TypeOK, CallTypeOK, CallIdsOK, ListenerOK, Reserving, Procs, Requests
    <2>2. SlotTypeOK'
      BY <1>8, <2>1
      DEF AcceptFill, TypeInv, TypeOK, SlotTypeOK, slotVars, SocketTypes, Abort
    <2>3. CallTypeOK' /\ CallIdsOK'
      BY <1>8, IdsAreWords, SlotAssumption
      DEF AcceptFill, TypeInv, TypeOK, CallTypeOK, CallIdsOK, callVars, Goto, Labels, Requests, NoRequest, Abort, Procs, Ids, Words
    <2>4. PipeTypeOK' /\ PipeIdsOK'
      BY <1>8
      DEF AcceptFill, TypeInv, TypeOK, PipeTypeOK, PipeIdsOK, Abort
    <2>5. PollTypeOK'
      BY <1>8, <2>1
      DEF AcceptFill, TypeInv, TypeOK, PollTypeOK, pollVars, Abort, AcceptMessage, Result, Results, SlotTypeOK
    <2>6. ListenerOK'
      BY <1>8
      DEF AcceptFill, TypeInv, TypeOK, CallTypeOK, ListenerOK, Reserving, pollVars, Goto, Procs, Abort
    <2>7. KernelTypeOK'
      BY <1>8
      DEF AcceptFill, TypeInv, TypeOK, KernelTypeOK, kernelVars, Abort, Aborts
    <2> QED BY <2>1, <2>2, <2>3, <2>4, <2>5, <2>6, <2>7 DEF TypeInv, TypeOK
  <1>9. CASE EventRead
    <2>1. Ev.slot \in Slots /\ batch # <<>> /\ Tail(batch) \in Seq(Events)
      BY <1>9, EvType
      DEF EventRead, Event, Events
    <2>2. SlotTypeOK' /\ KernelTypeOK'
      BY <1>9, <2>1, ForceCloseType
      DEF EventRead, TypeInv, TypeOK, SlotTypeOK, KernelTypeOK, kernelVars, Aborts
    <2>3. CallTypeOK' /\ CallIdsOK'
      BY <1>9
      DEF EventRead, TypeInv, TypeOK, CallTypeOK, CallIdsOK, callVars, Goto, Labels, Loop, Answer, Result
    <2>4. PipeTypeOK' /\ PipeIdsOK'
      BY <1>9
      DEF EventRead, TypeInv, TypeOK, PipeTypeOK, PipeIdsOK
    <2>5. [batch EXCEPT ![1].read = FALSE] \in Seq(Events)
      BY <1>9, <2>1, BatchUpdateType
      DEF EventRead
    <2>6. PollTypeOK'
      BY <1>9, <2>1, <2>5, ResultType
      DEF EventRead, TypeInv, TypeOK, PollTypeOK, pollVars, SlotTypeOK, Loop, Answer
    <2>7. ListenerOK'
      BY <1>9
      DEF EventRead, TypeInv, TypeOK, CallTypeOK, ListenerOK, Reserving, pollVars, Goto, Procs, Loop, Answer, Result
    <2> QED BY <2>1, <2>2, <2>3, <2>4, <2>5, <2>6, <2>7 DEF TypeInv, TypeOK
  <1>10. CASE EventWrite
    <2>1. Ev.slot \in Slots /\ batch # <<>> /\ Tail(batch) \in Seq(Events)
      BY <1>10, EvType
      DEF EventWrite, Event, Events
    <2>2. SlotTypeOK'
      BY <1>10
      DEF EventWrite, TypeInv, TypeOK, SlotTypeOK, slotVars
    <2>3. CallTypeOK' /\ CallIdsOK'
      BY <1>10
      DEF EventWrite, TypeInv, TypeOK, CallTypeOK, CallIdsOK, callVars, Goto, Labels, Event, Loop
    <2>4. PipeTypeOK' /\ PipeIdsOK'
      BY <1>10
      DEF EventWrite, TypeInv, TypeOK, PipeTypeOK, PipeIdsOK
    <2>5. PollTypeOK'
      BY <1>10, <2>1
      DEF EventWrite, TypeInv, TypeOK, PollTypeOK, pollVars, Loop
    <2>6. ListenerOK'
      BY <1>10
      DEF EventWrite, TypeInv, TypeOK, CallTypeOK, ListenerOK, Reserving, pollVars, Goto, Procs, Event, Loop
    <2>7. KernelTypeOK'
      BY <1>10, <2>1, EpollWriteType
      DEF EventWrite
    <2> QED BY <2>1, <2>2, <2>3, <2>4, <2>5, <2>6, <2>7 DEF TypeInv, TypeOK
  <1>11. CASE ClearClosedEvent
    <2>1. SlotTypeOK'
      BY <1>11
      DEF ClearClosedEvent, TypeInv, TypeOK, SlotTypeOK, slotVars
    <2>2. CallTypeOK' /\ CallIdsOK'
      BY <1>11
      DEF ClearClosedEvent, TypeInv, TypeOK, CallTypeOK, CallIdsOK, callVars, Goto, Labels
    <2>3. PipeTypeOK' /\ PipeIdsOK'
      BY <1>11
      DEF ClearClosedEvent, TypeInv, TypeOK, PipeTypeOK, PipeIdsOK
    <2>4. batch' \in Seq(Events)
      BY <1>11, BatchUpdateType
      DEF ClearClosedEvent
    <2>5. PollTypeOK'
      BY <1>11, <2>4
      DEF ClearClosedEvent, TypeInv, TypeOK, PollTypeOK, pollVars
    <2>6. ListenerOK'
      BY <1>11
      DEF ClearClosedEvent, TypeInv, TypeOK, CallTypeOK, ListenerOK, Reserving, pollVars, Goto, Procs
    <2>7. KernelTypeOK'
      BY <1>11
      DEF ClearClosedEvent, TypeInv, TypeOK, KernelTypeOK, kernelVars
    <2> QED BY <2>1, <2>2, <2>3, <2>4, <2>5, <2>6, <2>7 DEF TypeInv, TypeOK
  <1>12. CASE Return
    <2>1. SlotTypeOK'
      BY <1>12
      DEF Return, TypeInv, TypeOK, SlotTypeOK, slotVars
    <2>2. CallTypeOK' /\ CallIdsOK'
      BY <1>12
      DEF Return, TypeInv, TypeOK, CallTypeOK, CallIdsOK, callVars, Goto, Labels
    <2>3. PipeTypeOK' /\ PipeIdsOK'
      BY <1>12
      DEF Return, TypeInv, TypeOK, PipeTypeOK, PipeIdsOK, PollTypeOK, Results
    <2>4. PollTypeOK'
      BY <1>12, IdsAreWords
      DEF Return, TypeInv, TypeOK, PollTypeOK, pollVars, NoResult, Result, Results
    <2>5. ListenerOK'
      BY <1>12
      DEF Return, TypeInv, TypeOK, CallTypeOK, ListenerOK, Reserving, pollVars, Goto, Procs
    <2>6. KernelTypeOK'
      BY <1>12
      DEF Return, TypeInv, TypeOK, KernelTypeOK, kernelVars
    <2> QED BY <2>1, <2>2, <2>3, <2>4, <2>5, <2>6 DEF TypeInv, TypeOK
  <1> QED BY <1>1, <1>2, <1>3, <1>4, <1>5, <1>6, <1>7, <1>8, <1>9, <1>10, <1>11, <1>12

\* A connection that is established or refused keeps the types.
LEMMA TypeKernel == ASSUME TypeInv, NEW f \in FDs, Connected(f) PROVE TypeInv'
  <1>1. SlotTypeOK' /\ CallTypeOK' /\ PipeTypeOK' /\ PollTypeOK'
    BY DEF Connected, TypeInv, TypeOK, SlotTypeOK, CallTypeOK, PipeTypeOK, PollTypeOK, slotVars, callVars, pollVars
  <1>2. KernelTypeOK'
    BY DEF Connected, TypeInv, TypeOK, KernelTypeOK, FdStates
  <1>3. CallIdsOK' /\ PipeIdsOK' /\ ListenerOK'
    BY DEF Connected, TypeInv, CallIdsOK, PipeIdsOK, ListenerOK, callVars, pollVars
  <1> QED BY <1>1, <1>2, <1>3 DEF TypeInv, TypeOK

\* Every step of the gate server keeps the types.
LEMMA TypeStep == TypeInv /\ [Next]_vars => TypeInv'
  <1> SUFFICES ASSUME TypeInv, [Next]_vars PROVE TypeInv'
    OBVIOUS
  <1>1. CASE \E t \in Threads : Call(t) \/ AppStep(t)
    BY <1>1, TypeCall, TypeReserve DEF Call, AppStep, Reserve, Procs
  <1>2. CASE PollStep \/ WaitInterrupted
    <2>1. CASE Reserve(Poller) \/ ReserveFull(Poller)
      BY <2>1, TypeReserve DEF Reserve, Procs
    <2>2. CASE CtrlCmd
      BY <2>2, TypeCommand DEF CtrlCmd
    <2>3. CASE Poll \/ WaitInterrupted
      BY <2>2, <2>3, TypeEvent DEF Poll, HandleEvent
    <2> QED BY <1>2, <2>1, <2>2, <2>3 DEF PollStep
  <1>3. CASE \E f \in FDs : Connected(f)
    BY <1>3, TypeKernel
  <1>4. CASE UNCHANGED vars
    <2>1. SlotTypeOK' /\ CallTypeOK' /\ PipeTypeOK' /\ PollTypeOK' /\ KernelTypeOK'
      BY <1>4 DEF TypeInv, TypeOK, SlotTypeOK, CallTypeOK, PipeTypeOK, PollTypeOK, KernelTypeOK,
         vars, slotVars, callVars, pollVars, kernelVars
    <2>2. CallIdsOK' /\ PipeIdsOK' /\ ListenerOK'
      BY <1>4 DEF TypeInv, CallIdsOK, PipeIdsOK, ListenerOK, vars, callVars, pollVars
    <2> QED BY <2>1, <2>2 DEF TypeInv, TypeOK
  <1> QED BY <1>1, <1>2, <1>3, <1>4 DEF Next

\* Every variable keeps its type; in particular every id written to a slot, a
\* command or a message is non-negative, however alloc_id wraps around.
THEOREM TypeCorrect == Spec => []TypeOK
  <1>1. TypeInv => TypeOK
    BY DEF TypeInv
  <1> QED BY <1>1, TypeInit, TypeStep, PTL DEF Spec

-----------------------------------------------------------------------------
(* Reservations *)

\* new_socket's assertion needs its slot to be RESERVE when a command or an
\* accepted connection reaches it. That is inductive together with the
\* uniqueness of owners: filling one owner's slot must not take another's.
ReservationInv == TypeInv /\ ReservationOwned /\ NewSocketAssert

\* Owners own slots.
LEMMA SlotsOfOwners ==
  ASSUME TypeInv
  PROVE  /\ \A p \in Procs : HeldSlot(p) \in Slots
         /\ \A k \in 1 .. Len(pipe) : CarriedSlot(k) \in Slots
  <1>1. \A p \in Procs : request[p].id \in Words
    BY DEF TypeInv, TypeOK, CallTypeOK, Requests
  <1>2. \A k \in 1 .. Len(pipe) : pipe[k].id \in Words
    BY IdsAreWords DEF TypeInv, PipeIdsOK
  <1> QED BY <1>1, <1>2, HashRange DEF HeldSlot, CarriedSlot

\* A step that adds no owner and takes no reserved slot away.
LEMMA OwnersKept ==
  ASSUME ReservationOwned, UNCHANGED pipe,
         \A p \in Procs : Holds(p)' => Holds(p) /\ request'[p].id = request[p].id,
         \A p \in Procs : Holds(p)' /\ sType[HeldSlot(p)] = "RESERVE" => sType'[HeldSlot(p)] = "RESERVE",
         \A k \in 1 .. Len(pipe) :
           Carries(k) /\ sType[CarriedSlot(k)] = "RESERVE" => sType'[CarriedSlot(k)] = "RESERVE"
  PROVE  ReservationOwned'
  <1>1. \A p \in Procs : Holds(p)' => Holds(p) /\ HeldSlot(p)' = HeldSlot(p)
    BY DEF HeldSlot
  <1>2. \A k : Carries(k)' = Carries(k) /\ CarriedSlot(k)' = CarriedSlot(k)
    BY DEF Carries, CarriedSlot
  <1>3. ClaimIsReserved'
    BY <1>1, <1>2 DEF ReservationOwned, ClaimIsReserved
  <1>4. ClaimIsUnique'
    BY <1>1, <1>2 DEF ReservationOwned, ClaimIsUnique
  <1> QED BY <1>3, <1>4 DEF ReservationOwned

\* A command is taken off the pipe: only the slot it carries may change hands.
LEMMA OwnersPopped ==
  ASSUME TypeInv, ReservationOwned, pipe # <<>>, pipe' = Tail(pipe), UNCHANGED request,
         \A p \in Procs : Holds(p)' => Holds(p),
         \A s \in Slots : sType[s] = "RESERVE" /\ sType'[s] # "RESERVE"
                           => Carries(1) /\ s = CarriedSlot(1)
  PROVE  ReservationOwned'
  <1>1. \A p \in Procs : Holds(p)' => Holds(p) /\ HeldSlot(p)' = HeldSlot(p)
    BY DEF HeldSlot
  <1>2. \A k \in 1 .. Len(pipe') : k + 1 \in 2 .. Len(pipe) /\ pipe'[k] = pipe[k + 1]
    BY DEF TypeInv, TypeOK, PipeTypeOK
  <1>3. \A k \in 1 .. Len(pipe') :
          /\ k + 1 \in 1 .. Len(pipe) /\ k + 1 # 1
          /\ Carries(k)' => Carries(k + 1) /\ CarriedSlot(k)' = CarriedSlot(k + 1)
    BY <1>2 DEF Carries, CarriedSlot
  <1>4. 1 \in 1 .. Len(pipe)
    BY DEF TypeInv, TypeOK, PipeTypeOK
  <1>5. /\ \A p \in Procs : Holds(p) => HeldSlot(p) \in Slots
        /\ \A k \in 1 .. Len(pipe) : Carries(k) => CarriedSlot(k) \in Slots
    BY SlotsOfOwners
  <1>6. ASSUME NEW p \in Procs, Holds(p)' PROVE sType'[HeldSlot(p)'] = "RESERVE"
    BY <1>1, <1>4, <1>5, <1>6 DEF ReservationOwned, ClaimIsReserved, ClaimIsUnique
  <1>7. ASSUME NEW k \in 1 .. Len(pipe'), Carries(k)' PROVE sType'[CarriedSlot(k)'] = "RESERVE"
    <2>1. Carries(k + 1) /\ sType[CarriedSlot(k + 1)] = "RESERVE" /\ CarriedSlot(k + 1) \in Slots
      BY <1>3, <1>5, <1>7 DEF ReservationOwned, ClaimIsReserved
    <2>2. ~(Carries(1) /\ CarriedSlot(k + 1) = CarriedSlot(1))
      BY <1>3, <1>4, <2>1 DEF ReservationOwned, ClaimIsUnique
    <2> QED BY <1>3, <1>7, <2>1, <2>2
  <1>8. ClaimIsReserved'
    BY <1>6, <1>7 DEF ClaimIsReserved
  <1>9. \A p, q \in Procs : Holds(p)' /\ Holds(q)' /\ HeldSlot(p)' = HeldSlot(q)' => p = q
    BY <1>1 DEF ReservationOwned, ClaimIsUnique
  <1>10. \A p \in Procs : \A k \in 1 .. Len(pipe') :
           Holds(p)' /\ Carries(k)' => HeldSlot(p)' # CarriedSlot(k)'
    BY <1>1, <1>3 DEF ReservationOwned, ClaimIsUnique
  <1>11. \A j, k \in 1 .. Len(pipe') :
           Carries(j)' /\ Carries(k)' /\ CarriedSlot(j)' = CarriedSlot(k)' => j = k
    <2> SUFFICES ASSUME NEW j \in 1 .. Len(pipe'), NEW k \in 1 .. Len(pipe'),
                        Carries(j)', Carries(k)', CarriedSlot(j)' = CarriedSlot(k)'
                 PROVE  j = k
      OBVIOUS
    <2>1. j + 1 = k + 1
      BY <1>3 DEF ReservationOwned, ClaimIsUnique
    <2> QED BY <2>1
  <1> QED BY <1>8, <1>9, <1>10, <1>11 DEF ReservationOwned, ClaimIsUnique

\* reserve_id: a thread becomes an owner by a compare-and-swap that finds the
\* slot INVALID, so nobody else owns that slot.
LEMMA OwnedReserve ==
  ASSUME ReservationInv, NEW p \in Procs, Reserve(p) \/ ReserveFull(p)
  PROVE  ReservationOwned' /\ NewSocketAssert'
  <1> USE DEF ReservationInv
  <1>0. request \in [Procs -> Requests] /\ pc \in [Procs -> Labels] /\ sType \in [Slots -> SocketTypes]
    BY DEF TypeInv, TypeOK, CallTypeOK, SlotTypeOK
  <1>1. CASE ReserveAdd(p) \/ ReserveMask(p) \/ ReserveLook(p) \/ ReserveFull(p)
    <2>1. UNCHANGED <<sType, pipe, aborted>>
      BY <1>1 DEF ReserveAdd, ReserveMask, ReserveLook, ReserveFull, slotVars
    <2>2. \A q \in Procs : Holds(q)' => Holds(q) /\ request'[q].id = request[q].id
      BY <1>0, <1>1 DEF ReserveAdd, ReserveMask, ReserveLook, ReserveFull, Holds, Goto
    <2> QED BY <2>1, <2>2, OwnersKept DEF NewSocketAssert
  <1>2. CASE ReserveCas(p)
    <2> DEFINE s == HASH_ID(request[p].id)
    <2>1. CASE ~CasSucceeds(s)
      <3>1. UNCHANGED <<sType, pipe, aborted, request>>
        BY <1>2, <2>1 DEF ReserveCas, callVars
      <3>2. \A q \in Procs : Holds(q)' => Holds(q)
        BY <1>0, <1>2, <2>1, <3>1 DEF ReserveCas, Holds, Goto
      <3> QED BY <3>1, <3>2, OwnersKept DEF NewSocketAssert
    <2>2. CASE CasSucceeds(s)
      <3>1. /\ sType[s] = "INVALID" /\ sType' = [sType EXCEPT ![s] = "RESERVE"]
            /\ UNCHANGED <<pipe, request, aborted>>
        BY <1>2, <2>2 DEF ReserveCas, CasSucceeds, callVars
      <3>2. /\ \A q \in Procs : Holds(q)' => q = p \/ Holds(q)
            /\ \A q \in Procs : HeldSlot(q)' = HeldSlot(q)
        BY <1>0, <1>2, <3>1 DEF ReserveCas, Holds, HeldSlot, Goto
      <3>3. \A k : Carries(k)' = Carries(k) /\ CarriedSlot(k)' = CarriedSlot(k)
        BY <3>1 DEF Carries, CarriedSlot
      <3>4. /\ \A q \in Procs : Holds(q) => HeldSlot(q) # s
            /\ \A k \in 1 .. Len(pipe) : Carries(k) => CarriedSlot(k) # s
        BY <3>1 DEF ReservationOwned, ClaimIsReserved
      <3>5. HeldSlot(p) = s /\ s \in Slots
        BY <1>0, HashRange DEF HeldSlot, Requests
      <3>6. ClaimIsReserved'
        BY <1>0, <3>1, <3>2, <3>3, <3>4, <3>5 DEF ReservationOwned, ClaimIsReserved
      <3>7. ClaimIsUnique'
        BY <3>1, <3>2, <3>3, <3>4, <3>5 DEF ReservationOwned, ClaimIsUnique
      <3> QED BY <3>1, <3>6, <3>7 DEF ReservationOwned, NewSocketAssert
    <2> QED BY <2>1, <2>2
  <1>3. CASE ReserveSetId(p) \/ ReserveSetFd(p)
    <2>1. UNCHANGED <<sType, pipe, aborted, request>>
      BY <1>3 DEF ReserveSetId, ReserveSetFd, callVars
    <2>2. \A q \in Procs : Holds(q)' => Holds(q)
      BY <1>0, <1>3, <2>1 DEF ReserveSetId, ReserveSetFd, Holds, Goto
    <2> QED BY <2>1, <2>2, OwnersKept DEF NewSocketAssert
  <1> QED BY <1>1, <1>2, <1>3 DEF Reserve

\* The other steps of a call: SendRequest hands the slot over to the pipe.
LEMMA OwnedCall ==
  ASSUME ReservationInv, NEW t \in Threads, Call(t) \/ SendRequest(t)
  PROVE  ReservationOwned' /\ NewSocketAssert'
  <1> USE DEF ReservationInv
  <1>0. /\ request \in [Procs -> Requests] /\ pc \in [Procs -> Labels]
        /\ pipe \in Seq(Requests) /\ t \in Procs
    BY DEF TypeInv, TypeOK, CallTypeOK, PipeTypeOK, Procs
  <1>1. CASE ServerListen(t) \/ ServerBind(t) \/ ServerConnect(t)
    <2>1. UNCHANGED <<sType, pipe, aborted>>
      BY <1>1 DEF ServerListen, ServerBind, ServerConnect, slotVars
    <2>2. \A q \in Procs : Holds(q)' => Holds(q) /\ request'[q].id = request[q].id
      BY <1>0, <1>1 DEF ServerListen, ServerBind, ServerConnect, StartReserve, Holds, Goto
    <2> QED BY <2>1, <2>2, OwnersKept DEF NewSocketAssert
  <1>2. CASE ServerCommand(t) \/ ServerSend(t)
    <2>1. UNCHANGED <<sType, pipe, aborted>>
      BY <1>2 DEF ServerCommand, ServerSend, slotVars
    <2>2. \A q \in Procs : Holds(q)' => Holds(q) /\ request'[q].id = request[q].id
      BY <1>0, <1>2 DEF ServerCommand, ServerSend, Holds, Goto, OpenCommands
    <2> QED BY <2>1, <2>2, OwnersKept DEF NewSocketAssert
  <1>3. CASE SendRequest(t)
    <2>1. /\ UNCHANGED <<sType, aborted>> /\ pipe' = Append(pipe, request[t])
          /\ pc[t] = "write" /\ pc' = [pc EXCEPT ![t] = "idle"]
          /\ request' = [request EXCEPT ![t] = NoRequest]
      BY <1>3 DEF SendRequest, slotVars, Goto
    <2>2. \A q \in Procs : Holds(q)' => q # t /\ Holds(q) /\ HeldSlot(q)' = HeldSlot(q)
      BY <1>0, <2>1 DEF Holds, HeldSlot
    <2>3. /\ Len(pipe') = Len(pipe) + 1 /\ Len(pipe) \in Nat
          /\ \A k \in 1 .. Len(pipe) : pipe'[k] = pipe[k]
          /\ pipe'[Len(pipe) + 1] = request[t]
      BY <1>0, <2>1
    <2>4. \A k \in 1 .. Len(pipe') : Carries(k)' =>
            \/ k \in 1 .. Len(pipe) /\ Carries(k) /\ CarriedSlot(k)' = CarriedSlot(k)
            \/ k = Len(pipe) + 1 /\ Holds(t) /\ CarriedSlot(k)' = HeldSlot(t)
      BY <2>1, <2>3 DEF Carries, CarriedSlot, Holds, HeldSlot
    <2>5. ClaimIsReserved'
      BY <1>0, <2>1, <2>2, <2>4 DEF ReservationOwned, ClaimIsReserved
    <2>6. \A p, q \in Procs : Holds(p)' /\ Holds(q)' /\ HeldSlot(p)' = HeldSlot(q)' => p = q
      BY <2>2 DEF ReservationOwned, ClaimIsUnique
    <2>7. \A p \in Procs : \A k \in 1 .. Len(pipe') :
            Holds(p)' /\ Carries(k)' => HeldSlot(p)' # CarriedSlot(k)'
      BY <1>0, <2>2, <2>4 DEF ReservationOwned, ClaimIsUnique
    <2>8. \A j, k \in 1 .. Len(pipe') :
            Carries(j)' /\ Carries(k)' /\ CarriedSlot(j)' = CarriedSlot(k)' => j = k
      BY <1>0, <2>4 DEF ReservationOwned, ClaimIsUnique
    <2>9. ClaimIsUnique'
      BY <2>6, <2>7, <2>8 DEF ClaimIsUnique
    <2> QED BY <2>1, <2>5, <2>9 DEF ReservationOwned, NewSocketAssert
  <1> QED BY <1>1, <1>2, <1>3 DEF Call

\* Steps of the poll thread that handle no command take no reserved slot, and
\* report_accept fills the one it owns.
LEMMA OwnedPoll ==
  ASSUME ReservationInv,
         PollEnter \/ NoCommand \/ Wait \/ WaitInterrupted \/ HandleEvent
           \/ AcceptFill \/ ClearClosedEvent \/ Return
  PROVE  ReservationOwned' /\ NewSocketAssert'
  <1> USE DEF ReservationInv
  <1>0. /\ request \in [Procs -> Requests] /\ pc \in [Procs -> Labels]
        /\ sType \in [Slots -> SocketTypes] /\ Poller \in Procs
    BY DEF TypeInv, TypeOK, CallTypeOK, SlotTypeOK, Procs
  <1>1. CASE PollEnter \/ NoCommand \/ Wait \/ WaitInterrupted \/ EventDrop \/ EventWrite
             \/ ClearClosedEvent \/ Return
    <2>1. UNCHANGED <<sType, pipe, aborted, request>>
      BY <1>1 DEF PollEnter, NoCommand, Wait, WaitInterrupted, EventDrop, EventWrite,
         ClearClosedEvent, Return, slotVars, callVars
    <2>2. \A q \in Procs : Holds(q)' => Holds(q)
      BY <1>0, <1>1, <2>1 DEF PollEnter, NoCommand, Wait, WaitInterrupted, EventDrop, EventWrite,
         ClearClosedEvent, Return, Loop, Holds, Goto
    <2> QED BY <2>1, <2>2, OwnersKept DEF NewSocketAssert
  <1>2. CASE EventAccept
    <2>1. UNCHANGED <<sType, pipe, aborted>>
      BY <1>2 DEF EventAccept, slotVars
    <2>2. \A q \in Procs : Holds(q)' => Holds(q) /\ request'[q].id = request[q].id
      BY <1>0, <1>2 DEF EventAccept, StartReserve, Loop, Holds, Goto, callVars
    <2> QED BY <2>1, <2>2, OwnersKept DEF NewSocketAssert
  <1>3. CASE EventConnect
    <2>1. sType[Ev.slot] = "CONNECTING" /\ UNCHANGED <<pipe, aborted, request>>
      BY <1>3 DEF EventConnect, Event, callVars
    <2>2. \A s \in Slots : s # Ev.slot => sType'[s] = sType[s]
      BY <1>0, <1>3 DEF EventConnect, ForceClose
    <2>3. \A s \in Slots : sType[s] = "RESERVE" => sType'[s] = "RESERVE"
      BY <2>1, <2>2
    <2>4. \A q \in Procs : Holds(q)' => Holds(q)
      BY <1>0, <1>3, <2>1 DEF EventConnect, Holds, Goto
    <2> QED BY <2>1, <2>3, <2>4, OwnersKept, SlotsOfOwners DEF NewSocketAssert
  <1>4. CASE EventRead
    <2>1. UNCHANGED <<pipe, request>>
      BY <1>4 DEF EventRead, callVars
    <2>2. \A s \in Slots : sType[s] = "RESERVE" => sType'[s] = "RESERVE"
      BY <1>0, <1>4 DEF EventRead, ForceClose
    <2>3. aborted' = aborted \/ aborted' = "force_close"
      BY <1>4 DEF EventRead
    <2>4. \A q \in Procs : Holds(q)' => Holds(q)
      BY <1>0, <1>4, <2>1 DEF EventRead, Answer, Result, Loop, Holds, Goto
    <2> QED BY <2>1, <2>2, <2>3, <2>4, OwnersKept, SlotsOfOwners DEF NewSocketAssert
  <1>5. CASE AcceptFill
    <2>1. Holds(Poller) /\ sType[HeldSlot(Poller)] = "RESERVE"
      BY <1>0, <1>5 DEF AcceptFill, Holds, ReservationOwned, ClaimIsReserved
    <2>2. /\ sType' = [sType EXCEPT ![HeldSlot(Poller)] = "PACCEPT"]
          /\ request' = [request EXCEPT ![Poller] = NoRequest]
          /\ pc' = [pc EXCEPT ![Poller] = "return"]
          /\ UNCHANGED <<pipe, aborted>>
      BY <1>5, <2>1 DEF AcceptFill, HeldSlot, Goto
    <2>3. \A q \in Procs : Holds(q)' => q # Poller /\ Holds(q) /\ request'[q].id = request[q].id
      BY <1>0, <2>2 DEF Holds
    <2>4. \A q \in Procs : Holds(q)' => HeldSlot(q) # HeldSlot(Poller)
      BY <1>0, <2>1, <2>3 DEF ReservationOwned, ClaimIsUnique
    <2>5. \A k \in 1 .. Len(pipe) : Carries(k) => CarriedSlot(k) # HeldSlot(Poller)
      BY <1>0, <2>1 DEF ReservationOwned, ClaimIsUnique
    <2> QED BY <1>0, <2>2, <2>3, <2>4, <2>5, OwnersKept, SlotsOfOwners DEF NewSocketAssert
  <1> QED BY <1>1, <1>2, <1>3, <1>4, <1>5 DEF HandleEvent

\* A command changes the slot it carries, or one that is not RESERVE. It carries
\* a reserved slot when it opens, so new_socket's assertion holds.
LEMMA OwnedCommand ==
  ASSUME ReservationInv, CtrlCmd
  PROVE  ReservationOwned' /\ NewSocketAssert'
  <1> USE DEF ReservationInv
  <1> DEFINE h == HASH_ID(Cmd.id)
  <1>0. sType \in [Slots -> SocketTypes] /\ pc \in [Procs -> Labels] /\ Poller \in Procs
    BY DEF TypeInv, TypeOK, CallTypeOK, SlotTypeOK, Procs
  <1>1. pipe # <<>> /\ pipe' = Tail(pipe) /\ UNCHANGED request
    BY DEF CtrlCmd, Command, Abort, callVars,
       CmdListen, CmdBind, CmdOpenUnresolved, CmdOpenExhausted, CmdOpen, CmdStartPending,
       CmdStartOther, CmdClose, CmdSend, CmdExit
  <1>2. \A q \in Procs : Holds(q)' => Holds(q)
    <2>1. \/ UNCHANGED pc
          \/ pc' = [pc EXCEPT ![Poller] = "clear"]
          \/ pc' = [pc EXCEPT ![Poller] = "return"]
      BY DEF CtrlCmd, Abort, Answer, Goto, Continue,
         CmdListen, CmdBind, CmdOpenUnresolved, CmdOpenExhausted, CmdOpen, CmdStartPending,
         CmdStartOther, CmdClose, CmdSend, CmdExit
    <2> QED BY <1>0, <1>1, <2>1 DEF Holds
  <1>3. h \in Slots /\ Cmd = pipe[1] /\ 1 \in 1 .. Len(pipe)
    BY <1>1, CmdType DEF TypeInv, TypeOK, PipeTypeOK, Cmd
  <1>4. CASE Cmd.type \in OpenCommands
    <2>1. Carries(1) /\ h = CarriedSlot(1)
      BY <1>3, <1>4 DEF Carries, CarriedSlot
    <2>2. sType[h] = "RESERVE"
      BY <1>3, <2>1 DEF ReservationOwned, ClaimIsReserved
    <2>3. \A s \in Slots : s # h => sType'[s] = sType[s]
      BY <1>0, <1>3, <1>4, <2>2 DEF CtrlCmd, Command, OpenCommands, NewSocketFails, NewSocket, Abort, slotVars,
         CmdListen, CmdBind, CmdOpenUnresolved, CmdOpenExhausted, CmdOpen, CmdStartPending,
         CmdStartOther, CmdClose, CmdSend, CmdExit
    <2>4. aborted' \in {aborted, "null"}
      BY <1>4, <2>2 DEF CtrlCmd, Command, OpenCommands, NewSocketFails, Abort,
         CmdListen, CmdBind, CmdOpenUnresolved, CmdOpenExhausted, CmdOpen, CmdStartPending,
         CmdStartOther, CmdClose, CmdSend, CmdExit
    <2> QED BY <1>1, <1>2, <2>1, <2>3, <2>4, OwnersPopped DEF NewSocketAssert
  <1>5. CASE Cmd.type \notin OpenCommands
    <2>1. CmdStartPending \/ CmdStartOther \/ CmdClose \/ CmdSend \/ CmdExit
      BY <1>5 DEF CtrlCmd, Command, OpenCommands, CmdListen, CmdBind, CmdOpenUnresolved,
         CmdOpenExhausted, CmdOpen
    <2>2. \A s \in Slots : sType[s] = "RESERVE" => sType'[s] = "RESERVE"
      BY <1>0, <1>3, <2>1 DEF ForceClose, Abort, slotVars,
         CmdStartPending, CmdStartOther, CmdClose, CmdSend, CmdExit
    <2>3. aborted' \in {aborted, "force_close", "send_socket"}
      BY <2>1 DEF Abort, CmdStartPending, CmdStartOther, CmdClose, CmdSend, CmdExit
    <2> QED BY <1>1, <1>2, <2>2, <2>3, OwnersPopped DEF NewSocketAssert
  <1> QED BY <1>4, <1>5

\* After socket_server::initialize nobody owns a slot.
LEMMA ReservationInit == Init => ReservationInv
  <1> SUFFICES ASSUME Init PROVE ReservationInv
    OBVIOUS
  <1>1. \A p \in Procs : ~Holds(p)
    BY DEF Init, Holds
  <1>2. \A k : ~Carries(k)
    BY DEF Init, Carries
  <1> QED BY <1>1, <1>2, TypeInit DEF ReservationInv, ReservationOwned, ClaimIsReserved, ClaimIsUnique,
     NewSocketAssert, Init

\* Every step keeps reservations owned and new_socket's assertion true.
LEMMA ReservationStep == ReservationInv /\ [Next]_vars => ReservationInv'
  <1> SUFFICES ASSUME ReservationInv, [Next]_vars PROVE ReservationOwned' /\ NewSocketAssert'
    BY TypeStep DEF ReservationInv
  <1>1. CASE \E t \in Threads : Call(t) \/ AppStep(t)
    BY <1>1, OwnedCall, OwnedReserve DEF AppStep, Procs
  <1>2. CASE PollStep \/ WaitInterrupted
    <2>1. CASE Reserve(Poller) \/ ReserveFull(Poller)
      BY <2>1, OwnedReserve DEF Procs
    <2>2. CASE CtrlCmd
      BY <2>2, OwnedCommand
    <2>3. CASE Poll \/ WaitInterrupted
      BY <2>2, <2>3, OwnedPoll DEF Poll
    <2> QED BY <1>2, <2>1, <2>2, <2>3 DEF PollStep
  <1>3. CASE (\E f \in FDs : Connected(f)) \/ UNCHANGED vars
    <2>1. UNCHANGED <<sType, pipe, request, pc, aborted>>
      BY <1>3 DEF Connected, vars, slotVars, callVars
    <2>2. \A q \in Procs : Holds(q)' = Holds(q)
      BY <2>1 DEF Holds
    <2> QED BY <2>1, <2>2, OwnersKept DEF ReservationInv, NewSocketAssert
  <1> QED BY <1>1, <1>2, <1>3 DEF Next

\* Every slot won in reserve_id is still RESERVE, and its own, when its thread or
\* its command comes to fill it: for any number of threads, slots and ids.
THEOREM ReservationCorrect == Spec => []ReservationOwned
  <1>1. ReservationInv => ReservationOwned
    BY DEF ReservationInv
  <1> QED BY <1>1, ReservationInit, ReservationStep, PTL DEF Spec

\* The assertion of new_socket (socket_server.cpp:349) never fails.
THEOREM NewSocketNeverAborts == Spec => []NewSocketAssert
  <1>1. ReservationInv => NewSocketAssert
    BY DEF ReservationInv
  <1> QED BY <1>1, ReservationInit, ReservationStep, PTL DEF Spec

-----------------------------------------------------------------------------
(* The slots and their callers *)

\* A thread inside reserve_id acts for a call that opens, the poll thread for an
\* accepted connection, and only the threads write to the pipe.
CallersOK ==
  \A p \in Procs :
    /\ p \in Threads /\ pc[p] \in Reserving => request[p].type \in OpenCommands
    /\ p = Poller => pc[p] # "write" /\ (pc[p] \in Reserving => request[p].type = "ACCEPT")

ClaimedInv == ReservationInv /\ CallersOK /\ ReservedIsClaimed

\* Nobody gives up a slot and none is reserved: every claim persists.
LEMMA ClaimsKept ==
  ASSUME ReservedIsClaimed, aborted = "none", UNCHANGED pipe,
         \A s \in Slots : sType'[s] = "RESERVE" => sType[s] = "RESERVE",
         \A p \in Procs : Holds(p) /\ sType'[HeldSlot(p)] = "RESERVE" => Holds(p)' /\ HeldSlot(p)' = HeldSlot(p)
  PROVE  ReservedIsClaimed'
  <1>1. \A k : Carries(k)' = Carries(k) /\ CarriedSlot(k)' = CarriedSlot(k)
    BY DEF Carries, CarriedSlot
  <1> QED BY <1>1 DEF ReservedIsClaimed

\* A command is taken off the pipe: the slot it carries is no longer RESERVE.
LEMMA ClaimsPopped ==
  ASSUME TypeInv, ReservedIsClaimed, aborted = "none", pipe # <<>>, pipe' = Tail(pipe), UNCHANGED request,
         \A p \in Procs : Holds(p) => Holds(p)',
         \A s \in Slots : sType'[s] = "RESERVE" => sType[s] = "RESERVE",
         Carries(1) => sType'[CarriedSlot(1)] # "RESERVE"
  PROVE  ReservedIsClaimed'
  <1>1. \A k \in 2 .. Len(pipe) : k - 1 \in 1 .. Len(pipe') /\ pipe'[k - 1] = pipe[k]
    BY DEF TypeInv, TypeOK, PipeTypeOK
  <1>2. \A k \in 2 .. Len(pipe) :
          Carries(k) => Carries(k - 1)' /\ CarriedSlot(k - 1)' = CarriedSlot(k)
    BY <1>1 DEF Carries, CarriedSlot
  <1>3. SUFFICES ASSUME NEW s \in Slots, sType'[s] = "RESERVE"
                 PROVE  \/ \E p \in Procs : Holds(p)' /\ HeldSlot(p)' = s
                        \/ \E k \in 1 .. Len(pipe') : Carries(k)' /\ CarriedSlot(k)' = s
    BY DEF ReservedIsClaimed
  <1>4. CASE \E p \in Procs : Holds(p) /\ HeldSlot(p) = s
    BY <1>4 DEF HeldSlot
  <1>5. CASE \E k \in 1 .. Len(pipe) : Carries(k) /\ CarriedSlot(k) = s
    <2>1. PICK k \in 1 .. Len(pipe) : Carries(k) /\ CarriedSlot(k) = s
      BY <1>5
    <2>2. k # 1 /\ Len(pipe) \in Nat
      BY <1>3, <2>1 DEF TypeInv, TypeOK, PipeTypeOK
    <2>3. k \in 2 .. Len(pipe)
      BY <2>1, <2>2
    <2> QED BY <1>1, <1>2, <2>1, <2>3
  <1> QED BY <1>3, <1>4, <1>5 DEF ReservedIsClaimed

\* Callers stay what they are when at most one of them moves.
LEMMA CallersReserve ==
  ASSUME ClaimedInv, NEW p \in Procs, Reserve(p) \/ ReserveFull(p)
  PROVE  CallersOK'
  <1>0. request \in [Procs -> Requests] /\ pc \in [Procs -> Labels]
    BY DEF ClaimedInv, ReservationInv, TypeInv, TypeOK, CallTypeOK
  <1>1. \A q \in Procs : q # p => pc'[q] = pc[q] /\ request'[q] = request[q]
    BY <1>0 DEF Reserve, ReserveFull, ReserveAdd, ReserveMask, ReserveLook, ReserveCas, ReserveSetId,
       ReserveSetFd, Goto, callVars
  <1>2. pc[p] \in Reserving
    BY DEF Reserve, ReserveFull, ReserveAdd, ReserveMask, ReserveLook, ReserveCas, ReserveSetId,
       ReserveSetFd, Reserving
  <1>3. pc'[p] \in Reserving => request'[p].type = request[p].type
    BY <1>0 DEF Reserve, ReserveFull, ReserveAdd, ReserveMask, ReserveLook, ReserveCas, ReserveSetId,
       ReserveSetFd, Goto, callVars, Requests, Reserving
  <1>4. p = Poller => pc'[p] # "write"
    BY <1>0 DEF Reserve, ReserveFull, ReserveAdd, ReserveMask, ReserveLook, ReserveCas, ReserveSetId,
       ReserveSetFd, Goto
  <1> QED BY <1>1, <1>2, <1>3, <1>4 DEF ClaimedInv, CallersOK

\* A step of reserve_id claims the slot it reserves and keeps the claims it has.
LEMMA ClaimedReserve ==
  ASSUME ClaimedInv, aborted = "none", NEW p \in Procs, Reserve(p) \/ ReserveFull(p)
  PROVE  ReservedIsClaimed'
  <1>0. /\ request \in [Procs -> Requests] /\ pc \in [Procs -> Labels] /\ sType \in [Slots -> SocketTypes]
        /\ ReservedIsClaimed
    BY DEF ClaimedInv, ReservationInv, TypeInv, TypeOK, CallTypeOK, SlotTypeOK
  <1>1. CASE ReserveAdd(p) \/ ReserveMask(p) \/ ReserveLook(p) \/ ReserveFull(p)
    <2>1. UNCHANGED <<sType, pipe>>
      BY <1>1 DEF ReserveAdd, ReserveMask, ReserveLook, ReserveFull, slotVars
    <2>2. \A q \in Procs : Holds(q) => Holds(q)' /\ request'[q].id = request[q].id
      BY <1>0, <1>1 DEF ReserveAdd, ReserveMask, ReserveLook, ReserveFull, Holds, Goto
    <2> QED BY <1>0, <2>1, <2>2, ClaimsKept DEF HeldSlot
  <1>2. CASE ReserveCas(p)
    <2>1. UNCHANGED <<pipe, request, aborted>> /\ pc[p] = "cas"
      BY <1>2 DEF ReserveCas, callVars
    <2>2. \A q \in Procs : Holds(q) => Holds(q)' /\ HeldSlot(q)' = HeldSlot(q)
      BY <1>0, <1>2, <2>1 DEF ReserveCas, Holds, HeldSlot, Goto
    <2>3. CASE UNCHANGED sType
      BY <1>0, <2>1, <2>2, <2>3, ClaimsKept
    <2>4. CASE sType' = [sType EXCEPT ![HASH_ID(request[p].id)] = "RESERVE"] /\ Goto(p, "setid")
      <3>1. Holds(p)' /\ HeldSlot(p)' = HASH_ID(request[p].id)
        BY <1>0, <2>1, <2>4 DEF Goto, Holds, HeldSlot
      <3>2. \A k : Carries(k)' = Carries(k) /\ CarriedSlot(k)' = CarriedSlot(k)
        BY <2>1 DEF Carries, CarriedSlot
      <3>3. \A s \in Slots : s # HASH_ID(request[p].id) => sType'[s] = sType[s]
        BY <1>0, <2>4
      <3> QED BY <1>0, <2>1, <2>2, <3>1, <3>2, <3>3 DEF ReservedIsClaimed
    <2> QED BY <1>2, <2>3, <2>4 DEF ReserveCas
  <1>3. CASE ReserveSetId(p) \/ ReserveSetFd(p)
    <2>1. UNCHANGED <<sType, pipe, request>>
      BY <1>3 DEF ReserveSetId, ReserveSetFd, callVars
    <2>2. p = Poller \/ request[p].type \in OpenCommands
      BY <1>3 DEF ReserveSetId, ReserveSetFd, ClaimedInv, CallersOK, Reserving, Procs
    <2>3. \A q \in Procs : Holds(q) => Holds(q)'
      BY <1>0, <1>3, <2>1, <2>2 DEF ReserveSetId, ReserveSetFd, Holds, Goto
    <2> QED BY <1>0, <2>1, <2>3, ClaimsKept DEF HeldSlot
  <1> QED BY <1>1, <1>2, <1>3 DEF Reserve

\* The other steps of a call: SendRequest passes the claim on to the pipe.
LEMMA ClaimedCall ==
  ASSUME ClaimedInv, aborted = "none", NEW t \in Threads, Call(t) \/ SendRequest(t)
  PROVE  CallersOK' /\ ReservedIsClaimed'
  <1>0. /\ request \in [Procs -> Requests] /\ pc \in [Procs -> Labels]
        /\ pipe \in Seq(Requests) /\ t \in Procs /\ t # Poller
        /\ CallersOK /\ ReservedIsClaimed
    BY ThreadAssumption
    DEF ClaimedInv, ReservationInv, TypeInv, TypeOK, CallTypeOK, PipeTypeOK, Procs
  <1>1. CallersOK'
    <2>1. \A q \in Procs : q # t => pc'[q] = pc[q] /\ request'[q] = request[q]
      BY <1>0 DEF Call, ServerListen, ServerBind, ServerConnect, ServerCommand, ServerSend, SendRequest,
         StartReserve, Goto
    <2>2. pc'[t] \in Reserving => request'[t].type \in OpenCommands
      BY <1>0 DEF Call, ServerListen, ServerBind, ServerConnect, ServerCommand, ServerSend, SendRequest,
         StartReserve, Goto, Reserving, OpenCommands
    <2> QED BY <1>0, <2>1, <2>2 DEF CallersOK
  <1>2. CASE Call(t)
    <2>1. UNCHANGED <<sType, pipe>> /\ pc[t] = "idle"
      BY <1>2 DEF Call, ServerListen, ServerBind, ServerConnect, ServerCommand, ServerSend, slotVars, MayCall
    <2>2. \A q \in Procs : Holds(q) => q # t
      BY <2>1 DEF Holds
    <2>3. \A q \in Procs : q # t => pc'[q] = pc[q] /\ request'[q] = request[q]
      BY <1>0, <1>2 DEF Call, ServerListen, ServerBind, ServerConnect, ServerCommand, ServerSend,
         StartReserve, Goto
    <2>4. \A q \in Procs : Holds(q) => Holds(q)' /\ HeldSlot(q)' = HeldSlot(q)
      BY <2>2, <2>3 DEF Holds, HeldSlot
    <2> QED BY <1>0, <1>1, <2>1, <2>4, ClaimsKept
  <1>3. CASE SendRequest(t)
    <2>1. /\ UNCHANGED sType /\ pipe' = Append(pipe, request[t])
          /\ pc[t] = "write" /\ pc' = [pc EXCEPT ![t] = "idle"]
          /\ request' = [request EXCEPT ![t] = NoRequest]
      BY <1>3 DEF SendRequest, slotVars, Goto
    <2>2. \A q \in Procs : Holds(q) /\ q # t => Holds(q)' /\ HeldSlot(q)' = HeldSlot(q)
      BY <1>0, <2>1 DEF Holds, HeldSlot
    <2>3. /\ Len(pipe') = Len(pipe) + 1 /\ Len(pipe) \in Nat
          /\ \A k \in 1 .. Len(pipe) : pipe'[k] = pipe[k]
          /\ pipe'[Len(pipe) + 1] = request[t]
      BY <1>0, <2>1
    <2>4. \A k \in 1 .. Len(pipe) : Carries(k) =>
            k \in 1 .. Len(pipe') /\ Carries(k)' /\ CarriedSlot(k)' = CarriedSlot(k)
      BY <2>3 DEF Carries, CarriedSlot
    <2>5. Holds(t) => \E k \in 1 .. Len(pipe') : Carries(k)' /\ CarriedSlot(k)' = HeldSlot(t)
      BY <2>1, <2>3 DEF Carries, CarriedSlot, Holds, HeldSlot
    <2>6. SUFFICES ASSUME NEW s \in Slots, sType[s] = "RESERVE"
                   PROVE  \/ \E p \in Procs : Holds(p)' /\ HeldSlot(p)' = s
                          \/ \E k \in 1 .. Len(pipe') : Carries(k)' /\ CarriedSlot(k)' = s
      BY <1>1, <2>1 DEF ReservedIsClaimed
    <2>7. CASE \E p \in Procs : Holds(p) /\ HeldSlot(p) = s
      BY <2>2, <2>5, <2>7
    <2>8. CASE \E k \in 1 .. Len(pipe) : Carries(k) /\ CarriedSlot(k) = s
      BY <2>4, <2>8
    <2> QED BY <1>0, <1>1, <2>6, <2>7, <2>8 DEF ReservedIsClaimed
  <1> QED BY <1>1, <1>2, <1>3

\* A step of the poll thread outside reserve_id concerns no other caller.
LEMMA CallersPoll ==
  ASSUME ClaimedInv, Poll \/ WaitInterrupted
  PROVE  CallersOK'
  <1>0. request \in [Procs -> Requests] /\ pc \in [Procs -> Labels] /\ CallersOK
    BY DEF ClaimedInv, ReservationInv, TypeInv, TypeOK, CallTypeOK
  <1>1. \A q \in Threads : pc'[q] = pc[q] /\ request'[q] = request[q]
    <2>1. CASE CtrlCmd
      BY <1>0, <2>1, ThreadAssumption DEF Procs, CtrlCmd, Abort, Answer, Goto, Continue, callVars, CmdListen,
         CmdBind, CmdOpenUnresolved, CmdOpenExhausted, CmdOpen, CmdStartPending,
         CmdStartOther, CmdClose, CmdSend, CmdExit
    <2>2. CASE ~CtrlCmd
      BY <1>0, <2>2, ThreadAssumption DEF Procs, Poll, PollEnter, NoCommand, Wait, WaitInterrupted, HandleEvent,
         EventDrop, EventConnect, EventAccept, EventRead, EventWrite, AcceptFill, ClearClosedEvent, Return,
         Abort, Answer, Goto, Loop, StartReserve, callVars
    <2> QED BY <2>1, <2>2
  <1>2. pc'[Poller] # "write"
    <2>1. CASE CtrlCmd
      BY <1>0, <2>1 DEF Procs, CallersOK, CtrlCmd, Abort, Answer, Goto, Continue, CmdListen,
         CmdBind, CmdOpenUnresolved, CmdOpenExhausted, CmdOpen, CmdStartPending,
         CmdStartOther, CmdClose, CmdSend, CmdExit
    <2>2. CASE ~CtrlCmd
      BY <1>0, <2>2 DEF Procs, CallersOK, Poll, PollEnter, NoCommand, Wait, WaitInterrupted, HandleEvent,
         EventDrop, EventConnect, EventAccept, EventRead, EventWrite, AcceptFill, ClearClosedEvent, Return,
         Abort, Answer, Goto, Loop, StartReserve
    <2> QED BY <2>1, <2>2
  <1>3. pc'[Poller] \in Reserving => request'[Poller].type = "ACCEPT"
    <2>1. CASE CtrlCmd
      BY <1>0, <2>1 DEF Procs, CallersOK, CtrlCmd, Abort, Answer, Goto, Continue, callVars, Reserving, CmdListen,
         CmdBind, CmdOpenUnresolved, CmdOpenExhausted, CmdOpen, CmdStartPending,
         CmdStartOther, CmdClose, CmdSend, CmdExit
    <2>2. CASE EventAccept
      BY <1>0, <2>2 DEF Procs, EventAccept, StartReserve, Loop, Goto, Reserving
    <2>3. CASE ~CtrlCmd /\ ~EventAccept
      BY <1>0, <2>3 DEF Procs, CallersOK, Poll, PollEnter, NoCommand, Wait, WaitInterrupted, HandleEvent,
         EventDrop, EventConnect, EventRead, EventWrite, AcceptFill, ClearClosedEvent, Return,
         Abort, Answer, Goto, Loop, callVars, Reserving
    <2> QED BY <2>1, <2>2, <2>3
  <1> QED BY <1>0, <1>1, <1>2, <1>3, ThreadAssumption DEF CallersOK, Procs

\* Steps of the poll thread that handle no command reserve nothing, and
\* report_accept fills the slot it gives up its claim to.
LEMMA ClaimedPoll ==
  ASSUME ClaimedInv, aborted = "none",
         PollEnter \/ NoCommand \/ Wait \/ WaitInterrupted \/ HandleEvent
           \/ AcceptFill \/ ClearClosedEvent \/ Return
  PROVE  ReservedIsClaimed'
  <1>0. /\ request \in [Procs -> Requests] /\ pc \in [Procs -> Labels]
        /\ sType \in [Slots -> SocketTypes] /\ Poller \in Procs /\ ReservedIsClaimed
    BY DEF ClaimedInv, ReservationInv, TypeInv, TypeOK, CallTypeOK, SlotTypeOK, Procs
  <1>1. CASE PollEnter \/ NoCommand \/ Wait \/ WaitInterrupted \/ EventDrop \/ EventWrite
             \/ ClearClosedEvent \/ Return
    <2>1. UNCHANGED <<sType, pipe, request>>
      BY <1>1 DEF PollEnter, NoCommand, Wait, WaitInterrupted, EventDrop, EventWrite,
         ClearClosedEvent, Return, slotVars, callVars
    <2>2. \A q \in Procs : Holds(q) => Holds(q)'
      BY <1>0, <1>1, <2>1 DEF PollEnter, NoCommand, Wait, AtWait, WaitInterrupted, EventDrop, EventWrite,
         Event, ClearClosedEvent, Return, Loop, Holds, Goto
    <2> QED BY <1>0, <2>1, <2>2, ClaimsKept DEF HeldSlot
  <1>2. CASE EventAccept
    <2>1. UNCHANGED <<sType, pipe>>
      BY <1>2 DEF EventAccept, slotVars
    <2>2. \A q \in Procs : Holds(q) => q # Poller
      BY <1>2 DEF EventAccept, Event, Holds
    <2>3. \A q \in Procs : q # Poller => pc'[q] = pc[q] /\ request'[q] = request[q]
      BY <1>0, <1>2 DEF EventAccept, StartReserve, Loop, Goto, callVars
    <2>4. \A q \in Procs : Holds(q) => Holds(q)' /\ HeldSlot(q)' = HeldSlot(q)
      BY <2>2, <2>3 DEF Holds, HeldSlot
    <2> QED BY <1>0, <2>1, <2>4, ClaimsKept
  <1>3. CASE EventConnect \/ EventRead
    <2>1. UNCHANGED <<pipe, request>>
      BY <1>3 DEF EventConnect, EventRead, callVars
    <2>2. \A s \in Slots : sType'[s] = "RESERVE" => sType[s] = "RESERVE"
      BY <1>0, <1>3 DEF EventConnect, EventRead, ForceClose
    <2>3. \A q \in Procs : Holds(q) => Holds(q)'
      BY <1>0, <1>3, <2>1 DEF EventConnect, EventRead, Event, Answer, Loop, Holds, Goto
    <2> QED BY <1>0, <2>1, <2>2, <2>3, ClaimsKept DEF HeldSlot
  <1>4. CASE AcceptFill
    <2>1. sType[HeldSlot(Poller)] = "RESERVE" /\ HeldSlot(Poller) \in Slots
      BY <1>0, <1>4, SlotsOfOwners
      DEF AcceptFill, Holds, ClaimedInv, ReservationInv, ReservationOwned, ClaimIsReserved
    <2>2. /\ sType' = [sType EXCEPT ![HeldSlot(Poller)] = "PACCEPT"]
          /\ request' = [request EXCEPT ![Poller] = NoRequest]
          /\ pc' = [pc EXCEPT ![Poller] = "return"]
          /\ UNCHANGED pipe
      BY <1>4, <2>1 DEF AcceptFill, HeldSlot, Goto
    <2>3. \A s \in Slots : sType'[s] = "RESERVE" => sType[s] = "RESERVE" /\ s # HeldSlot(Poller)
      BY <1>0, <2>1, <2>2
    <2>4. \A q \in Procs : Holds(q) /\ q # Poller => Holds(q)' /\ HeldSlot(q)' = HeldSlot(q)
      BY <1>0, <2>2 DEF Holds, HeldSlot
    <2>5. \A q \in Procs : HeldSlot(q) \in Slots
      BY SlotsOfOwners DEF ClaimedInv, ReservationInv
    <2> QED BY <1>0, <2>2, <2>3, <2>4, <2>5, ClaimsKept
  <1> QED BY <1>1, <1>2, <1>3, <1>4 DEF HandleEvent

\* A command either fills or gives up the slot it carries, or leaves the
\* reserved slots alone.
LEMMA ClaimedCommand ==
  ASSUME ClaimedInv, aborted = "none", CtrlCmd
  PROVE  ReservedIsClaimed'
  <1> DEFINE h == HASH_ID(Cmd.id)
  <1>0. /\ sType \in [Slots -> SocketTypes] /\ pc \in [Procs -> Labels] /\ Poller \in Procs
        /\ ReservedIsClaimed /\ TypeInv /\ ReservationOwned
    BY DEF ClaimedInv, ReservationInv, TypeInv, TypeOK, CallTypeOK, SlotTypeOK, Procs
  <1>1. pipe # <<>> /\ pipe' = Tail(pipe) /\ pc[Poller] = "loop"
    BY DEF CtrlCmd, Command, Abort,
       CmdListen, CmdBind, CmdOpenUnresolved, CmdOpenExhausted, CmdOpen, CmdStartPending,
       CmdStartOther, CmdClose, CmdSend, CmdExit
  <1>2. UNCHANGED request
    BY DEF CtrlCmd, Abort, callVars,
       CmdListen, CmdBind, CmdOpenUnresolved, CmdOpenExhausted, CmdOpen, CmdStartPending,
       CmdStartOther, CmdClose, CmdSend, CmdExit
  <1>3. \A q \in Procs : Holds(q) => Holds(q)'
    <2>1. \/ UNCHANGED pc
          \/ pc' = [pc EXCEPT ![Poller] = "clear"]
          \/ pc' = [pc EXCEPT ![Poller] = "return"]
      BY DEF CtrlCmd, Abort, Answer, Goto, Continue,
         CmdListen, CmdBind, CmdOpenUnresolved, CmdOpenExhausted, CmdOpen, CmdStartPending,
         CmdStartOther, CmdClose, CmdSend, CmdExit
    <2> QED BY <1>0, <1>1, <1>2, <2>1 DEF Holds
  <1>4. h \in Slots /\ Cmd = pipe[1] /\ 1 \in 1 .. Len(pipe)
    BY <1>0, <1>1, CmdType DEF TypeInv, TypeOK, PipeTypeOK, Cmd
  <1>5. CASE aborted' # "none"
    BY <1>5 DEF ReservedIsClaimed
  <1>6. CASE aborted' = "none" /\ Cmd.type \in OpenCommands
    <2>1. CmdListen \/ CmdBind \/ CmdOpenUnresolved \/ CmdOpen
      BY <1>6 DEF CtrlCmd, Command, OpenCommands, Abort, CmdOpenExhausted, CmdStartPending, CmdStartOther,
         CmdClose, CmdSend, CmdExit
    <2>2. \A s \in Slots : s # h => sType'[s] = sType[s]
      BY <1>0, <1>4, <2>1 DEF NewSocket, Abort, slotVars, CmdListen, CmdBind, CmdOpenUnresolved, CmdOpen
    <2>3. sType'[h] # "RESERVE"
      BY <1>0, <1>4, <1>6, <2>1 DEF NewSocket, Abort, CmdListen, CmdBind, CmdOpenUnresolved, CmdOpen
    <2>4. h = CarriedSlot(1)
      BY <1>4 DEF CarriedSlot
    <2>5. \A s \in Slots : sType'[s] = "RESERVE" => sType[s] = "RESERVE"
      BY <2>2, <2>3
    <2> QED BY <1>0, <1>1, <1>2, <1>3, <2>3, <2>4, <2>5, ClaimsPopped
  <1>7. CASE aborted' = "none" /\ Cmd.type \notin OpenCommands
    <2>1. CmdStartPending \/ CmdStartOther \/ CmdClose \/ CmdSend \/ CmdExit
      BY <1>7 DEF CtrlCmd, Command, OpenCommands, CmdListen, CmdBind, CmdOpenUnresolved,
         CmdOpenExhausted, CmdOpen
    <2>2. \A s \in Slots : sType'[s] = "RESERVE" => sType[s] = "RESERVE"
      BY <1>0, <1>4, <2>1 DEF ForceClose, Abort, slotVars,
         CmdStartPending, CmdStartOther, CmdClose, CmdSend, CmdExit
    <2>3. ~Carries(1)
      BY <1>4, <1>7 DEF Carries
    <2> QED BY <1>0, <1>1, <1>2, <1>3, <2>2, <2>3, ClaimsPopped
  <1> QED BY <1>5, <1>6, <1>7

\* After socket_server::initialize nothing is reserved.
LEMMA ClaimedInit == Init => ClaimedInv
  <1> SUFFICES ASSUME Init PROVE CallersOK /\ ReservedIsClaimed
    BY ReservationInit DEF ClaimedInv
  <1>1. CallersOK
    BY DEF Init, CallersOK, Reserving, Procs
  <1>2. ReservedIsClaimed
    BY DEF Init, ReservedIsClaimed
  <1> QED BY <1>1, <1>2

\* Every step keeps the reserved slots claimed.
LEMMA ClaimedStep == ClaimedInv /\ [Next]_vars => ClaimedInv'
  <1> SUFFICES ASSUME ClaimedInv, [Next]_vars PROVE CallersOK' /\ ReservedIsClaimed'
    BY ReservationStep DEF ClaimedInv
  <1>0. Next => aborted = "none"
    BY DEF Next
  <1>1. CASE Next /\ \E t \in Threads : Call(t) \/ AppStep(t)
    BY <1>0, <1>1, ClaimedCall, ClaimedReserve, CallersReserve DEF AppStep, Procs
  <1>2. CASE Next /\ (PollStep \/ WaitInterrupted)
    <2>1. CASE Reserve(Poller) \/ ReserveFull(Poller)
      BY <1>0, <1>2, <2>1, ClaimedReserve, CallersReserve DEF Procs
    <2>2. CASE CtrlCmd
      BY <1>0, <1>2, <2>2, ClaimedCommand, CallersPoll DEF Poll
    <2>3. CASE Poll \/ WaitInterrupted
      BY <1>0, <1>2, <2>2, <2>3, ClaimedPoll, CallersPoll DEF Poll
    <2> QED BY <1>2, <2>1, <2>2, <2>3 DEF PollStep
  <1>3. CASE (Next /\ \E f \in FDs : Connected(f)) \/ UNCHANGED vars
    <2>1. UNCHANGED <<sType, pipe, request, pc, aborted>>
      BY <1>3 DEF Connected, vars, slotVars, callVars
    <2>2. \A q : Holds(q)' = Holds(q) /\ HeldSlot(q)' = HeldSlot(q)
      BY <2>1 DEF Holds, HeldSlot
    <2>3. \A k : Carries(k)' = Carries(k) /\ CarriedSlot(k)' = CarriedSlot(k)
      BY <2>1 DEF Carries, CarriedSlot
    <2>4. CallersOK'
      BY <2>1 DEF ClaimedInv, CallersOK
    <2> QED BY <2>1, <2>2, <2>3, <2>4 DEF ClaimedInv, ReservedIsClaimed
  <1> QED BY <1>1, <1>2, <1>3 DEF Next

\* No slot stays RESERVE without an owner that will fill it or give it up,
\* whatever the threads do between the compare-and-swap and the command.
THEOREM ReservationsClaimed == Spec => []ReservedIsClaimed
  <1>1. ClaimedInv => ReservedIsClaimed
    BY DEF ClaimedInv
  <1> QED BY <1>1, ClaimedInit, ClaimedStep, PTL DEF Spec

-----------------------------------------------------------------------------
(* The abstract life cycle *)

\* What SocketLifecycle sees of slot s.
ViewOf(s) == [state |-> sType[s], id |-> IF sType[s] \in LiveTypes THEN sId[s] ELSE -1]

\* Only slot s changes hands: the view changes there at most.
LEMMA ViewUpdate ==
  ASSUME NEW s \in Slots,
         \A r \in Slots : r # s => sType'[r] = sType[r] /\ (sType[r] \in LiveTypes => sId'[r] = sId[r])
  PROVE  /\ slotView' = [slotView EXCEPT ![s] = ViewOf(s)']
         /\ slotView[s] = ViewOf(s) /\ slotView'[s] = ViewOf(s)'
  BY DEF slotView, ViewOf

\* Nothing SocketLifecycle sees changes.
LEMMA ViewStutter ==
  ASSUME \A r \in Slots : sType'[r] = sType[r] /\ (sType[r] \in LiveTypes => sId'[r] = sId[r])
  PROVE  UNCHANGED slotView
  BY DEF slotView

\* SocketLifecycle's slots, ids and live states are the gate server's.
LEMMA SameDefinitions ==
  /\ Lifecycle!Slots = Slots /\ Lifecycle!Ids = Ids /\ Lifecycle!LiveTypes = LiveTypes
  /\ \A i : Lifecycle!HASH_ID(i) = HASH_ID(i)
  BY DEF Lifecycle!Slots, Slots, Lifecycle!Ids, Ids, Lifecycle!LiveTypes, LiveTypes,
     Lifecycle!SocketTypes, SocketTypes, Lifecycle!HASH_ID, HASH_ID

\* One slot goes from one state to the next: the step SocketLifecycle takes.
LEMMA ViewStep ==
  ASSUME TypeInv, TypeInv', NEW s \in Slots,
         \A r \in Slots : r # s => sType'[r] = sType[r] /\ (sType[r] \in LiveTypes => sId'[r] = sId[r]),
         \/ sType[s] = "INVALID" /\ sType'[s] = "RESERVE"
         \/ sType[s] = "RESERVE" /\ sType'[s] = "INVALID"
         \/ sType[s] = "RESERVE" /\ sType'[s] \in Lifecycle!Openings /\ HASH_ID(sId'[s]) = s
         \/ <<sType[s], sType'[s]>> \in Lifecycle!Advances /\ sId'[s] = sId[s]
         \/ sType[s] \in LiveTypes /\ sType'[s] = "INVALID"
  PROVE  Lifecycle!Next
  <1>1. /\ slotView' = [slotView EXCEPT ![s] = ViewOf(s)']
        /\ slotView[s] = ViewOf(s)
    BY ViewUpdate
  <1>2. /\ ViewOf(s) = [state |-> sType[s], id |-> IF sType[s] \in LiveTypes THEN sId[s] ELSE -1]
        /\ ViewOf(s)' = [state |-> sType'[s], id |-> IF sType'[s] \in LiveTypes THEN sId'[s] ELSE -1]
    BY DEF ViewOf
  <1>3. CASE sType[s] = "INVALID" /\ sType'[s] = "RESERVE"
    <2>1. Lifecycle!Reserve(s)
      BY <1>1, <1>2, <1>3 DEF Lifecycle!Reserve, Lifecycle!Empty, Lifecycle!Taken, Lifecycle!NoId, LiveTypes
    <2> QED BY <2>1, SameDefinitions DEF Lifecycle!Next
  <1>4. CASE sType[s] = "RESERVE" /\ sType'[s] = "INVALID"
    <2>1. Lifecycle!GiveUp(s)
      BY <1>1, <1>2, <1>4 DEF Lifecycle!GiveUp, Lifecycle!Empty, Lifecycle!Taken, Lifecycle!NoId, LiveTypes
    <2> QED BY <2>1, SameDefinitions DEF Lifecycle!Next
  <1>5. CASE sType[s] = "RESERVE" /\ sType'[s] \in Lifecycle!Openings /\ HASH_ID(sId'[s]) = s
    <2>1. sId'[s] \in Ids
      BY DEF TypeInv, TypeOK, SlotTypeOK
    <2>2. Lifecycle!Open(s)
      BY <1>1, <1>2, <1>5, <2>1, SameDefinitions
      DEF Lifecycle!Open, Lifecycle!Taken, Lifecycle!NoId, LiveTypes, SocketTypes, Lifecycle!Openings
    <2> QED BY <2>2, SameDefinitions DEF Lifecycle!Next
  <1>6. CASE <<sType[s], sType'[s]>> \in Lifecycle!Advances /\ sId'[s] = sId[s]
    <2>1. sType[s] \in LiveTypes /\ sType'[s] \in LiveTypes
      BY <1>6 DEF Lifecycle!Advances, LiveTypes, SocketTypes
    <2>2. slotView[s].state = sType[s] /\ ViewOf(s)' = [ViewOf(s) EXCEPT !.state = sType'[s]]
      BY <1>1, <1>2, <1>6, <2>1
    <2>3. slotView' = [slotView EXCEPT ![s].state = sType'[s]]
      BY <1>1, <2>2 DEF slotView
    <2>4. Lifecycle!Advance(s)
      BY <1>6, <2>1, <2>2, <2>3, SameDefinitions DEF Lifecycle!Advance
    <2> QED BY <2>4, SameDefinitions DEF Lifecycle!Next
  <1>7. CASE sType[s] \in LiveTypes /\ sType'[s] = "INVALID"
    <2>1. Lifecycle!Close(s)
      BY <1>1, <1>2, <1>7, SameDefinitions DEF Lifecycle!Close, Lifecycle!Empty, Lifecycle!NoId, LiveTypes
    <2> QED BY <2>1, SameDefinitions DEF Lifecycle!Next
  <1> QED BY <1>3, <1>4, <1>5, <1>6, <1>7

\* reserve_id takes a free slot, and writes the id of a reserved slot only.
LEMMA LifecycleReserve ==
  ASSUME ReservationInv, TypeInv', NEW p \in Procs, Reserve(p) \/ ReserveFull(p)
  PROVE  Lifecycle!Next \/ UNCHANGED slotView
  <1> DEFINE s == HASH_ID(request[p].id)
  <1>0. /\ request \in [Procs -> Requests] /\ sType \in [Slots -> SocketTypes] /\ sId \in [Slots -> Ids]
        /\ s \in Slots /\ s = HeldSlot(p)
    BY SlotsOfOwners DEF ReservationInv, TypeInv, TypeOK, CallTypeOK, SlotTypeOK, HeldSlot
  <1>1. CASE ReserveCas(p) /\ CasSucceeds(s)
    <2>1. sType[s] = "INVALID" /\ sType' = [sType EXCEPT ![s] = "RESERVE"] /\ UNCHANGED sId
      BY <1>1 DEF ReserveCas, CasSucceeds
    <2> QED BY <1>0, <2>1, ViewStep DEF ReservationInv
  <1>2. CASE ReserveSetId(p)
    <2>1. sType[s] = "RESERVE"
      BY <1>0, <1>2 DEF ReserveSetId, Holds, ReservationInv, ReservationOwned, ClaimIsReserved
    <2>2. UNCHANGED sType /\ \A r \in Slots : r # s => sId'[r] = sId[r]
      BY <1>0, <1>2 DEF ReserveSetId
    <2> QED BY <2>1, <2>2, ViewStutter DEF LiveTypes
  <1>3. CASE UNCHANGED <<sType, sId>>
    BY <1>3, ViewStutter
  <1> QED BY <1>1, <1>2, <1>3 DEF Reserve, ReserveFull, ReserveAdd, ReserveMask, ReserveLook, ReserveCas,
     ReserveSetFd, slotVars

\* A command opens, advances, gives up or closes the slot of its id, or changes
\* no slot.
LEMMA LifecycleCommand ==
  ASSUME ReservationInv, TypeInv', CtrlCmd
  PROVE  Lifecycle!Next \/ UNCHANGED slotView
  <1> DEFINE h == HASH_ID(Cmd.id)
  <1>0. sType \in [Slots -> SocketTypes] /\ sId \in [Slots -> Ids] /\ TypeInv
    BY DEF ReservationInv, TypeInv, TypeOK, SlotTypeOK
  <1>1. pipe # <<>>
    BY DEF CtrlCmd, Command,
       CmdListen, CmdBind, CmdOpenUnresolved, CmdOpenExhausted, CmdOpen, CmdStartPending,
       CmdStartOther, CmdClose, CmdSend, CmdExit
  <1>2. h \in Slots /\ Cmd = pipe[1] /\ 1 \in 1 .. Len(pipe)
    BY <1>0, <1>1, CmdType DEF TypeInv, TypeOK, PipeTypeOK, Cmd
  <1>3. Cmd.type \in OpenCommands => sType[h] = "RESERVE"
    BY <1>2 DEF ReservationInv, ReservationOwned, ClaimIsReserved, Carries, CarriedSlot
  <1>4. CASE UNCHANGED <<sType, sId>>
    BY <1>4, ViewStutter
  <1>5. CASE CmdListen \/ CmdBind \/ CmdOpenUnresolved \/ CmdOpen
    <2>1. sType[h] = "RESERVE"
      BY <1>3, <1>5 DEF Command, OpenCommands, CmdListen, CmdBind, CmdOpenUnresolved, CmdOpen
    <2>2. \/ UNCHANGED <<sType, sId>>
          \/ sType' = [sType EXCEPT ![h] = "INVALID"] /\ UNCHANGED sId
          \/ \E st \in Lifecycle!Openings :
               sType' = [sType EXCEPT ![h] = st] /\ sId' = [sId EXCEPT ![h] = Cmd.id]
      BY <1>5 DEF NewSocket, Abort, slotVars, Lifecycle!Openings, CmdListen, CmdBind, CmdOpenUnresolved, CmdOpen
    <2> QED BY <1>0, <1>2, <1>4, <2>1, <2>2, ViewStep DEF Lifecycle!Openings
  <1>6. CASE CmdStartPending
    <2>1. /\ UNCHANGED sId
          /\ \/ /\ sType[h] \in {"PACCEPT", "PLISTEN"}
                /\ sType' = [sType EXCEPT ![h] = IF @ = "PACCEPT" THEN "CONNECTED" ELSE "LISTEN"]
             \/ sType[h] \in {"PACCEPT", "PLISTEN"} /\ sType' = [sType EXCEPT ![h] = "INVALID"]
      BY <1>6 DEF CmdStartPending
    <2>2. \A r \in Slots : r # h => sType'[r] = sType[r]
      BY <1>0, <2>1
    <2>3. <<sType[h], sType'[h]>> \in Lifecycle!Advances \/ (sType[h] \in LiveTypes /\ sType'[h] = "INVALID")
      BY <1>0, <1>2, <2>1 DEF Lifecycle!Advances, LiveTypes, SocketTypes
    <2> QED BY <1>0, <1>2, <2>1, <2>2, <2>3, ViewStep
  <1>7. CASE (CmdClose \/ CmdSend) /\ ~ UNCHANGED <<sType, sId>>
    <2>1. UNCHANGED sId /\ ForceClose(h) /\ sType[h] # "RESERVE" /\ sType[h] # "INVALID"
      BY <1>7 DEF CmdClose, CmdSend, Abort, slotVars, Stale
    <2>2. sType' = [sType EXCEPT ![h] = "INVALID"] /\ sType[h] \in LiveTypes
      BY <1>0, <1>2, <2>1 DEF ForceClose, LiveTypes
    <2> QED BY <1>0, <1>2, <2>1, <2>2, ViewStep
  <1> QED BY <1>4, <1>5, <1>6, <1>7 DEF CtrlCmd, CmdOpenExhausted, CmdStartOther, CmdExit, Abort, slotVars

\* An event advances or closes the slot it is about; an accepted connection
\* opens the slot reserved for it.
LEMMA LifecyclePoll ==
  ASSUME ReservationInv, TypeInv',
         PollEnter \/ NoCommand \/ Wait \/ WaitInterrupted \/ HandleEvent
           \/ AcceptFill \/ ClearClosedEvent \/ Return
  PROVE  Lifecycle!Next \/ UNCHANGED slotView
  <1>0. sType \in [Slots -> SocketTypes] /\ sId \in [Slots -> Ids] /\ TypeInv /\ Poller \in Procs
    BY DEF ReservationInv, TypeInv, TypeOK, SlotTypeOK, Procs
  <1>1. CASE UNCHANGED <<sType, sId>>
    BY <1>1, ViewStutter
  <1>2. CASE EventConnect \/ EventRead
    <2>1. Ev.slot \in Slots /\ UNCHANGED sId
      BY <1>0, <1>2, EvType DEF EventConnect, EventRead, Event, Events
    <2>2. \/ sType[Ev.slot] = "CONNECTING" /\ sType' = [sType EXCEPT ![Ev.slot] = "CONNECTED"]
          \/ UNCHANGED sType
          \/ /\ sType[Ev.slot] \notin {"INVALID", "RESERVE"}
             /\ sType' = [sType EXCEPT ![Ev.slot] = "INVALID"]
      BY <1>2 DEF EventConnect, EventRead, Event, ForceClose, DefaultTypes
    <2>3. \A r \in Slots : r # Ev.slot => sType'[r] = sType[r]
      BY <1>0, <2>2
    <2>4. \/ UNCHANGED sType
          \/ <<sType[Ev.slot], sType'[Ev.slot]>> \in Lifecycle!Advances
          \/ sType[Ev.slot] \in LiveTypes /\ sType'[Ev.slot] = "INVALID"
      BY <1>0, <2>1, <2>2 DEF Lifecycle!Advances, LiveTypes
    <2> QED BY <1>0, <1>1, <2>1, <2>3, <2>4, ViewStep
  <1>3. CASE AcceptFill /\ ~ UNCHANGED <<sType, sId>>
    <2> DEFINE s == HASH_ID(request[Poller].id)
    <2>1. s \in Slots /\ sType[s] = "RESERVE"
      BY <1>0, <1>3, SlotsOfOwners
      DEF AcceptFill, HeldSlot, Holds, ReservationInv, ReservationOwned, ClaimIsReserved
    <2>2. /\ sType' = [sType EXCEPT ![s] = "PACCEPT"]
          /\ sId' = [sId EXCEPT ![s] = request[Poller].id]
      BY <1>3, <2>1 DEF AcceptFill
    <2> QED BY <1>0, <2>1, <2>2, ViewStep DEF Lifecycle!Openings
  <1> QED BY <1>1, <1>2, <1>3 DEF PollEnter, NoCommand, Wait, WaitInterrupted, HandleEvent, EventDrop,
     EventAccept, EventWrite, ClearClosedEvent, Return, slotVars

\* Every step of the gate server is one of SocketLifecycle, or none.
LEMMA LifecycleStep == ReservationInv /\ [Next]_vars => [Lifecycle!Next]_slotView
  <1> SUFFICES ASSUME ReservationInv, [Next]_vars PROVE Lifecycle!Next \/ UNCHANGED slotView
    OBVIOUS
  <1>0. TypeInv'
    BY TypeStep DEF ReservationInv
  <1>1. CASE UNCHANGED <<sType, sId>>
    BY <1>1, ViewStutter
  <1>2. CASE \E p \in Procs : Reserve(p) \/ ReserveFull(p)
    BY <1>0, <1>2, LifecycleReserve
  <1>3. CASE CtrlCmd
    BY <1>0, <1>3, LifecycleCommand
  <1>4. CASE (Poll /\ ~CtrlCmd) \/ WaitInterrupted
    BY <1>0, <1>4, LifecyclePoll DEF Poll
  <1>5. CASE \E t \in Threads : Call(t) \/ SendRequest(t)
    <2>1. UNCHANGED <<sType, sId>>
      BY <1>5 DEF Call, ServerListen, ServerBind, ServerConnect, ServerCommand, ServerSend, SendRequest, slotVars
    <2> QED BY <1>1, <2>1
  <1>6. CASE (\E f \in FDs : Connected(f)) \/ UNCHANGED vars
    <2>1. UNCHANGED <<sType, sId>>
      BY <1>6 DEF Connected, vars, slotVars
    <2> QED BY <1>1, <2>1
  <1> QED BY <1>2, <1>3, <1>4, <1>5, <1>6 DEF Next, AppStep, PollStep, Procs

\* The slot table implements its abstract life cycle: no step reuses a slot that
\* is not free, changes the id of a live socket or skips a state.
THEOREM SlotsImplementLifecycle == Spec => ImplementsLifecycle
  <1>1. Init => Lifecycle!Init
    BY SameDefinitions DEF Init, slotView, Lifecycle!Init, Lifecycle!Empty, Lifecycle!NoId, LiveTypes
  <1> QED BY <1>1, ReservationInit, ReservationStep, LifecycleStep, PTL DEF Spec, ImplementsLifecycle, Lifecycle!Spec
=============================================================================
