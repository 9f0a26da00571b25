---------------------------- MODULE SocketDefine ----------------------------
(***************************************************************************)
(* The constants, record shapes and id arithmetic of the gate server:      *)
(* gateserver/socket_define.h and gateserver/socket_server.h.              *)
(***************************************************************************)
EXTENDS Integers, Sequences, FiniteSets

CONSTANTS
  Threads,    \* application threads that call the server_* interface
  Poller,     \* the thread that calls socket_server::poll
  MAX_SOCKET, \* number of slots (1<<16 in the code)
  IdLimit,    \* number of non-negative ids (2^31 in the code)
  FDs,        \* file descriptors the kernel can hand out
  NoFd        \* the descriptor -1

ASSUME ThreadAssumption == Poller \notin Threads
ASSUME SlotAssumption == MAX_SOCKET \in Nat \ {0} /\ IdLimit \in Nat \ {0}
ASSUME FdAssumption == NoFd \notin FDs

Procs == Threads \cup {Poller}

Slots  == 0 .. MAX_SOCKET - 1
NoSlot == -1                       \* a null event pointer

\* A 32-bit alloc_id read as an unsigned number: IdLimit and above is negative.
Words == 0 .. 2 * IdLimit - 1
Ids   == 0 .. IdLimit - 1

\* alloc_id is incremented with 32-bit wrap-around ...
NextWord(w) == (w + 1) % (2 * IdLimit)
\* Mutant of MaskWord: the mask is forgotten.
MaskNothing(w) == w
\* ... and a negative id is masked with 0x7fffffff.
MaskWord(w) == w % IdLimit

HASH_ID(i) == i % MAX_SOCKET

\* SOCKET_TYPE_HALFCLOSE is declared but unreachable: no code ever appends to
\* a write list, so close_socket always finds the lists empty (see README).
SocketTypes == {"INVALID", "RESERVE", "PLISTEN", "LISTEN", "CONNECTING",
                "CONNECTED", "PACCEPT", "BIND"}
LiveTypes   == SocketTypes \ {"INVALID", "RESERVE"}
\* The types whose descriptor is registered with epoll.
PolledTypes == LiveTypes \ {"PLISTEN", "PACCEPT"}

\* The command letters, socket_server.h:97-111, that some call sends and
\* ctrl_cmd acts on. 'T' is handled but nothing sends it.
Commands     == {"S", "B", "L", "K", "O", "X", "D"}
\* The commands sent by a call that first reserves an id.
OpenCommands == {"L", "B", "O"}

Requests  == [type : Commands \cup {"ACCEPT", "-"}, id : Words, fd : FDs \cup {NoFd}]
NoRequest == [type |-> "-", id |-> 0, fd |-> NoFd]

Results  == [type : {"NONE", "DATA", "CLOSE", "OPEN", "ACCEPT", "ERROR", "EXIT"},
             id : Ids, ud : Ids]
Result(t, i) == [type |-> t, id |-> i, ud |-> 0]
NoResult     == Result("NONE", 0)

\* One struct event; "of" is the id its slot had when epoll_wait reported it
\* (a history field: no action reads it).
Events == [slot : Slots \cup {NoSlot}, read : BOOLEAN, write : BOOLEAN, of : Ids]

FdStates == {"free", "listen", "connecting", "failed", "conn", "user"}
=============================================================================
