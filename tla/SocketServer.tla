---------------------------- MODULE SocketServer ----------------------------
(***************************************************************************)
(* The gate server's socket_server (gateserver/socket_server.cpp): the     *)
(* slot table, the lock-free reserve_id run by every calling thread, the   *)
(* control pipe, and the poll loop with its batch of epoll events.         *)
(*                                                                         *)
(* A step is one access to shared state.  Application threads only         *)
(* touch a slot between INVALID and RESERVE, so a command handler of the   *)
(* poll thread is one step, while reserve_id is a step per access and      *)
(* closing a socket and clear_closed_event are two.                        *)
(***************************************************************************)
EXTENDS SocketDefine

CONSTANTS
  MaxPipe,    \* commands the control pipe holds before write blocks
  MAX_EVENT,  \* events one epoll_wait returns (64 in the code)
  AllocStart, \* value of alloc_id when the run starts (0 after initialize)
  MaxAlloc,   \* BOUND: ids handed out in a run; IdLimit means no bound
  Api,        \* BOUND: the commands the application uses
  Concurrent, \* FALSE: the application only calls between two polls
  Faults      \* which calls to the operating system may fail

ASSUME BoundAssumption ==
  /\ MaxPipe \in Nat \ {0} /\ MAX_EVENT \in Nat \ {0}
  /\ AllocStart \in Ids /\ MaxAlloc \in 0 .. IdLimit
  /\ Api \subseteq Commands /\ Concurrent \in BOOLEAN
  /\ Faults \subseteq {"add", "resolve", "connect", "read", "write"}

VARIABLES
  sType, sId, sFd,  \* slot[i].type, slot[i].id, slot[i].fd
  alloc_id,
  pc,        \* where each thread is
  request,   \* the request each thread is building (its local variables)
  tries,     \* the loop counter i of reserve_id
  pipe,      \* commands written to sendctrl_fd, not yet read
  checkctrl,
  batch,     \* ev[event_index .. event_n - 1]
  listener,  \* the slot report_accept is accepting for
  result,    \* the socket_message poll is about to return
  known,     \* ids the application has been given
  fdState, epoll, epollOut, \* the kernel: descriptors, EPOLLIN, EPOLLOUT
  aborted    \* "none", or the assertion or null pointer the process died on

slotVars   == <<sType, sId, sFd>>
callVars   == <<alloc_id, request, tries>>
pollVars   == <<checkctrl, batch, listener, result>>
kernelVars == <<fdState, epoll, epollOut>>
vars == <<slotVars, callVars, pc, pipe, pollVars, known, kernelVars, aborted>>

Init ==
  /\ sType = [s \in Slots |-> "INVALID"]
  /\ sId = [s \in Slots |-> 0]
  /\ sFd = [s \in Slots |-> NoFd]
  /\ alloc_id = AllocStart
  /\ pc = [p \in Procs |-> "idle"]
  /\ request = [p \in Procs |-> NoRequest]
  /\ tries = [p \in Procs |-> 0]
  /\ pipe = <<>>
  /\ checkctrl = TRUE
  /\ batch = <<>>
  /\ listener = NoSlot
  /\ result = NoResult
  /\ known = {}
  /\ fdState = [f \in FDs |-> "free"]
  /\ epoll = [f \in FDs |-> NoSlot]
  /\ epollOut = {}
  /\ aborted = "none"

Goto(p, label) == pc' = [pc EXCEPT ![p] = label]

-----------------------------------------------------------------------------
(* reserve_id, run by an application thread or by report_accept *)

\* BOUND: no call starts once MaxAlloc ids (counted modulo IdLimit) have been drawn.
Budget == MaxAlloc = IdLimit \/ (alloc_id + IdLimit - AllocStart) % IdLimit < MaxAlloc

\* Thread p enters reserve_id on behalf of a call of kind c holding descriptor f.
StartReserve(p, c, f) ==
  /\ Budget
  /\ request' = [request EXCEPT ![p] = [type |-> c, id |-> 0, fd |-> f]]
  /\ tries' = [tries EXCEPT ![p] = 0]
  /\ Goto(p, "add")
  /\ UNCHANGED alloc_id

\* __sync_add_and_fetch(&alloc_id, 1)
ReserveAdd(p) ==
  /\ pc[p] = "add"
  /\ alloc_id' = NextWord(alloc_id)
  /\ request' = [request EXCEPT ![p].id = alloc_id']
  /\ Goto(p, IF alloc_id' >= IdLimit THEN "mask" ELSE "look")
  /\ UNCHANGED <<slotVars, tries, pipe, pollVars, known, kernelVars, aborted>>

\* __sync_and_and_fetch(&alloc_id, 0x7fffffff), after a negative id
ReserveMask(p) ==
  /\ pc[p] = "mask"
  /\ alloc_id' = MaskWord(alloc_id)
  /\ request' = [request EXCEPT ![p].id = alloc_id']
  /\ Goto(p, "look")
  /\ UNCHANGED <<slotVars, tries, pipe, pollVars, known, kernelVars, aborted>>

\* Mutant of NextTry: the loop never counts.
NeverCount(i) == i
\* i++ of the loop over MAX_SOCKET ids.
NextTry(i) == i + 1

\* if (s->type == SOCKET_TYPE_INVALID), else the next i
ReserveLook(p) ==
  LET s == HASH_ID(request[p].id) IN
  /\ pc[p] = "look"
  /\ \/ /\ sType[s] = "INVALID"
        /\ Goto(p, "cas")
        /\ UNCHANGED tries
     \/ /\ sType[s] # "INVALID"
        /\ tries' = [tries EXCEPT ![p] = NextTry(@)]
        /\ Goto(p, IF NextTry(tries[p]) < MAX_SOCKET THEN "add" ELSE "full")
  /\ UNCHANGED <<slotVars, alloc_id, request, pipe, pollVars, known, kernelVars, aborted>>

\* Mutant of CasSucceeds: a plain store instead of the compare-and-swap.
PlainStore(s) == TRUE
\* The comparison of __sync_bool_compare_and_swap(&s->type, INVALID, RESERVE)
CasSucceeds(s) == sType[s] = "INVALID"

\* A failed swap retries without counting (--i).
ReserveCas(p) ==
  LET s == HASH_ID(request[p].id) IN
  /\ pc[p] = "cas"
  /\ \/ /\ CasSucceeds(s)
        /\ sType' = [sType EXCEPT ![s] = "RESERVE"]
        /\ Goto(p, "setid")
     \/ /\ ~CasSucceeds(s)
        /\ Goto(p, "add")
        /\ UNCHANGED sType
  /\ UNCHANGED <<sId, sFd, callVars, pipe, pollVars, known, kernelVars, aborted>>

\* s->id = id
ReserveSetId(p) ==
  /\ pc[p] = "setid"
  /\ sId' = [sId EXCEPT ![HASH_ID(request[p].id)] = request[p].id]
  /\ Goto(p, "setfd")
  /\ UNCHANGED <<sType, sFd, callVars, pipe, pollVars, known, kernelVars, aborted>>

\* s->fd = -1, and reserve_id returns
ReserveSetFd(p) ==
  /\ pc[p] = "setfd"
  /\ sFd' = [sFd EXCEPT ![HASH_ID(request[p].id)] = NoFd]
  /\ Goto(p, IF p = Poller THEN "fill" ELSE "write")
  /\ UNCHANGED <<sType, sId, callVars, pipe, pollVars, known, kernelVars, aborted>>

Reserve(p) ==
  \/ ReserveAdd(p) \/ ReserveMask(p) \/ ReserveLook(p)
  \/ ReserveCas(p) \/ ReserveSetId(p) \/ ReserveSetFd(p)

-----------------------------------------------------------------------------
(* The server_* interface, called by application threads *)

\* Outside a Concurrent run one thread calls server_* and poll in turn.
MayCall(t, c) ==
  pc[t] = "idle" /\ c \in Api /\ (Concurrent \/ pc[Poller] = "idle")

\* server_listen up to reserve_id: socket, bind and listen gave descriptor f.
ServerListen(t) ==
  /\ MayCall(t, "L")
  /\ \E f \in FDs :
       /\ fdState[f] = "free"
       /\ fdState' = [fdState EXCEPT ![f] = "listen"]
       /\ StartReserve(t, "L", f)
  /\ UNCHANGED <<slotVars, pipe, pollVars, known, epoll, epollOut, aborted>>

\* server_bind up to reserve_id, for a descriptor the application owns.
ServerBind(t) ==
  /\ MayCall(t, "B")
  /\ \E f \in FDs :
       /\ fdState[f] \in {"free", "user"}
       /\ fdState' = [fdState EXCEPT ![f] = "user"]
       /\ StartReserve(t, "B", f)
  /\ UNCHANGED <<slotVars, pipe, pollVars, known, epoll, epollOut, aborted>>

\* server_connect up to reserve_id.
ServerConnect(t) ==
  /\ MayCall(t, "O")
  /\ StartReserve(t, "O", NoFd)
  /\ UNCHANGED <<slotVars, pipe, pollVars, known, kernelVars, aborted>>

\* reserve_id returned -1: server_listen and report_accept close what they
\* opened; the descriptor given to server_bind stays the caller's.
ReserveFull(p) ==
  LET f == request[p].fd IN
  /\ pc[p] = "full"
  /\ fdState' = [g \in FDs |->
       IF g = f /\ request[p].type \in {"L", "ACCEPT"} THEN "free" ELSE fdState[g]]
  /\ request' = [request EXCEPT ![p] = NoRequest]
  /\ tries' = [tries EXCEPT ![p] = 0]
  /\ Goto(p, IF p = Poller THEN "loop" ELSE "idle")
  /\ UNCHANGED <<slotVars, alloc_id, pipe, pollVars, known, epoll, epollOut, aborted>>

\* send_request: the write to the control pipe, blocking while it is full. The
\* call then returns, a call that reserved an id returning it.
SendRequest(t) ==
  /\ pc[t] = "write" /\ Len(pipe) < MaxPipe
  /\ pipe' = Append(pipe, request[t])
  /\ known' = IF request[t].type \in OpenCommands THEN known \cup {request[t].id} ELSE known
  /\ request' = [request EXCEPT ![t] = NoRequest]
  /\ tries' = [tries EXCEPT ![t] = 0]
  /\ Goto(t, "idle")
  /\ UNCHANGED <<slotVars, alloc_id, pollVars, kernelVars, aborted>>

\* server_start, server_close, server_exit: they fill a package from their
\* arguments and write it.
ServerCommand(t) ==
  /\ \E c \in {"S", "K", "X"} :
       /\ MayCall(t, c)
       /\ \E i \in IF c = "X" THEN {0} ELSE known :
            request' = [request EXCEPT ![t] = [type |-> c, id |-> i, fd |-> NoFd]]
  /\ Goto(t, "write")
  /\ UNCHANGED <<slotVars, alloc_id, tries, pipe, pollVars, known, kernelVars, aborted>>

\* server_send: an id that is not in its slot is refused with -1.
ServerSend(t) ==
  /\ MayCall(t, "D")
  /\ \E i \in known :
       /\ sId[HASH_ID(i)] = i /\ sType[HASH_ID(i)] # "INVALID"
       /\ request' = [request EXCEPT ![t] = [type |-> "D", id |-> i, fd |-> NoFd]]
  /\ Goto(t, "write")
  /\ UNCHANGED <<slotVars, alloc_id, tries, pipe, pollVars, known, kernelVars, aborted>>

Call(t) ==
  \/ ServerListen(t) \/ ServerBind(t) \/ ServerConnect(t)
  \/ ServerCommand(t) \/ ServerSend(t)

-----------------------------------------------------------------------------
(* What the handlers of the poll thread share *)

\* The poll thread dies on an assertion or a null pointer.
Abort(why) == aborted' = why /\ UNCHANGED <<slotVars, callVars, pc, pollVars, known, kernelVars>>

\* A handler has r to return; after CLOSE and ERROR poll calls clear_closed_event.
Answer(r) ==
  /\ result' = r
  /\ Goto(Poller, IF r.type \in {"CLOSE", "ERROR"} THEN "clear" ELSE "return")

\* epoll_ctl(ADD) of f: whether it may succeed.
AddOutcomes(f) ==
  CASE fdState[f] = "free" \/ epoll[f] # NoSlot -> {FALSE}
    [] OTHER -> IF "add" \in Faults THEN BOOLEAN ELSE {TRUE}

\* Mutant of EpollWrite: slot, the table, is registered instead of s.
EpollWriteTable(f, s, enable) ==
  IF f \in FDs /\ epoll[f] # NoSlot
    THEN epoll' = [epoll EXCEPT ![f] = 0] /\ epollOut' = epollOut \ {f}
    ELSE UNCHANGED <<epoll, epollOut>>
\* event_fd.write: epoll_ctl(MOD) repoints f to slot s and sets its EPOLLOUT.
EpollWrite(f, s, enable) ==
  IF f \in FDs /\ epoll[f] # NoSlot
    THEN /\ epoll' = [epoll EXCEPT ![f] = s]
         /\ epollOut' = IF enable THEN epollOut \cup {f} ELSE epollOut \ {f}
    ELSE UNCHANGED <<epoll, epollOut>>

\* Mutant of ClosedOnForce: one type too few.
KeepConnecting == SocketTypes \ {"BIND", "CONNECTING"}
\* The types of which force_close closes the descriptor.
ClosedOnForce == SocketTypes \ {"BIND"}

\* The types of which force_close removes the descriptor from epoll.
DeletedOnForce == LiveTypes \ {"PACCEPT", "PLISTEN"}

\* Mutant of ForceClose: it returns at once.
ForceCloseNothing(s) == UNCHANGED <<sType, kernelVars>>

\* force_close of a slot that is neither INVALID nor RESERVE. Closing a
\* descriptor also removes it from epoll.
ForceClose(s) ==
  LET f == sFd[s] IN
  /\ sType' = [sType EXCEPT ![s] = "INVALID"]
  /\ fdState' = [g \in FDs |->
       IF g = f /\ sType[s] \in ClosedOnForce THEN "free" ELSE fdState[g]]
  /\ IF sType[s] \in DeletedOnForce \cup ClosedOnForce
       THEN /\ epoll' = [g \in FDs |-> IF g = f THEN NoSlot ELSE epoll[g]]
            /\ epollOut' = epollOut \ {f}
       ELSE UNCHANGED <<epoll, epollOut>>

-----------------------------------------------------------------------------
(* ctrl_cmd: one command read from the pipe *)

Cmd == Head(pipe)

Command(c) ==
  /\ pc[Poller] = "loop" /\ checkctrl
  /\ pipe # <<>> /\ Cmd.type = c
  /\ pipe' = Tail(pipe)

\* Mutants of Stale: one of its two conditions is dropped.
StaleIgnoresId   == sType[HASH_ID(Cmd.id)] = "INVALID"
StaleIgnoresType == sId[HASH_ID(Cmd.id)] # Cmd.id
\* The slot of the command's id holds another incarnation, or none.
Stale == sType[HASH_ID(Cmd.id)] = "INVALID" \/ sId[HASH_ID(Cmd.id)] # Cmd.id

Continue == UNCHANGED <<pc, result>>

\* new_socket, when its assertion holds, for the slot of the command's id.
NewSocket(f, type) ==
  LET s == HASH_ID(Cmd.id) IN
  /\ sType' = [sType EXCEPT ![s] = type]
  /\ sId' = [sId EXCEPT ![s] = Cmd.id]
  /\ sFd' = [sFd EXCEPT ![s] = f]

NewSocketFails == sType[HASH_ID(Cmd.id)] # "RESERVE"

\* listen_socket answers nothing: the slot waits for server_start.
CmdListen ==
  /\ Command("L")
  /\ IF NewSocketFails THEN Abort("new_socket")
     ELSE /\ NewSocket(Cmd.fd, "PLISTEN")
          /\ Continue
          /\ UNCHANGED <<callVars, checkctrl, batch, listener, known, kernelVars, aborted>>

\* bind_socket: answered with OPEN, or with ERROR when epoll refuses the descriptor.
CmdBind ==
  LET s == HASH_ID(Cmd.id) IN
  /\ Command("B")
  /\ IF NewSocketFails THEN Abort("new_socket")
     ELSE /\ \E ok \in AddOutcomes(Cmd.fd) :
               \/ /\ ok
                  /\ NewSocket(Cmd.fd, "BIND")
                  /\ epoll' = [epoll EXCEPT ![Cmd.fd] = s]
                  /\ Answer(Result("OPEN", Cmd.id))
               \/ /\ ~ok
                  /\ sType' = [sType EXCEPT ![s] = "INVALID"]
                  /\ Answer(Result("ERROR", Cmd.id))
                  /\ UNCHANGED <<sId, sFd, epoll>>
          /\ UNCHANGED <<callVars, checkctrl, batch, listener, known, fdState, epollOut, aborted>>

\* Mutant of CmdOpenUnresolved: the slot is not given up.
CmdOpenKeeps ==
  /\ Command("O") /\ "resolve" \in Faults
  /\ Answer(Result("ERROR", Cmd.id))
  /\ UNCHANGED <<slotVars, callVars, checkctrl, batch, listener, known, kernelVars, aborted>>

\* The host is not resolved: open_socket gives the slot up.
CmdOpenUnresolved ==
  /\ Command("O") /\ "resolve" \in Faults
  /\ sType' = [sType EXCEPT ![HASH_ID(Cmd.id)] = "INVALID"]
  /\ Answer(Result("ERROR", Cmd.id))
  /\ UNCHANGED <<sId, sFd, callVars, checkctrl, batch, listener, known, kernelVars, aborted>>

\* No address gives a connection, or no descriptor is left: the loop tests
\* ai_list, so ai_ptr is followed to null.
CmdOpenExhausted ==
  /\ Command("O")
  /\ "connect" \in Faults \/ \A f \in FDs : fdState[f] # "free"
  /\ Abort("null")

\* Mutant of WatchConnect: event_fd.write is not called.
WatchNothing(f) == epollOut
\* A connection in progress is watched for EPOLLOUT.
WatchConnect(f) == epollOut \cup {f}

\* A socket f is connected at once or in progress. When it cannot be added to
\* epoll new_socket returns the null pointer whose type is then assigned.
CmdOpen ==
  LET s == HASH_ID(Cmd.id) IN
  /\ Command("O")
  /\ \E f \in FDs :
       /\ fdState[f] = "free"
       /\ IF NewSocketFails THEN Abort("new_socket")
          ELSE \/ "add" \in Faults /\ Abort("null")
               \/ /\ epoll' = [epoll EXCEPT ![f] = s]
                  /\ \/ /\ NewSocket(f, "CONNECTED")
                        /\ fdState' = [fdState EXCEPT ![f] = "conn"]
                        /\ Answer(Result("OPEN", Cmd.id))
                        /\ UNCHANGED epollOut
                     \/ /\ NewSocket(f, "CONNECTING")
                        /\ fdState' = [fdState EXCEPT ![f] = "connecting"]
                        /\ epollOut' = WatchConnect(f)
                        /\ Continue
                  /\ UNCHANGED <<callVars, checkctrl, batch, listener, known, aborted>>

\* start_socket on a pending slot. When add fails the slot is given up, its
\* descriptor left open.
CmdStartPending ==
  LET s == HASH_ID(Cmd.id) IN
  /\ Command("S") /\ ~Stale /\ sType[s] \in {"PACCEPT", "PLISTEN"}
  /\ \E ok \in AddOutcomes(sFd[s]) :
       \/ /\ ok
          /\ sType' = [sType EXCEPT ![s] = IF @ = "PACCEPT" THEN "CONNECTED" ELSE "LISTEN"]
          /\ epoll' = [epoll EXCEPT ![sFd[s]] = s]
          /\ Answer(Result("OPEN", Cmd.id))
       \/ /\ ~ok
          /\ sType' = [sType EXCEPT ![s] = "INVALID"]
          /\ Answer(Result("ERROR", Cmd.id))
          /\ UNCHANGED epoll
  /\ UNCHANGED <<sId, sFd, callVars, checkctrl, batch, listener, known, fdState, epollOut, aborted>>

\* start_socket on any other slot; only a connected one is answered.
CmdStartOther ==
  LET s == HASH_ID(Cmd.id) IN
  /\ Command("S")
  /\ \/ Stale /\ Answer(Result("ERROR", Cmd.id))
     \/ ~Stale /\ sType[s] = "CONNECTED" /\ Answer(Result("OPEN", Cmd.id))
     \/ ~Stale /\ sType[s] \notin {"PACCEPT", "PLISTEN", "CONNECTED"} /\ Continue
  /\ UNCHANGED <<slotVars, callVars, checkctrl, batch, listener, known, kernelVars, aborted>>

\* close_socket; the write lists are empty, so it always closes at once.
CmdClose ==
  LET s == HASH_ID(Cmd.id) IN
  /\ Command("K")
  /\ \/ ~Stale /\ sType[s] = "RESERVE" /\ Abort("force_close")
     \/ /\ \/ Stale /\ UNCHANGED <<sType, kernelVars>>
           \/ ~Stale /\ sType[s] # "RESERVE" /\ ForceClose(s)
        /\ Answer(Result("CLOSE", Cmd.id))
        /\ UNCHANGED <<sId, sFd, callVars, checkctrl, batch, listener, known, aborted>>

\* send_socket: all written; or cut short, when the rest is dropped and EPOLLOUT
\* asked for; or an error, when the socket is closed.
CmdSend ==
  LET s == HASH_ID(Cmd.id) IN
  /\ Command("D")
  /\ \/ ~Stale /\ sType[s] \in {"PLISTEN", "LISTEN"} /\ Abort("send_socket")
     \/ /\ Stale \/ sType[s] \notin {"PLISTEN", "LISTEN"}
        /\ Continue
        /\ UNCHANGED <<slotVars, callVars, checkctrl, batch, listener, known, kernelVars, aborted>>
     \/ /\ ~Stale /\ sType[s] = "CONNECTED"
        /\ \/ /\ EpollWrite(sFd[s], s, TRUE)
              /\ Continue
              /\ UNCHANGED <<sType, fdState>>
           \/ /\ "write" \in Faults
              /\ ForceClose(s)
              /\ Answer(Result("CLOSE", Cmd.id))
        /\ UNCHANGED <<sId, sFd, callVars, checkctrl, batch, listener, known, aborted>>

CmdExit ==
  /\ Command("X")
  /\ Answer(Result("EXIT", 0))
  /\ UNCHANGED <<slotVars, callVars, checkctrl, batch, listener, known, kernelVars, aborted>>

CtrlCmd ==
  \/ CmdListen \/ CmdBind \/ CmdOpenUnresolved \/ CmdOpenExhausted \/ CmdOpen
  \/ CmdStartPending \/ CmdStartOther \/ CmdClose \/ CmdSend \/ CmdExit

-----------------------------------------------------------------------------
(* poll: commands first, then the events of the last epoll_wait *)

PollEnter ==
  /\ pc[Poller] = "idle"
  /\ Concurrent \/ \A t \in Threads : pc[t] = "idle"
  /\ Goto(Poller, "loop")
  /\ UNCHANGED <<slotVars, callVars, pipe, pollVars, known, kernelVars, aborted>>

\* has_cmd found the pipe empty.
NoCommand ==
  /\ pc[Poller] = "loop" /\ checkctrl /\ pipe = <<>>
  /\ checkctrl' = FALSE
  /\ UNCHANGED <<slotVars, callVars, pc, pipe, batch, listener, result, known, kernelVars, aborted>>

\* epoll_wait is called when every event of the last batch has been handled.
AtWait == pc[Poller] = "loop" /\ ~checkctrl /\ batch = <<>>

\* What epoll_wait can report, and what it must report while there is room.
\* NoFd stands for the control pipe, registered with a null pointer.
Reportable == {f \in FDs : epoll[f] # NoSlot /\ fdState[f] # "connecting"}
                \cup (IF pipe # <<>> THEN {NoFd} ELSE {})
\* A connection in progress that succeeded is writable, nothing being sent yet.
JustConnected(f) ==
  f \in epollOut /\ fdState[f] = "conn" /\ sType[epoll[f]] = "CONNECTING"
MustReport == {f \in Reportable : f = NoFd \/ fdState[f] = "failed" \/ JustConnected(f)}

\* The <<read, write>> flags of a report of f.
Flags(f) ==
  CASE f = NoFd \/ fdState[f] = "listen" -> {<<TRUE, FALSE>>}
    [] f # NoFd /\ fdState[f] = "failed" -> {<<TRUE, f \in epollOut>>}
    [] OTHER -> (IF f \in epollOut THEN {<<TRUE, TRUE>>, <<FALSE, TRUE>>} ELSE {})
                \cup (IF JustConnected(f) THEN {} ELSE {<<TRUE, FALSE>>})

EventFor(f, rw) ==
  [slot  |-> IF f = NoFd THEN NoSlot ELSE epoll[f], read |-> rw[1], write |-> rw[2],
   of    |-> IF f = NoFd THEN 0 ELSE sId[epoll[f]]]

\* Mutant of CheckAfterWait: the flag is not set again.
CheckOnce == FALSE
\* checkctrl after epoll_wait.
CheckAfterWait == TRUE

\* epoll_wait returns up to MAX_EVENT reports in any order. poll goes on with
\* the first of them before it looks at the pipe again.
Wait ==
  /\ AtWait
  /\ \E n \in 1 .. MAX_EVENT : \E fds \in [1 .. n -> Reportable] :
       /\ \A i, j \in 1 .. n : fds[i] = fds[j] => i = j
       /\ n = MAX_EVENT \/ \A f \in MustReport : \E i \in 1 .. n : fds[i] = f
       /\ \E rw \in [1 .. n -> BOOLEAN \X BOOLEAN] :
            /\ \A i \in 1 .. n : rw[i] \in Flags(fds[i])
            /\ batch' = [i \in 1 .. n |-> EventFor(fds[i], rw[i])]
  /\ checkctrl' = CheckAfterWait
  /\ Goto(Poller, "event")
  /\ UNCHANGED <<slotVars, callVars, pipe, listener, result, known, kernelVars, aborted>>

\* A signal interrupts epoll_wait, nothing being ready: poll returns -1.
WaitInterrupted ==
  /\ AtWait /\ MustReport = {}
  /\ checkctrl' = CheckAfterWait
  /\ Goto(Poller, "idle")
  /\ UNCHANGED <<slotVars, callVars, pipe, batch, listener, result, known, kernelVars, aborted>>

Ev == Head(batch)

\* poll takes the next event, whose slot has one of the given types.
Event(types) ==
  /\ pc[Poller] = "event" \/ (pc[Poller] = "loop" /\ ~checkctrl)
  /\ batch # <<>> /\ Ev.slot # NoSlot
  /\ sType[Ev.slot] \in types

\* The handler breaks out of the switch: poll goes round its loop.
Loop == Goto(Poller, "loop") /\ UNCHANGED result

\* A null pointer, or an INVALID slot: the event is dropped.
EventDrop ==
  /\ pc[Poller] = "event" \/ (pc[Poller] = "loop" /\ ~checkctrl)
  /\ batch # <<>>
  /\ Ev.slot # NoSlot => sType[Ev.slot] = "INVALID"
  /\ batch' = Tail(batch)
  /\ Loop
  /\ UNCHANGED <<slotVars, callVars, pipe, checkctrl, listener, known, kernelVars, aborted>>

\* report_connect: SO_ERROR is set on a failed connection only. The answer
\* is returned without clear_closed_event.
EventConnect ==
  LET s == Ev.slot  f == sFd[s] IN
  /\ Event({"CONNECTING"})
  /\ batch' = Tail(batch)
  /\ \/ /\ fdState[f] = "failed"
        /\ ForceClose(s)
        /\ result' = Result("ERROR", sId[s])
     \/ /\ fdState[f] # "failed"
        /\ sType' = [sType EXCEPT ![s] = "CONNECTED"]
        /\ EpollWrite(f, s, FALSE)
        /\ result' = Result("OPEN", sId[s])
        /\ UNCHANGED fdState
  /\ Goto(Poller, "return")
  /\ UNCHANGED <<sId, sFd, callVars, pipe, checkctrl, listener, known, aborted>>

\* report_accept up to reserve_id; accept itself may fail.
EventAccept ==
  /\ Event({"LISTEN"})
  /\ batch' = Tail(batch)
  /\ \/ Loop /\ UNCHANGED <<callVars, listener, fdState>>
     \/ \E f \in FDs :
          /\ fdState[f] = "free"
          /\ fdState' = [fdState EXCEPT ![f] = "conn"]
          /\ listener' = Ev.slot
          /\ StartReserve(Poller, "ACCEPT", f)
          /\ UNCHANGED result
  /\ UNCHANGED <<slotVars, pipe, checkctrl, known, epoll, epollOut, aborted>>

\* Mutant of AcceptMessage: id and ud are swapped.
AcceptSwapped(lid, id) == [Result("ACCEPT", id) EXCEPT !.ud = lid]
\* The ACCEPT message: the listening socket's id, the new id in ud.
AcceptMessage(lid, id) == [Result("ACCEPT", lid) EXCEPT !.ud = id]

\* report_accept after reserve_id: new_socket, and the ACCEPT message.
AcceptFill ==
  LET id == request[Poller].id  s == HASH_ID(id) IN
  /\ pc[Poller] = "fill"
  /\ IF sType[s] # "RESERVE" THEN Abort("new_socket")
     ELSE /\ sType' = [sType EXCEPT ![s] = "PACCEPT"]
          /\ sId' = [sId EXCEPT ![s] = id]
          /\ sFd' = [sFd EXCEPT ![s] = request[Poller].fd]
          /\ result' = AcceptMessage(sId[listener], id)
          /\ listener' = NoSlot
          /\ request' = [request EXCEPT ![Poller] = NoRequest]
          /\ tries' = [tries EXCEPT ![Poller] = 0]
          /\ Goto(Poller, "return")
          /\ UNCHANGED <<alloc_id, checkctrl, batch, known, kernelVars, aborted>>
  /\ UNCHANGED pipe

\* What read may do on descriptor f: give data, give nothing (end of file,
\* EAGAIN, EINTR, a zero-sized buffer: s->size is never initialised), or fail.
ReadOutcomes(f) ==
  CASE f = NoFd \/ (f \in FDs /\ fdState[f] = "free") -> {"error"}
    [] f \in FDs /\ fdState[f] \in {"listen", "failed"} -> {"none", "error"}
    [] f \in FDs /\ fdState[f] = "connecting" -> {"none"}
    [] OTHER -> {"data", "none"} \cup (IF "read" \in Faults THEN {"error"} ELSE {})

\* The types poll sends to its default case.
DefaultTypes == SocketTypes \ {"CONNECTING", "LISTEN", "INVALID"}

\* forward_message_tcp; an event that is also writable is handed out again with
\* read off. An error closes the socket and reports nothing.
EventRead ==
  LET s == Ev.slot IN
  /\ Event(DefaultTypes) /\ Ev.read
  /\ batch' = IF Ev.write THEN [batch EXCEPT ![1].read = FALSE] ELSE Tail(batch)
  /\ \E o \in ReadOutcomes(sFd[s]) :
       \/ /\ o = "data"
          /\ Answer(Result("DATA", sId[s]))
          /\ UNCHANGED <<sType, kernelVars, aborted>>
       \/ o = "none" /\ Loop /\ UNCHANGED <<sType, kernelVars, aborted>>
       \/ o = "error" /\ sType[s] = "RESERVE" /\ aborted' = "force_close" /\ Loop /\ UNCHANGED <<sType, kernelVars>>
       \/ o = "error" /\ sType[s] # "RESERVE" /\ ForceClose(s) /\ Loop /\ UNCHANGED aborted
  /\ UNCHANGED <<sId, sFd, callVars, pipe, checkctrl, listener, known>>

\* send_buffer with empty lists: EPOLLOUT is turned off.
EventWrite ==
  /\ Event(DefaultTypes) /\ ~Ev.read
  /\ batch' = Tail(batch)
  /\ EpollWrite(sFd[Ev.slot], Ev.slot, FALSE)
  /\ Loop
  /\ UNCHANGED <<slotVars, callVars, pipe, checkctrl, listener, known, fdState, aborted>>

\* Mutant of Cleared: clear_closed_event does nothing.
ClearedNever(e) == FALSE
\* clear_closed_event nulls a pending event when this holds.
Cleared(e) ==
  /\ e.slot # NoSlot
  /\ sType[e.slot] = "INVALID" /\ sId[e.slot] = result.id

ClearClosedEvent ==
  /\ pc[Poller] = "clear"
  /\ batch' = [i \in 1 .. Len(batch) |->
       IF Cleared(batch[i]) THEN [batch[i] EXCEPT !.slot = NoSlot] ELSE batch[i]]
  /\ Goto(Poller, "return")
  /\ UNCHANGED <<slotVars, callVars, pipe, checkctrl, listener, result, known, kernelVars, aborted>>

\* poll returns result; the program's loop stops on EXIT.
Return ==
  /\ pc[Poller] = "return"
  /\ known' = IF result.type = "ACCEPT" THEN known \cup {result.ud} ELSE known
  /\ result' = NoResult
  /\ Goto(Poller, IF result.type = "EXIT" THEN "exit" ELSE "idle")
  /\ UNCHANGED <<slotVars, callVars, pipe, checkctrl, batch, listener, kernelVars, aborted>>

HandleEvent ==
  \/ EventDrop \/ EventConnect \/ EventAccept \/ EventRead \/ EventWrite

Poll ==
  \/ PollEnter \/ NoCommand \/ CtrlCmd \/ Wait \/ HandleEvent
  \/ AcceptFill \/ ClearClosedEvent \/ Return

-----------------------------------------------------------------------------
(* The kernel *)

\* A connection in progress is established or refused.
Connected(f) ==
  /\ fdState[f] = "connecting"
  /\ \E st \in {"conn", "failed"} : fdState' = [fdState EXCEPT ![f] = st]
  /\ UNCHANGED <<slotVars, callVars, pc, pipe, pollVars, known, epoll, epollOut, aborted>>

AppStep(t)  == Reserve(t) \/ ReserveFull(t) \/ SendRequest(t)
PollStep    == Reserve(Poller) \/ ReserveFull(Poller) \/ Poll

Next ==
  /\ aborted = "none"
  /\ \/ \E t \in Threads : Call(t) \/ AppStep(t)
     \/ PollStep \/ WaitInterrupted
     \/ \E f \in FDs : Connected(f)

Spec == Init /\ [][Next]_vars

\* The scheduler runs every thread, the program calls poll in a loop, and a
\* call that was begun is carried on; the kernel wakes the writers of a full
\* pipe in turn. No new call is promised.
Fairness ==
  /\ \A t \in Threads : WF_vars(aborted = "none" /\ AppStep(t))
  /\ \A t \in Threads : SF_vars(aborted = "none" /\ SendRequest(t))
  /\ WF_vars(aborted = "none" /\ PollStep)
  /\ \A f \in FDs : WF_vars(aborted = "none" /\ Connected(f))

FairSpec == Spec /\ Fairness

-----------------------------------------------------------------------------
(* Properties *)

Labels == {"idle", "add", "mask", "look", "cas", "setid", "setfd", "full", "write",
           "fill", "loop", "event", "clear", "return", "exit"}
Aborts == {"none", "new_socket", "force_close", "send_socket", "null"}

SlotTypeOK ==
  /\ sType \in [Slots -> SocketTypes]
  /\ sId \in [Slots -> Ids]
  /\ sFd \in [Slots -> FDs \cup {NoFd}]
CallTypeOK ==
  /\ alloc_id \in Words
  /\ pc \in [Procs -> Labels]
  /\ request \in [Procs -> Requests]
  /\ tries \in [Procs -> 0 .. MAX_SOCKET]
PipeTypeOK == pipe \in Seq(Requests) /\ known \subseteq Ids
PollTypeOK ==
  /\ checkctrl \in BOOLEAN /\ batch \in Seq(Events)
  /\ listener \in Slots \cup {NoSlot} /\ result \in Results
KernelTypeOK ==
  /\ fdState \in [FDs -> FdStates] /\ epoll \in [FDs -> Slots \cup {NoSlot}]
  /\ epollOut \subseteq FDs /\ aborted \in Aborts

\* The variables keep their types; ids, and only ids, reach slots and messages.
TypeOK == SlotTypeOK /\ CallTypeOK /\ PipeTypeOK /\ PollTypeOK /\ KernelTypeOK

\* Thread p has won a slot in reserve_id and not yet passed it on.
Holds(p) ==
  \/ pc[p] \in {"setid", "setfd", "fill"}
  \/ pc[p] = "write" /\ request[p].type \in OpenCommands
HeldSlot(p) == HASH_ID(request[p].id)

\* Entry k of the control pipe carries a won slot to the poll thread.
Carries(k)     == k \in 1 .. Len(pipe) /\ pipe[k].type \in OpenCommands
CarriedSlot(k) == HASH_ID(pipe[k].id)

\* A slot that a thread or a command in the pipe owns is RESERVE.
ClaimIsReserved ==
  /\ \A p \in Procs : Holds(p) => sType[HeldSlot(p)] = "RESERVE"
  /\ \A k \in 1 .. Len(pipe) : Carries(k) => sType[CarriedSlot(k)] = "RESERVE"

\* No two of them own the same slot.
ClaimIsUnique ==
  /\ \A p, q \in Procs : Holds(p) /\ Holds(q) /\ HeldSlot(p) = HeldSlot(q) => p = q
  /\ \A p \in Procs : \A k \in 1 .. Len(pipe) :
       Holds(p) /\ Carries(k) => HeldSlot(p) # CarriedSlot(k)
  /\ \A j, k \in 1 .. Len(pipe) :
       Carries(j) /\ Carries(k) /\ CarriedSlot(j) = CarriedSlot(k) => j = k

\* Every slot won in reserve_id is still RESERVE when its owner, thread or
\* command, comes to fill it (new_socket), and no two owners have the same slot.
ReservationOwned == ClaimIsReserved /\ ClaimIsUnique

\* No slot stays RESERVE for ever: each has an owner that will fill it or give
\* it up (reserve_id's CAS against new_socket and the failure paths).
ReservedIsClaimed ==
  aborted = "none" =>
    \A s \in Slots : sType[s] = "RESERVE" =>
      \/ \E p \in Procs : Holds(p) /\ HeldSlot(p) = s
      \/ \E k \in 1 .. Len(pipe) : Carries(k) /\ CarriedSlot(k) = s

\* new_socket's assertion (socket_server.cpp:349) never fails, whatever the
\* threads do between the CAS and the command, ids wrapping around included.
NewSocketAssert == aborted # "new_socket"

\* A live slot has an open descriptor no other slot has, and epoll watches
\* exactly the descriptors of the slots that were added to it.
FdOwned ==
  /\ \A s \in Slots : sType[s] \in LiveTypes => sFd[s] \in FDs /\ fdState[sFd[s]] # "free"
  /\ \A s, r \in Slots : sType[s] \in LiveTypes /\ sType[r] \in LiveTypes /\ sFd[s] = sFd[r] => s = r
  /\ \A f \in FDs : epoll[f] # NoSlot <=> \E s \in Slots : sType[s] \in PolledTypes /\ sFd[s] = f

\* The pointer registered for a descriptor is the slot that owns it: an event
\* is never handed to another connection (epoll_ctl(MOD) rewrites it).
EpollPointsHome ==
  \A s \in Slots : sType[s] \in PolledTypes => epoll[sFd[s]] = s

\* A descriptor the server opened is owned by a live slot, by a thread on its
\* way to new_socket or by a listen command: none is leaked.
NoFdLeak ==
  \A f \in FDs : fdState[f] \notin {"free", "user"} =>
    \/ \E s \in Slots : sType[s] \in LiveTypes /\ sFd[s] = f
    \/ \E p \in Procs : request[p].fd = f
    \/ \E k \in 1 .. Len(pipe) : pipe[k].fd = f

\* poll is about to return a message about id i.
Returning(types) == pc[Poller] \in {"clear", "return"} /\ result.type \in types
LiveId(i) == sType[HASH_ID(i)] \in LiveTypes /\ sId[HASH_ID(i)] = i

\* A live socket is closed only by a command that names its id, or while an event
\* reported for that very socket is handled.
ClosedByName ==
  [][\A s \in Slots : sType[s] \in LiveTypes /\ sType'[s] = "INVALID" =>
       \/ pipe' # pipe /\ Cmd.id = sId[s]
       \/ batch' # batch /\ Ev.slot = s /\ Ev.of = sId[s]]_vars

\* When CLOSE or ERROR is returned the socket is gone.
ClosedIsDead == Returning({"CLOSE", "ERROR"}) => ~LiveId(result.id)

\* DATA, OPEN and ACCEPT are returned for a live socket only, and the new id of
\* an ACCEPT is a pending socket.
MessageIsLive ==
  /\ Returning({"DATA", "OPEN", "ACCEPT"}) => LiveId(result.id)
  /\ Returning({"ACCEPT"}) => sType[HASH_ID(result.ud)] = "PACCEPT" /\ LiveId(result.ud)

\* An event still to be handled is about the socket its slot held when
\* epoll_wait reported it, or about no socket (clear_closed_event).
NoStaleEvent ==
  \A k \in 1 .. Len(batch) :
    LET e == batch[k] IN
    e.slot # NoSlot /\ pc[Poller] # "clear" =>
      sType[e.slot] = "INVALID" \/ (sType[e.slot] # "RESERVE" /\ sId[e.slot] = e.of)

\* force_close's assertion (socket_server.cpp:648) never fails: no slot is closed
\* while it is reserved.
ForceCloseAssert == aborted # "force_close"

Stopped == aborted # "none" \/ pc[Poller] = "exit"

\* Every close command in the pipe is answered with CLOSE for its id.
CloseAnswered ==
  \A i \in Ids :
    (\E k \in 1 .. Len(pipe) : pipe[k].type = "K" /\ pipe[k].id = i)
      ~> (Stopped \/ (Returning({"CLOSE"}) /\ result.id = i))

\* A connection in progress does not stay so, provided poll finds the pipe empty
\* again and again: commands, being read first, can hold events back for ever.
ConnectResolved ==
  []<>(~checkctrl) =>
    \A s \in Slots : sType[s] = "CONNECTING" ~> (Stopped \/ sType[s] # "CONNECTING")

\* A call that was begun returns: reserve_id ends and the write to the pipe is
\* not blocked for ever, poll being called.
CallReturns == \A t \in Threads : pc[t] # "idle" ~> (Stopped \/ pc[t] = "idle")

\* The slot table as SocketLifecycle sees it.
slotView ==
  [s \in Slots |->
    [state |-> sType[s], id |-> IF sType[s] \in LiveTypes THEN sId[s] ELSE -1]]

Lifecycle == INSTANCE SocketLifecycle WITH slot <- slotView

\* The slot table goes through the abstract life cycle only: no step reuses a
\* slot that is not free, changes the id of a live socket or skips a state.
ImplementsLifecycle == Lifecycle!Spec
=============================================================================
