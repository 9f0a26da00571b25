# Formal specification of canna

canna is a small C++ server tool kit: a gate server built on epoll, a few ZeroMQ services (names, database
proxy, path finding, routing) and a core library (ring buffer, thread pool, daemon, random numbers). This
directory specifies it in TLA+, checks the specification with TLC and proves its safety properties with TLAPS. Source
paths below are relative to the repository.

## The system

| Component | State | Operations | Talks to |
|---|---|---|---|
| socket_server, slot table (`gateserver/socket_server.cpp`) | `slot[]` (type, id, fd), `alloc_id` | `reserve_id`, `new_socket`, `force_close` | every thread that calls `server_*`, and the poll thread, share it without a lock |
| socket_server, calls | locals of the call | `server_listen/bind/connect/start/close/send/exit` | reserve a slot, then write one command to the control pipe |
| socket_server, control pipe | bytes in a pipe | `send_request`, `block_readpipe`, `has_cmd`, `ctrl_cmd` and a handler per command | writers: any thread; reader: the poll thread |
| socket_server, poll loop | `ev[]`, `event_index`, `event_n`, `checkctrl` | `poll`, `report_accept`, `report_connect`, `forward_message_tcp`, `send_buffer`, `clear_closed_event` | epoll, the slot table, the caller (a `socket_message` per return) |
| ring buffer (`core/ringbuffer.*`) | `m_head`, `m_tail`, bytes | `Write`, `Read`, `GetSize`, `IsComplete` | nothing uses it |
| thread pool, queue (`core/thread_pool.h`, `thread_safe_queue.h`) | queue, `m_done`, threads | `submit`, worker loop, destructor; `push`, `try_pop`, `wait_and_pop` | the path server |
| daemon (`core/canna_daemon.cpp`) | pid file, its lock | `daemon_init`, `daemon_exit` | file system |
| name server (`nameserver/`) | a serial and a bitset of taken serials per group | `allotnamepair`, `getnamelist`, `server_loop` | clients over a REP socket, subscribers over a PUB socket |
| db server (`dbserver/main.cpp`) | the command buffer, the REP socket's turn | receive, run on redis, answer | redis, clients over a REP socket |
| path server (`pathserver/`) | graph, the searches' `dist`, `path` and priority queue | `AddEdge`, `ShortPath`, `GetPath`, `main` | thread pool |
| load-balancing broker (`example/lbbroker.cpp`) | `worker_queue`, `client_count` | the loop of `main`, `client_thread`, `worker_thread` | two ROUTER sockets |
| peering brokers (`example/peering1.cpp`) | `worker_queue`, `capacity` per broker | both loops of `main`, `client_task`, `worker_task` | four ROUTER sockets, two of them to peers |
| work and fire (`example/routerreq.cpp`, `routerdealer.cpp`) | `worker_fired`, the clock | `main`, `work_thread` | a ROUTER socket |
| router server (`routers/`), other zmq examples (`example/`) | sockets | forwarding loops | zmq |

Most of what is hard here is in the gate server. Several threads reserve slots with atomic operations on `alloc_id` and
`slot[i].type` only; a slot is then filled later, by another thread, when the command arrives; ids wrap around;
commands and events name slots that may meanwhile have been closed and taken again; a batch of epoll events is
handled over several calls of `poll`, between which sockets are closed; the descriptor stored in a closed slot
may belong to another socket by the time somebody uses it; the control pipe blocks its writers when full.
Elsewhere: waiting and waking up in the thread-safe queue, a pool that is destroyed or fails half way through its
constructor while workers run, indices that wrap in the ring buffer, servers started and killed while they race for
a pid file, request/answer sockets that allow one order of calls only, a poll result that is used after the queue
it was computed from has changed, a second count of that queue, one buffer for all requests, distances that drop while
the queue still holds the old ones.

What makes each part correct: a slot is won by one caller and filled or given up once; no command or event acts on
another socket than its own; descriptors have one owner; calls return and closes are answered; commands cross the
pipe whole; the ring buffer is a queue of bytes; values of the queue are taken once, in order, and no consumer
sleeps beside one; tasks run once and the pool outlives its workers; a name is given once and answers list what was
published; one daemon runs and its id is the first line of the pid file;
every request of a broker is worked on once and answered, by a worker that was idle; a client of the db server gets its
own result; distances and paths are shortest ones; programs that count to their end reach it.

## Modules

| Module | What it is |
|---|---|
| `SocketDefine` | constants, message shapes and id arithmetic (`socket_define.h`, `socket_server.h`) |
| `SocketServer` | the gate server: calls, control pipe, command handlers, poll loop, the kernel as they see it |
| `SocketLifecycle` | abstract specification of the slot table: a slot is free, reserved, or holds one socket that keeps its id and passes through its states in order |
| `MCSocketServer` | symmetry sets for TLC; its `.cfg` files are the runs |
| `SocketServerProofs` | theorems about `SocketServer`: types, the slot table, the refinement |
| `SocketDescriptorProofs` | theorems about `SocketServer`: descriptors, events, messages, ids |
| `CtrlPipe`, `MCCtrlPipe`, `CtrlPipeProofs` | the bytes of the control pipe: `SocketServer` takes a command for one message, this module shows when it is; theorems |
| `RingBuffer`, `ByteFifo`, `MCRingBuffer`, `RingBufferProofs` | the ring buffer, the queue of bytes it implements, theorems |
| `ThreadSafeQueue`, `MCThreadSafeQueue`, `QueueProofs` | the queue with its condition variable, theorems |
| `ThreadPool` | the pool, over an instance of `ThreadSafeQueue` |
| `Dijkstra` | the graph and both searches, loop by loop, with the reference definition of distance |
| `PathServer`, `MCPathServer`, `PathServerProofs` | the program: searches, then the pool; theorems about both |
| `NameService` | the loop of the name server, its names, its clients |
| `Daemon` | `daemon_init` run by several processes, the kernel's locks and process ids |
| `NameServer`, `MCNameServer`, `NameServerProofs` | the program: `NameService` behind `Daemon`, started and killed at any time; theorems |
| `RequestReply` | abstract specification of a broker between clients and workers |
| `LbBroker` | the load-balancing broker with its clients and workers |
| `Peering` | the brokers of `peering1.cpp` with their clients and workers, and the messages between peers |
| `DbServer` | the loop of the db server, its buffer, redis that may be lost |
| `RouterReq` | the broker that fires its workers and joins them |
| `ZmqPrograms`, `MCZmqPrograms`, `ZmqProofs` | the four programs above, one of which a behaviour runs; theorems |

### SocketServer

Actors are the application's `Threads`, the thread that calls `poll` (`Poller`), and the kernel. A step is one
access to shared state. `reserve_id` is therefore cut at every atomic operation and every plain access
(`ReserveAdd`, `ReserveMask`, `ReserveLook`, `ReserveCas`, `ReserveSetId`, `ReserveSetFd`), and `pc` says where
each thread is. Everything else that the poll thread does to a slot happens on slots that no other thread writes
(threads only change a slot from INVALID to RESERVE), so a command handler or an event handler is one action;
two places are cut all the same, because a thread may win the slot in between: closing a socket and
`clear_closed_event` (`pc = "clear"`), and `report_accept` around its own `reserve_id`. `force_close` is one step:
between its `epoll_ctl`, `close` and `type = INVALID` no other thread reads what changes.

| State | Code |
|---|---|
| `sType`, `sId`, `sFd` | `slot[i].type`, `.id`, `.fd` |
| `alloc_id` | `alloc_id`, as an unsigned word: `IdLimit` and above is negative |
| `pc`, `request`, `tries` | where a call is, the package it builds, the loop counter of `reserve_id` |
| `pipe` | commands in the control pipe, each written and read as a whole |
| `checkctrl`, `batch` | `checkctrl`, `ev[event_index .. event_n - 1]` |
| `result` | the `socket_message` being returned |
| `known` | ids the application was given: calls name only those |
| `fdState`, `epoll`, `epollOut` | the kernel: what a descriptor is, the pointer epoll has for it, its EPOLLOUT |
| `aborted` | the assertion that failed or the null pointer that was followed, if any: the process is dead |

The payload of messages, `opaque`, `size`, `wb_size` and the text of results are left out; a read gives data,
nothing or an error. `SOCKET_TYPE_HALFCLOSE` is left out with the write lists because nothing ever appends to a
list: `send_buffer_empty` is always true, so `close_socket` never half-closes, and `send_list_tcp` and
`raise_uncomplete` are never entered. `setopt_socket` is left out because no call sends `'T'`. Only the slots the
application knows are named by its calls; `Concurrent = FALSE` restricts an application to calling the interface
between two calls of `poll` (a single-threaded program).

Faults (`Faults`): `add` - epoll_ctl(ADD) refuses; `resolve` - the host does not resolve; `connect` - every
address refuses; `read`, `write` - errors on a connection.

### The smaller modules

`CtrlPipe`: `bytes` is what the pipe holds; `SendRequest` is the one `write` of `send_request` (atomic, as it is no
longer than `PIPE_BUF`), `ReadHeader` and `ReadBody` the two reads of `ctrl_cmd`, each with the assertion of
`block_readpipe`. `sent` and `got` record commands. A byte has `ByteLimit` values and `SizeOf` gives the size of each
request structure.

`RingBuffer`: `m_buffer`, `m_head`, `m_tail` are the fields, `Write` and `Read` whole calls (nothing in the class is
made for concurrent use), `returned` and `out` what the caller sees. `contents` is the refinement mapping to
`ByteFifo`.

`ThreadSafeQueue`: every operation holds the mutex throughout, so it is one action; `wait_and_pop` is two, up to
`m_cond.wait` (`Wait`) and from the wake-up on (`Wake`), with spurious wake-ups and up to `MaxThrows` allocations that
fail. `waiting` and `woken` are the consumers inside `wait`, `thrown` counts those that left it by an exception. `ThreadPool` instantiates it with nobody waiting, since
workers only call `try_pop`; `pc` is where each worker is and `owner` where the thread that owns the pool is. The
joins come first in the destruction because `m_joiner` is declared last.

`NameService`: `m_serialmap` is the map; `step` cuts `server_loop` at the points where another process can see a
difference (request taken, answer sent, name published) and at each turn of the loop of `allotnamepair`. A name is a
pair of group and serial, the suffix of four octal digits being injective.

`Daemon`: `pc` is where each process is; ids are sequences of digits because the pid file is written over and never
truncated. Note the second fork: `(pid == fork()) != 0` compares, so that the middle process becomes the daemon and
the child exits. `faults` counts what the operating system refused and the processes killed inside `daemon_init`.

`NameServer`: `server_loop` runs while a process is past `daemon_init` (`Serving`). Killing that process (`Killed`) ends the
server: the map is lost, and any of the requests under way (`Lost`). Clients go on asking, server or not, as a REQ
socket does, and the next server gets what is still on the network.

`Dijkstra`: an action is one turn of a loop. `prio_queue` is a set because a pair is pushed only when it makes a distance
smaller, so no pair is pushed twice; `Pop` takes the least pair and forgets its distance, as the code does. `ShortPath`
and `GetPath` have the same loop; which of them it was is decided when the queue is empty. `path` uses `INF` for "no
predecessor", and `GraphAssumption` keeps vertices below it. `PathServer` goes on from the searches to the pool, and then
forgets them (`SearchEnds`), as nothing reads them again.

`LbBroker`: `revents` is the result of `poll`, which `Backend` and `Frontend` use one after the other. Multipart messages
are sent and received as one. Sockets give messages of different threads in any order.

`Peering`: `pc` tells the loops of `main` apart; `revents` holds what `poll` found and was not read yet, so that the order
of the `if`s in the source is the order of the actions. `clouds` and `acks` count the CLOUD messages and the answers in
the pipes between two peers, which drop what does not fit (`Sent`). Identities are taken to be distinct: those between
brokers are their arguments, and to clients and workers, which set none, the ROUTER socket gives one of its own. (In
`lbbroker.cpp` and `routerreq.cpp` they are random, `canna_setid`, and taken to be distinct too.) Requests wait at each broker in the order in which its socket takes them: a ROUTER socket reads its
connections in turn, and a client has one request under way, so that arrival order is the order of a fair socket.

`DbServer`: a request is a sequence of bytes, each NUL, `%` or its client's name, so that `command` shows whose bytes it
holds. `Strings` are the strings that may start at the buffer: up to the first NUL, or on behind the buffer when there is
none (`Behind`). The code passes that string as the format of `redisCommand`, with no arguments: `Formatted` is what hiredis
makes of one without a conversion (one `%` of two, all else as it is), `Converts` whether there is one, of which nothing is
known (`Commands`): some command is sent, or a null pointer comes back with the connection up (`NoResult`). An empty command
is not answered by redis, so that `Answer` is not possible and `redisCommand` waits until the connection is lost. `waiting`
are the clients that have no answer yet, `owes` is the turn of the REP socket.

`RouterReq`: `told` is the answer on its way to a worker, `late` whether the end time has passed. `routerdealer.cpp` is the
same program with DEALER sockets.

`ZmqPrograms` chooses the program in `Init` and leaves the variables of the others alone.

## Runs

Deadlock is checked where the program cannot stop. It may where there is nothing left to do (no connection, no call,
no command, no task), where it has returned from `main`, or died.

| Run | Checks | Bounds |
|---|---|---|
| `MCReserve` | `TypeOK`, `ReservationOwned`, `ReservedIsClaimed`, `NewSocketAssert`, `ImplementsLifecycle` | 1 thread that listens, starts, connects, binds and closes while the poll thread accepts, so that both are in `reserve_id`; 2 slots, 2 descriptors, ids that wrap (`IdLimit` 8, starting at 6, calls until 3 are drawn); hosts that do not resolve and epoll_ctl(ADD) that refuses: races on one slot, a full table for either, and slots given up (lines 186, 353, 605) |
| `MCFds` | `FdOwned`, `NoFdLeak`, `ClosedIsDead` | 1 thread, 2 slots, 2 descriptors, 3 ids: listen, accept, start, connect, close; read errors, addresses that refuse |
| `MCSerial` | `EpollPointsHome`, `MessageIsLive`, `NoStaleEvent`, `ForceCloseAssert`, `ClosedByName` | calls between polls only: every call; resolving, writing and epoll_ctl(ADD) may fail; batches of 2 events, slots reused |
| `MCLive` | `ConnectResolved`, `CallReturns`, `CloseAnswered` | 1 thread that listens, connects and closes, 1 slot, a pipe of 1 command, 3 ids: both are full at times |
| `MCForceCloseAssert` | violation of `ForceCloseAssert` | see Findings |
| `MCCtrlPipe` | `InOrder`, `AllHandled` | host names that leave the length below `ByteLimit` |
| `MCBlockReadAssert` | violation of `BlockReadAssert` | one more byte of host name |
| `MCRingBuffer` | `TypeOK`, `PackageComplete`, `ImplementsFifo` | an array of 4, bytes of 2 values, buffers of up to 4: all positions of both indices, all wraps |
| `MCQueue` | `OnceInOrder`, `NoLostWakeup` | 3 consumers, 4 values, up to 2 failing allocations |
| `MCPathServer` | `RunOnce`, `OutlivesWorkers`, `Certified`, `ShortestPaths`, `TasksStarted`, `DestructorEnds` | every graph of 4 vertices and up to 3 edges of weight 1 or 3, loops, parallel edges and distances beyond `INF` (5) included; then 3 workers, 3 tasks, a constructor that may fail at any thread |
| `MCNameServer` | `OneDaemon`, `PidFileNamesDaemon`, `NamesUnique`, `AnswerComplete`, `DaemonStarts`, `Answered` | 2 starts that may race or follow one another, 3 ids of one and two digits, 1 fault, kills at any time; 2 clients, 2 groups of 2 serials, 4 requests: a group fills up and is asked again |
| `MCZmqPrograms` | `IdleWorkers`, `OwnAnswer`, `ImplementsRequestReply`, `Answered`, `Ends` | lbbroker: 4 clients, 2 workers; peering: 2 brokers that are each other's peer, 2 clients and 1 client with a worker each, pipes of 1 message; dbserver: 2 clients, a buffer of 3 bytes, requests of 0 to 4 bytes with NULs, `%%` and conversions; routerreq: 3 workers |

Three edges of two weights are the least with which a vertex is reached by a long edge first and improved by two short
ones afterwards, so that an old pair is popped. One worker per broker makes requests wait while CLOUD messages
of the peer arrive, and a pipe of one message is full at times; more than one idle worker, `capacity > 1`, is left to the
theorems in `peering` and occurs in `lbbroker`, which keeps no such count. A buffer of 3 bytes and requests of 0 to 4 give
every relation of the length to the buffer: empty, shorter than an earlier request, exactly full, too long; three bytes
hold `%%` with a byte behind it. One client sends all of that, the other one what leaves the buffer in different states.

Two slots are the least at which a slot can be confused with another, and with `MAX_SOCKET` ids apart the same
slot is reused; three ids give every slot a second life while commands and events of the first are still around.
`MaxAlloc` bounds the ids drawn in a run. Where stale ids matter `IdLimit` is larger than the number of ids
drawn: with 2^31 ids the code never meets an id that came round again while somebody still holds it, and a
tiny `IdLimit` would. `MCReserve` is the run that wraps: ids 6 and 7 are followed by 0 and 1. There two actors race in
`reserve_id`, the application's thread and the poll thread; two application threads do so in `MCForceCloseAssert`, and any
number in the theorems. `MCFds` leaves epoll_ctl(ADD) without faults: there the code
leaks a descriptor (line 463, below).

`EpollPointsHome`, `NoStaleEvent`, `MessageIsLive` and `ForceCloseAssert` hold of a single-threaded application
and fail with concurrent calls. The reason is one window: between `force_close` (type becomes INVALID) and
`clear_closed_event` another thread may win the slot, so a pending event of the dead socket survives and is
handled on the reserved slot, whose `fd` field still names the old descriptor; `send_buffer` then calls
`epoll_ctl(MOD)` through it and can point another socket's events at the wrong slot. `MCSerial` also leaves read
errors out: `forward_message_tcp` closes the socket without reporting it, and the same event, if also writable,
is handed out again.

### Fairness

`Fairness` says that the scheduler runs every thread (weak fairness of `AppStep`), that the program calls `poll` in
a loop (weak fairness of `PollStep`), that the kernel wakes the writers of a full pipe in turn (strong fairness
of `SendRequest`: with weak fairness one of two writers can lose the race for the free place for ever), and that
connections are established or refused. No new call is promised. `CallReturns` holds with the ids of a run
bounded (`MaxAlloc`): `reserve_id` does not count a lost swap, so it is lock-free and not wait-free.
`ConnectResolved` has the premise that `poll` finds the pipe empty again and again, because commands are always
read before events: a steady flow of commands starves them.

In the other modules weak fairness stands for threads and processes that run. `PathServer` promises that its searches go on,
that workers run, that tasks return and that a constructor or destructor goes on. `NameServer` promises that processes go
through `daemon_init` and that `server_loop` goes on; nobody has to ask, or to start or kill a server. `DaemonStarts` speaks
of runs in which nothing is refused, as `daemon_init` gives up when something is; `Answered` of requests that are on the
network while a server is up, and until it is killed: a client whose request died with the server waits for ever.

`ZmqPrograms` promises that the threads of each program run and that the clock goes on; clients of the db server need not
ask. No fairness is assumed of the choice between two messages in one socket: in `Peering` and `DbServer`, where a client
may ask for ever, requests and workers' messages are kept in the order in which the socket takes them (ZeroMQ reads its
connections in turn), and in the other two programs every client or worker is done at some time. That messages to a full
pipe are dropped is what a ROUTER socket does by default; that nothing is lost between threads of one process, and that
redis answers every command but an empty one while its connection is up, is assumed.

## Findings

* `ForceCloseAssert` - `assert(s->type != SOCKET_TYPE_RESERVE)` (`socket_server.cpp:648`) can fail: a socket is
  closed twice; the first close frees the slot; a second thread wins it (line 82) and has not yet stored its id
  (line 83) when the second close is read, finds the old id in the slot, and closes a RESERVE slot.
* `BlockReadAssert` - `assert(n == sz)` (`socket_server.cpp:208`) can fail: `open_request` (line 524) lets a request and its
  host name be 256 bytes together, `send_request` (line 159) stores that length in a byte, as 0, and `ctrl_cmd` takes
  the body for headers until a read comes up short.

Two more statements were found false while reading, and are not runs:

* `assert(s->type != SOCKET_TYPE_PLISTEN && s->type != SOCKET_TYPE_LISTEN)` (`socket_server.cpp:889`) fails as soon as an
  application sends on the id of its listener: `server_send` accepts any id whose slot is not INVALID. `SocketServer` has
  the step (`CmdSend` aborts).
* The db server is to "Wait for next request from client" (`dbserver/main.cpp:104`); after a request longer than the buffer
  (line 106) it calls `recv` while the REP socket owes an answer, which throws, and nothing catches it.

Some faults the code has in every run that reaches them; no property is left to check, and they are not among the
hazards: the rest of a partial write is dropped (`socket_server.cpp:909`); end of file is neither reported nor closed, so
that the descriptor stays readable and `poll` spins (line 826); `accept` on a blocking descriptor blocks the poll thread
when the connection is gone by then (line 408); a steady flow of commands starves events (line 274).

The models also show, with no statement of the repository against it: a null pointer is followed when every address
of a host refuses (line 565 tests `ai_list`, not `ai_ptr`) or epoll refuses the new socket (line 585); a failed
`epoll_ctl` in `start_socket` leaks the descriptor (line 463); the window above; an allocation that fails in a woken
consumer of the queue loses a wake-up (at most one each, `NoLostWakeup`); `IsComplete` is true of a buffer with no
head in it, `GetSize` giving 0 when fewer than two bytes are there; tasks still queued are dropped with the pool; a name
server that was restarted gives its names again; the serial of the name server never wraps, because no serial is ever
given back; the db server follows the null pointer of a conversion in a client's request, sends what lies behind the
buffer for a request that fills it, and waits for ever on an empty one; bytes of a longer line stay in the pid file behind
the first one; and the name allotted to a request cannot be told from the answer, which lists the whole group.

## Proofs

`SocketServerProofs` proves, for any number of threads, slots, ids, descriptors and any pipe and batch length:

* `TypeCorrect`: `Spec => []TypeOK`. `TypeOK` is not inductive: that ids are non-negative needs that `reserve_id`
  masks before it uses (`CallIdsOK`), that commands in the pipe carry ids (`PipeIdsOK`), and that `report_accept`
  remembers its listener (`ListenerOK`). `TypeInv` adds these.
* `ReservationCorrect`: `Spec => []ReservationOwned`. The inductive invariant is
  `ReservationInv == TypeInv /\ ReservationOwned /\ NewSocketAssert`. A slot enters the set of owned slots only by
  a swap that found it INVALID, which no owned slot is; it is handed from the thread to the command in one step;
  and every handler but the opening ones leaves RESERVE slots alone, or dies.
* `NewSocketNeverAborts`: the assertion of `new_socket` (line 349) never fails, from the same invariant.

* `ReservationsClaimed`: `Spec => []ReservedIsClaimed`. `ClaimedInv` adds to the invariant above that a thread inside
  `reserve_id` acts for a call that opens a socket, or is the poll thread with an accepted connection (`CallersOK`): the
  command it writes is then one whose handler fills the slot or gives it up.
* `SlotsImplementLifecycle`: `Spec => ImplementsLifecycle`. Each action changes one slot at most; a lemma per action says
  which step of `SocketLifecycle` that slot takes, the others being unchanged.

The assumptions are the named ASSUMEs of `SocketDefine` and `SocketServer`: at least one slot, id, pipe place and
event; -1 is not a descriptor; the poll thread is not one of the callers. `MAX_SOCKET` need not divide the number of
ids.

`SocketDescriptorProofs` goes on from there. Without any hypothesis:

* `DescriptorsOwned`: `Spec => []FdOwned`. `DescriptorInv` adds to `ClaimedInv` that a descriptor is carried by one request
  only, in a call or in the pipe (`OneCarrier`), and never by a request and a live slot (`Disjoint`). The descriptor that is
  left in an INVALID or RESERVE slot is not in the invariant: it may be anybody's, which is why the code must not use it.
* `ClosedIsGone`: `Spec => []ClosedIsDead`, with any number of threads and any fault. `IdHome` says that a live slot is the
  slot of its own id, so a live socket with the id that was reported closed could only be in the slot that was just freed.

Under a hypothesis on what the operating system refuses:

* `NothingLeaks`: `"add" \notin Faults => (Spec => []NoFdLeak)`. The hypothesis is needed: when epoll_ctl(ADD) fails,
  `start_socket` gives up the slot of an open descriptor (line 463). `QuietOK` says that nobody carries a request outside a
  call, so that a descriptor cannot be lost by forgetting a request.

Under `Serial == ~Concurrent /\ "read" \notin Faults`, calls between polls only and no read errors, the conditions of
`MCSerial` (a program with one thread meets the first; both are needed, see "Runs"):

* `EventsPointHome`, `NoEventIsStale`, `MessagesAreLive`: `[]EpollPointsHome`, `[]NoStaleEvent`, `[]MessageIsLive`; and
  `SocketsClosedByName`, the action property `ClosedByName`. They are proved together, from `SerialInv`: no call is under
  way while `poll` runs (`Turns`), a batch has one event for a slot at most (`OneEvent`) and it names the id the slot
  has (`EventsOK`), a CONNECTED slot has an established connection (`ConnectedOK`), and the pointer epoll has for a descriptor
  is that of the live slot that has it. Each is needed for another: an event is handled on the right socket because
  the pointer was right when it was reported and `clear_closed_event` removed what has been closed since; the pointer
  stays right because `send_buffer` is only reached from such an event.
* `ReservedNeverClosed`: `Spec /\ []NoWrap => []ForceCloseAssert`. `NoWrap` says that `alloc_id` has not come round, that is,
  fewer than 2^31 ids were drawn. It is needed: after that the close of an old id may wait in the pipe before the
  command that opens a socket under the same id, and finds the slot reserved. `FreshInv` says that
  threads have drawn different ids, none of them known to the application, that commands in the pipe name known ids
  only, and that none stands in the pipe before the command that opens its id.

`CtrlPipeProofs` proves, for any requests and any number of them, under
`LengthsFit == SizeOf[OpenCmd] + MaxHost < ByteLimit` (with the sizes of the code: a host name that leaves the request at most
255 bytes long; `open_request` lets just one longer pass, which is the finding on `BlockReadAssert`):

* `CommandsArriveInOrder`: `[]InOrder`, and `NoShortRead`: `[]BlockReadAssert`. `PipeInv` gives for each command that was
  sent and not handled the place in `bytes` where it starts, its header first, its body behind it and the next command
  after that; `ReadHeader` and `ReadBody` consume a prefix of that.

`RingBufferProofs` proves, for every size of the array:

* `TypeCorrect`: the indices stay inside the array.
* `FifoCorrect`: `Spec => ImplementsFifo`. Lemmas say what the two copies of `Write` and `Read` do to `contents`, by cases
  on which side of the end of the array a byte lies; then each call maps to the queue's call of the same name, or to its
  refusal.
* `PackageKnown`: `Spec => []PackageComplete`, from the types: the first two bytes of `contents` are the two that `GetSize`
  reads, also when they lie at the two ends of the array.

`QueueProofs` proves, for any finite set of consumers:

* `QueueInOrder`: `Spec => []OnceInOrder`, also when allocations fail.
* `NoWakeupIsLost`: `Spec => []NoLostWakeup`. The invariant is inductive with `TypeOK`: a push either finds nobody waiting
  or moves one consumer from `waiting` to `woken`; a woken consumer that leaves takes a value with it or is counted in
  `thrown`, and one that waits again found the queue empty.

`PathServerProofs` proves, for any number of threads and tasks, of `PathServerSpec`:

* `TasksRunOnce`, `[]RunOnce`, and `PoolOutlivesWorkers`, `[]OutlivesWorkers`. `PoolInv` numbers tasks in the order of
  `submit` - those started are the first ones, those in the queue the next (`InOrder`), a worker holds one that was started
  (`Holding`) - and says that workers are created and joined in order, and that the members go only after as many joins as
  there are threads (`Joining`).

The same module proves of the searches, for every number of vertices, every finite number of edges and any weights that are natural numbers:

* `SearchCertified`: `SearchSpec => []Certified`: when a search ends no edge shortens a distance and the predecessors form
  tight edges. `SearchInv` says that a vertex is never nearer than its predecessor and the edge between (`InTree`: equality
  comes only at the end, as a predecessor's distance may drop after the vertex was reached), and that a vertex that was
  reached waits in the queue, is having its edges looked at, or has been relaxed with its present distance (`Covered`). The
  argument does not use the order of the queue.
* `SearchFindsShortest`: no walk from the source is shorter than the distance found for its end, a distance below `INF` is
  the length of a walk, and what `GetPath` prints is one. The first by induction along the walk from `Certified`; the
  second from `Attained`, which carries a walk for every distance through the search.
* `SearchIsCorrect`: `SearchSpec => []ShortestPaths`, the property that is checked, against the reference recursions `Reach`
  (distances by walks of at most n edges) and `Length`. `Reach[n]` lies between `dist` and `INF`; as long as some vertex is not
  settled, one round settles another one (`SettledGrows`), so after as many rounds as there are vertices all are
  (`AllSettled`, by cardinality).

The library's theorems on induction and on recursive functions take an operator as a parameter and cannot be used here. These
proofs use the principle of the least member of a set of naturals in their place; that the equation of `Reach` has a solution,
and hence unfolds, is proved in that way (`FollowsExists`, `ReachUnfolds`).

`NameServerProofs` proves, for any process ids, numbers of starts, faults, groups, clients and serials:

* `OneDaemonRuns` and `PidFileCorrect`, from `DaemonInv`: whoever is past `flock` holds the lock (`Locked`), and a line
  written over the start of a file is its first line. As long as a daemon runs whose line was written (`"running"`; one whose
  line was refused is `"unnamed"`), its id is the first line, whatever is started, refused or killed meanwhile. What is
  behind that line is not said: the file is never truncated, and the end of a longer line may be there.
* `NoNameTwice` and `AnswersComplete`, from `NameInv`: `Books` says that the bits set in a group's map are the names
  published and the one that is allotted and not yet published. A probe of the loop takes a bit that is not set, so the
  name is new although the serial wraps round.

`ZmqProofs` proves, for any number of clients, workers and brokers, any length of the buffer and any sets of requests:

* `RequestsGoToIdleWorkers`: `[]IdleWorkers` of both brokers. `LInv` and `PInv` say that a worker is in one place only - in
  the queue, with a request on its way, working, or with a message that waits at its broker - and that what `poll` found is
  still there when it is used, `capacity` being the length of the queue.
* `BrokersImplementRequestReply`: `ImplementsRequestReply` of both brokers, from `LInv /\ LRequests` and `PInv /\ PRequests`:
  the request of a client is in one place, waiting or with one worker, and its client waits for it. A lemma per action maps
  the step to one of `RequestReply` or to a stutter; what peers send each other about their capacity is a stutter, and so
  is a broker's poll.
* `AnswersAreOwn`: `[]OwnAnswer`, for requests that leave room for a NUL in the buffer and hold no conversion: the command run
  is the text of the client's own request, formatted. `DInv` says that the request that is served is in no queue, its client
  waits, and the buffer holds it and NULs behind it; a lemma says that the text of such a buffer is the text of the
  request. Of a request that fills the buffer, or holds a conversion, nothing can be said.

The assumptions are again the named ASSUMEs: `ZmqAssumption` (READY, NUL and PERCENT name no client, `COMMAND_LEN` is positive),
`NameServerAssumption`, `PoolAssumption`, `GraphAssumption`.

Every invariant, action property and refinement of the runs that pass is the subject of a theorem, some under the
hypotheses given above. Only model-checked is liveness - `ConnectResolved`, `CallReturns`, `CloseAnswered`, `AllHandled`,
`TasksStarted`, `DestructorEnds`, `DaemonStarts`, `Answered` of both modules, `Ends` -, which rests on fairness and ENABLED and is
out of tlapm's reach.

## Not modelled

* `socket_server::release` is never called; the write lists (`send_list_tcp`, `raise_uncomplete`, half-closed sockets) and
  `setopt_socket` are never reached.
* `canna_random.h` is one assignment; `canna_core.cpp` wraps zmq calls; `redis_client.cpp` and protocol buffers are used by
  tests only; the libraries under `3rd/` are empty submodules.
* `routers/` sends one request and then ignores what it receives. `example/cluster.cpp` is unfinished: its broker queues
  workers and hands out nothing. The other examples are loops of one receive and one send.
* Of the db server, mongodb and the set-up; of the path server, its printing and the graph that `main` builds.

`PROJECT.json` has the reason for each component.

## Plan

Done: every component with logic of its own is modelled. What is left, in order:

1. A composition of `CtrlPipe` with `SocketServer`: that the bytes implement the sequence of whole commands, below the
   length at which they do not.
2. Proofs: that refinement, from `PipeInv`; and the forms of the event properties that hold with concurrent
   calls, if there are any worth stating.
