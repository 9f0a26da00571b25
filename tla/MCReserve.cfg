\* One thread listens, starts, connects, binds and closes; the poll thread accepts, so that
\* both are in reserve_id while alloc_id wraps round. Hosts may not be resolved and
\* epoll_ctl(ADD) may fail. The program may run out of things to do, so deadlock is not
\* checked.
SPECIFICATION Spec
CONSTANTS
  Threads = {t1}
  Poller = poller
  MAX_SOCKET = 2
  IdLimit = 8
  FDs = {f1, f2}
  NoFd = NoFd
  MaxPipe = 1
  MAX_EVENT = 1
  AllocStart = 6
  MaxAlloc = 3
  Api = {"L", "S", "O", "B", "K"}
  Concurrent = TRUE
  Faults = {"add", "resolve"}
  t1 = t1
  poller = poller
  f1 = f1
  f2 = f2
SYMMETRY Symmetry
INVARIANT TypeOK
INVARIANT ReservationOwned
INVARIANT ReservedIsClaimed
INVARIANT NewSocketAssert
PROPERTY ImplementsLifecycle
CHECK_DEADLOCK FALSE
