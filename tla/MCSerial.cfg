\* One thread calls the interface and poll in turn; descriptors of the application are
\* bound too, the program may exit, resolving, writing and epoll_ctl(ADD) fail.
SPECIFICATION Spec
CONSTANTS
  Threads = {t1}
  Poller = poller
  MAX_SOCKET = 2
  IdLimit = 8
  FDs = {f1, f2}
  NoFd = NoFd
  MaxPipe = 2
  MAX_EVENT = 2
  AllocStart = 0
  MaxAlloc = 3
  Api = {"L", "S", "K", "O", "D", "B", "X"}
  Concurrent = FALSE
  Faults = {"resolve", "write", "add"}
  t1 = t1
  poller = poller
  f1 = f1
  f2 = f2
SYMMETRY Symmetry
INVARIANT EpollPointsHome
INVARIANT MessageIsLive
INVARIANT NoStaleEvent
INVARIANT ForceCloseAssert
PROPERTY ClosedByName
CHECK_DEADLOCK FALSE
