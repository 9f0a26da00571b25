\* A thread listens, connects, starts and closes; connections are accepted, read, and
\* refused.
SPECIFICATION Spec
CONSTANTS
  Threads = {t1}
  Poller = poller
  MAX_SOCKET = 2
  IdLimit = 8
  FDs = {f1, f2}
  NoFd = NoFd
  MaxPipe = 1
  MAX_EVENT = 2
  AllocStart = 0
  MaxAlloc = 3
  Api = {"L", "S", "K", "O"}
  Concurrent = TRUE
  Faults = {"read", "connect"}
  t1 = t1
  poller = poller
  f1 = f1
  f2 = f2
SYMMETRY Symmetry
INVARIANT FdOwned
INVARIANT NoFdLeak
INVARIANT ClosedIsDead
CHECK_DEADLOCK FALSE
