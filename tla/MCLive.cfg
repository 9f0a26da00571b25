\* Liveness of calls, close commands and connections: one slot, a pipe of one command.
SPECIFICATION FairSpec
CONSTANTS
  Threads = {t1}
  Poller = poller
  MAX_SOCKET = 1
  IdLimit = 6
  FDs = {f1, f2}
  NoFd = NoFd
  MaxPipe = 1
  MAX_EVENT = 2
  AllocStart = 0
  MaxAlloc = 3
  Api = {"L", "K", "O"}
  Concurrent = TRUE
  Faults = {}
  t1 = t1
  poller = poller
  f1 = f1
  f2 = f2
PROPERTY ConnectResolved
PROPERTY CallReturns
PROPERTY CloseAnswered
CHECK_DEADLOCK FALSE
