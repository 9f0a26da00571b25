\* lbbroker: four clients, two workers: requests wait for workers, and workers for
\* requests. peering: two clients and one worker at the first broker,
\* so that requests wait, and one of each at the second; the pipe between them holds one
\* message, so that it fills. dbserver: requests up to one byte longer
\* than the buffer. routerreq: three workers.
CONSTANTS
  c1 = c1
  c2 = c2
  c3 = c3
  c4 = c4
  w1 = w1
  w2 = w2
  w3 = w3
  b1 = b1
  b2 = b2
  READY = READY
  NUL = NUL
  PERCENT = PERCENT
  Programs = {"lbbroker", "peering", "dbserver", "routerreq"}
  Clients = {c1, c2, c3, c4}
  Workers = {w1, w2}
  PeerClients = {c1, c2, c3}
  PeerWorkers = {w1, w3}
  Brokers = {b1, b2}
  Self <- SelfOf
  Cloud <- CloudOf
  HWM = 1
  DbClients = {c1, c2}
  COMMAND_LEN = 3
  Requests <- RequestsOf
  work_count = 3
SPECIFICATION Spec
INVARIANT IdleWorkers
INVARIANT OwnAnswer
PROPERTY ImplementsRequestReply
PROPERTY Answered
PROPERTY Ends
CHECK_DEADLOCK FALSE
