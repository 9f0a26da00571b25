\* Two starts, one fault, ids of one digit and of two; two groups of two serials
\* and four requests: a group fills up and is asked again.
CONSTANTS
  c1 = c1
  c2 = c2
  g1 = g1
  g2 = g2
  Clients = {c1, c2}
  Groups = {g1, g2}
  SERIAL_SIZE = 2
  NoGroup = NoGroup
  MaxAsks = 4
  Pids <- PidSet
  EndOfLine = EndOfLine
  NoPid = NoPid
  MaxFaults = 1
  MaxStarts = 2
SPECIFICATION Spec
INVARIANT OneDaemon
INVARIANT PidFileNamesDaemon
INVARIANT NamesUnique
INVARIANT AnswerComplete
PROPERTY DaemonStarts
PROPERTY Answered
CHECK_DEADLOCK FALSE
