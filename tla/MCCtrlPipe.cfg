\* Host names one short of the longest that open_request accepts. A run ends
\* when MaxSent commands were handled.
SPECIFICATION Spec
CONSTANTS
  ByteLimit = 8
  SizeOf <- Structures
  OpenCmd <- Open
  Capacity = 12
  BodyBytes = {0, 3}
  MaxHost = 4
  MaxSent = 4
INVARIANT InOrder
PROPERTY AllHandled
CHECK_DEADLOCK FALSE
