\* The longest host name that open_request accepts. A run ends
\* when MaxSent commands were handled.
SPECIFICATION Spec
CONSTANTS
  ByteLimit = 8
  SizeOf <- Structures
  OpenCmd <- Open
  Capacity = 12
  BodyBytes = {0, 3}
  MaxHost = 5
  MaxSent = 4
INVARIANT BlockReadAssert
CHECK_DEADLOCK FALSE
