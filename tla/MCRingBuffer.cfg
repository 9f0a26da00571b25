\* An array of four bytes, written and read in pieces of up to four.
SPECIFICATION Spec
CONSTANTS
  BUFFER_SIZE = 4
  ByteLimit = 2
  MaxLen = 4
INVARIANT TypeOK
INVARIANT PackageComplete
PROPERTY ImplementsFifo
