----------------------------- MODULE RingBuffer -----------------------------
(***************************************************************************)
(* core/ringbuffer.h and core/ringbuffer.cpp: bytes in a fixed array, two  *)
(* indices, one place of the array always unused.                          *)
(***************************************************************************)
EXTENDS Integers, Sequences

CONSTANTS
  BUFFER_SIZE, \* size of the array, a power of two (8192*8 in the code)
  ByteLimit,   \* number of values of a byte (256 in the code)
  MaxLen       \* BOUND: the longest buffer a caller hands over or asks for

ASSUME SizeAssumption == BUFFER_SIZE \in Nat \ {0} /\ ByteLimit \in Nat \ {0} /\ MaxLen \in Nat

Byte == 0 .. ByteLimit - 1
Index == 0 .. BUFFER_SIZE - 1

VARIABLES
  m_buffer, m_head, m_tail,
  out,      \* the caller's buffer after the last read that succeeded
  returned  \* what the last call returned

vars == <<m_buffer, m_head, m_tail, out, returned>>

Init ==
  /\ m_buffer = [i \in Index |-> 0]
  /\ m_head = 0 /\ m_tail = 0
  /\ out = <<>> /\ returned = 0

\* Mutant of Mask: an index stays at the end of the array before it wraps.
MaskLate(i) == i % (BUFFER_SIZE + 1)
\* i & BUFFER_MASK, the size being a power of two
Mask(i) == i % BUFFER_SIZE

Empty == m_head = m_tail
Available == IF m_tail >= m_head THEN m_tail - m_head ELSE m_tail - m_head + BUFFER_SIZE
\* Mutant of Space: no place of the array is kept free.
SpaceOfAll == BUFFER_SIZE - Available
Space == BUFFER_SIZE - Available - 1

Refuse == returned' = 0 /\ UNCHANGED <<m_buffer, m_head, m_tail, out>>

\* The array after the two memcpy of Write: up to its end, then from its start.
Written(buff) ==
  LET rest == BUFFER_SIZE - m_tail IN
  [i \in Index |->
     IF i >= m_tail /\ i - m_tail < Len(buff) THEN buff[i - m_tail + 1]
     ELSE IF rest + i < Len(buff) THEN buff[rest + i + 1]
     ELSE m_buffer[i]]

Write(buff) ==
  \/ Space < Len(buff) /\ Refuse
  \/ /\ Space >= Len(buff)
     /\ m_buffer' = Written(buff)
     /\ m_tail' = Mask(m_tail + Len(buff))
     /\ returned' = Len(buff)
     /\ UNCHANGED <<m_head, out>>

\* The bytes the two memcpy of Read copy out.
Copied(len) ==
  LET rest == BUFFER_SIZE - m_head IN
  [i \in 1 .. len |-> IF i <= rest THEN m_buffer[m_head + i - 1] ELSE m_buffer[i - rest - 1]]

Read(len) ==
  \/ Available < len /\ Refuse
  \/ /\ Available >= len
     /\ out' = Copied(len)
     /\ m_head' = Mask(m_head + len)
     /\ returned' = len
     /\ UNCHANGED <<m_buffer, m_tail>>

\* The buffers callers write.
Buffers == UNION {[1 .. n -> Byte] : n \in 0 .. MaxLen}

Next ==
  \/ \E buff \in Buffers : Write(buff)
  \/ \E len \in 0 .. MaxLen : Read(len)

Spec == Init /\ [][Next]_vars

\* Mutant of GetSize: the size is read at the start of the array.
GetSizeAtStart == IF Available < 2 THEN 0 ELSE m_buffer[0] * ByteLimit + m_buffer[Mask(1)]
\* The size in the two bytes at the head of a package.
GetSize ==
  IF Available < 2 THEN 0 ELSE m_buffer[m_head] * ByteLimit + m_buffer[Mask(m_head + 1)]
IsComplete == Available >= GetSize

-----------------------------------------------------------------------------
\* The variables keep their types; the indices stay inside the array.
TypeOK ==
  /\ m_buffer \in [Index -> Byte]
  /\ m_head \in Index /\ m_tail \in Index
  /\ out \in Seq(Byte) /\ returned \in Nat

\* The bytes between the two indices, in order.
contents == [i \in 1 .. Available |-> m_buffer[Mask(m_head + i - 1)]]

Fifo == INSTANCE ByteFifo WITH Capacity <- BUFFER_SIZE - 1, queue <- contents

\* Write and Read are those of a queue of BUFFER_SIZE - 1 bytes: nothing is lost,
\* overwritten or reordered, across any number of turns round the array.
ImplementsFifo == Fifo!Spec

\* "is package complete?" (ringbuffer.h:22): if the two bytes of its size are there,
\* wherever in the array they lie, IsComplete says whether as many bytes as they
\* tell are in the queue.
PackageComplete ==
  Available >= 2 =>
    (IsComplete <=> contents[1] * ByteLimit + contents[2] <= Len(contents))
=============================================================================
