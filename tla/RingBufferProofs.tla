-------------------------- MODULE RingBufferProofs --------------------------
(***************************************************************************)
(* Theorems about RingBuffer for every size of the array and every buffer. *)
(***************************************************************************)
EXTENDS RingBuffer, SequenceTheorems, TLAPS

\* Masking takes an index that ran past the end once back into the array.
LEMMA MaskOnce ==
  \A i \in 0 .. 2 * BUFFER_SIZE - 1 :
    /\ Mask(i) \in Index
    /\ Mask(i) = IF i < BUFFER_SIZE THEN i ELSE i - BUFFER_SIZE
  BY SizeAssumption DEF Mask, Index

\* The bytes held and the space left share all places but one.
LEMMA AvailableRange ==
  ASSUME TypeOK
  PROVE  Available \in 0 .. BUFFER_SIZE - 1 /\ Space = BUFFER_SIZE - 1 - Available
  BY SizeAssumption DEF TypeOK, Available, Space, Index

\* RingBuffer::Initialize establishes the types.
LEMMA TypeInit == Init => TypeOK
  BY SizeAssumption DEF Init, TypeOK, Index, Byte

\* A buffer of a caller is a sequence of at most MaxLen bytes.
LEMMA BufferType ==
  ASSUME NEW buff \in Buffers
  PROVE  /\ buff \in Seq(Byte) /\ Len(buff) \in 0 .. MaxLen
         /\ \A i \in 1 .. Len(buff) : buff[i] \in Byte
  BY SizeAssumption DEF Buffers

\* A write keeps the types.
LEMMA TypeWrite == ASSUME TypeOK, NEW buff \in Buffers, Write(buff) PROVE TypeOK'
  <1>1. CASE Refuse
    BY <1>1 DEF Refuse, TypeOK
  <1>2. CASE Space >= Len(buff) /\ m_buffer' = Written(buff) /\ m_tail' = Mask(m_tail + Len(buff))
             /\ returned' = Len(buff) /\ UNCHANGED <<m_head, out>>
    <2>1. Len(buff) \in Nat /\ m_tail + Len(buff) \in 0 .. 2 * BUFFER_SIZE - 1
      BY <1>2, BufferType, AvailableRange, SizeAssumption DEF TypeOK, Index
    <2>2. m_tail' \in Index
      BY <1>2, <2>1, MaskOnce
    <2>3. m_buffer' \in [Index -> Byte]
      BY <1>2, <2>1, BufferType, SizeAssumption DEF Written, TypeOK, Index
    <2> QED BY <1>2, <2>1, <2>2, <2>3 DEF TypeOK
  <1> QED BY <1>1, <1>2 DEF Write

\* A read keeps the types.
LEMMA TypeRead == ASSUME TypeOK, NEW len \in 0 .. MaxLen, Read(len) PROVE TypeOK'
  <1>1. CASE Refuse
    BY <1>1 DEF Refuse, TypeOK
  <1>2. CASE Available >= len /\ out' = Copied(len) /\ m_head' = Mask(m_head + len)
             /\ returned' = len /\ UNCHANGED <<m_buffer, m_tail>>
    <2>1. len \in Nat /\ len <= BUFFER_SIZE - 1 /\ m_head + len \in 0 .. 2 * BUFFER_SIZE - 1
      BY <1>2, AvailableRange, SizeAssumption DEF TypeOK, Index
    <2>2. m_head' \in Index
      BY <1>2, <2>1, MaskOnce
    <2>3. out' \in Seq(Byte)
      BY <1>2, <2>1, SizeAssumption DEF Copied, TypeOK, Index
    <2> QED BY <1>2, <2>1, <2>2, <2>3 DEF TypeOK
  <1> QED BY <1>1, <1>2 DEF Read

\* Every step keeps the types.
LEMMA TypeStep == TypeOK /\ [Next]_vars => TypeOK'
  <1> SUFFICES ASSUME TypeOK, [Next]_vars PROVE TypeOK'
    OBVIOUS
  <1>1. CASE Next
    BY <1>1, TypeWrite, TypeRead DEF Next
  <1>2. CASE UNCHANGED vars
    BY <1>2 DEF vars, TypeOK
  <1> QED BY <1>1, <1>2

\* The indices of the ring buffer stay inside the array, whatever is written and
\* read, and what it holds are bytes.
THEOREM TypeCorrect == Spec => []TypeOK
  BY TypeInit, TypeStep, PTL DEF Spec

-----------------------------------------------------------------------------
\* The contents are a sequence of Available bytes.
ContentsOK ==
  /\ contents \in Seq(Byte) /\ Len(contents) = Available
  /\ \A i \in 1 .. Available : contents[i] = m_buffer[Mask(m_head + i - 1)]

LEMMA ContentsType == TypeOK => ContentsOK
  <1> SUFFICES ASSUME TypeOK PROVE ContentsOK
    OBVIOUS
  <1>1. Available \in Nat /\ Available < BUFFER_SIZE
    BY AvailableRange, SizeAssumption
  <1>2. \A i \in 1 .. Available : Mask(m_head + i - 1) \in Index
    BY <1>1, MaskOnce, SizeAssumption DEF TypeOK, Index
  <1>3. \A i \in 1 .. Available : m_buffer[Mask(m_head + i - 1)] \in Byte
    BY <1>2 DEF TypeOK
  <1> QED BY <1>1, <1>3 DEF ContentsOK, contents

\* The same of the contents after a step.
LEMMA ContentsTypeNext == TypeOK' => ContentsOK'
  BY ContentsType, PTL

\* The buffer starts as an empty queue.
LEMMA FifoInit == Init => Fifo!Init
  <1> SUFFICES ASSUME Init PROVE Fifo!Init
    OBVIOUS
  <1>1. TypeOK /\ Available = 0
    BY TypeInit DEF Init, Available
  <1>2. contents = <<>>
    BY <1>1, ContentsType DEF ContentsOK
  <1> QED BY <1>2 DEF Init, Fifo!Init

\* A refused call leaves the queue alone.
LEMMA FifoRefuse == ASSUME Refuse PROVE Fifo!Refuse
  BY DEF Refuse, Fifo!Refuse, contents, Available

\* Write appends to the queue what it was given.
LEMMA FifoWrite ==
  ASSUME TypeOK, NEW buff \in Buffers, Write(buff)
  PROVE  Fifo!Write(buff) \/ Fifo!Refuse
  <1>1. CASE Refuse
    BY <1>1, FifoRefuse
  <1>2. CASE Space >= Len(buff) /\ m_buffer' = Written(buff) /\ m_tail' = Mask(m_tail + Len(buff))
             /\ returned' = Len(buff) /\ UNCHANGED <<m_head, out>>
    <2> DEFINE n == Len(buff)  a == Available
    <2>1. /\ n = Len(buff) /\ n \in Nat /\ a \in Nat /\ a + n <= BUFFER_SIZE - 1
          /\ a = IF m_tail >= m_head THEN m_tail - m_head ELSE m_tail - m_head + BUFFER_SIZE
          /\ m_head \in Index /\ m_tail \in Index /\ m_head' = m_head
      BY <1>2, BufferType, AvailableRange, SizeAssumption DEF TypeOK, Available
    <2>2. m_tail' = IF m_tail + n < BUFFER_SIZE THEN m_tail + n ELSE m_tail + n - BUFFER_SIZE
      BY <1>2, <2>1, MaskOnce, SizeAssumption DEF Index
    <2>3. Available' = a + n
      BY <2>1, <2>2, SizeAssumption DEF Available, Index
    <2>4. ContentsOK'
      BY TypeWrite, ContentsTypeNext
    <2>5. /\ contents' \in Seq(Byte) /\ Len(contents') = a + n
          /\ \A i \in 1 .. a + n : contents'[i] = m_buffer'[Mask(m_head + i - 1)]
      BY <2>1, <2>3, <2>4 DEF ContentsOK
    <2>6. /\ contents \in Seq(Byte) /\ Len(contents) = a
          /\ \A i \in 1 .. a : contents[i] = m_buffer[Mask(m_head + i - 1)]
      BY ContentsType DEF ContentsOK
    <2>7. \A j \in Index : m_buffer'[j] =
            IF j >= m_tail /\ j - m_tail < n THEN buff[j - m_tail + 1]
            ELSE IF BUFFER_SIZE - m_tail + j < n THEN buff[BUFFER_SIZE - m_tail + j + 1]
            ELSE m_buffer[j]
      BY <1>2 DEF Written
    <2> HIDE DEF n, a
    <2>8. ASSUME NEW i \in 1 .. a + n
          PROVE  contents'[i] = IF i <= a THEN contents[i] ELSE buff[i - a]
      <3> DEFINE j == Mask(m_head + i - 1)
      <3>1. j \in Index /\ j = IF m_head + i - 1 < BUFFER_SIZE THEN m_head + i - 1
                                ELSE m_head + i - 1 - BUFFER_SIZE
        BY <2>1, MaskOnce, SizeAssumption DEF Index
      <3>2. contents'[i] = m_buffer'[j] /\ (i <= a => contents[i] = m_buffer[j])
        BY <2>1, <2>5, <2>6
      <3> HIDE DEF j
      <3>3. CASE i <= a
        <4>1. ~(j >= m_tail /\ j - m_tail < n) /\ ~(BUFFER_SIZE - m_tail + j < n)
          BY <2>1, <3>1, <3>3, SizeAssumption DEF Index
        <4> QED BY <2>7, <3>1, <3>2, <3>3, <4>1
      <3>4. CASE i > a
        <4>1. \/ j >= m_tail /\ j - m_tail < n /\ j - m_tail + 1 = i - a
              \/ ~(j >= m_tail /\ j - m_tail < n) /\ BUFFER_SIZE - m_tail + j < n
                 /\ BUFFER_SIZE - m_tail + j + 1 = i - a
          BY <2>1, <3>1, <3>4, SizeAssumption DEF Index
        <4>2. ~(i <= a)
          BY <2>1, <3>4
        <4> QED BY <2>7, <3>1, <3>2, <4>1, <4>2
      <3>5. i <= a \/ i > a
        BY <2>1
      <3> QED BY <3>3, <3>4, <3>5
    <2>9. contents' = contents \o buff
      <3>1. /\ contents \o buff \in Seq(Byte) /\ Len(contents \o buff) = a + n
            /\ \A i \in 1 .. a + n : (contents \o buff)[i] = IF i <= a THEN contents[i] ELSE buff[i - a]
        BY <2>1, <2>6, BufferType, ConcatProperties
      <3>2. \A i \in 1 .. Len(contents') : contents'[i] = (contents \o buff)[i]
        BY <2>5, <2>8, <3>1
      <3> QED BY <2>5, <3>1, <3>2, SeqEqual
    <2> QED BY <1>2, <2>1, <2>6, <2>9, SizeAssumption DEF Fifo!Write
  <1> QED BY <1>1, <1>2 DEF Write

\* Read takes from the front of the queue what it gives.
LEMMA FifoRead ==
  ASSUME TypeOK, NEW len \in 0 .. MaxLen, Read(len)
  PROVE  Fifo!Read(len) \/ Fifo!Refuse
  <1>1. CASE Refuse
    BY <1>1, FifoRefuse
  <1>2. CASE Available >= len /\ out' = Copied(len) /\ m_head' = Mask(m_head + len)
             /\ returned' = len /\ UNCHANGED <<m_buffer, m_tail>>
    <2> DEFINE a == Available
    <2>1. /\ len \in Nat /\ a \in Nat /\ len <= a /\ a <= BUFFER_SIZE - 1
          /\ a = IF m_tail >= m_head THEN m_tail - m_head ELSE m_tail - m_head + BUFFER_SIZE
          /\ m_head \in Index /\ m_tail \in Index /\ m_tail' = m_tail /\ m_buffer' = m_buffer
      BY <1>2, AvailableRange, SizeAssumption DEF TypeOK, Available
    <2>2. m_head' = IF m_head + len < BUFFER_SIZE THEN m_head + len ELSE m_head + len - BUFFER_SIZE
      BY <1>2, <2>1, MaskOnce, SizeAssumption DEF Index
    <2>3. Available' = a - len
      BY <2>1, <2>2, SizeAssumption DEF Available, Index
    <2>4. ContentsOK'
      BY TypeRead, ContentsTypeNext
    <2>5. /\ contents' \in Seq(Byte) /\ Len(contents') = a - len
          /\ \A i \in 1 .. a - len : contents'[i] = m_buffer[Mask(m_head' + i - 1)]
      BY <2>1, <2>3, <2>4 DEF ContentsOK
    <2>6. /\ contents \in Seq(Byte) /\ Len(contents) = a
          /\ \A i \in 1 .. a : contents[i] = m_buffer[Mask(m_head + i - 1)]
      BY ContentsType DEF ContentsOK
    <2> HIDE DEF a
    <2>7. \A i \in 1 .. a : Mask(m_head + i - 1) =
                 IF m_head + i - 1 < BUFFER_SIZE THEN m_head + i - 1 ELSE m_head + i - 1 - BUFFER_SIZE
      BY <2>1, MaskOnce, SizeAssumption DEF Index
    <2>8. \A i \in 1 .. a - len : Mask(m_head' + i - 1) = Mask(m_head + (len + i) - 1)
      BY <2>1, <2>2, MaskOnce, SizeAssumption DEF Index
    <2>9. contents' = SubSeq(contents, len + 1, Len(contents))
      <3> DEFINE rest == SubSeq(contents, len + 1, Len(contents))
      <3>1. \A i \in len + 1 .. Len(contents) : contents[i] \in Byte
        BY <2>1, <2>6
      <3>2. rest \in Seq(Byte) /\ Len(rest) = a - len
            /\ \A i \in 1 .. a - len : rest[i] = contents[len + i]
        BY <2>1, <2>6, <3>1, SubSeqProperties
      <3> HIDE DEF rest
      <3>3. ASSUME NEW i \in 1 .. a - len PROVE contents'[i] = rest[i]
        <4>1. len + i \in 1 .. a
          BY <2>1
        <4> QED BY <2>5, <2>6, <2>8, <3>2, <4>1
      <3>4. contents' = rest
        BY <2>5, <3>2, <3>3, SeqEqual
      <3> QED BY <3>4 DEF rest
    <2>10. out' = SubSeq(contents, 1, len)
      <3> DEFINE first == SubSeq(contents, 1, len)
      <3>1. \A i \in 1 .. len : i \in 1 .. a /\ contents[i] \in Byte
        BY <2>1, <2>6
      <3>2. first \in Seq(Byte) /\ Len(first) = len
            /\ \A i \in 1 .. len : first[i] = contents[i]
        BY <2>1, <2>6, <3>1, SubSeqProperties
      <3>3. out' \in Seq(Byte)
        BY TypeRead DEF TypeOK
      <3>4. /\ Len(out') = len
            /\ \A i \in 1 .. len : out'[i] = IF i <= BUFFER_SIZE - m_head THEN m_buffer[m_head + i - 1]
                                             ELSE m_buffer[i - (BUFFER_SIZE - m_head) - 1]
        BY <1>2, <2>1 DEF Copied
      <3> HIDE DEF first
      <3>5. ASSUME NEW i \in 1 .. len PROVE out'[i] = first[i]
        <4> DEFINE j == Mask(m_head + i - 1)
        <4>2. j = IF m_head + i - 1 < BUFFER_SIZE THEN m_head + i - 1 ELSE m_head + i - 1 - BUFFER_SIZE
          BY <2>7, <3>1
        <4> HIDE DEF j
        <4>3. \/ i <= BUFFER_SIZE - m_head /\ j = m_head + i - 1
              \/ ~(i <= BUFFER_SIZE - m_head) /\ j = i - (BUFFER_SIZE - m_head) - 1
          BY <2>1, <4>2, SizeAssumption DEF Index
        <4>1. \/ i <= BUFFER_SIZE - m_head /\ Mask(m_head + i - 1) = m_head + i - 1
              \/ ~(i <= BUFFER_SIZE - m_head) /\ Mask(m_head + i - 1) = i - (BUFFER_SIZE - m_head) - 1
          BY <4>3 DEF j
        <4> QED BY <2>6, <3>1, <3>2, <3>4, <4>1
      <3>6. out' = first
        BY <3>2, <3>3, <3>4, <3>5, SeqEqual
      <3> QED BY <3>6 DEF first
    <2> QED BY <1>2, <2>1, <2>6, <2>9, <2>10 DEF Fifo!Read
  <1> QED BY <1>1, <1>2 DEF Read

\* Every step of the ring buffer is a step of the queue.
LEMMA FifoStep == TypeOK /\ [Next]_vars => [Fifo!Next]_(Fifo!vars)
  <1> SUFFICES ASSUME TypeOK, [Next]_vars PROVE [Fifo!Next]_(Fifo!vars)
    OBVIOUS
  <1>1. CASE Next
    BY <1>1, FifoWrite, FifoRead DEF Next, Fifo!Next
  <1>2. CASE UNCHANGED vars
    BY <1>2 DEF vars, Fifo!vars, contents, Available
  <1> QED BY <1>1, <1>2

\* The ring buffer is a queue of BUFFER_SIZE - 1 bytes: whatever is written is
\* read once, in order, and a call does all it was asked or nothing.
THEOREM FifoCorrect == Spec => ImplementsFifo
  <1>1. Init => Fifo!Init
    BY FifoInit
  <1>2. TypeOK /\ [Next]_vars => [Fifo!Next]_(Fifo!vars)
    BY FifoStep
  <1> QED BY <1>1, <1>2, TypeCorrect, PTL DEF Spec, Fifo!Spec, ImplementsFifo

-----------------------------------------------------------------------------
\* Whether a package is complete is told by the two bytes the reader would read
\* first, also when they lie at the two ends of the array.
LEMMA PackageFromType == TypeOK => PackageComplete
  <1> SUFFICES ASSUME TypeOK, Available >= 2 PROVE IsComplete <=> contents[1] * ByteLimit + contents[2] <= Len(contents)
    BY DEF PackageComplete
  <1>1. Available \in Nat /\ m_head \in Index
    BY AvailableRange DEF TypeOK
  <1>2. Len(contents) = Available /\ contents[1] = m_buffer[Mask(m_head)] /\ contents[2] = m_buffer[Mask(m_head + 1)]
    BY <1>1 DEF contents, Index
  <1>3. Mask(m_head) = m_head
    BY <1>1, SizeAssumption, MaskOnce DEF Index
  <1>4. m_buffer[m_head] \in Byte /\ m_buffer[Mask(m_head + 1)] \in Byte
    BY <1>1, SizeAssumption DEF TypeOK, Index, Mask
  <1>5. GetSize = contents[1] * ByteLimit + contents[2]
    BY <1>1, <1>2, <1>3, <1>4, SizeAssumption DEF GetSize
  <1>6. contents[1] \in Nat /\ contents[2] \in Nat /\ ByteLimit \in Nat
    BY <1>2, <1>3, <1>4, SizeAssumption DEF Byte
  <1>7. contents[1] * ByteLimit \in Nat
    BY <1>6
  <1> QED BY <1>1, <1>2, <1>5, <1>6, <1>7 DEF IsComplete

\* IsComplete tells the truth of every package whose size has arrived.
THEOREM PackageKnown == Spec => []PackageComplete
  BY TypeCorrect, PackageFromType, PTL
=============================================================================
