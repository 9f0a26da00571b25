----------------------------- MODULE QueueProofs -----------------------------
(***************************************************************************)
(* Theorems about ThreadSafeQueue for every number of consumers and pushes.*)
(***************************************************************************)
EXTENDS ThreadSafeQueue, SequenceTheorems, FiniteSetTheorems, TLAPS

\* The queue starts empty, with nobody waiting.
LEMMA QueueInit == Init => TypeOK /\ OnceInOrder /\ NoLostWakeup
  <1> SUFFICES ASSUME Init PROVE TypeOK /\ OnceInOrder /\ NoLostWakeup
    OBVIOUS
  <1>1. TypeOK
    BY DEF Init, TypeOK
  <1>2. OnceInOrder
    BY DEF Init, OnceInOrder
  <1> QED BY <1>1, <1>2 DEF Init, NoLostWakeup

\* Taking the front of the queue keeps the types.
LEMMA PopType ==
  ASSUME TypeOK, Pop
  PROVE  /\ m_queue \in Seq(Nat) /\ m_queue # <<>> /\ m_queue' \in Seq(Nat) /\ taken' \in Seq(Nat)
         /\ Len(m_queue') = Len(m_queue) - 1
  BY DEF TypeOK, Pop

\* Every operation keeps the types.
LEMMA TypeStep == TypeOK /\ [Next]_vars => TypeOK'
  <1> SUFFICES ASSUME TypeOK, [Next]_vars PROVE TypeOK'
    OBVIOUS
  <1>1. CASE Push
    BY <1>1 DEF Push, Notified, TypeOK
  <1>2. ASSUME NEW c \in Consumers, WaitAndPop(c) \/ TryPop(c) PROVE TypeOK'
    BY <1>2, PopType DEF WaitAndPop, TryPop, TypeOK
  <1>3. ASSUME NEW c \in Consumers, Wait(c) PROVE TypeOK'
    BY <1>3 DEF Wait, Outside, TypeOK
  <1>4. ASSUME NEW c \in Consumers, Wake(c) PROVE TypeOK'
    <2>1. CASE Pop /\ UNCHANGED waiting
      BY <1>4, <2>1, PopType DEF Wake, TypeOK
    <2>2. CASE m_queue = <<>> /\ waiting' = waiting \cup {c} /\ UNCHANGED <<m_queue, taken>>
      BY <1>4, <2>2 DEF Wake, TypeOK
    <2> QED BY <1>4, <2>1, <2>2 DEF Wake
  <1>5. ASSUME NEW c \in Consumers, WakeSpuriously(c) \/ WakeThrows(c) PROVE TypeOK'
    BY <1>5 DEF WakeSpuriously, WakeThrows, TypeOK
  <1>6. CASE UNCHANGED vars
    BY <1>6 DEF vars, TypeOK
  <1> QED BY <1>1, <1>2, <1>3, <1>4, <1>5, <1>6 DEF Next, Take

-----------------------------------------------------------------------------
\* What Pop moves from the queue to taken leaves their concatenation alone.
LEMMA PopMoves == ASSUME TypeOK, Pop PROVE taken' \o m_queue' = taken \o m_queue
  <1> DEFINE h == Head(m_queue)  t == Tail(m_queue)
  <1>1. taken \in Seq(Nat) /\ m_queue \in Seq(Nat) /\ m_queue # <<>>
    BY DEF TypeOK, Pop
  <1>2. h \in Nat /\ t \in Seq(Nat) /\ m_queue = <<h>> \o t
    BY <1>1, HeadTailProperties
  <1>3. taken' = taken \o <<h>> /\ m_queue' = t
    BY <1>1, <1>2, AppendIsConcat DEF Pop
  <1>4. <<h>> \in Seq(Nat)
    BY <1>2
  <1> HIDE DEF h, t
  <1> QED BY <1>1, <1>2, <1>3, <1>4, ConcatAssociative

\* Push extends the concatenation by the value pushed.
LEMMA PushExtends ==
  ASSUME TypeOK, Push
  PROVE  taken' \o m_queue' = Append(taken \o m_queue, count + 1) /\ count' = count + 1
  <1>1. taken \in Seq(Nat) /\ m_queue \in Seq(Nat) /\ <<count + 1>> \in Seq(Nat) /\ count + 1 \in Nat
    BY DEF TypeOK
  <1>2. m_queue' = m_queue \o <<count + 1>> /\ taken' = taken /\ count' = count + 1
    BY <1>1, AppendIsConcat DEF Push
  <1>3. taken \o m_queue \in Seq(Nat)
    BY <1>1, ConcatProperties
  <1>4. taken \o (m_queue \o <<count + 1>>) = (taken \o m_queue) \o <<count + 1>>
    BY <1>1, ConcatAssociative
  <1>5. Append(taken \o m_queue, count + 1) = (taken \o m_queue) \o <<count + 1>>
    BY <1>1, <1>3, AppendIsConcat
  <1> QED BY <1>2, <1>4, <1>5

\* Every operation keeps the values in order.
LEMMA OrderStep == TypeOK /\ OnceInOrder /\ [Next]_vars => OnceInOrder'
  <1> SUFFICES ASSUME TypeOK, OnceInOrder, [Next]_vars PROVE OnceInOrder'
    OBVIOUS
  <1>1. CASE Push
    <2>1. Append([n \in 1 .. count |-> n], count + 1) = [n \in 1 .. count + 1 |-> n]
      BY DEF TypeOK
    <2> QED BY <1>1, <2>1, PushExtends DEF OnceInOrder
  <1>2. ASSUME Pop, count' = count PROVE OnceInOrder'
    BY <1>2, PopMoves DEF OnceInOrder
  <1>3. ASSUME UNCHANGED <<m_queue, taken, count>> PROVE OnceInOrder'
    BY <1>3 DEF OnceInOrder
  <1> QED BY <1>1, <1>2, <1>3
          DEF Next, Take, WaitAndPop, TryPop, Wait, Wake, WakeSpuriously, WakeThrows, vars

\* The queue gives every value once, in the order of the pushes, whatever the
\* consumers do, wait_and_pop running out of memory included.
THEOREM QueueInOrder == Spec => []OnceInOrder
  <1>1. Init => TypeOK /\ OnceInOrder
    BY QueueInit
  <1>2. TypeOK /\ OnceInOrder /\ [Next]_vars => TypeOK' /\ OnceInOrder'
    BY TypeStep, OrderStep
  <1> QED BY <1>1, <1>2, PTL DEF Spec

-----------------------------------------------------------------------------
\* The woken consumers can be counted, and adding or removing one counts.
LEMMA WokenCount ==
  ASSUME TypeOK
  PROVE  /\ IsFiniteSet(woken) /\ Cardinality(woken) \in Nat
         /\ \A c : c \notin woken => Cardinality(woken \cup {c}) = Cardinality(woken) + 1
         /\ \A c : c \in woken => Cardinality(woken \ {c}) = Cardinality(woken) - 1
  <1>1. IsFiniteSet(woken)
    BY QueueAssumption, FS_Subset DEF TypeOK
  <1> QED BY <1>1, FS_CardinalityType, FS_AddElement, FS_RemoveElement

\* Every operation keeps the balance of values and woken consumers.
LEMMA WakeupStep == TypeOK /\ NoLostWakeup /\ [Next]_vars => NoLostWakeup'
  <1> SUFFICES ASSUME TypeOK, NoLostWakeup, [Next]_vars PROVE NoLostWakeup'
    OBVIOUS
  <1> thrown \in Nat
    BY DEF TypeOK
  <1>1. CASE Push
    <2>1. Len(m_queue') = Len(m_queue) + 1 /\ Len(m_queue) \in Nat /\ thrown' = thrown
      BY <1>1 DEF Push, TypeOK
    <2>2. CASE waiting = {}
      BY <1>1, <2>2 DEF Push, Notified, NoLostWakeup
    <2>3. CASE waiting # {}
      <3>1. PICK c \in waiting : waiting' = waiting \ {c} /\ woken' = woken \cup {c}
        BY <1>1, <2>3 DEF Push, Notified
      <3>2. Cardinality(woken') = Cardinality(woken) + 1
        BY <3>1, WokenCount DEF TypeOK
      <3> QED BY <2>1, <2>3, <3>2, WokenCount DEF NoLostWakeup
    <2> QED BY <2>2, <2>3
  <1>2. ASSUME NEW c \in Consumers, WaitAndPop(c) \/ TryPop(c) PROVE NoLostWakeup'
    <2>1. Len(m_queue') = Len(m_queue) - 1 /\ Len(m_queue) \in Nat /\ UNCHANGED <<waiting, woken, thrown>>
      BY <1>2, PopType DEF WaitAndPop, TryPop
    <2> QED BY <2>1, WokenCount DEF NoLostWakeup
  <1>3. ASSUME NEW c \in Consumers, Wait(c) PROVE NoLostWakeup'
    BY <1>3, WokenCount DEF Wait, NoLostWakeup
  <1>4. ASSUME NEW c \in Consumers, Wake(c) PROVE NoLostWakeup'
    <2>1. /\ Cardinality(woken') = Cardinality(woken) - 1 /\ Cardinality(woken') \in Nat
          /\ thrown' = thrown
      <3>1. Cardinality(woken') = Cardinality(woken) - 1
        BY <1>4, WokenCount DEF Wake
      <3>2. TypeOK'
        BY <1>4, TypeStep DEF Next, Take
      <3>3. IsFiniteSet(woken')
        BY <3>2, QueueAssumption, FS_Subset DEF TypeOK
      <3> QED BY <1>4, <3>1, <3>3, FS_CardinalityType DEF Wake
    <2>2. CASE Pop /\ UNCHANGED waiting
      <3>1. Len(m_queue') = Len(m_queue) - 1 /\ Len(m_queue) \in Nat
        BY <2>2, PopType
      <3> QED BY <2>1, <2>2, <3>1, WokenCount DEF NoLostWakeup
    <2>3. CASE m_queue = <<>> /\ m_queue' = m_queue
      BY <2>1, <2>3 DEF NoLostWakeup
    <2> QED BY <1>4, <2>2, <2>3 DEF Wake
  <1>5. ASSUME NEW c \in Consumers, WakeSpuriously(c) PROVE NoLostWakeup'
    <2>1. c \notin woken /\ waiting # {} /\ woken' = woken \cup {c} /\ UNCHANGED <<m_queue, thrown>>
      BY <1>5 DEF WakeSpuriously, TypeOK
    <2>2. Cardinality(woken') = Cardinality(woken) + 1 /\ Len(m_queue) \in Nat
      BY <2>1, WokenCount DEF TypeOK
    <2> QED BY <2>1, <2>2, WokenCount DEF NoLostWakeup
  <1>6. ASSUME NEW c \in Consumers, WakeThrows(c) PROVE NoLostWakeup'
    <2>1. Cardinality(woken') = Cardinality(woken) - 1 /\ thrown' = thrown + 1
      BY <1>6, WokenCount DEF WakeThrows
    <2>2. UNCHANGED <<waiting, m_queue>> /\ Len(m_queue) \in Nat
      BY <1>6 DEF WakeThrows, TypeOK
    <2> QED BY <2>1, <2>2, WokenCount DEF NoLostWakeup
  <1>7. CASE UNCHANGED vars
    BY <1>7 DEF vars, NoLostWakeup
  <1> QED BY <1>1, <1>2, <1>3, <1>4, <1>5, <1>6, <1>7 DEF Next, Take

\* No wake-up is lost but those that consumers running out of memory take with
\* them: while a consumer waits there are at least as many consumers on their way
\* out as values, those that threw counted.
THEOREM NoWakeupIsLost == Spec => []NoLostWakeup
  <1>1. Init => TypeOK /\ NoLostWakeup
    BY QueueInit
  <1>2. TypeOK /\ NoLostWakeup /\ [Next]_vars => TypeOK' /\ NoLostWakeup'
    BY TypeStep, WakeupStep
  <1> QED BY <1>1, <1>2, PTL DEF Spec
=============================================================================
