--------------------------- MODULE ThreadSafeQueue ---------------------------
(***************************************************************************)
(* core/thread_safe_queue.h: a queue under one mutex with one condition    *)
(* variable.  Every operation holds the mutex from its first access to its *)
(* last, waiting apart, so it is one step, and wait_and_pop is two: up to  *)
(* m_cond.wait, and from the wake-up on.                                   *)
(***************************************************************************)
EXTENDS Integers, Sequences, FiniteSets

CONSTANTS
  Consumers, \* threads that take values
  MaxPush,   \* BOUND: values pushed in a run
  MaxThrows  \* BOUND: times make_shared runs out of memory in a run

ASSUME QueueAssumption == IsFiniteSet(Consumers) /\ MaxPush \in Nat /\ MaxThrows \in Nat

VARIABLES
  m_queue,
  waiting, \* consumers blocked in m_cond.wait
  woken,   \* consumers that were notified and have not taken the mutex again
  count,   \* values pushed: the n-th push pushes n
  taken,   \* the values taken, in order
  thrown   \* consumers that were woken and left by an exception

vars == <<m_queue, waiting, woken, count, taken, thrown>>

Init ==
  /\ m_queue = <<>> /\ waiting = {} /\ woken = {}
  /\ count = 0 /\ taken = <<>> /\ thrown = 0

\* Mutant of Notified: only a push to an empty queue notifies.
NotifiedWhenEmpty == IF m_queue = <<>> THEN waiting ELSE {}
\* The consumers of which notify_one wakes one.
Notified == waiting

Push ==
  /\ m_queue' = Append(m_queue, count + 1)
  /\ count' = count + 1
  /\ IF Notified = {} THEN UNCHANGED <<waiting, woken>>
     ELSE \E c \in Notified : waiting' = waiting \ {c} /\ woken' = woken \cup {c}
  /\ UNCHANGED <<taken, thrown>>

\* Mutant of Pop: the value is moved out and stays in the queue.
PopKeeps == m_queue # <<>> /\ taken' = Append(taken, Head(m_queue)) /\ UNCHANGED m_queue
\* m_queue.front() and m_queue.pop()
Pop == m_queue # <<>> /\ taken' = Append(taken, Head(m_queue)) /\ m_queue' = Tail(m_queue)

Outside(c) == c \notin waiting \cup woken

\* wait_and_pop finds a value.
WaitAndPop(c) == Outside(c) /\ Pop /\ UNCHANGED <<waiting, woken, count, thrown>>

\* wait_and_pop blocks.
Wait(c) ==
  /\ Outside(c) /\ m_queue = <<>>
  /\ waiting' = waiting \cup {c}
  /\ UNCHANGED <<m_queue, woken, count, taken, thrown>>

\* m_cond.wait returns with no notification.
WakeSpuriously(c) ==
  /\ c \in waiting
  /\ waiting' = waiting \ {c} /\ woken' = woken \cup {c}
  /\ UNCHANGED <<m_queue, count, taken, thrown>>

\* A woken consumer has the mutex again: it takes a value or waits again.
Wake(c) ==
  /\ c \in woken
  /\ woken' = woken \ {c}
  /\ \/ Pop /\ UNCHANGED waiting
     \/ m_queue = <<>> /\ waiting' = waiting \cup {c} /\ UNCHANGED <<m_queue, taken>>
  /\ UNCHANGED <<count, thrown>>

\* make_shared throws in a woken consumer, before the value is removed.
WakeThrows(c) ==
  /\ thrown < MaxThrows /\ thrown' = thrown + 1
  /\ c \in woken /\ m_queue # <<>>
  /\ woken' = woken \ {c}
  /\ UNCHANGED <<m_queue, waiting, count, taken>>

\* try_pop; on an empty queue it returns at once and changes nothing.
TryPop(c) == Outside(c) /\ Pop /\ UNCHANGED <<waiting, woken, count, thrown>>

Take(c) == WaitAndPop(c) \/ Wait(c) \/ Wake(c)

Next ==
  \/ count < MaxPush /\ Push
  \/ \E c \in Consumers : Take(c) \/ TryPop(c) \/ WakeSpuriously(c) \/ WakeThrows(c)

Spec == Init /\ [][Next]_vars

-----------------------------------------------------------------------------
\* The variables keep their types.
TypeOK ==
  /\ m_queue \in Seq(Nat) /\ taken \in Seq(Nat) /\ count \in Nat /\ thrown \in Nat
  /\ waiting \subseteq Consumers /\ woken \subseteq Consumers
  /\ waiting \cap woken = {}

\* The values taken and those in the queue are the values pushed, once each and
\* in the order of the pushes, even when wait_and_pop throws.
OnceInOrder == taken \o m_queue = [n \in 1 .. count |-> n]

\* While a consumer waits there are as many consumers on their way out of wait as
\* values in the queue, but for those that left by an exception, each of which
\* takes one wake-up with it: notify_one of push loses none.
NoLostWakeup == waiting # {} => Len(m_queue) <= Cardinality(woken) + thrown
=============================================================================
