------------------------------ MODULE ByteFifo ------------------------------
(***************************************************************************)
(* What a ring buffer promises: a queue of at most Capacity bytes whose    *)
(* writes and reads are all or nothing.                                    *)
(***************************************************************************)
EXTENDS Integers, Sequences

CONSTANTS
  Capacity,  \* bytes the queue holds
  Buffers,   \* what callers write
  MaxLen     \* the most they ask for

VARIABLES
  queue,     \* the bytes written and not yet read
  out,       \* the bytes the last successful read gave
  returned   \* what the last call returned: the number of bytes, or 0

vars == <<queue, out, returned>>

Init == queue = <<>> /\ out = <<>> /\ returned = 0

Write(buff) ==
  /\ Len(queue) + Len(buff) <= Capacity
  /\ queue' = queue \o buff
  /\ returned' = Len(buff)
  /\ UNCHANGED out

Read(n) ==
  /\ n <= Len(queue)
  /\ out' = SubSeq(queue, 1, n)
  /\ queue' = SubSeq(queue, n + 1, Len(queue))
  /\ returned' = n

Refuse == returned' = 0 /\ UNCHANGED <<queue, out>>

Next ==
  \/ \E buff \in Buffers : Write(buff)
  \/ \E n \in 0 .. MaxLen : Read(n)
  \/ Refuse

Spec == Init /\ [][Next]_vars
=============================================================================
