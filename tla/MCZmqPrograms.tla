---------------------------- MODULE MCZmqPrograms -----------------------------
(*****************************************************************************)
(* ZmqPrograms with two brokers that are each other's peer.                 *)
(*****************************************************************************)
EXTENDS ZmqPrograms

CONSTANTS c1, c2, c3, w1, w2, w3, b1, b2

SelfOf ==
  [x \in PeerClients \cup PeerWorkers |-> IF x \in {c1, c2, w1, w2} THEN b1 ELSE b2]
CloudOf == [b \in Brokers |-> IF b = b1 THEN b2 ELSE b1]

\* c1: every length up to one more than the buffer, NUL in front and inside, '%%' and
\* conversions shorter than the buffer and filling it, and a '%' at the end of both.
\* The other one sends what leaves the buffer in different states for c1.
RequestsOf ==
  [c \in DbClients |->
     {<<>>, <<c>>, <<PERCENT, PERCENT>>, <<c, c, c>>, <<c, c, c, c>>} \cup
     IF c = c1
       THEN {<<c, PERCENT>>, <<PERCENT, c>>, <<NUL, c>>, <<c, NUL, c>>,
             <<PERCENT, PERCENT, c>>, <<c, c, PERCENT>>}
       ELSE {}]
===============================================================================
