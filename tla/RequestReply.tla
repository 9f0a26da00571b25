----------------------------- MODULE RequestReply -----------------------------
(***************************************************************************)
(* What a broker between clients and workers promises (lbbroker.cpp,       *)
(* peering1.cpp): a request is handed to one worker that has none, and its *)
(* client is answered once, when that worker has done it.                  *)
(***************************************************************************)
CONSTANTS Clients, Workers, NoClient

VARIABLES
  state, \* "idle", "waiting", "working" or "answered"
  work   \* the client each worker works for, or NoClient

Init ==
  /\ state = [c \in Clients |-> "idle"]
  /\ work = [w \in Workers |-> NoClient]

Goto(c, s) == state' = [state EXCEPT ![c] = s]

Request(c) == state[c] = "idle" /\ Goto(c, "waiting") /\ UNCHANGED work

Assign(c, w) ==
  /\ state[c] = "waiting" /\ work[w] = NoClient
  /\ Goto(c, "working")
  /\ work' = [work EXCEPT ![w] = c]

Answer(w) ==
  /\ work[w] # NoClient
  /\ Goto(work[w], "answered")
  /\ work' = [work EXCEPT ![w] = NoClient]

Receive(c) == state[c] = "answered" /\ Goto(c, "idle") /\ UNCHANGED work

Next ==
  \/ \E c \in Clients : Request(c) \/ Receive(c) \/ \E w \in Workers : Assign(c, w)
  \/ \E w \in Workers : Answer(w)

Spec == Init /\ [][Next]_<<state, work>>
===============================================================================
