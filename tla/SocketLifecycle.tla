--------------------------- MODULE SocketLifecycle ---------------------------
(***************************************************************************)
(* What the slot table promises: a slot is free, reserved, or holds one    *)
(* socket, which keeps its id from the moment it is opened until it is     *)
(* closed and goes through the states of socket_define.h in order.         *)
(***************************************************************************)
EXTENDS SocketDefine

VARIABLE slot  \* slot[s].state, and slot[s].id when the slot holds a socket

NoId  == -1
Empty == [state |-> "INVALID", id |-> NoId]
Taken == [state |-> "RESERVE", id |-> NoId]

\* The states a reserved slot is opened in, and the changes of an open socket.
Openings == {"PLISTEN", "PACCEPT", "CONNECTING", "CONNECTED", "BIND"}
Advances == {<<"PLISTEN", "LISTEN">>, <<"PACCEPT", "CONNECTED">>, <<"CONNECTING", "CONNECTED">>}

Reserve(s) == slot[s] = Empty /\ slot' = [slot EXCEPT ![s] = Taken]

GiveUp(s) == slot[s] = Taken /\ slot' = [slot EXCEPT ![s] = Empty]

Open(s) ==
  /\ slot[s] = Taken
  /\ \E st \in Openings, i \in Ids :
       HASH_ID(i) = s /\ slot' = [slot EXCEPT ![s] = [state |-> st, id |-> i]]

Advance(s) ==
  \E st \in LiveTypes :
    /\ <<slot[s].state, st>> \in Advances
    /\ slot' = [slot EXCEPT ![s].state = st]

Close(s) == slot[s].state \in LiveTypes /\ slot' = [slot EXCEPT ![s] = Empty]

Init == slot = [s \in Slots |-> Empty]
Next == \E s \in Slots : Reserve(s) \/ GiveUp(s) \/ Open(s) \/ Advance(s) \/ Close(s)
Spec == Init /\ [][Next]_slot
=============================================================================
