----------------------------- MODULE NameService -----------------------------
(***************************************************************************)
(* The name server: clients ask for a name in a group over a REQ socket;   *)
(* the server allots <<group, serial>>, answers with every name of the     *)
(* group allotted so far and publishes the new one. NameServer says when   *)
(* a server is up.                                                         *)
(***************************************************************************)
EXTENDS Integers, Sequences, FiniteSets

CONSTANTS
  Clients, Groups,
  SERIAL_SIZE, \* serials of a group, a power of two (256 in the code)
  NoGroup,
  MaxAsks      \* BOUND: requests sent in a run

Serials == 0 .. SERIAL_SIZE - 1
\* name + "-%.4o" of the serial, which tells any two pairs apart.
Names == Groups \X Serials
NoName == <<>> \* ""

VARIABLES
  asked,       \* the group each client waits for a name of, or NoGroup
  requests,    \* the clients whose request has not been received
  asks,
  m_serialmap, \* the groups known, each with its serial and its bitset
  step, client, group, \* where server_loop is, the client and group it serves
  serial,      \* the local variable of allotnamepair
  name,        \* what allotnamepair returned
  listed,      \* the names in the answer
  published    \* the names published since the server started, in order

network == <<asked, requests, asks>>
server == <<m_serialmap, step, client, group, serial, name, listed, published>>
vars == <<network, server>>

Init ==
  /\ asked = [c \in Clients |-> NoGroup] /\ requests = {}
  /\ asks = 0
  /\ m_serialmap = <<>> /\ published = <<>> /\ listed = {}
  /\ step = "poll" /\ client \in Clients /\ group = NoGroup /\ serial = 0 /\ name = NoName

LocalsGone == group' = NoGroup /\ serial' = 0 /\ name' = NoName /\ listed' = {}

\* A client sends its next request when the last one was answered.
Ask(c) ==
  /\ asks < MaxAsks /\ asks' = asks + 1
  /\ asked[c] = NoGroup
  /\ \E g \in Groups : asked' = [asked EXCEPT ![c] = g]
  /\ requests' = requests \cup {c}
  /\ UNCHANGED server

\* poll and sock_recv: the responder takes the waiting clients in any order.
Recv ==
  /\ step = "poll"
  /\ \E c \in requests :
       /\ requests' = requests \ {c}
       /\ client' = c /\ group' = asked[c]
  /\ step' = "allot"
  /\ UNCHANGED <<asked, asks, m_serialmap, serial, name, listed, published>>

\* Mutant of FirstPair: the first serial is not taken down.
FirstPairUnset == [serial |-> 0, bitset |-> {}]
\* The name_pair of a new group.
FirstPair == [serial |-> 0, bitset |-> {0}]

\* allotnamepair: the first name of a group.
AllotFirst ==
  /\ step = "allot" /\ group \notin DOMAIN m_serialmap
  /\ m_serialmap' = [g \in DOMAIN m_serialmap \cup {group} |->
                       IF g = group THEN FirstPair ELSE m_serialmap[g]]
  /\ name' = <<group, 0>>
  /\ step' = "list"
  /\ UNCHANGED <<network, client, group, serial, listed, published>>

\* Mutant of Full: no test.
FullNever(bitset) == FALSE
\* bitset.all()
Full(bitset) == bitset = Serials

\* allotnamepair: the group has no serial left.
AllotFull ==
  /\ step = "allot" /\ group \in DOMAIN m_serialmap
  /\ Full(m_serialmap[group].bitset)
  /\ name' = NoName
  /\ step' = "list"
  /\ UNCHANGED <<network, m_serialmap, client, group, serial, listed, published>>

AllotNext ==
  /\ step = "allot" /\ group \in DOMAIN m_serialmap
  /\ ~Full(m_serialmap[group].bitset)
  /\ serial' = m_serialmap[group].serial
  /\ step' = "probe"
  /\ UNCHANGED <<network, m_serialmap, client, group, name, listed, published>>

\* (serial + 1) & 0xff
After(s) == (s + 1) % SERIAL_SIZE

\* One turn of the loop of allotnamepair.
Probe ==
  /\ step = "probe"
  /\ serial' = After(serial)
  /\ IF serial' \in m_serialmap[group].bitset
       THEN UNCHANGED <<m_serialmap, name, step>>
       ELSE /\ m_serialmap' = [m_serialmap EXCEPT ![group] =
                 [serial |-> serial', bitset |-> @.bitset \cup {serial'}]]
            /\ name' = <<group, serial'>>
            /\ step' = "list"
  /\ UNCHANGED <<network, client, group, listed, published>>

\* Mutant of GetNameList: the loop over the bitset stops one serial short.
ListButLast(g) == {<<g, s>> : s \in m_serialmap[g].bitset \ {SERIAL_SIZE - 1}}
GetNameList(g) == {<<g, s>> : s \in m_serialmap[g].bitset}

\* getnamelist and the answer.
Reply ==
  /\ step = "list"
  /\ listed' = GetNameList(group)
  /\ asked' = [asked EXCEPT ![client] = NoGroup]
  /\ step' = "publish"
  /\ UNCHANGED <<requests, asks, m_serialmap, client, group, serial, name, published>>

\* The server publishes the name; its local variables are gone.
Publish ==
  /\ step = "publish"
  /\ published' = Append(published, name)
  /\ step' = "poll" /\ LocalsGone
  /\ UNCHANGED <<network, m_serialmap, client>>

\* The server dies: the next one knows no group, and requests that had reached it
\* or were on the way are lost.
Lost ==
  /\ requests' \in SUBSET requests
  /\ m_serialmap' = <<>> /\ published' = <<>>
  /\ step' = "poll" /\ LocalsGone
  /\ UNCHANGED <<asked, asks, client>>

Serve == Recv \/ AllotFirst \/ AllotFull \/ AllotNext \/ Probe \/ Reply \/ Publish

-----------------------------------------------------------------------------
\* The names of group g published since the server started.
PublishedOf(g) == {published[i] : i \in DOMAIN published} \cap ({g} \X Serials)

\* The variables keep their types.
TypeOK ==
  /\ asked \in [Clients -> Groups \cup {NoGroup}] /\ requests \subseteq Clients
  /\ asks \in 0 .. MaxAsks
  /\ DOMAIN m_serialmap \subseteq Groups
  /\ \A g \in DOMAIN m_serialmap :
       m_serialmap[g] \in [serial : Serials, bitset : SUBSET Serials]
  /\ step \in {"poll", "allot", "probe", "list", "publish"}
  /\ client \in Clients /\ group \in Groups \cup {NoGroup}
  /\ serial \in Serials /\ name \in Names \cup {NoName}
  /\ listed \subseteq Names
  /\ published \in Seq(Names \cup {NoName})

\* A server publishes no name twice, whatever the serial counter did (allotnamepair).
NamesUnique ==
  \A i, j \in DOMAIN published :
    published[i] = published[j] /\ published[i] # NoName => i = j

\* An answer lists the names of the group that were published and the one that is
\* about to be, and no others: who asked first and listens to the publisher knows
\* every name of its group. Only when these are all there are is a request given
\* no name.
AnswerComplete ==
  step = "publish" =>
    /\ listed = PublishedOf(group) \cup ({name} \ {NoName})
    /\ name = NoName => listed = {group} \X Serials
=============================================================================
