--------------------------- MODULE NameServerProofs ---------------------------
(***************************************************************************)
(* Theorems about NameServer for any number of clients, groups, serials,   *)
(* process ids, starts and faults: the daemon first, then the names.       *)
(***************************************************************************)
EXTENDS NameServer, SequenceTheorems, TLAPS

\* Whoever is past the lock holds it.
Locked == \A p \in Pids : pc[p] \in {"write", "running", "unnamed"} => lock = p

DaemonInv == D!TypeOK /\ Locked /\ PidFileNamesDaemon

\* Nobody is past the lock in the beginning.
LEMMA DaemonBegins == D!Init => DaemonInv
  <1> SUFFICES ASSUME D!Init PROVE DaemonInv
    OBVIOUS
  <1>1. D!TypeOK
    <2>1. content \in Seq(D!Characters)
      BY EmptySeq DEF D!Init
    <2>2. pc \in [Pids -> {"none", "fork", "forkAgain", "exit", "open", "lock", "write", "running", "unnamed"}]
      BY DEF D!Init
    <2>3. starts \in 0 .. MaxStarts /\ faults \in 0 .. MaxFaults
      BY NameServerAssumption DEF D!Init
    <2>4. exists \in BOOLEAN /\ lock \in Pids \cup {NoPid}
      BY DEF D!Init
    <2> QED BY <2>1, <2>2, <2>3, <2>4 DEF D!TypeOK
  <1>2. Locked /\ PidFileNamesDaemon
    BY DEF D!Init, Locked, PidFileNamesDaemon, D!PidFileNamesDaemon
  <1> QED BY <1>1, <1>2 DEF DaemonInv

\* A line written over the start of a sequence is its start, whatever was there.
LEMMA WrittenOver ==
  ASSUME NEW S, NEW line \in Seq(S), Len(line) > 0, NEW text \in Seq(S)
  PROVE  LET over == line \o SubSeq(text, Len(line) + 1, Len(text))
         IN over \in Seq(S) /\ SubSeq(over, 1, Len(line)) = line
  <1> DEFINE rest == SubSeq(text, Len(line) + 1, Len(text))
  <1>1. rest \in Seq(S)
    <2>1. \A i \in Len(line) + 1 .. Len(text) : text[i] \in S
      OBVIOUS
    <2> QED BY <2>1, SubSeqProperties
  <1>2. line \o rest \in Seq(S)
    BY <1>1, ConcatProperties
  <1>3. SubSeq(line \o rest, 1, Len(line)) = SubSeq(line, 1, Len(line))
    <2>1. 1 \in 1 .. Len(line) /\ Len(line) \in 1 .. Len(line)
      OBVIOUS
    <2> HIDE DEF rest
    <2> QED BY <1>1, <2>1, SubSeqOfConcat1
  <1> QED BY <1>2, <1>3, SubSeqFull

\* The holder of the lock writes its id into the file.
LEMMA WriteInv == ASSUME DaemonInv, NEW p \in Pids, D!WritePid(p) PROVE DaemonInv'
  <1> DEFINE line == Append(p, EndOfLine)
  <1>1. /\ pc[p] = "write"
        /\ \/ content' = D!Overwritten(line) /\ pc' = [pc EXCEPT ![p] = "running"]
           \/ content' = content /\ pc' = [pc EXCEPT ![p] = "unnamed"]
        /\ UNCHANGED <<starts, exists, lock>>
        /\ faults' \in 0 .. MaxFaults
    BY NameServerAssumption DEF D!WritePid, D!Fault, DaemonInv, D!TypeOK
  <1>2. line \in Seq(D!Characters) /\ Len(line) = Len(p) + 1 /\ Len(p) \in Nat
    BY NameServerAssumption, AppendProperties DEF D!Characters
  <1>3. /\ D!Overwritten(line) \in Seq(D!Characters)
        /\ SubSeq(D!Overwritten(line), 1, Len(line)) = line
    <2> HIDE DEF line
    <2> QED BY <1>2, WrittenOver DEF D!Overwritten, DaemonInv, D!TypeOK
  <1>4. D!TypeOK'
    BY <1>1, <1>3 DEF DaemonInv, D!TypeOK
  <1>5. Locked'
    BY <1>1 DEF DaemonInv, D!TypeOK, Locked
  <1>6. PidFileNamesDaemon'
    <2>1. \A q \in Pids : pc'[q] = "running" => q = p /\ content' = D!Overwritten(line)
      BY <1>1 DEF DaemonInv, D!TypeOK, Locked
    <2> QED BY <1>2, <1>3, <2>1 DEF PidFileNamesDaemon, D!PidFileNamesDaemon
  <1> QED BY <1>4, <1>5, <1>6 DEF DaemonInv

\* Before the pid is written, a process gets past the lock only by taking it, ...
LEMMA EarlyInv ==
  ASSUME DaemonInv, NEW p \in Pids,
         D!Fork(p) \/ D!ForkAgain(p) \/ D!ChildExits(p) \/ D!Open(p) \/ D!Lock(p)
  PROVE  DaemonInv'
  <1> USE NameServerAssumption DEF DaemonInv, D!TypeOK
  <1>1. /\ pc' \in [Pids -> {"none", "fork", "forkAgain", "exit", "open", "lock", "write", "running", "unnamed"}]
        /\ \A q \in Pids : pc'[q] \in {"write", "running", "unnamed"} =>
             \/ pc[q] = pc'[q] /\ UNCHANGED lock
             \/ q = p /\ lock' = p /\ pc'[q] = "write"
        /\ \A q \in Pids : pc[q] \in {"write", "running", "unnamed"} => pc'[q] = pc[q]
    <2>1. CASE D!Fork(p)
      BY <2>1 DEF D!Fork, D!FreePids, D!file
    <2>2. CASE D!ForkAgain(p)
      BY <2>2 DEF D!ForkAgain, D!FreePids, D!file
    <2>3. CASE D!ChildExits(p) \/ D!Open(p)
      BY <2>3 DEF D!ChildExits, D!Open, D!file
    <2>4. CASE D!Lock(p)
      BY <2>4 DEF D!Lock, D!Lockable, Locked
    <2> QED BY <2>1, <2>2, <2>3, <2>4
  <1>2. /\ UNCHANGED <<starts, content>>
        /\ faults' \in 0 .. MaxFaults
        /\ exists' \in BOOLEAN /\ lock' \in Pids \cup {NoPid}
    <2>1. UNCHANGED <<starts, content>>
      BY DEF D!Fork, D!ForkAgain, D!ChildExits, D!Open, D!Lock, D!file
    <2>2. UNCHANGED faults \/ D!Fault
      BY DEF D!Fork, D!ForkAgain, D!ChildExits, D!Open, D!Lock
    <2>3. exists' \in {exists, TRUE} /\ lock' \in {lock, p}
      BY DEF D!Fork, D!ForkAgain, D!ChildExits, D!Open, D!Lock, D!file
    <2>4. faults' \in 0 .. MaxFaults
      BY <2>2 DEF D!Fault
    <2>5. exists' \in BOOLEAN /\ lock' \in Pids \cup {NoPid}
      BY <2>3
    <2> QED BY <2>1, <2>4, <2>5
  <1>3. Locked'
    BY <1>1 DEF Locked
  <1>4. PidFileNamesDaemon'
    BY <1>1, <1>2 DEF PidFileNamesDaemon, D!PidFileNamesDaemon
  <1> QED BY <1>1, <1>2, <1>3, <1>4

\* ... and one that dies loses it.
LEMMA DiesInv ==
  ASSUME DaemonInv, NEW p \in Pids, D!Dies(p), UNCHANGED faults \/ D!Fault
  PROVE  DaemonInv'
  <1> USE NameServerAssumption DEF DaemonInv, D!TypeOK, D!Dies, D!Fault
  <1>1. faults' \in 0 .. MaxFaults
    OBVIOUS
  <1>2. D!TypeOK'
    BY <1>1
  <1>3. Locked'
    BY DEF Locked
  <1>4. PidFileNamesDaemon'
    BY <1>1 DEF PidFileNamesDaemon, D!PidFileNamesDaemon
  <1> QED BY <1>2, <1>3, <1>4

\* A process is started outside the lock.
LEMMA StartInv == ASSUME DaemonInv, D!Start PROVE DaemonInv'
  <1> USE NameServerAssumption DEF DaemonInv, D!TypeOK, D!Start, D!FreePids, D!file
  <1>1. D!TypeOK'
    OBVIOUS
  <1>2. Locked'
    BY DEF Locked
  <1>3. PidFileNamesDaemon'
    BY DEF PidFileNamesDaemon, D!PidFileNamesDaemon
  <1> QED BY <1>1, <1>2, <1>3

LEMMA DaemonStep == DaemonInv /\ [Next]_vars => DaemonInv'
  <1> SUFFICES ASSUME DaemonInv, [Next]_vars PROVE DaemonInv'
    OBVIOUS
  <1>1. CASE Starting
    <2>1. CASE D!Start
      BY <2>1, StartInv
    <2>2. ASSUME NEW p \in Pids, D!DaemonInit(p) PROVE DaemonInv'
      BY <2>2, EarlyInv, WriteInv DEF D!DaemonInit
    <2>3. ASSUME NEW p \in Pids, D!KilledEarly(p) PROVE DaemonInv'
      BY <2>3, DiesInv DEF D!KilledEarly
    <2> QED BY <1>1, <2>1, <2>2, <2>3 DEF Starting
  <1>2. CASE Killed
    BY <1>2, DiesInv DEF Killed, D!Killed
  <1>3. CASE UNCHANGED daemonVars
    BY <1>3 DEF daemonVars, DaemonInv, D!TypeOK, Locked, PidFileNamesDaemon,
                D!PidFileNamesDaemon
  <1> QED BY <1>1, <1>2, <1>3 DEF Next, Serving, Asking, vars

LEMMA DaemonInvariant == Spec => []DaemonInv
  <1>1. Init => DaemonInv
    BY DaemonBegins DEF Init
  <1> QED BY <1>1, DaemonStep, PTL DEF Spec

\* daemon_init: at most one program is past the lock, with any number of programs that
\* are started, refused something and killed at any time.
THEOREM OneDaemonRuns == Spec => []OneDaemon
  <1>1. DaemonInv => OneDaemon
    BY DEF DaemonInv, D!TypeOK, Locked, OneDaemon, D!OneDaemon
  <1> QED BY <1>1, DaemonInvariant, PTL

\* daemon_init: for ids of any length and whatever the file holds when a daemon writes its
\* line, the first line of the pid file is the id of that daemon as long as it runs, with
\* any number of programs started, refused something and killed meanwhile.
THEOREM PidFileCorrect == Spec => []PidFileNamesDaemon
  <1>1. DaemonInv => PidFileNamesDaemon
    BY DEF DaemonInv
  <1> QED BY <1>1, DaemonInvariant, PTL

-----------------------------------------------------------------------------
\* A request is for a group; the one that is served is no longer waiting, and its
\* client asks for nothing else until it is answered.
Waiting ==
  /\ \A c \in requests : asked[c] \in Groups
  /\ step # "poll" => group \in Groups
  /\ step \in {"allot", "probe", "list"} => client \notin requests /\ asked[client] # NoGroup

\* The name of group g that was allotted and not yet published.
Pending(g) == IF step \in {"list", "publish"} /\ group = g THEN {name} \ {N!NoName} ELSE {}

\* The bits that are set are the names that were published and the one that is pending,
\* which was not.
Books ==
  /\ \A g \in Groups \ DOMAIN m_serialmap : N!PublishedOf(g) = {} /\ Pending(g) = {}
  /\ \A g \in DOMAIN m_serialmap :
       /\ N!GetNameList(g) = N!PublishedOf(g) \cup Pending(g)
       /\ N!PublishedOf(g) \cap Pending(g) = {}
  /\ step \in {"probe", "list", "publish"} => group \in DOMAIN m_serialmap
  /\ step \in {"list", "publish"} =>
       /\ name \in ({group} \X N!Serials) \cup {N!NoName}
       /\ name = N!NoName => m_serialmap[group].bitset = N!Serials
  /\ step = "publish" => listed = N!GetNameList(group)

NameInv == N!TypeOK /\ Waiting /\ Books /\ NamesUnique

\* The empty string is no name.
LEMMA NamesArePairs == \A n : \A g : n \in {g} \X N!Serials => n # N!NoName
  BY DEF N!NoName

\* The lists at the beginning, and after a server has died, are empty.
LEMMA EmptyBooks ==
  ASSUME m_serialmap = <<>>, published = <<>>, step = "poll"
  PROVE  Books /\ NamesUnique /\ DOMAIN m_serialmap = {}
  <1>1. DOMAIN m_serialmap = {} /\ \A g : N!PublishedOf(g) = {} /\ Pending(g) = {}
    BY DEF N!PublishedOf, Pending
  <1>2. NamesUnique
    BY DEF NamesUnique, N!NamesUnique
  <1> QED BY <1>1, <1>2 DEF Books

\* What a publication adds to the names published.
LEMMA PublishAdds ==
  ASSUME N!TypeOK, published' = Append(published, name), NEW g
  PROVE  N!PublishedOf(g)' = N!PublishedOf(g) \cup ({name} \cap ({g} \X N!Serials))
  <1>1. /\ Len(published) \in Nat /\ DOMAIN published = 1 .. Len(published)
        /\ DOMAIN published' = 1 .. Len(published) + 1
        /\ \A i \in 1 .. Len(published) : published'[i] = published[i]
        /\ published'[Len(published) + 1] = name
    BY DEF N!TypeOK
  <1>2. {published'[i] : i \in DOMAIN published'} = {published[i] : i \in DOMAIN published} \cup {name}
    <2>1. \A n : n \in {published'[i] : i \in DOMAIN published'} <=>
                   \E i \in 1 .. Len(published) + 1 : published'[i] = n
      BY <1>1
    <2>2. \A n : (\E i \in 1 .. Len(published) + 1 : published'[i] = n) <=>
                   (\E i \in 1 .. Len(published) : published[i] = n) \/ name = n
      BY <1>1
    <2> QED BY <1>1, <2>1, <2>2
  <1> QED BY <1>2 DEF N!PublishedOf

\* Requests on the network do not touch the books.
LEMMA BooksKept ==
  ASSUME Books, NamesUnique, UNCHANGED <<m_serialmap, published, name, group, step, listed>>
  PROVE  Books' /\ NamesUnique'
  <1>1. \A g : N!PublishedOf(g)' = N!PublishedOf(g) /\ Pending(g)' = Pending(g)
    BY DEF N!PublishedOf, Pending
  <1>2. \A g : N!GetNameList(g)' = N!GetNameList(g)
    BY DEF N!GetNameList
  <1>3. NamesUnique'
    BY DEF NamesUnique, N!NamesUnique
  <1> QED BY <1>1, <1>2, <1>3 DEF Books

\* A client asks, a request is received.
LEMMA AskInv == ASSUME NameInv, NEW c \in Clients, N!Ask(c) PROVE NameInv'
  <1> USE NameServerAssumption DEF NameInv, N!Ask, N!server
  <1>1. N!TypeOK'
    BY DEF N!TypeOK
  <1>2. Waiting'
    BY DEF N!TypeOK, Waiting
  <1>3. Books' /\ NamesUnique'
    BY BooksKept
  <1> QED BY <1>1, <1>2, <1>3

LEMMA RecvInv == ASSUME NameInv, N!Recv PROVE NameInv'
  <1> USE NameServerAssumption DEF NameInv, N!Recv
  <1>1. N!TypeOK'
    BY DEF N!TypeOK, Waiting
  <1>2. Waiting'
    BY DEF N!TypeOK, Waiting
  <1>3. Books' /\ NamesUnique'
    <2>1. \A g : N!PublishedOf(g)' = N!PublishedOf(g) /\ Pending(g)' = {} /\ Pending(g) = {}
      BY DEF N!PublishedOf, Pending
    <2>2. \A g : N!GetNameList(g)' = N!GetNameList(g)
      BY DEF N!GetNameList
    <2>3. NamesUnique'
      BY DEF NamesUnique, N!NamesUnique
    <2> QED BY <2>1, <2>2, <2>3 DEF Books
  <1> QED BY <1>1, <1>2, <1>3

\* allotnamepair: the first name of a group, of which none was published.
LEMMA FirstInv == ASSUME NameInv, N!AllotFirst PROVE NameInv'
  <1> USE NameServerAssumption DEF NameInv, N!AllotFirst, N!network
  <1>1. /\ DOMAIN m_serialmap' = DOMAIN m_serialmap \cup {group} /\ group \in Groups
        /\ group \notin DOMAIN m_serialmap
        /\ m_serialmap'[group] = N!FirstPair
        /\ \A g \in DOMAIN m_serialmap : m_serialmap'[g] = m_serialmap[g]
        /\ name' = <<group, 0>> /\ step' = "list" /\ 0 \in N!Serials
    BY DEF Waiting, N!Serials
  <1>2. N!TypeOK'
    BY <1>1 DEF N!TypeOK, N!FirstPair, N!Names
  <1>3. Waiting'
    BY DEF Waiting
  <1>4. \A g : N!PublishedOf(g)' = N!PublishedOf(g) /\ Pending(g) = {}
    BY DEF N!PublishedOf, Pending
  <1>5. name' \in {group} \X N!Serials /\ name' # N!NoName
    BY <1>1, NamesArePairs
  <1>6. \A g : Pending(g)' = IF g = group THEN {name'} ELSE {}
    BY <1>1, <1>5 DEF Pending
  <1>7. N!GetNameList(group)' = {name'}
    BY <1>1 DEF N!GetNameList, N!FirstPair
  <1>8. \A g \in DOMAIN m_serialmap : N!GetNameList(g)' = N!GetNameList(g)
    BY <1>1 DEF N!GetNameList
  <1>9. Books'
    BY <1>1, <1>4, <1>5, <1>6, <1>7, <1>8 DEF Books
  <1>10. NamesUnique'
    BY DEF NamesUnique, N!NamesUnique
  <1> QED BY <1>2, <1>3, <1>9, <1>10

\* allotnamepair: a group that is full gets no name.
LEMMA FullInv == ASSUME NameInv, N!AllotFull PROVE NameInv'
  <1> USE NameServerAssumption DEF NameInv, N!AllotFull, N!network
  <1>1. N!TypeOK'
    BY DEF N!TypeOK
  <1>2. Waiting'
    BY DEF Waiting
  <1>3. \A g : N!PublishedOf(g)' = N!PublishedOf(g) /\ Pending(g)' = {} /\ Pending(g) = {}
    BY DEF N!PublishedOf, Pending
  <1>4. \A g : N!GetNameList(g)' = N!GetNameList(g)
    BY DEF N!GetNameList
  <1>5. Books'
    BY <1>3, <1>4 DEF Books, N!Full
  <1>6. NamesUnique'
    BY DEF NamesUnique, N!NamesUnique
  <1> QED BY <1>1, <1>2, <1>5, <1>6

\* allotnamepair: the search begins, ...
LEMMA NextInv == ASSUME NameInv, N!AllotNext PROVE NameInv'
  <1> USE NameServerAssumption DEF NameInv, N!AllotNext, N!network
  <1>1. N!TypeOK'
    BY DEF N!TypeOK
  <1>2. Waiting'
    BY DEF Waiting
  <1>3. \A g : N!PublishedOf(g)' = N!PublishedOf(g) /\ Pending(g)' = {} /\ Pending(g) = {}
    BY DEF N!PublishedOf, Pending
  <1>4. \A g : N!GetNameList(g)' = N!GetNameList(g)
    BY DEF N!GetNameList
  <1>5. Books'
    BY <1>3, <1>4 DEF Books
  <1>6. NamesUnique'
    BY DEF NamesUnique, N!NamesUnique
  <1> QED BY <1>1, <1>2, <1>5, <1>6

\* ... and goes on until a bit is found that is not set: that name was never published.
LEMMA ProbeInv == ASSUME NameInv, N!Probe PROVE NameInv'
  <1> USE NameServerAssumption DEF NameInv, N!Probe, N!network
  <1>1. /\ serial' \in N!Serials /\ group \in Groups /\ group \in DOMAIN m_serialmap
        /\ m_serialmap[group] \in [serial : N!Serials, bitset : SUBSET N!Serials]
    BY DEF N!TypeOK, N!After, N!Serials, Waiting, Books
  <1>2. Waiting'
    BY DEF Waiting
  <1>3. \A g : N!PublishedOf(g)' = N!PublishedOf(g) /\ Pending(g) = {}
    BY DEF N!PublishedOf, Pending
  <1>4. NamesUnique'
    BY DEF NamesUnique, N!NamesUnique
  <1>5. CASE serial' \in m_serialmap[group].bitset
    <2>1. N!TypeOK'
      BY <1>1, <1>5 DEF N!TypeOK
    <2>2. \A g : Pending(g)' = {} /\ N!GetNameList(g)' = N!GetNameList(g)
      BY <1>5 DEF Pending, N!GetNameList
    <2>3. Books'
      BY <1>3, <1>5, <2>2 DEF Books
    <2> QED BY <1>2, <1>4, <2>1, <2>3
  <1>6. CASE serial' \notin m_serialmap[group].bitset
    <2>1. /\ DOMAIN m_serialmap' = DOMAIN m_serialmap
          /\ m_serialmap'[group] =
               [serial |-> serial', bitset |-> m_serialmap[group].bitset \cup {serial'}]
          /\ \A g \in DOMAIN m_serialmap : g # group => m_serialmap'[g] = m_serialmap[g]
          /\ name' = <<group, serial'>> /\ step' = "list"
      BY <1>1, <1>6
    <2>2. N!TypeOK'
      BY <1>1, <1>6, <2>1 DEF N!TypeOK, N!Names
    <2>3. name' \in {group} \X N!Serials /\ name' # N!NoName
      BY <1>1, <2>1, NamesArePairs
    <2>4. \A g : Pending(g)' = IF g = group THEN {name'} ELSE {}
      BY <2>1, <2>3 DEF Pending
    <2>5. N!GetNameList(group)' = N!GetNameList(group) \cup {name'}
      BY <2>1 DEF N!GetNameList
    <2>6. name' \notin N!GetNameList(group)
      BY <1>6, <2>1 DEF N!GetNameList
    <2>7. \A g \in DOMAIN m_serialmap : g # group => N!GetNameList(g)' = N!GetNameList(g)
      BY <2>1 DEF N!GetNameList
    <2>8. Books'
      BY <1>1, <1>3, <2>1, <2>3, <2>4, <2>5, <2>6, <2>7 DEF Books
    <2> QED BY <1>2, <1>4, <2>2, <2>8
  <1> QED BY <1>5, <1>6

\* The answer is the list of the books.
LEMMA ReplyInv == ASSUME NameInv, N!Reply PROVE NameInv'
  <1> USE NameServerAssumption DEF NameInv, N!Reply
  <1>1. group \in Groups /\ group \in DOMAIN m_serialmap
    BY DEF Waiting, Books
  <1>2. N!GetNameList(group) \subseteq N!Names
    BY <1>1 DEF N!TypeOK, N!GetNameList, N!Names
  <1>3. N!TypeOK'
    BY <1>2 DEF N!TypeOK
  <1>4. Waiting'
    BY DEF N!TypeOK, Waiting
  <1>5. \A g : N!PublishedOf(g)' = N!PublishedOf(g) /\ Pending(g)' = Pending(g)
    BY DEF N!PublishedOf, Pending
  <1>6. \A g : N!GetNameList(g)' = N!GetNameList(g)
    BY DEF N!GetNameList
  <1>7. Books'
    BY <1>5, <1>6 DEF Books
  <1>8. NamesUnique'
    BY DEF NamesUnique, N!NamesUnique
  <1> QED BY <1>3, <1>4, <1>7, <1>8

\* The pending name is published, for the first time.
LEMMA PublishInv == ASSUME NameInv, N!Publish PROVE NameInv'
  <1> USE NameServerAssumption DEF NameInv, N!Publish, N!LocalsGone, N!network
  <1>1. /\ group \in Groups /\ group \in DOMAIN m_serialmap
        /\ name \in ({group} \X N!Serials) \cup {N!NoName}
    BY DEF Waiting, Books
  <1>2. N!TypeOK'
    <2>1. published' \in Seq(N!Names \cup {N!NoName})
      BY DEF N!TypeOK
    <2>2. 0 \in N!Serials
      BY DEF N!Serials
    <2> QED BY <2>1, <2>2 DEF N!TypeOK
  <1>3. Waiting'
    BY DEF Waiting
  <1>4. Pending(group) = {name} \cap ({group} \X N!Serials)
    BY <1>1, NamesArePairs DEF Pending
  <1>5. \A g : g # group => Pending(g) = {} /\ {name} \cap ({g} \X N!Serials) = {}
    BY <1>1, NamesArePairs DEF Pending
  <1>6. \A g : N!PublishedOf(g)' = N!PublishedOf(g) \cup Pending(g)
    BY <1>4, <1>5, PublishAdds
  <1>7. \A g : Pending(g)' = {} /\ N!GetNameList(g)' = N!GetNameList(g)
    BY DEF Pending, N!GetNameList
  <1>8. Books'
    BY <1>6, <1>7 DEF Books
  <1>9. NamesUnique'
    <2>1. \A i \in DOMAIN published : published[i] = name => name = N!NoName
      <3> SUFFICES ASSUME NEW i \in DOMAIN published, published[i] = name, name # N!NoName
                   PROVE  FALSE
        OBVIOUS
      <3>1. name \in N!PublishedOf(group) /\ name \in Pending(group)
        BY <1>1, <1>4 DEF N!PublishedOf
      <3> QED BY <1>1, <3>1 DEF Books
    <2>2. /\ Len(published) \in Nat /\ DOMAIN published = 1 .. Len(published)
          /\ DOMAIN published' = 1 .. Len(published) + 1
          /\ \A i \in 1 .. Len(published) : published'[i] = published[i]
          /\ published'[Len(published) + 1] = name
      BY DEF N!TypeOK
    <2> QED BY <2>1, <2>2 DEF NamesUnique, N!NamesUnique
  <1> QED BY <1>2, <1>3, <1>8, <1>9

\* A server dies, and with it its books.
LEMMA LostInv == ASSUME NameInv, N!Lost PROVE NameInv'
  <1> USE NameServerAssumption DEF NameInv, N!Lost, N!LocalsGone
  <1>1. Books' /\ NamesUnique' /\ DOMAIN m_serialmap' = {}
    <2>1. /\ m_serialmap' = <<>> /\ published' = <<>> /\ step' = "poll"
      OBVIOUS
    <2>2. DOMAIN m_serialmap' = {} /\ \A g : N!PublishedOf(g)' = {} /\ Pending(g)' = {}
      BY <2>1 DEF N!PublishedOf, Pending
    <2>3. NamesUnique'
      BY <2>1 DEF NamesUnique, N!NamesUnique
    <2> QED BY <2>1, <2>2, <2>3 DEF Books
  <1>2. N!TypeOK'
    <2>1. published' \in Seq(N!Names \cup {N!NoName}) /\ 0 \in N!Serials
      BY EmptySeq DEF N!Serials
    <2> QED BY <1>1, <2>1 DEF N!TypeOK
  <1>3. Waiting'
    BY DEF Waiting
  <1> QED BY <1>1, <1>2, <1>3

LEMMA NameBegins == N!Init => NameInv
  <1> SUFFICES ASSUME N!Init PROVE NameInv
    OBVIOUS
  <1> USE NameServerAssumption DEF N!Init
  <1>1. Books /\ NamesUnique /\ DOMAIN m_serialmap = {}
    BY EmptyBooks
  <1>2. N!TypeOK
    <2>1. published \in Seq(N!Names \cup {N!NoName}) /\ 0 \in N!Serials
      BY EmptySeq DEF N!Serials
    <2>2. asks \in 0 .. MaxAsks /\ asked \in [Clients -> Groups \cup {NoGroup}]
      OBVIOUS
    <2> QED BY <1>1, <2>1, <2>2 DEF N!TypeOK
  <1>3. Waiting
    BY DEF Waiting
  <1> QED BY <1>1, <1>2, <1>3 DEF NameInv

LEMMA NameStep == NameInv /\ [Next]_vars => NameInv'
  <1> SUFFICES ASSUME NameInv, [Next]_vars PROVE NameInv'
    OBVIOUS
  <1>1. CASE Serving
    BY <1>1, RecvInv, FirstInv, FullInv, NextInv, ProbeInv, ReplyInv, PublishInv
       DEF Serving, N!Serve
  <1>2. CASE Asking
    BY <1>2, AskInv DEF Asking
  <1>3. CASE Killed
    BY <1>3, LostInv DEF Killed
  <1>4. CASE UNCHANGED nameVars
    <2> USE <1>4 DEF nameVars, NameInv
    <2>1. N!TypeOK' /\ Waiting'
      BY DEF N!TypeOK, Waiting
    <2>2. Books' /\ NamesUnique'
      BY BooksKept
    <2> QED BY <2>1, <2>2
  <1> QED BY <1>1, <1>2, <1>3, <1>4 DEF Next, Starting, vars

LEMMA NameInvariant == Spec => []NameInv
  <1>1. Init => NameInv
    BY NameBegins DEF Init
  <1> QED BY <1>1, NameStep, PTL DEF Spec

\* allotnamepair: for any number of groups, of serials in them and of requests, one
\* server publishes no name twice.
THEOREM NoNameTwice == Spec => []NamesUnique
  <1>1. NameInv => NamesUnique
    BY DEF NameInv
  <1> QED BY <1>1, NameInvariant, PTL

\* server_loop: an answer lists what was published and what is about to be, and a name is
\* refused only in a group that has given all of them.
THEOREM AnswersComplete == Spec => []AnswerComplete
  <1>1. NameInv => AnswerComplete
    <2> SUFFICES ASSUME NameInv, step = "publish"
                 PROVE  /\ listed = N!PublishedOf(group) \cup ({name} \ {N!NoName})
                        /\ name = N!NoName => listed = {group} \X N!Serials
      BY DEF AnswerComplete, N!AnswerComplete
    <2>1. /\ group \in DOMAIN m_serialmap /\ listed = N!GetNameList(group)
          /\ name = N!NoName => m_serialmap[group].bitset = N!Serials
      BY DEF NameInv, Books
    <2>2. Pending(group) = {name} \ {N!NoName}
      BY DEF Pending
    <2>3. name = N!NoName => N!GetNameList(group) = {group} \X N!Serials
      BY <2>1 DEF N!GetNameList
    <2> QED BY <2>1, <2>2, <2>3 DEF NameInv, Books
  <1> QED BY <1>1, NameInvariant, PTL
===============================================================================
