------------------------------- MODULE DbServer -------------------------------
(***************************************************************************)
(* dbserver/main.cpp: one loop takes a request over a REP socket, copies   *)
(* it to a fixed buffer, hands the buffer to redisCommand as the format    *)
(* string it takes and answers with what redis says.                       *)
(***************************************************************************)
EXTENDS Integers, Sequences, FiniteSets

CONSTANTS
  Clients,
  NUL,         \* the byte that ends a string
  PERCENT,     \* the byte that begins a conversion
  COMMAND_LEN, \* 256 in the code
  Requests     \* those each client may send: any bytes, or none. A byte of c that is neither
               \* NUL nor '%' is written as c; none is a space, which redisCommand drops, so
               \* that a request of spaces only is like an empty one.

VARIABLES
  sent,     \* the bytes of each client's last request
  answer,   \* the command whose result is the answer to it, <<>> until there is one
  waiting,  \* the clients whose last request was not answered
  requests, \* the clients whose requests the socket holds, in the order it takes them
  owes,     \* whether the socket has given a request that was not answered
  command,  \* the buffer
  serving,  \* the client of the request that was received last, NUL before the first
  redis,    \* whether the connection to redis is up
  pc

vars == <<sent, answer, waiting, requests, owes, command, serving, redis, pc>>

Init ==
  /\ sent = [c \in Clients |-> <<>>] /\ answer = [c \in Clients |-> <<>>]
  /\ waiting = {} /\ requests = <<>> /\ owes = FALSE
  /\ command = [i \in 1 .. COMMAND_LEN |-> NUL]
  /\ serving = NUL
  /\ redis = TRUE /\ pc = "recv"

\* A client has one request on the way.
Ask(c) ==
  /\ c \notin waiting /\ waiting' = waiting \cup {c}
  /\ \E request \in Requests[c] : sent' = [sent EXCEPT ![c] = request]
  /\ answer' = [answer EXCEPT ![c] = <<>>]
  /\ requests' = Append(requests, c)
  /\ UNCHANGED <<owes, command, serving, redis, pc>>

\* Mutant of Oversized: room for the NUL is kept, but for two of them.
OversizedNoRoom(n) == n >= COMMAND_LEN - 1
Oversized(n) == n > COMMAND_LEN

\* recv; a request that is too long is not answered ...
Recv ==
  /\ pc = "recv" /\ ~owes /\ requests # <<>>
  /\ serving' = Head(requests)
  /\ requests' = Tail(requests)
  /\ pc' = IF Oversized(Len(sent[serving'])) THEN "recv" ELSE "copy"
  /\ owes' = TRUE
  /\ UNCHANGED <<sent, answer, waiting, command, redis>>

\* ... and after it recv throws, as a REP socket must answer first. Nobody catches it.
RecvThrows ==
  /\ pc = "recv" /\ owes
  /\ pc' = "dead"
  /\ UNCHANGED <<sent, answer, waiting, requests, owes, command, serving, redis>>

\* Mutant of Cleared: memset is left out.
ClearedNever == command
\* memset
Cleared == [i \in 1 .. COMMAND_LEN |-> NUL]

\* memcpy
Copy ==
  /\ pc = "copy"
  /\ command' = [i \in 1 .. COMMAND_LEN |->
                   IF i <= Len(sent[serving]) THEN sent[serving][i] ELSE Cleared[i]]
  /\ pc' = "redis"
  /\ UNCHANGED <<sent, answer, waiting, requests, owes, serving, redis>>

\* A string ends before its first NUL.
Text(s) == [i \in {j \in 1 .. Len(s) : \A k \in 1 .. j : s[k] # NUL} |-> s[i]]

\* The bytes before the next NUL in the memory behind the buffer may be any, or none.
\* BOUND: one of them, or a conversion.
Behind ==
  {<<>>} \cup {<<x>> : x \in Clients \cup {PERCENT}} \cup {<<PERCENT, x>> : x \in Clients}

\* The strings that may start at the buffer: with no end in it a string runs on.
Strings ==
  LET buffer == [i \in 1 .. COMMAND_LEN |-> command[i]]
  IN IF \E i \in 1 .. COMMAND_LEN : buffer[i] = NUL
       THEN {Text(buffer)}
       ELSE {buffer \o bytes : bytes \in Behind}

\* How many '%' end at place i: every second one belongs to the one before it.
Percents(s, i) == Cardinality({j \in 1 .. i : \A k \in j .. i : s[k] = PERCENT})

\* Whether redisCommand finds a conversion in its format, a '%' that is neither half of
\* a '%%' nor the last byte. There is no argument for it.
Converts(s) == \E i \in 1 .. Len(s) - 1 : Percents(s, i) % 2 = 1 /\ s[i + 1] # PERCENT

\* Without one it makes '%' of '%%' and takes all other bytes as they are.
Formatted(s) ==
  LET Taken(i) == Percents(s, i) = 0 \/ Percents(s, i) % 2 = 1
      taken == SelectSeq([i \in 1 .. Len(s) |-> i], Taken)
  IN [i \in 1 .. Len(taken) |-> s[taken[i]]]

\* The commands redisCommand may send: what a conversion makes of the argument that was
\* never passed is undefined.
Commands(s) == IF Converts(s) THEN {<<x>> : x \in Clients} ELSE {Formatted(s)}

\* redisCommand and the answer. redis does not answer an empty command, and redisCommand
\* waits on.
Answer ==
  /\ pc = "redis" /\ redis
  /\ \E string \in Strings :
       /\ string # <<>>
       /\ \E sentence \in Commands(string) : answer' = [answer EXCEPT ![serving] = sentence]
  /\ waiting' = waiting \ {serving}
  /\ owes' = FALSE
  /\ pc' = "recv"
  /\ UNCHANGED <<sent, requests, command, serving, redis>>

RedisLost ==
  /\ redis /\ redis' = FALSE
  /\ UNCHANGED <<sent, answer, waiting, requests, owes, command, serving, pc>>

\* Without its connection, or for a conversion it does not know, redisCommand returns a
\* null pointer, which is followed.
NoResult ==
  /\ pc = "redis"
  /\ ~redis \/ \E string \in Strings : Converts(string)
  /\ pc' = "dead"
  /\ UNCHANGED <<sent, answer, waiting, requests, owes, command, serving, redis>>

Serve == Recv \/ RecvThrows \/ Copy \/ Answer \/ NoResult

Next == Serve \/ RedisLost \/ \E c \in Clients : Ask(c)

-----------------------------------------------------------------------------
\* The command run for a client whose request leaves room for a NUL in the buffer and
\* holds no conversion is the text of that request, with nothing of an earlier one
\* behind it and one '%' for two.
OwnAnswer ==
  \A c \in Clients :
    LET text == Text(sent[c])
    IN sent[c] # <<>> /\ c \notin waiting /\ Len(sent[c]) < COMMAND_LEN /\ ~Converts(text) =>
         answer[c] = Formatted(text)

\* A request that cannot stop the server: it leaves room for a NUL, so that no conversion
\* can follow it in memory, is not an empty string and holds no conversion itself.
Harmless(s) == Len(s) < COMMAND_LEN /\ Text(s) # <<>> /\ ~Converts(Text(s))

\* A request is answered unless the connection to redis is lost or a client waits for the
\* answer to one that is not harmless, its own or another's.
ClientsAnswered ==
  \A c \in Clients :
    c \in waiting ~> c \notin waiting \/ ~redis \/ \E d \in waiting : ~Harmless(sent[d])
=============================================================================
