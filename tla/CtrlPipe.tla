------------------------------ MODULE CtrlPipe ------------------------------
(***************************************************************************)
(* The bytes of the gate server's control pipe.  SocketServer takes the    *)
(* pipe for a sequence of commands; here a command is a type byte, a       *)
(* length byte and a body, written by any thread with one write, and read  *)
(* by the poll thread with two reads.                                      *)
(***************************************************************************)
EXTENDS Integers, Sequences, SequencesExt

CONSTANTS
  ByteLimit, \* number of values of a byte (256 in the code)
  SizeOf,    \* SizeOf[c]: the size of the request structure of command byte c
  OpenCmd,   \* the command byte whose structure is followed by a host name
  Capacity,  \* bytes the pipe holds; at most PIPE_BUF of them are one write
  BodyBytes, \* BOUND: the bytes request structures are filled with
  MaxHost,   \* BOUND: the longest host name the application gives
  MaxSent    \* BOUND: commands sent in a run

Byte == 0 .. ByteLimit - 1
Cmds == DOMAIN SizeOf

ASSUME PipeAssumption ==
  /\ ByteLimit \in Nat \ {0} /\ Cmds \subseteq Byte /\ OpenCmd \in Cmds
  /\ \A c \in Cmds : SizeOf[c] \in Byte
  /\ Capacity \in Nat /\ Capacity >= ByteLimit + 2
  /\ BodyBytes \subseteq Byte /\ MaxHost \in Nat /\ MaxSent \in Nat

VARIABLES
  bytes,   \* the contents of the pipe
  sent,    \* the commands written, in order
  got,     \* the commands handed to a handler, in order
  header,  \* what ctrl_cmd has read of the command at hand, or <<>>
  aborted  \* the assertion of block_readpipe failed

vars == <<bytes, sent, got, header, aborted>>

Init == bytes = <<>> /\ sent = <<>> /\ got = <<>> /\ header = <<>> /\ aborted = FALSE

\* The lengths open_request accepts for the structure with its host name.
OpenLengths == {n \in SizeOf[OpenCmd] .. SizeOf[OpenCmd] + MaxHost : n <= ByteLimit}

\* Mutant of LengthByte: the two bytes of the header are counted.
CountHeader(len) == len + 2
\* header[7] = (uint8_t)len
LengthByte(len) == len % ByteLimit

\* send_request: one write, which blocks until the command fits as a whole.
SendRequest ==
  \E c \in Cmds, b \in BodyBytes :
    \E len \in IF c = OpenCmd THEN OpenLengths ELSE {SizeOf[c]} :
      LET body == [i \in 1 .. len |-> b] IN
      /\ Len(sent) < MaxSent
      /\ Len(bytes) + len + 2 <= Capacity
      /\ bytes' = bytes \o <<c, LengthByte(len)>> \o body
      /\ sent' = Append(sent, [type |-> c, body |-> body])
      /\ UNCHANGED <<got, header, aborted>>

\* Mutant of HasCmd: a command is expected to have a body.
HasBody == Len(bytes) > 2
\* select says that a read would not block.
HasCmd == bytes # <<>>

\* block_readpipe asks for n bytes. A read blocks while the pipe is empty and
\* otherwise returns what there is, which the assertion expects to be n.
BlockReadpipe(n) ==
  /\ n = 0 \/ bytes # <<>>
  /\ IF Len(bytes) < n
       THEN aborted' = TRUE /\ UNCHANGED bytes
       ELSE bytes' = SubSeq(bytes, n + 1, Len(bytes)) /\ UNCHANGED aborted

\* ctrl_cmd up to the header, after has_cmd.
ReadHeader ==
  /\ header = <<>> /\ HasCmd
  /\ BlockReadpipe(2)
  /\ header' = IF aborted' THEN header ELSE SubSeq(bytes, 1, 2)
  /\ UNCHANGED <<sent, got>>

\* ctrl_cmd from the body on: the command goes to its handler.
ReadBody ==
  /\ header # <<>>
  /\ BlockReadpipe(header[2])
  /\ header' = IF aborted' THEN header ELSE <<>>
  /\ got' = IF aborted' THEN got
            ELSE Append(got, [type |-> header[1], body |-> SubSeq(bytes, 1, header[2])])
  /\ UNCHANGED sent

Next == ~aborted /\ (SendRequest \/ ReadHeader \/ ReadBody)

\* The poll thread reads whenever it can; no thread has to send.
Spec == Init /\ [][Next]_vars /\ WF_vars(~aborted /\ (ReadHeader \/ ReadBody))

-----------------------------------------------------------------------------
\* The handlers get the commands that were sent, whole, in order: what
\* SocketServer's pipe takes for granted of send_request and ctrl_cmd.
InOrder == IsPrefix(got, sent)

\* block_readpipe's assertion (socket_server.cpp:208) never fails.
BlockReadAssert == ~aborted

\* Every command sent is handed to its handler.
AllHandled == \A n \in 1 .. MaxSent : Len(sent) >= n ~> Len(got) >= n
=============================================================================
