--------------------------- MODULE CtrlPipeProofs ----------------------------
(***************************************************************************)
(* The framing of the control pipe, for every size of a byte, every set of *)
(* request structures and every number of threads and commands, as long as *)
(* the length of a command fits its length byte.                           *)
(***************************************************************************)
EXTENDS CtrlPipe, SequenceTheorems, TLAPS

\* open_request accepts lengths up to ByteLimit (socket_server.cpp:524), which
\* the length byte takes for 0; with host names this short no request has it.
LengthsFit == SizeOf[OpenCmd] + MaxHost < ByteLimit

Commands == [type : Cmds, body : Seq(Byte)]

PipeTypeOK ==
  /\ bytes \in Seq(Byte) /\ header \in Seq(Byte)
  /\ sent \in Seq(Commands) /\ got \in Seq(Commands)
  /\ aborted \in BOOLEAN

\* The commands whose bytes are in the pipe, and the one after them.
First == Len(got) + 1
Beyond == Len(sent) + 1

\* start[k] is where command k begins in the pipe: the commands follow one
\* another, the first at the front, or two bytes ahead of it once its header is
\* read, and the last ends where the pipe does.
Follow(start) ==
  /\ First <= Beyond
  /\ \A k \in First .. Beyond : start[k] \in Int
  /\ header = <<>> => start[First] = 0
  /\ header # <<>> => start[First] = -2
  /\ start[Beyond] = Len(bytes)
  /\ \A k \in First .. Len(sent) : start[k + 1] = start[k] + 2 + Len(sent[k].body)
  /\ \A j, k \in First .. Beyond : j <= k => start[j] <= start[k]

\* The bytes there are those of the command.
Spelled(start) ==
  /\ \A k \in First .. Len(sent) :
       IF k = First /\ header # <<>>
         THEN header[1] = sent[k].type /\ header[2] = Len(sent[k].body)
         ELSE bytes[start[k] + 1] = sent[k].type /\ bytes[start[k] + 2] = Len(sent[k].body)
  /\ \A k \in First .. Len(sent) : \A i \in 1 .. Len(sent[k].body) :
       bytes[start[k] + 2 + i] = sent[k].body[i]

Framed(start) == Follow(start) /\ Spelled(start)

PipeInv ==
  /\ PipeTypeOK
  /\ ~aborted
  /\ \A k \in 1 .. Len(got) : got[k] = sent[k]
  /\ \E start \in [Nat -> Int] : Framed(start)

\* An empty pipe holds no command.
LEMMA PipeInit == Init => PipeInv
  <1> SUFFICES ASSUME Init PROVE PipeInv
    OBVIOUS
  <1> DEFINE zero == [k \in Nat |-> 0]
  <1>1. PipeTypeOK
    <2>1. bytes = <<>> /\ header = <<>> /\ sent = <<>> /\ got = <<>>
      BY DEF Init
    <2>2. aborted \in BOOLEAN
      BY DEF Init
    <2> QED BY <2>1, <2>2 DEF PipeTypeOK
  <1>3. ~aborted /\ \A k \in 1 .. Len(got) : got[k] = sent[k]
    BY DEF Init
  <1>2. zero \in [Nat -> Int] /\ Follow(zero) /\ Spelled(zero)
    BY DEF Init, Follow, Spelled, First, Beyond
  <1> HIDE DEF zero
  <1> QED BY <1>1, <1>2, <1>3 DEF PipeInv, Framed

\* Bytes of a command that ends within n bytes.
LEMMA Within ==
  \A o \in Int, l \in Nat, n \in Nat :
    o + 2 + l <= n =>
      /\ o >= -2 => \A i \in 1 .. l : o + 2 + i \in 1 .. n
      /\ o >= 0 => o + 1 \in 1 .. n /\ o + 2 \in 1 .. n
  OBVIOUS

\* A command lies within the pipe, all of it or all but its header.
LEMMA InPipe ==
  ASSUME PipeTypeOK, NEW start, Follow(start),
         NEW k \in First .. Len(sent)
  PROVE  /\ k \in 1 .. Len(sent) /\ sent[k] \in Commands
         /\ Len(sent[k].body) \in Nat /\ start[k] \in Int
         /\ start[k] + 2 + Len(sent[k].body) <= Len(bytes)
         /\ start[k] >= -2
         /\ (k = First /\ header # <<>>) \/ start[k] >= 0
         /\ \A i \in 1 .. Len(sent[k].body) : start[k] + 2 + i \in 1 .. Len(bytes)
         /\ \/ k = First /\ header # <<>>
            \/ start[k] + 1 \in 1 .. Len(bytes) /\ start[k] + 2 \in 1 .. Len(bytes)
         /\ start[k + 1] = start[k] + 2 + Len(sent[k].body)
  <1> USE DEF First, Beyond
  <1>1. Len(sent) \in Nat /\ Len(got) \in Nat /\ Len(bytes) \in Nat
    BY DEF PipeTypeOK
  <1>2. /\ k \in 1 .. Len(sent) /\ k \in First .. Beyond /\ k + 1 \in First .. Beyond
        /\ First \in First .. Beyond /\ First \in First .. Len(sent) /\ First <= k
        /\ Beyond \in First .. Beyond /\ First \in 1 .. Len(sent) /\ k + 1 <= Beyond
        /\ k \in Nat /\ First \in Nat /\ k + 1 \in Nat
    BY <1>1
  <1>3. sent[k] \in Commands /\ sent[First] \in Commands
    BY <1>2 DEF PipeTypeOK
  <1>4. Len(sent[k].body) \in Nat /\ Len(sent[First].body) \in Nat
    BY <1>3 DEF Commands
  <1>5. start[k] \in Int /\ start[First] \in Int /\ start[k + 1] \in Int
    BY <1>2 DEF Follow
  <1>6. /\ start[k + 1] = start[k] + 2 + Len(sent[k].body)
        /\ start[First + 1] = start[First] + 2 + Len(sent[First].body)
        /\ start[k + 1] <= start[Beyond] /\ start[Beyond] = Len(bytes)
        /\ start[First] <= start[k]
        /\ header = <<>> => start[First] = 0
        /\ header # <<>> => start[First] = -2
    BY <1>2 DEF Follow
  <1>7. start[First] = 0 \/ start[First] = -2
    BY <1>6
  <1>8. (k = First /\ header # <<>>) \/ start[k] >= 0
    <2>1. CASE k = First
      <3> SUFFICES ASSUME header = <<>> PROVE start[k] >= 0
        BY <2>1
      <3>1. start[First] = 0
        BY <1>6
      <3> QED BY <2>1, <3>1
    <2>2. CASE k # First
      <3>1. First + 1 \in First .. Beyond /\ First + 1 <= k
        BY <2>2, <1>1, <1>2
      <3>2. start[First + 1] <= start[k]
        BY <3>1, <1>2 DEF Follow
      <3>3. start[First + 1] = start[First] + 2 + Len(sent[First].body)
        BY <1>6
      <3>4. start[First + 1] >= 0
        BY <3>3, <1>4, <1>7
      <3>5. start[First + 1] \in Int
        BY <3>1, <1>2 DEF Follow
      <3> QED BY <3>2, <3>4, <3>5, <1>5
    <2> QED BY <2>1, <2>2
  <1>9. start[k] + 2 + Len(sent[k].body) <= Len(bytes) /\ start[k] >= -2
    <2>1. /\ start[k + 1] = start[k] + 2 + Len(sent[k].body) /\ start[k + 1] <= Len(bytes)
          /\ start[First] <= start[k]
      BY <1>6
    <2>2. start[First] >= -2
      BY <1>7
    <2> QED BY <2>1, <2>2, <1>5
  <1>10. /\ \A i \in 1 .. Len(sent[k].body) : start[k] + 2 + i \in 1 .. Len(bytes)
         /\ start[k] >= 0 =>
              start[k] + 1 \in 1 .. Len(bytes) /\ start[k] + 2 \in 1 .. Len(bytes)
    BY <1>1, <1>4, <1>5, <1>9, Within, Zenon
  <1> QED BY <1>2, <1>3, <1>4, <1>5, <1>6, <1>8, <1>9, <1>10

\* A command is written behind the others, its length in its length byte.
LEMMA PipeSend ==
  ASSUME LengthsFit, PipeInv, SendRequest
  PROVE  PipeInv'
  <1> USE DEF First, Beyond
  <1>1. PICK c \in Cmds, b \in BodyBytes :
          \E len \in IF c = OpenCmd THEN OpenLengths ELSE {SizeOf[c]} :
            LET body == [i \in 1 .. len |-> b] IN
            /\ bytes' = bytes \o <<c, LengthByte(len)>> \o body
            /\ sent' = Append(sent, [type |-> c, body |-> body])
            /\ UNCHANGED <<got, header, aborted>>
    BY DEF SendRequest
  <1>2. PICK len \in (IF c = OpenCmd THEN OpenLengths ELSE {SizeOf[c]}) :
          /\ bytes' = bytes \o <<c, LengthByte(len)>> \o [i \in 1 .. len |-> b]
          /\ sent' = Append(sent, [type |-> c, body |-> [i \in 1 .. len |-> b]])
          /\ UNCHANGED <<got, header, aborted>>
    BY <1>1
  <1> DEFINE body == [i \in 1 .. len |-> b]
             cmd  == [type |-> c, body |-> body]
             head == <<c, len>>
  <1>3. len \in Nat /\ len < ByteLimit
    BY PipeAssumption DEF OpenLengths, LengthsFit, Byte, Cmds
  <1>4. LengthByte(len) = len
    BY <1>3, PipeAssumption DEF LengthByte
  <1>5. c \in Byte /\ b \in Byte /\ len \in Byte
    BY <1>3, PipeAssumption DEF Byte
  <1>6. body \in Seq(Byte) /\ Len(body) = len /\ \A i \in 1 .. len : body[i] = b
    BY <1>3, <1>5
  <1>7. head \in Seq(Byte) /\ Len(head) = 2 /\ head[1] = c /\ head[2] = len
    BY <1>5
  <1>8. cmd \in Commands /\ cmd.type = c /\ cmd.body = body
    BY <1>6 DEF Commands
  <1>9. /\ bytes' = (bytes \o head) \o body
        /\ sent' = Append(sent, cmd)
        /\ UNCHANGED <<got, header, aborted>>
    BY <1>2, <1>4
  <1>10. PipeTypeOK /\ ~aborted
    BY DEF PipeInv
  <1> HIDE DEF body, cmd, head
  <1>11. /\ bytes' \in Seq(Byte) /\ Len(bytes') = Len(bytes) + 2 + len
         /\ \A i \in 1 .. Len(bytes) : bytes'[i] = bytes[i]
         /\ bytes'[Len(bytes) + 1] = c /\ bytes'[Len(bytes) + 2] = len
         /\ \A i \in 1 .. len : bytes'[Len(bytes) + 2 + i] = body[i]
    <2> DEFINE t == bytes \o head
    <2>1. /\ t \in Seq(Byte) /\ Len(t) = Len(bytes) + 2
          /\ \A i \in 1 .. Len(bytes) : t[i] = bytes[i]
          /\ t[Len(bytes) + 1] = c /\ t[Len(bytes) + 2] = len
      <3>1. bytes \in Seq(Byte) /\ Len(bytes) \in Nat
        BY <1>10 DEF PipeTypeOK
      <3>2. /\ t \in Seq(Byte) /\ Len(t) = Len(bytes) + Len(head)
            /\ \A i \in 1 .. Len(bytes) + Len(head) :
                 t[i] = IF i <= Len(bytes) THEN bytes[i] ELSE head[i - Len(bytes)]
        BY <3>1, <1>7, ConcatProperties
      <3> QED BY <3>1, <3>2, <1>7
    <2> HIDE DEF t
    <2>2. bytes' = t \o body
      BY <1>9 DEF t
    <2>3. /\ bytes' \in Seq(Byte) /\ Len(bytes') = Len(t) + Len(body)
          /\ \A i \in 1 .. Len(t) + Len(body) :
               bytes'[i] = IF i <= Len(t) THEN t[i] ELSE body[i - Len(t)]
      BY <2>1, <2>2, <1>6, ConcatProperties
    <2>4. Len(bytes) \in Nat
      BY <1>10 DEF PipeTypeOK
    <2>5. \A i \in 1 .. len : bytes'[Len(bytes) + 2 + i] = body[i]
      <3> TAKE i \in 1 .. len
      <3>1. /\ Len(bytes) + 2 + i \in 1 .. Len(t) + Len(body)
            /\ ~(Len(bytes) + 2 + i <= Len(t)) /\ Len(bytes) + 2 + i - Len(t) = i
        BY <2>1, <2>4, <1>3, <1>6
      <3> QED BY <3>1, <2>3
    <2> QED BY <2>1, <2>3, <2>4, <2>5, <1>3, <1>6
  <1>12. /\ sent' \in Seq(Commands) /\ Len(sent') = Len(sent) + 1
         /\ \A k \in 1 .. Len(sent) : sent'[k] = sent[k]
         /\ sent'[Len(sent) + 1] = cmd
    BY <1>8, <1>9, <1>10, AppendProperties DEF PipeTypeOK
  <1>13. Len(sent) \in Nat /\ Len(got) \in Nat /\ Len(bytes) \in Nat
    BY <1>10 DEF PipeTypeOK
  <1>14. PICK start : start \in [Nat -> Int] /\ Follow(start) /\ Spelled(start)
    BY DEF PipeInv, Framed
  <1>15. First' = First /\ Beyond' = Beyond + 1 /\ First \in Nat \ {0} /\ Beyond \in Nat
         /\ Beyond = Len(sent) + 1 /\ Len(sent') = Beyond
    BY <1>9, <1>12, <1>13 DEF First, Beyond
  <1>16. PICK next :
           /\ next \in [Nat -> Int]
           /\ next[Beyond + 1] = Len(bytes) + 2 + len
           /\ \A k \in First .. Beyond : next[k] = start[k]
    <2> DEFINE n == [k \in Nat |-> IF k = Beyond + 1 THEN Len(bytes) + 2 + len ELSE start[k]]
    <2>1. n \in [Nat -> Int]
      BY <1>3, <1>13, <1>14
    <2>2. n[Beyond + 1] = Len(bytes) + 2 + len
      BY <1>15
    <2>3. ASSUME NEW k \in First .. Beyond PROVE n[k] = start[k]
      <3>1. k \in Nat /\ k # Beyond + 1
        BY <1>15
      <3> QED BY <3>1
    <2> HIDE DEF n
    <2> QED BY <2>1, <2>2, <2>3
  <1>17. /\ First <= Beyond /\ start[Beyond] = Len(bytes)
         /\ \A k \in First .. Beyond : start[k] \in Int /\ start[k] <= Len(bytes)
    <2>1. First <= Beyond /\ start[Beyond] = Len(bytes)
      BY <1>14 DEF Follow
    <2> SUFFICES ASSUME NEW k \in First .. Beyond
                 PROVE  start[k] \in Int /\ start[k] <= Len(bytes)
      BY <2>1
    <2>2. k \in Nat /\ Beyond \in First .. Beyond /\ k <= Beyond
      BY <1>15
    <2>3. start[k] <= start[Beyond]
      BY <2>2, <1>14 DEF Follow
    <2> QED BY <2>1, <2>2, <2>3, <1>14
  <1>23. Follow(start) /\ Spelled(start)
    BY <1>14
  <1>24. /\ next[Beyond + 1] = Len(bytes) + 2 + len
         /\ \A k \in First .. Beyond : next[k] = start[k]
    BY <1>16
  <1>18. Follow(next)'
    <2>1. \A k \in First .. Len(sent') : next[k + 1] = next[k] + 2 + Len(sent'[k].body)
      <3> TAKE k \in First .. Len(sent')
      <3>1. CASE k = Beyond
        BY <3>1, <1>6, <1>8, <1>12, <1>24, <1>15, <1>17
      <3>2. CASE k # Beyond
        <4>1. k \in First .. Len(sent) /\ k \in First .. Beyond /\ k + 1 \in First .. Beyond
              /\ k \in 1 .. Len(sent)
          BY <3>2, <1>13, <1>15
        <4> QED BY <4>1, <1>12, <1>23, <1>24 DEF Follow
      <3> QED BY <3>1, <3>2
    <2>2. \A j, k \in First .. Beyond + 1 : j <= k => next[j] <= next[k]
      <3> TAKE j, k \in First .. Beyond + 1
      <3> HAVE j <= k
      <3>1. CASE k \in First .. Beyond
        <4>1. j \in First .. Beyond
          BY <3>1, <1>15
        <4> QED BY <3>1, <4>1, <1>23, <1>24 DEF Follow
      <3>2. CASE k = Beyond + 1
        <4>1. next[k] = Len(bytes) + 2 + len
          BY <3>2, <1>13, <1>24, <1>15
        <4>2. CASE j \in First .. Beyond
          <5>1. next[j] \in Int /\ next[j] <= Len(bytes)
            BY <4>2, <1>24, <1>17
          <5> QED BY <4>1, <5>1, <1>3, <1>13
        <4>3. CASE j = k
          BY <4>1, <4>3, <1>3, <1>13
        <4> QED BY <3>2, <4>2, <4>3, <1>15
      <3> QED BY <3>1, <3>2, <1>15
    <2>3. (header = <<>> => next[First] = 0) /\ (header # <<>> => next[First] = -2)
      BY <1>23, <1>24, <1>15, <1>17 DEF Follow
    <2>4. next[Beyond + 1] = Len(bytes')
      BY <1>11, <1>13, <1>24, <1>15
    <2>5. \A k \in First .. Beyond + 1 : next[k] \in Int
      BY <1>15, <1>16
    <2> QED BY <2>1, <2>2, <2>3, <2>4, <2>5, <1>9, <1>24, <1>15, <1>17 DEF Follow
  <1>19. Spelled(next)'
    <2>1. ASSUME NEW k \in First .. Len(sent'),
                 NEW hd, hd = (k = First /\ header # <<>>)
          PROVE  /\ hd => header[1] = sent'[k].type /\ header[2] = Len(sent'[k].body)
                 /\ ~hd => /\ bytes'[next[k] + 1] = sent'[k].type
                           /\ bytes'[next[k] + 2] = Len(sent'[k].body)
                 /\ \A i \in 1 .. Len(sent'[k].body) :
                      bytes'[next[k] + 2 + i] = sent'[k].body[i]
      <3>1. CASE k = Beyond
        <4>1. ~hd
          <5>1. header # <<>> => start[First] = -2
            BY <1>23 DEF Follow
          <5>2. SUFFICES ASSUME k = First, header # <<>> PROVE FALSE
            BY <2>1
          <5>3. start[First] = Len(bytes)
            BY <3>1, <5>2, <1>17
          <5> QED BY <5>1, <5>2, <5>3, <1>13
        <4>2. next[k] = Len(bytes) /\ sent'[k] = cmd
          BY <3>1, <1>12, <1>24, <1>15, <1>17
        <4> QED BY <4>1, <4>2, <1>6, <1>8, <1>11
      <3>2. CASE k # Beyond
        <4>1. k \in First .. Len(sent) /\ k \in First .. Beyond /\ k + 1 \in First .. Beyond
              /\ k \in 1 .. Len(sent)
          BY <3>2, <1>13, <1>15
        <4>2. sent'[k] = sent[k] /\ next[k] = start[k]
          BY <4>1, <1>12, <1>24
        <4>3. /\ \A i \in 1 .. Len(sent[k].body) : start[k] + 2 + i \in 1 .. Len(bytes)
              /\ ~hd => start[k] + 1 \in 1 .. Len(bytes) /\ start[k] + 2 \in 1 .. Len(bytes)
          BY <4>1, <1>10, <1>23, <2>1, InPipe
        <4>4. \A i \in 1 .. Len(sent[k].body) :
                bytes'[start[k] + 2 + i] = sent[k].body[i]
          BY <4>1, <4>3, <1>11, <1>23 DEF Spelled
        <4>5. hd => header[1] = sent[k].type /\ header[2] = Len(sent[k].body)
          BY <2>1, <4>1, <1>23 DEF Spelled
        <4>6. ~hd => /\ bytes[start[k] + 1] = sent[k].type
                     /\ bytes[start[k] + 2] = Len(sent[k].body)
          BY <2>1, <4>1, <1>23 DEF Spelled
        <4>8. ~hd => /\ bytes'[start[k] + 1] = sent[k].type
                     /\ bytes'[start[k] + 2] = Len(sent[k].body)
          BY <4>6, <4>3, <1>11
        <4> QED BY <4>2, <4>4, <4>5, <4>8
      <3> QED BY <3>1, <3>2
    <2>2. \A k \in First .. Len(sent') :
            IF k = First /\ header # <<>>
              THEN header[1] = sent'[k].type /\ header[2] = Len(sent'[k].body)
              ELSE bytes'[next[k] + 1] = sent'[k].type /\ bytes'[next[k] + 2] = Len(sent'[k].body)
      BY <2>1
    <2>3. \A k \in First .. Len(sent') : \A i \in 1 .. Len(sent'[k].body) :
            bytes'[next[k] + 2 + i] = sent'[k].body[i]
      BY <2>1
    <2> QED BY <2>2, <2>3, <1>9, <1>15 DEF Spelled
  <1>20. PipeTypeOK' /\ ~aborted'
    BY <1>9, <1>10, <1>11, <1>12 DEF PipeTypeOK
  <1>21. (\A k \in 1 .. Len(got) : got[k] = sent[k])'
    <2>1. \A k \in 1 .. Len(got) : got[k] = sent[k] /\ k \in 1 .. Len(sent)
      BY <1>13, <1>15, <1>17 DEF PipeInv, First, Beyond
    <2> QED BY <2>1, <1>9, <1>12
  <1> QED BY <1>18, <1>19, <1>20, <1>21, <1>16 DEF PipeInv, Framed

\* block_readpipe takes the first n bytes, if that many are there.
LEMMA ReadTakes ==
  ASSUME PipeTypeOK, ~aborted, NEW n \in Nat, n <= Len(bytes), BlockReadpipe(n)
  PROVE  /\ ~aborted' /\ aborted' = aborted /\ bytes' \in Seq(Byte) /\ Len(bytes') = Len(bytes) - n
         /\ \A i \in 1 .. Len(bytes) - n : bytes'[i] = bytes[n + i]
  <1>1. Len(bytes) \in Nat /\ bytes \in Seq(Byte)
    BY DEF PipeTypeOK
  <1>2. bytes' = SubSeq(bytes, n + 1, Len(bytes)) /\ UNCHANGED aborted
    BY <1>1 DEF BlockReadpipe
  <1>3. \A i \in n + 1 .. Len(bytes) : bytes[i] \in Byte
    BY <1>1
  <1>4. /\ bytes' \in Seq(Byte)
        /\ Len(bytes') = IF n + 1 <= Len(bytes) THEN Len(bytes) - (n + 1) + 1 ELSE 0
        /\ \A i \in 1 .. Len(bytes) - (n + 1) + 1 : bytes'[i] = bytes[n + 1 + i - 1]
    <2>1. n + 1 \in Int /\ Len(bytes) \in Int
      BY <1>1
    <2> QED BY <1>2, <1>3, <2>1, SubSeqProperties
  <1>5. Len(bytes') = Len(bytes) - n
    BY <1>1, <1>4
  <1>6. ASSUME NEW i \in 1 .. Len(bytes) - n PROVE bytes'[i] = bytes[n + i]
    <2>1. i \in 1 .. Len(bytes) - (n + 1) + 1 /\ n + 1 + i - 1 = n + i
      BY <1>1
    <2> QED BY <2>1, <1>4
  <1> QED BY <1>2, <1>4, <1>5, <1>6

\* Bytes taken from the front move what is left forward.
LEMMA Moves ==
  ASSUME NEW start \in [Nat -> Int], NEW d \in Nat
  PROVE  \E next : next \in [Nat -> Int] /\ \A k \in Nat : next[k] = start[k] - d
  <1> DEFINE n == [k \in Nat |-> start[k] - d]
  <1>1. n \in [Nat -> Int] /\ \A k \in Nat : n[k] = start[k] - d
    OBVIOUS
  <1> HIDE DEF n
  <1> QED BY <1>1

\* The header of the first command in the pipe is read.
LEMMA PipeHeader ==
  ASSUME PipeInv, ReadHeader
  PROVE  PipeInv'
  <1> USE DEF First, Beyond
  <1>1. header = <<>> /\ bytes # <<>> /\ BlockReadpipe(2) /\ UNCHANGED <<sent, got>>
        /\ header' = IF aborted' THEN header ELSE SubSeq(bytes, 1, 2)
    BY DEF ReadHeader, HasCmd
  <1>2. PipeTypeOK /\ ~aborted
    BY DEF PipeInv
  <1>3. Len(bytes) \in Nat \ {0} /\ Len(sent) \in Nat /\ Len(got) \in Nat
    BY <1>1, <1>2 DEF PipeTypeOK
  <1>4. PICK start : start \in [Nat -> Int] /\ Follow(start) /\ Spelled(start)
    BY DEF PipeInv, Framed
  <1>5. Follow(start) /\ Spelled(start)
    BY <1>4
  <1>6. First <= Beyond /\ start[First] = 0 /\ start[Beyond] = Len(bytes)
    BY <1>1, <1>5 DEF Follow
  <1>7. First # Beyond
    BY <1>3, <1>6
  <1>8. First \in First .. Len(sent) /\ First \in Nat
    BY <1>3, <1>6, <1>7
  <1>9. /\ sent[First] \in Commands /\ Len(sent[First].body) \in Nat
        /\ 0 + 2 + Len(sent[First].body) <= Len(bytes)
    BY <1>2, <1>5, <1>6, <1>8, InPipe
  <1>10. 2 <= Len(bytes) /\ 2 \in Nat
    BY <1>3, <1>9
  <1>11. /\ ~aborted' /\ aborted' = aborted /\ bytes' \in Seq(Byte) /\ Len(bytes') = Len(bytes) - 2
         /\ \A i \in 1 .. Len(bytes) - 2 : bytes'[i] = bytes[2 + i]
    BY <1>1, <1>2, <1>10, ReadTakes
  <1>12. header' \in Seq(Byte) /\ header' # <<>> /\ header'[1] = bytes[1] /\ header'[2] = bytes[2]
    <2>1. header' = SubSeq(bytes, 1, 2)
      BY <1>1, <1>11
    <2>2. \A i \in 1 .. 2 : bytes[i] \in Byte
      BY <1>2, <1>10 DEF PipeTypeOK
    <2>3. SubSeq(bytes, 1, 2) \in Seq(Byte) /\ Len(SubSeq(bytes, 1, 2)) = 2
          /\ \A i \in 1 .. 2 - 1 + 1 : SubSeq(bytes, 1, 2)[i] = bytes[1 + i - 1]
      BY <2>2, SubSeqProperties
    <2>4. SubSeq(bytes, 1, 2) # <<>>
      <3>1. Len(SubSeq(bytes, 1, 2)) = 2
        BY <2>3
      <3>2. \A s \in Seq(Byte) : Len(s) = 2 => s # <<>>
        OBVIOUS
      <3> QED BY <2>3, <3>1, <3>2, Zenon
    <2>5. 1 \in 1 .. 2 - 1 + 1 /\ 2 \in 1 .. 2 - 1 + 1 /\ 1 + 1 - 1 = 1 /\ 1 + 2 - 1 = 2
      OBVIOUS
    <2>6. SubSeq(bytes, 1, 2)[1] = bytes[1] /\ SubSeq(bytes, 1, 2)[2] = bytes[2]
      BY <2>3, <2>5
    <2> QED BY <2>1, <2>3, <2>4, <2>6, Zenon
  <1>13. PICK next : next \in [Nat -> Int] /\ \A k \in Nat : next[k] = start[k] - 2
    BY <1>4, <1>10, Moves
  <1>14. \A k \in First .. Beyond : start[k] \in Int /\ next[k] = start[k] - 2 /\ next[k] \in Int
    <2> TAKE k \in First .. Beyond
    <2>1. k \in Nat
      BY <1>3
    <2> QED BY <2>1, <1>4, <1>13
  <1>15. First' = First /\ Beyond' = Beyond
    BY <1>1
  <1>16. Follow(next)'
    <2>1. next[First] = -2 /\ next[Beyond] = Len(bytes')
      <3>1. First \in First .. Beyond /\ Beyond \in First .. Beyond
        BY <1>3, <1>6
      <3>2. next[First] = start[First] - 2 /\ next[Beyond] = start[Beyond] - 2
        BY <3>1, <1>14
      <3> QED BY <3>2, <1>6, <1>11
    <2>2. \A k \in First .. Len(sent) : next[k + 1] = next[k] + 2 + Len(sent[k].body)
      <3> TAKE k \in First .. Len(sent)
      <3>1. start[k + 1] = start[k] + 2 + Len(sent[k].body) /\ Len(sent[k].body) \in Nat
        BY <1>2, <1>5, InPipe
      <3>2. k \in First .. Beyond /\ k + 1 \in First .. Beyond
        BY <1>3
      <3>3. start[k] \in Int /\ next[k] = start[k] - 2 /\ next[k + 1] = start[k + 1] - 2
        BY <3>2, <1>14
      <3> QED BY <3>1, <3>3
    <2>3. \A j, k \in First .. Beyond : j <= k => next[j] <= next[k]
      <3> TAKE j, k \in First .. Beyond
      <3> HAVE j <= k
      <3>1. start[j] <= start[k]
        BY <1>5 DEF Follow
      <3>2. /\ start[j] \in Int /\ next[j] = start[j] - 2
            /\ start[k] \in Int /\ next[k] = start[k] - 2
        BY <1>14
      <3> QED BY <3>1, <3>2
    <2>4. \A k \in First .. Beyond : next[k] \in Int
      BY <1>14
    <2> QED BY <2>1, <2>2, <2>3, <2>4, <1>1, <1>6, <1>12, <1>15 DEF Follow
  <1>17. Spelled(next)'
    <2>1. ASSUME NEW k \in First .. Len(sent)
          PROVE  /\ k = First => header'[1] = sent[k].type /\ header'[2] = Len(sent[k].body)
                 /\ k # First => /\ bytes'[next[k] + 1] = sent[k].type
                                 /\ bytes'[next[k] + 2] = Len(sent[k].body)
                 /\ \A i \in 1 .. Len(sent[k].body) :
                      bytes'[next[k] + 2 + i] = sent[k].body[i]
      <3>1. /\ bytes[start[k] + 1] = sent[k].type /\ bytes[start[k] + 2] = Len(sent[k].body)
            /\ \A i \in 1 .. Len(sent[k].body) : bytes[start[k] + 2 + i] = sent[k].body[i]
        BY <1>1, <1>5 DEF Spelled
      <3>2. /\ Len(sent[k].body) \in Nat /\ start[k] \in Int /\ start[k] >= 0
            /\ start[k] + 2 + Len(sent[k].body) <= Len(bytes)
        BY <1>1, <1>2, <1>5, InPipe
      <3>3. k \in First .. Beyond
        BY <1>3
      <3>4. next[k] = start[k] - 2
        BY <3>3, <1>14
      <3>5. k = First => header'[1] = sent[k].type /\ header'[2] = Len(sent[k].body)
        <4> SUFFICES ASSUME k = First
                     PROVE  header'[1] = sent[k].type /\ header'[2] = Len(sent[k].body)
          OBVIOUS
        <4>1. start[k] + 1 = 1 /\ start[k] + 2 = 2
          BY <1>6
        <4> QED BY <4>1, <3>1, <1>12
      <3>6. k # First => start[k] >= 2
        <4> SUFFICES ASSUME k # First PROVE start[k] >= 2
          OBVIOUS
        <4>1. First + 1 \in First .. Beyond /\ First + 1 <= k
          BY <1>3, <1>8
        <4>2. start[First + 1] <= start[k]
          BY <4>1, <3>3, <1>5 DEF Follow
        <4>3. start[First + 1] = 0 + 2 + Len(sent[First].body)
          BY <1>6, <1>2, <1>5, <1>8, InPipe
        <4> QED BY <4>2, <4>3, <3>2, <1>9
      <3>7. /\ next[k] + 1 = start[k] - 2 + 1 /\ next[k] + 2 = start[k] - 2 + 2
            /\ \A i \in Nat : next[k] + 2 + i = start[k] - 2 + 2 + i
        BY <3>4
      <3>8. \A o \in Int, l \in Nat, n \in Nat : o >= 0 /\ o + 2 + l <= n =>
              /\ \A i \in 1 .. l : o - 2 + 2 + i \in 1 .. n - 2 /\ 2 + (o - 2 + 2 + i) = o + 2 + i
                                   /\ i \in Nat
              /\ o >= 2 => /\ o - 2 + 1 \in 1 .. n - 2 /\ 2 + (o - 2 + 1) = o + 1
                           /\ o - 2 + 2 \in 1 .. n - 2 /\ 2 + (o - 2 + 2) = o + 2
        OBVIOUS
      <3>9. Len(bytes) \in Nat
        BY <1>3
      <3>10. /\ \A i \in 1 .. Len(sent[k].body) :
                  /\ start[k] - 2 + 2 + i \in 1 .. Len(bytes) - 2
                  /\ 2 + (start[k] - 2 + 2 + i) = start[k] + 2 + i /\ i \in Nat
             /\ start[k] >= 2 =>
                  /\ start[k] - 2 + 1 \in 1 .. Len(bytes) - 2
                  /\ 2 + (start[k] - 2 + 1) = start[k] + 1
                  /\ start[k] - 2 + 2 \in 1 .. Len(bytes) - 2
                  /\ 2 + (start[k] - 2 + 2) = start[k] + 2
        BY <3>2, <3>8, <3>9, Zenon
      <3>11. ASSUME NEW i \in 1 .. Len(sent[k].body)
             PROVE  bytes'[next[k] + 2 + i] = sent[k].body[i]
        BY <3>1, <3>7, <3>10, <1>11, Zenon
      <3>12. ASSUME k # First
             PROVE  /\ bytes'[next[k] + 1] = sent[k].type
                    /\ bytes'[next[k] + 2] = Len(sent[k].body)
        BY <3>1, <3>6, <3>7, <3>10, <3>12, <1>11, Zenon
      <3> QED BY <3>5, <3>11, <3>12
    <2> QED BY <2>1, <1>1, <1>12, <1>15 DEF Spelled
  <1>18. PipeTypeOK' /\ ~aborted'
    <2>1. aborted' \in BOOLEAN
      BY <1>2, <1>11 DEF PipeTypeOK
    <2>2. sent' \in Seq(Commands) /\ got' \in Seq(Commands)
      BY <1>1, <1>2 DEF PipeTypeOK
    <2> QED BY <2>1, <2>2, <1>11, <1>12 DEF PipeTypeOK
  <1>19. (\A k \in 1 .. Len(got) : got[k] = sent[k])'
    BY <1>1 DEF PipeInv
  <1> QED BY <1>13, <1>16, <1>17, <1>18, <1>19 DEF PipeInv, Framed

\* The body of the command at hand is read, and the command is the one that was sent.
LEMMA PipeBody ==
  ASSUME PipeInv, ReadBody
  PROVE  PipeInv'
  <1> USE DEF First, Beyond
  <1>1. /\ header # <<>> /\ BlockReadpipe(header[2]) /\ UNCHANGED sent
        /\ header' = IF aborted' THEN header ELSE <<>>
        /\ got' = IF aborted' THEN got
                  ELSE Append(got, [type |-> header[1], body |-> SubSeq(bytes, 1, header[2])])
    BY DEF ReadBody
  <1>2. PipeTypeOK /\ ~aborted
    BY DEF PipeInv
  <1>3. Len(bytes) \in Nat /\ Len(sent) \in Nat /\ Len(got) \in Nat
    BY <1>2 DEF PipeTypeOK
  <1>4. PICK start : start \in [Nat -> Int] /\ Follow(start) /\ Spelled(start)
    BY DEF PipeInv, Framed
  <1>5. Follow(start) /\ Spelled(start)
    BY <1>4
  <1>6. First <= Beyond /\ start[First] = -2 /\ start[Beyond] = Len(bytes)
    BY <1>1, <1>5 DEF Follow
  <1>7. First # Beyond
    BY <1>3, <1>6
  <1>8. First \in First .. Len(sent) /\ First \in Nat /\ First \in 1 .. Len(sent)
    BY <1>3, <1>6, <1>7
  <1> DEFINE cmd == sent[First]
  <1>9. /\ cmd \in Commands /\ Len(cmd.body) \in Nat
        /\ -2 + 2 + Len(cmd.body) <= Len(bytes)
        /\ start[First + 1] = -2 + 2 + Len(cmd.body)
    BY <1>2, <1>5, <1>6, <1>8, InPipe
  <1>10. /\ header[1] = cmd.type /\ header[2] = Len(cmd.body)
         /\ \A i \in 1 .. Len(cmd.body) : bytes[start[First] + 2 + i] = cmd.body[i]
    BY <1>1, <1>5, <1>8 DEF Spelled
  <1> HIDE DEF cmd
  <1>11. PICK n : n = Len(cmd.body)
    OBVIOUS
  <1>12. n \in Nat /\ n <= Len(bytes) /\ start[First + 1] = n /\ header[2] = n
    BY <1>9, <1>10, <1>11
  <1>13. /\ ~aborted' /\ aborted' = aborted /\ bytes' \in Seq(Byte)
         /\ Len(bytes') = Len(bytes) - n
         /\ \A i \in 1 .. Len(bytes) - n : bytes'[i] = bytes[n + i]
    BY <1>1, <1>2, <1>12, ReadTakes
  <1>14. SubSeq(bytes, 1, n) = cmd.body
    <2>1. \A i \in 1 .. n : bytes[i] \in Byte
      BY <1>2, <1>3, <1>12 DEF PipeTypeOK
    <2>2. 1 \in Int /\ n \in Int
      BY <1>12
    <2>3. /\ SubSeq(bytes, 1, n) \in Seq(Byte)
          /\ Len(SubSeq(bytes, 1, n)) = IF 1 <= n THEN n - 1 + 1 ELSE 0
          /\ \A i \in 1 .. n - 1 + 1 : SubSeq(bytes, 1, n)[i] = bytes[1 + i - 1]
      BY <2>1, <2>2, SubSeqProperties
    <2>4. cmd.body \in Seq(Byte) /\ Len(cmd.body) = n
      BY <1>9, <1>11 DEF Commands
    <2>5. Len(SubSeq(bytes, 1, n)) = n
      BY <2>3, <1>12
    <2>6. ASSUME NEW i \in 1 .. n PROVE SubSeq(bytes, 1, n)[i] = cmd.body[i]
      <3>1. i \in 1 .. n - 1 + 1 /\ 1 + i - 1 = i /\ -2 + 2 + i = i
        BY <1>12
      <3>2. SubSeq(bytes, 1, n)[i] = bytes[i]
        BY <2>3, <3>1
      <3>3. bytes[i] = cmd.body[i]
        BY <1>6, <1>10, <1>11, <3>1
      <3> QED BY <3>2, <3>3
    <2>7. \A s, t \in Seq(Byte) : Len(s) = n /\ Len(t) = n /\ (\A i \in 1 .. n : s[i] = t[i]) => s = t
      BY <1>12
    <2> QED BY <2>3, <2>4, <2>5, <2>6, <2>7, Zenon
  <1>15. header' = <<>> /\ got' = Append(got, cmd)
    <2>1. cmd = [type |-> cmd.type, body |-> cmd.body]
      BY <1>9 DEF Commands
    <2>2. got' = Append(got, [type |-> header[1], body |-> SubSeq(bytes, 1, header[2])])
      BY <1>1, <1>13
    <2>3. header' = <<>>
      BY <1>1, <1>13
    <2> QED BY <2>1, <2>2, <2>3, <1>10, <1>12, <1>14, Zenon
  <1>16. /\ got' \in Seq(Commands) /\ Len(got') = Len(got) + 1
         /\ \A k \in 1 .. Len(got) : got'[k] = got[k]
         /\ got'[Len(got) + 1] = cmd
    BY <1>2, <1>9, <1>15, AppendProperties DEF PipeTypeOK
  <1>17. PICK next : next \in [Nat -> Int] /\ \A k \in Nat : next[k] = start[k] - n
    BY <1>4, <1>12, Moves
  <1>18. \A k \in First .. Beyond : start[k] \in Int /\ next[k] = start[k] - n /\ next[k] \in Int
    <2> TAKE k \in First .. Beyond
    <2>1. k \in Nat
      BY <1>3
    <2>2. start[k] \in Int /\ next[k] \in Int
      BY <2>1, <1>4, <1>17
    <2> QED BY <2>1, <2>2, <1>17
  <1>19. First' = First + 1 /\ Beyond' = Beyond /\ sent' = sent
    BY <1>1, <1>16
  <1>20. \A k \in First + 1 .. Len(sent) : k \in First .. Len(sent) /\ k # First
    BY <1>3
  <1>21. \A k \in First + 1 .. Beyond : k \in First .. Beyond
    BY <1>3
  <1>22. Follow(next)'
    <2>1. next[First + 1] = 0 /\ next[Beyond] = Len(bytes')
      <3>1. First + 1 \in First .. Beyond /\ Beyond \in First .. Beyond
        BY <1>3, <1>6, <1>7
      <3>2. next[First + 1] = start[First + 1] - n /\ next[Beyond] = start[Beyond] - n
        BY <3>1, <1>18
      <3> QED BY <3>2, <1>6, <1>12, <1>13
    <2>2. \A k \in First + 1 .. Len(sent) : next[k + 1] = next[k] + 2 + Len(sent[k].body)
      <3> TAKE k \in First + 1 .. Len(sent)
      <3>1. start[k + 1] = start[k] + 2 + Len(sent[k].body) /\ Len(sent[k].body) \in Nat
        BY <1>2, <1>5, <1>20, InPipe
      <3>2. k \in First .. Beyond /\ k + 1 \in First .. Beyond
        BY <1>3
      <3>3. start[k] \in Int /\ next[k] = start[k] - n /\ next[k + 1] = start[k + 1] - n
        BY <3>2, <1>18
      <3>4. \A x, y, l \in Int : y = x + 2 + l => y - n = x - n + 2 + l
        BY <1>12
      <3>5. start[k + 1] \in Int /\ Len(sent[k].body) \in Int
        BY <3>1, <3>2, <1>18
      <3>6. start[k + 1] - n = start[k] - n + 2 + Len(sent[k].body)
        BY <3>1, <3>3, <3>4, <3>5, Zenon
      <3>7. next[k] = start[k] - n /\ next[k + 1] = start[k + 1] - n
        BY <3>3
      <3> QED BY <3>6, <3>7, Zenon
    <2>3. \A j, k \in First + 1 .. Beyond : j <= k => next[j] <= next[k]
      <3> TAKE j, k \in First + 1 .. Beyond
      <3> HAVE j <= k
      <3>1. start[j] <= start[k]
        BY <1>5, <1>21 DEF Follow
      <3>2. /\ start[j] \in Int /\ next[j] = start[j] - n
            /\ start[k] \in Int /\ next[k] = start[k] - n
        BY <1>18, <1>21
      <3> QED BY <3>1, <3>2, <1>12
    <2>4. \A k \in First + 1 .. Beyond : next[k] \in Int
      BY <1>18, <1>21
    <2>5. First + 1 <= Beyond
      BY <1>3, <1>6, <1>7
    <2> QED BY <2>1, <2>2, <2>3, <2>4, <2>5, <1>15, <1>19 DEF Follow
  <1>23. Spelled(next)'
    <2>1. ASSUME NEW k \in First + 1 .. Len(sent)
          PROVE  /\ bytes'[next[k] + 1] = sent[k].type
                 /\ bytes'[next[k] + 2] = Len(sent[k].body)
                 /\ \A i \in 1 .. Len(sent[k].body) :
                      bytes'[next[k] + 2 + i] = sent[k].body[i]
      <3>1. /\ bytes[start[k] + 1] = sent[k].type /\ bytes[start[k] + 2] = Len(sent[k].body)
            /\ \A i \in 1 .. Len(sent[k].body) : bytes[start[k] + 2 + i] = sent[k].body[i]
        BY <1>5, <1>20 DEF Spelled
      <3>2. /\ Len(sent[k].body) \in Nat /\ start[k] \in Int
            /\ start[k] + 2 + Len(sent[k].body) <= Len(bytes)
        BY <1>2, <1>5, <1>20, InPipe
      <3>3. k \in First .. Beyond /\ First + 1 \in First .. Beyond /\ First + 1 <= k
        BY <1>3, <1>6, <1>7
      <3>4. next[k] = start[k] - n
        BY <3>3, <1>18
      <3>5. start[k] >= n
        <4>1. start[First + 1] <= start[k]
          BY <3>3, <1>5 DEF Follow
        <4> QED BY <4>1, <1>12
      <3>6. /\ next[k] + 1 = start[k] - n + 1 /\ next[k] + 2 = start[k] - n + 2
            /\ \A i \in Nat : next[k] + 2 + i = start[k] - n + 2 + i
        BY <3>4
      <3>7. \A o \in Int, l \in Nat, m \in Nat : o >= n /\ o + 2 + l <= m =>
              /\ \A i \in 1 .. l : /\ o - n + 2 + i \in 1 .. m - n
                                   /\ n + (o - n + 2 + i) = o + 2 + i /\ i \in Nat
              /\ o - n + 1 \in 1 .. m - n /\ n + (o - n + 1) = o + 1
              /\ o - n + 2 \in 1 .. m - n /\ n + (o - n + 2) = o + 2
        BY <1>12
      <3>8. /\ \A i \in 1 .. Len(sent[k].body) :
                  /\ start[k] - n + 2 + i \in 1 .. Len(bytes) - n
                  /\ n + (start[k] - n + 2 + i) = start[k] + 2 + i /\ i \in Nat
            /\ start[k] - n + 1 \in 1 .. Len(bytes) - n /\ n + (start[k] - n + 1) = start[k] + 1
            /\ start[k] - n + 2 \in 1 .. Len(bytes) - n /\ n + (start[k] - n + 2) = start[k] + 2
        BY <3>2, <3>5, <3>7, <1>3, Zenon
      <3>9. ASSUME NEW i \in 1 .. Len(sent[k].body)
            PROVE  bytes'[next[k] + 2 + i] = sent[k].body[i]
        BY <3>1, <3>6, <3>8, <1>13, Zenon
      <3>10. bytes'[next[k] + 1] = sent[k].type
        BY <3>1, <3>6, <3>8, <1>13, Zenon
      <3>11. bytes'[next[k] + 2] = Len(sent[k].body)
        BY <3>1, <3>6, <3>8, <1>13, Zenon
      <3> QED BY <3>9, <3>10, <3>11
    <2> QED BY <2>1, <1>15, <1>19 DEF Spelled
  <1>24. PipeTypeOK' /\ ~aborted'
    <2>1. aborted' \in BOOLEAN /\ sent' \in Seq(Commands)
      BY <1>2, <1>13, <1>19 DEF PipeTypeOK
    <2>2. header' \in Seq(Byte)
      BY <1>15
    <2> QED BY <2>1, <2>2, <1>13, <1>16 DEF PipeTypeOK
  <1>25. (\A k \in 1 .. Len(got) : got[k] = sent[k])'
    <2>1. \A k \in 1 .. Len(got) : got[k] = sent[k]
      BY DEF PipeInv
    <2>2. \A k \in 1 .. Len(got) + 1 : k \in 1 .. Len(got) \/ k = Len(got) + 1
      BY <1>3
    <2>3. got'[Len(got) + 1] = sent[Len(got) + 1]
      BY <1>16 DEF cmd
    <2> QED BY <2>1, <2>2, <2>3, <1>16, <1>19
  <1> QED BY <1>17, <1>22, <1>23, <1>24, <1>25 DEF PipeInv, Framed

\* The invariant is inductive when lengths fit their byte.
LEMMA PipeStep == LengthsFit /\ PipeInv /\ [Next]_vars => PipeInv'
  <1> SUFFICES ASSUME LengthsFit, PipeInv, [Next]_vars PROVE PipeInv'
    OBVIOUS
  <1>1. CASE UNCHANGED vars
    BY <1>1 DEF vars, PipeInv, PipeTypeOK, Framed, Follow, Spelled, First, Beyond
  <1>2. CASE SendRequest
    BY <1>2, PipeSend
  <1>3. CASE ReadHeader
    BY <1>3, PipeHeader
  <1>4. CASE ReadBody
    BY <1>4, PipeBody
  <1> QED BY <1>1, <1>2, <1>3, <1>4 DEF Next

\* Every state reached by commands whose lengths fit is framed.
LEMMA PipeInvariant == LengthsFit => (Spec => []PipeInv)
  <1> SUFFICES ASSUME LengthsFit PROVE Spec => []PipeInv
    OBVIOUS
  <1> QED BY PipeInit, PipeStep, PTL DEF Spec

\* What the handlers got is a beginning of what was sent.
LEMMA HandledInOrder == PipeInv => InOrder
  <1> SUFFICES ASSUME PipeInv PROVE InOrder
    OBVIOUS
  <1>1. PipeTypeOK /\ \A k \in 1 .. Len(got) : got[k] = sent[k]
    BY DEF PipeInv
  <1>2. Len(got) <= Len(sent)
    <2>1. First <= Beyond
      BY DEF PipeInv, Framed, Follow
    <2> QED BY <1>1, <2>1 DEF First, Beyond, PipeTypeOK
  <1>3. got \in Seq(Commands) /\ sent \in Seq(Commands) /\ Len(got) \in Nat /\ Len(sent) \in Nat
    BY <1>1 DEF PipeTypeOK
  <1> DEFINE n == Len(got)
             s == SubSeq(got, 1, n)
             t == SubSeq(sent, 1, n)
  <1>4. \A k \in 1 .. n : got[k] \in Commands /\ sent[k] \in Commands
    BY <1>2, <1>3
  <1>5. /\ s \in Seq(Commands) /\ t \in Seq(Commands) /\ Len(s) = Len(t)
        /\ Len(s) = (IF 1 <= n THEN n - 1 + 1 ELSE 0)
        /\ \A k \in 1 .. n - 1 + 1 : s[k] = got[1 + k - 1] /\ t[k] = sent[1 + k - 1]
    BY <1>3, <1>4, SubSeqProperties
  <1> HIDE DEF s, t, n
  <1>6. n \in Nat /\ Len(s) = n
    BY <1>3, <1>5 DEF n
  <1>7. ASSUME NEW k \in 1 .. n PROVE s[k] = t[k]
    <2>1. k \in 1 .. n - 1 + 1 /\ 1 + k - 1 = k
      BY <1>6
    <2> QED BY <2>1, <1>1, <1>5 DEF n
  <1>8. \A x, y \in Seq(Commands) :
          Len(x) = n /\ Len(y) = n /\ (\A k \in 1 .. n : x[k] = y[k]) => x = y
    BY <1>6
  <1>9. s = t
    BY <1>5, <1>6, <1>7, <1>8, Zenon
  <1>10. SubSeq(got, 1, Len(got)) = SubSeq(sent, 1, Len(got))
    BY <1>9 DEF s, t, n
  <1> QED BY <1>2, <1>10, Zenon DEF InOrder, IsPrefix

\* When no command is longer than its length byte can say, handlers get the
\* commands that were sent, whole and in order, whatever threads write them
\* (send_request, ctrl_cmd).
THEOREM CommandsArriveInOrder == LengthsFit => (Spec => []InOrder)
  <1> SUFFICES ASSUME LengthsFit PROVE Spec => []InOrder
    OBVIOUS
  <1> QED BY PipeInvariant, HandledInOrder, PTL

\* Then the assertion of block_readpipe never fails: the length that
\* open_request wrongly accepts is the only one that breaks the framing.
THEOREM NoShortRead == LengthsFit => (Spec => []BlockReadAssert)
  <1>1. PipeInv => BlockReadAssert
    BY DEF PipeInv, BlockReadAssert
  <1> SUFFICES ASSUME LengthsFit PROVE Spec => []BlockReadAssert
    OBVIOUS
  <1> QED BY <1>1, PipeInvariant, PTL
=============================================================================
