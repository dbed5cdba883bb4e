----------------------------- MODULE WireProofs -----------------------------
(***************************************************************************)
(* What is taken from a datagram is what was sent, and nothing meant for   *)
(* the end it reaches is refused, for bytes of any number of values (the   *)
(* code: 256), hosts of any byte orders, any list of processes, any field  *)
(* values and any place where a datagram ends early.                       *)
(*                                                                         *)
(* The proof goes from integers to bytes and back: four bytes and a word   *)
(* determine each other, htonl puts the most significant byte first in     *)
(* memory whatever the host, a field of a datagram that is whole is read   *)
(* as it was written, and then so is the struct.                           *)
(***************************************************************************)
EXTENDS Wire, SequenceTheorems, TLAPS

Byte == 0 .. ByteBase - 1
Integer32 == 0 .. WordLimit - 1

----------------------------------------------------------------------------
(* Integers in memory. *)

\* Division by the number of values of a byte, and the step of Horner's rule
\* that undoes it.
LEMMA DivMod ==
  ASSUME NEW n \in Nat
  PROVE  /\ n \div ByteBase \in Nat
         /\ n % ByteBase \in Byte
         /\ n = (n \div ByteBase) * ByteBase + (n % ByteBase)
  BY WordAssumption, SMT DEF Byte

LEMMA HornerStep ==
  ASSUME NEW q \in Nat, NEW r \in Byte
  PROVE  /\ q * ByteBase + r \in Nat
         /\ (q * ByteBase + r) \div ByteBase = q
         /\ (q * ByteBase + r) % ByteBase = r
  BY WordAssumption, SMT DEF Byte

LEMMA DivBound ==
  ASSUME NEW n \in Nat, NEW k \in Nat, n < k * ByteBase
  PROVE  n \div ByteBase < k
<1>1. /\ n \div ByteBase \in Nat /\ n % ByteBase \in Nat
      /\ n = (n \div ByteBase) * ByteBase + (n % ByteBase)
  BY DivMod, SMT DEF Byte
<1>2. SUFFICES ASSUME n \div ByteBase >= k PROVE FALSE
  BY <1>1, SMT
<1>3. ASSUME NEW q \in Nat, NEW r \in Nat, q >= k, n = q * ByteBase + r
      PROVE  FALSE
  <2>1. PICK d \in Nat : q = k + d
    BY <1>3, SMT
  <2>2. q * ByteBase = k * ByteBase + d * ByteBase
    BY <2>1, WordAssumption, SMT
  <2>3. d * ByteBase \in Nat /\ k * ByteBase \in Nat
    BY WordAssumption, SMT
  <2> QED BY <2>2, <2>3, <1>3, SMT
<1> QED BY <1>1, <1>2, <1>3

\* A word is four bytes, and those bytes give the word.
LEMMA BytesOfWord ==
  ASSUME NEW n \in Integer32
  PROVE  /\ \E b1, b2, b3, b4 \in Byte : BigEndian(n) = <<b1, b2, b3, b4>>
         /\ FromBigEndian(BigEndian(n)) = n
<1> DEFINE q1 == n \div ByteBase
           q2 == q1 \div ByteBase
           q3 == q2 \div ByteBase
<1>1. n \in Nat /\ n < WordLimit
  BY WordAssumption, SMT DEF Integer32, WordLimit
<1>2. /\ ByteBase \in Nat /\ ByteBase * ByteBase \in Nat
      /\ ByteBase * ByteBase * ByteBase \in Nat
  BY WordAssumption, SMT
<1>3. q1 \in Nat /\ n % ByteBase \in Byte /\ n = q1 * ByteBase + (n % ByteBase)
  BY <1>1, DivMod
<1>4. q1 < ByteBase * ByteBase * ByteBase
  BY <1>1, <1>2, DivBound DEF WordLimit
<1> HIDE DEF q1
<1>5. q2 \in Nat /\ q1 % ByteBase \in Byte /\ q1 = q2 * ByteBase + (q1 % ByteBase)
  BY <1>3, DivMod
<1>6. q2 < ByteBase * ByteBase
  BY <1>2, <1>3, <1>4, DivBound
<1> HIDE DEF q2
<1>7. q3 \in Nat /\ q2 % ByteBase \in Byte /\ q2 = q3 * ByteBase + (q2 % ByteBase)
  BY <1>5, DivMod
<1>8. q3 < ByteBase
  BY <1>2, <1>5, <1>6, DivBound
<1> HIDE DEF q3
<1>9. q3 % ByteBase = q3 /\ q3 \in Byte
  BY <1>7, <1>8, WordAssumption, SMT DEF Byte
<1>10. BigEndian(n) = <<q3, q2 % ByteBase, q1 % ByteBase, n % ByteBase>>
  BY <1>9 DEF BigEndian, q1, q2, q3
<1>11. FromBigEndian(BigEndian(n)) =
        ((q3 * ByteBase + (q2 % ByteBase)) * ByteBase + (q1 % ByteBase)) * ByteBase
          + (n % ByteBase)
  BY <1>10 DEF FromBigEndian
<1>12. FromBigEndian(BigEndian(n)) = n
  BY <1>11, <1>3, <1>5, <1>7, Zenon
<1> QED BY <1>3, <1>5, <1>7, <1>9, <1>10, <1>12, Zenon

\* Four bytes are a word, and that word has these bytes.
LEMMA WordOfBytes ==
  ASSUME NEW b1 \in Byte, NEW b2 \in Byte, NEW b3 \in Byte, NEW b4 \in Byte
  PROVE  BigEndian(FromBigEndian(<<b1, b2, b3, b4>>)) = <<b1, b2, b3, b4>>
<1> DEFINE w2 == b1 * ByteBase + b2
           w3 == w2 * ByteBase + b3
           w4 == w3 * ByteBase + b4
<1>1. b1 \in Nat /\ b1 % ByteBase = b1
  BY WordAssumption, SMT DEF Byte
<1>2. w2 \in Nat /\ w2 \div ByteBase = b1 /\ w2 % ByteBase = b2
  BY <1>1, HornerStep
<1> HIDE DEF w2
<1>3. w3 \in Nat /\ w3 \div ByteBase = w2 /\ w3 % ByteBase = b3
  BY <1>2, HornerStep
<1> HIDE DEF w3
<1>4. w4 \div ByteBase = w3 /\ w4 % ByteBase = b4
  BY <1>3, HornerStep
<1> HIDE DEF w4
<1>5. FromBigEndian(<<b1, b2, b3, b4>>) = w4
  BY DEF FromBigEndian, w4, w3, w2
<1> QED BY <1>1, <1>2, <1>3, <1>4, <1>5 DEF BigEndian

\* htonl puts the most significant byte first in the memory of a host of either
\* byte order.
LEMMA NetworkOrder ==
  ASSUME NEW n \in Integer32
  PROVE  Store("from", htonl("from", n)) = BigEndian(n)
<1>1. PICK b1, b2, b3, b4 \in Byte : BigEndian(n) = <<b1, b2, b3, b4>>
  BY BytesOfWord
<1>2. CASE order["from"] = "big"
  BY <1>2, BytesOfWord DEF Store, htonl, Load
<1>3. CASE order["from"] # "big"
  <2>1. htonl("from", n) = FromBigEndian(<<b4, b3, b2, b1>>)
    BY <1>1, <1>3 DEF htonl, Load, Swapped
  <2>2. BigEndian(htonl("from", n)) = <<b4, b3, b2, b1>>
    BY <2>1, WordOfBytes
  <2> QED BY <2>2, <1>1, <1>3 DEF Store, Swapped
<1> QED BY <1>2, <1>3

\* ntohl gives the integer whose bytes are in memory in this order.
LEMMA HostOrder ==
  ASSUME NEW n \in Integer32
  PROVE  ntohl("to", Load("to", BigEndian(n))) = n
<1>1. PICK b1, b2, b3, b4 \in Byte : BigEndian(n) = <<b1, b2, b3, b4>>
  BY BytesOfWord
<1>2. CASE order["to"] = "big"
  BY <1>2, BytesOfWord DEF Store, ntohl, Load
<1>3. CASE order["to"] # "big"
  <2>1. Load("to", BigEndian(n)) = FromBigEndian(<<b4, b3, b2, b1>>)
    BY <1>1, <1>3 DEF Load, Swapped
  <2>2. BigEndian(Load("to", BigEndian(n))) = <<b4, b3, b2, b1>>
    BY <2>1, WordOfBytes
  <2>3. Store("to", Load("to", BigEndian(n))) = BigEndian(n)
    BY <2>2, <1>1, <1>3 DEF Store, Swapped
  <2> QED BY <2>3, BytesOfWord DEF ntohl
<1> QED BY <1>2, <1>3

----------------------------------------------------------------------------
(* Encoding and decoding. *)

\* The structs: their lengths, that none has a field twice, and the size of each.
LEMMA Structs ==
  ASSUME NEW type \in Types
  PROVE  /\ Len(Struct[type]) \in 2 .. 4
         /\ DOMAIN Struct[type] = 1 .. Len(Struct[type])
         /\ \A i, j \in DOMAIN Struct[type] : Struct[type][i] = Struct[type][j] => i = j
         /\ SizeOf(type) \in Nat /\ SizeOf(type) = 4 * (1 + Len(Struct[type]))
<1>1. CASE type = 1
  BY <1>1, SMT DEF Struct, DataMessage, SizeOf, WordBytes
<1>2. CASE type = 2
  BY <1>2, SMT DEF Struct, AckMessage, SizeOf, WordBytes
<1>3. CASE type = 3
  BY <1>3, SMT DEF Struct, SeqMessage, SizeOf, WordBytes
<1>4. CASE type = 4
  BY <1>4, SMT DEF Struct, SeqAckMessage, SizeOf, WordBytes
<1> QED BY <1>1, <1>2, <1>3, <1>4, SMT DEF Types

\* The type and the fields are integers that a word holds.
LEMMA FieldWord ==
  ASSUME NEW type \in Types, NEW msg \in Messages(type),
         NEW i \in 0 .. Len(Struct[type])
  PROVE  Field(type, msg, i) \in Integer32
<1>1. CASE i = 0
  <2>1. WordLimit > 4
    <3>1. ByteBase * ByteBase >= 4
      BY WordAssumption, SMT
    <3>2. ByteBase * ByteBase * ByteBase >= 8
      BY <3>1, WordAssumption, SMT
    <3> QED BY <3>2, WordAssumption, SMT DEF WordLimit
  <2>2. WordLimit \in Nat
    BY WordAssumption, SMT DEF WordLimit
  <2> QED BY <1>1, <2>1, <2>2, SMT DEF Field, Integer32, Types
<1>2. CASE i # 0
  <2>1. i \in DOMAIN Struct[type]
    BY <1>2, Structs, SMT
  <2>2. Struct[type][i] \in Fields(type)
    BY <2>1 DEF Fields
  <2> QED BY <1>2, <2>2, WordAssumption DEF Field, Messages, Integer32
<1> QED BY <1>1, <1>2

\* A datagram as a Send function gave it to the network, or the start of one.
Datagram(type, msg, size) ==
  /\ type \in Types /\ msg \in Messages(type) /\ size \in 0 .. SizeOf(type)
  /\ buf = SubSeq(Encode(type, msg), 1, size)

\* What is encoded is a sequence of bytes; field i is in bytes 4 i + 1 .. 4 i + 4.
LEMMA Encoded ==
  ASSUME NEW type \in Types, NEW msg \in Messages(type)
  PROVE  /\ Encode(type, msg) \in Seq(Byte)
         /\ Len(Encode(type, msg)) = SizeOf(type)
         /\ \A i \in 0 .. Len(Struct[type]), k \in 1 .. 4 :
              Encode(type, msg)[4 * i + k] = BigEndian(Field(type, msg, i))[k]
<1> DEFINE e == Encode(type, msg)
<1>1. \A i \in 0 .. Len(Struct[type]), k \in 1 .. 4 :
        /\ 4 * i + k \in 1 .. SizeOf(type)
        /\ e[4 * i + k] = BigEndian(Field(type, msg, i))[k]
  <2> SUFFICES ASSUME NEW i \in 0 .. Len(Struct[type]), NEW k \in 1 .. 4
               PROVE  /\ 4 * i + k \in 1 .. SizeOf(type)
                      /\ e[4 * i + k] = BigEndian(Field(type, msg, i))[k]
    OBVIOUS
  <2>1. /\ 4 * i + k \in 1 .. SizeOf(type)
        /\ ((4 * i + k) - 1) \div 4 = i /\ (((4 * i + k) - 1) % 4) + 1 = k
    BY Structs, SMT
  <2>2. e[4 * i + k] = Store("from", htonl("from", Field(type, msg, i)))[k]
    BY <2>1, Zenon DEF Encode, WordBytes
  <2>3. Store("from", htonl("from", Field(type, msg, i))) =
          BigEndian(Field(type, msg, i))
    BY FieldWord, NetworkOrder
  <2> QED BY <2>1, <2>2, <2>3
<1>2. DOMAIN e = 1 .. SizeOf(type)
  BY DEF Encode
<1>3. ASSUME NEW j \in 1 .. SizeOf(type) PROVE e[j] \in Byte
  <2>1. PICK i \in 0 .. Len(Struct[type]), k \in 1 .. 4 : j = 4 * i + k
    <3> DEFINE i == (j - 1) \div 4
               k == ((j - 1) % 4) + 1
    <3>1. i \in 0 .. Len(Struct[type]) /\ k \in 1 .. 4 /\ j = 4 * i + k
      BY Structs, SMT
    <3> QED BY <3>1
  <2>2. e[j] = BigEndian(Field(type, msg, i))[k]
    BY <1>1, <2>1
  <2>3. PICK b1, b2, b3, b4 \in Byte :
          BigEndian(Field(type, msg, i)) = <<b1, b2, b3, b4>>
    BY FieldWord, BytesOfWord
  <2> QED BY <2>2, <2>3, SMT
<1>4. e = [j \in 1 .. SizeOf(type) |-> e[j]]
  BY DEF Encode
<1> HIDE DEF e
<1>5. e \in [1 .. SizeOf(type) -> Byte]
  BY <1>3, <1>4
<1>6. e \in Seq(Byte) /\ Len(e) = SizeOf(type)
  BY <1>5, Structs, SMT
<1> QED BY <1>6, <1>1 DEF e

\* A field that has arrived is read as it was written.
LEMMA WordRead ==
  ASSUME NEW type, NEW msg, NEW size, Datagram(type, msg, size),
         NEW i \in 0 .. Len(Struct[type]), 4 * (i + 1) <= Len(buf)
  PROVE  Word(i) = Field(type, msg, i)
<1>1. /\ type \in Types /\ msg \in Messages(type) /\ size \in 0 .. SizeOf(type)
      /\ buf = SubSeq(Encode(type, msg), 1, size)
  BY DEF Datagram
<1> DEFINE e == Encode(type, msg)
           n == Field(type, msg, i)
<1>2. /\ e \in Seq(Byte) /\ Len(e) = SizeOf(type)
      /\ \A k \in 1 .. 4 : e[4 * i + k] = BigEndian(n)[k]
  BY <1>1, Encoded
<1>3. n \in Integer32
  BY <1>1, FieldWord
<1>4. PICK b1, b2, b3, b4 \in Byte : BigEndian(n) = <<b1, b2, b3, b4>>
  BY <1>3, BytesOfWord
<1> HIDE DEF e, n
<1>5. buf \in Seq(Byte) /\ Len(buf) = size /\ \A j \in 1 .. size : buf[j] = e[j]
  BY <1>1, <1>2, Structs, SMT DEF e
<1>6. i \in Nat /\ 4 * i + 4 <= size
  BY <1>1, <1>5, Structs, SMT
<1>7. SubSeq(buf, 4 * i + 1, 4 * (i + 1)) =
        <<buf[4 * i + 1], buf[4 * i + 2], buf[4 * i + 3], buf[4 * i + 4]>>
  <2> DEFINE s == SubSeq(buf, 4 * i + 1, 4 * (i + 1))
  <2>1. /\ s \in Seq(Byte) /\ Len(s) = 4
        /\ \A k \in 1 .. 4 : s[k] = buf[4 * i + k]
    BY <1>5, <1>6, SMT
  <2> HIDE DEF s
  <2>2. s = <<s[1], s[2], s[3], s[4]>>
    BY <2>1, SMT
  <2>3. /\ s[1] = buf[4 * i + 1] /\ s[2] = buf[4 * i + 2]
        /\ s[3] = buf[4 * i + 3] /\ s[4] = buf[4 * i + 4]
    BY <2>1, SMT
  <2> QED BY <2>2, <2>3 DEF s
<1>8. /\ buf[4 * i + 1] = b1 /\ buf[4 * i + 2] = b2
      /\ buf[4 * i + 3] = b3 /\ buf[4 * i + 4] = b4
  BY <1>2, <1>4, <1>5, <1>6, SMT
<1>9. SubSeq(buf, 4 * i + 1, 4 * (i + 1)) = BigEndian(n)
  BY <1>4, <1>7, <1>8
<1> QED BY <1>3, <1>9, HostOrder DEF Word, WordBytes, n

\* A datagram is at most as long as its struct; when it reaches to the end of the
\* type, the type is read, and when it is whole, every field.
LEMMA Decoded ==
  ASSUME NEW type, NEW msg, NEW size, Datagram(type, msg, size)
  PROVE  /\ buf \in Seq(Byte) /\ Len(buf) = size /\ size <= SizeOf(type)
         /\ Len(buf) >= WordBytes => TypeField = type
         /\ Decodes(type) => FromBuf(type) = msg
<1>1. /\ type \in Types /\ msg \in Messages(type) /\ size \in 0 .. SizeOf(type)
      /\ buf = SubSeq(Encode(type, msg), 1, size)
  BY DEF Datagram
<1>2. buf \in Seq(Byte) /\ Len(buf) = size /\ size <= SizeOf(type)
  BY <1>1, Encoded, Structs, SMT
<1>3. ASSUME Len(buf) >= WordBytes PROVE TypeField = type
  <2>1. 0 \in 0 .. Len(Struct[type]) /\ 4 * (0 + 1) <= Len(buf)
    BY <1>1, <1>3, Structs, SMT DEF WordBytes
  <2>2. Word(0) = Field(type, msg, 0)
    BY <2>1, WordRead
  <2> QED BY <2>2 DEF TypeField, Field
<1>4. ASSUME Decodes(type) PROVE FromBuf(type) = msg
  <2>1. ASSUME NEW f \in Fields(type)
        PROVE  Word(CHOOSE i \in DOMAIN Struct[type] : Struct[type][i] = f) = msg[f]
    <3> DEFINE i == CHOOSE i \in DOMAIN Struct[type] : Struct[type][i] = f
    <3>1. i \in DOMAIN Struct[type] /\ Struct[type][i] = f
      BY DEF Fields
    <3> HIDE DEF i
    <3>2. i \in 0 .. Len(Struct[type]) /\ 4 * (i + 1) <= Len(buf) /\ i # 0
      BY <1>1, <1>4, <3>1, Structs, SMT DEF Decodes
    <3>3. Word(i) = Field(type, msg, i)
      BY <3>2, WordRead
    <3> QED BY <3>1, <3>2, <3>3 DEF Field, i
  <2> QED BY <1>1, <2>1 DEF FromBuf, Messages
<1> QED BY <1>2, <1>3, <1>4

----------------------------------------------------------------------------
(* The invariant. *)

\* What travels is a datagram of the message sent, and what an end makes of it
\* is right.
WireInv ==
  /\ order \in [{"from", "to"} -> {"big", "little"}]
  /\ place \in {"nowhere", "network", "server", "data_sender", "seq_sender"}
  /\ place = "nowhere" => sent = Dropped /\ buf = << >>
  /\ place # "nowhere" =>
       /\ sent = [type |-> sent.type, msg |-> sent.msg]
       /\ Datagram(sent.type, sent.msg, Len(buf))
  /\ place \in {"nowhere", "network"} => taken = Dropped
  /\ place = "server" /\ taken # Dropped =>
       \A f \in DOMAIN taken.msg \cap {"sender", "final_seq_proposer"} :
         taken.msg[f] < ProcessCount
  /\ UnderstoodAsSent /\ NoneRefused

\* A datagram that stays in the buffer stays one.
LEMMA DatagramStays ==
  ASSUME WireInv, place # "nowhere", UNCHANGED <<order, sent, buf>>
  PROVE  /\ (sent = [type |-> sent.type, msg |-> sent.msg])'
         /\ Datagram(sent.type, sent.msg, Len(buf))'
<1>1. /\ sent = [type |-> sent.type, msg |-> sent.msg]
      /\ Datagram(sent.type, sent.msg, Len(buf))
  BY DEF WireInv
<1> QED BY <1>1 DEF Datagram, Encode, Store, Load, htonl

\* A Send function gives the network a datagram of its message.
LEMMA SendStep ==
  ASSUME WireInv, NEW type \in Types, Send(type)
  PROVE  WireInv'
<1>1. PICK msg \in Messages(type),
           size \in {SizeOf(type)} \cup (Cuts \cap 0 .. SizeOf(type)) :
        /\ sent' = [type |-> type, msg |-> msg]
        /\ buf' = SubSeq(Encode(type, msg), 1, size)
  BY DEF Send
<1>2. /\ place = "nowhere" /\ place' = "network" /\ UNCHANGED <<order, exp, taken>>
  BY DEF Send
<1>3. size \in 0 .. SizeOf(type)
  BY Structs, SMT
<1>4. Len(buf') = size
  BY <1>1, <1>3, Encoded, Structs, SMT
<1>5. Datagram(sent.type, sent.msg, Len(buf))'
  BY <1>1, <1>2, <1>3, <1>4 DEF Datagram, Encode, Store, Load, htonl
<1>6. taken' = Dropped
  BY <1>2 DEF WireInv
<1>7. UnderstoodAsSent' /\ NoneRefused'
  BY <1>2, <1>6 DEF UnderstoodAsSent, NoneRefused
<1> QED BY <1>1, <1>2, <1>5, <1>6, <1>7 DEF WireInv

\* The receiving loop starts over.
LEMMA AgainStep ==
  ASSUME WireInv, Again
  PROVE  WireInv'
<1>1. /\ sent' = Dropped /\ buf' = << >> /\ place' = "nowhere"
      /\ taken' = Dropped /\ UNCHANGED order
  BY DEF Again
<1> QED BY <1>1 DEF WireInv, UnderstoodAsSent, NoneRefused

\* The sizes and the type that the server and the waiting senders look at.
LEMMA Arrived ==
  ASSUME WireInv, place = "network"
  PROVE  /\ sent.type \in Types /\ sent.msg \in Messages(sent.type)
         /\ sent = [type |-> sent.type, msg |-> sent.msg] /\ sent # Dropped
         /\ Len(buf) \in Nat
         /\ Len(buf) >= WordBytes => TypeField = sent.type
         /\ Decodes(sent.type) => FromBuf(sent.type) = sent.msg
         /\ \A type \in Types : SizeOf(type) \in Nat /\ SizeOf(type) >= WordBytes
<1>1. /\ sent = [type |-> sent.type, msg |-> sent.msg]
      /\ Datagram(sent.type, sent.msg, Len(buf))
  BY DEF WireInv
<1>2. sent.type \in Types /\ sent.msg \in Messages(sent.type) /\ Len(buf) \in Nat
  BY <1>1, Structs, SMT DEF Datagram
<1>3. sent # Dropped
  <2>1. sent.type # 0 /\ Dropped.type = 0
    BY <1>2, SMT DEF Types, Dropped
  <2> QED BY <2>1
<1>4. ASSUME NEW type \in Types
      PROVE  SizeOf(type) \in Nat /\ SizeOf(type) >= WordBytes
  BY Structs, SMT DEF WordBytes
<1>5. /\ Len(buf) >= WordBytes => TypeField = sent.type
      /\ Decodes(sent.type) => FromBuf(sent.type) = sent.msg
  BY <1>1, Decoded
<1> QED BY <1>1, <1>2, <1>3, <1>4, <1>5

\* What Take makes of a datagram when the type is part of being valid.
LEMMA TakeRight ==
  ASSUME WireInv, place = "network", NEW type \in Types, NEW valid \in BOOLEAN,
         valid => TypeField = type, Take(type, valid)
  PROVE  /\ taken' = Dropped \/ (taken' = sent /\ sent.type = type /\ valid)
         /\ sent.type = type /\ valid /\ Len(buf) = SizeOf(type) => taken' = sent
<1>1. /\ sent = [type |-> sent.type, msg |-> sent.msg]
      /\ Len(buf) >= WordBytes => TypeField = sent.type
      /\ Decodes(sent.type) => FromBuf(sent.type) = sent.msg
      /\ SizeOf(type) \in Nat /\ SizeOf(type) >= WordBytes
  BY Arrived
<1>2. CASE Decodes(type) /\ valid
  <2>1. Len(buf) >= WordBytes
    BY <1>1, <1>2 DEF Decodes
  <2>2. sent.type = type
    BY <1>1, <1>2, <2>1
  <2>3. taken' = [type |-> type, msg |-> FromBuf(type)]
    BY <1>2 DEF Take
  <2>4. taken' = sent
    BY <1>1, <1>2, <2>2, <2>3
  <2> QED BY <1>2, <2>2, <2>4
<1>3. CASE ~(Decodes(type) /\ valid)
  BY <1>3, Zenon DEF Take, Decodes
<1> QED BY <1>2, <1>3, Zenon

\* An end that takes what was sent or nothing, and refuses nothing meant for it,
\* keeps the invariant.
LEMMA ReceiverStep ==
  ASSUME WireInv, place = "network", UNCHANGED <<order, sent, buf>>,
         place' \in {"server", "data_sender", "seq_sender"},
         taken' = Dropped \/ taken' = sent,
         place' = "server" /\ taken' # Dropped =>
           \A f \in DOMAIN sent.msg \cap {"sender", "final_seq_proposer"} :
             sent.msg[f] < ProcessCount,
         NoneRefused'
  PROVE  WireInv'
<1>1. /\ (sent = [type |-> sent.type, msg |-> sent.msg])'
      /\ Datagram(sent.type, sent.msg, Len(buf))'
  BY DatagramStays
<1>2. UnderstoodAsSent'
  BY DEF UnderstoodAsSent
<1>3. (place = "server" /\ taken # Dropped =>
         \A f \in DOMAIN taken.msg \cap {"sender", "final_seq_proposer"} :
           taken.msg[f] < ProcessCount)'
  BY Zenon
<1>4. /\ (order \in [{"from", "to"} -> {"big", "little"}])'
      /\ (place \in {"nowhere", "network", "server", "data_sender", "seq_sender"})'
      /\ (place = "nowhere" => sent = Dropped /\ buf = << >>)'
      /\ (place \in {"nowhere", "network"} => taken = Dropped)'
  BY Zenon DEF WireInv
<1> QED BY <1>1, <1>2, <1>3, <1>4, Zenon DEF WireInv

\* handle_ack takes the acknowledgement it waits for.
LEMMA DataSenderStep ==
  ASSUME WireInv, AtDataSender
  PROVE  WireInv'
<1>1. PICK wanted \in [{"sender", "msg_id", "proposer"} -> Words] :
        /\ exp' = wanted
        /\ Take(kAckMessageType, ValidAckMsg(FromBuf(kAckMessageType), wanted))
  BY DEF AtDataSender
<1>2. place = "network" /\ place' = "data_sender" /\ UNCHANGED <<order, sent, buf>>
  BY DEF AtDataSender
<1> DEFINE valid == ValidAckMsg(FromBuf(kAckMessageType), wanted)
<1>3. valid \in BOOLEAN /\ (valid => TypeField = kAckMessageType)
  BY DEF ValidAckMsg
<1>4. kAckMessageType \in Types
  BY SMT DEF kAckMessageType, Types
<1>5. /\ taken' = Dropped \/ taken' = sent
      /\ sent.type = kAckMessageType /\ valid /\ Len(buf) = SizeOf(kAckMessageType)
           => taken' = sent
  <2> HIDE DEF valid
  <2> QED BY <1>1, <1>2, <1>3, <1>4, TakeRight DEF valid
<1>6. ASSUME sent.type = kAckMessageType, Len(buf) = SizeOf(kAckMessageType),
             \A f \in {"sender", "msg_id", "proposer"} : sent.msg[f] = wanted[f]
      PROVE  taken' = sent
  <2>1. TypeField = kAckMessageType /\ FromBuf(kAckMessageType) = sent.msg
    BY <1>2, <1>4, <1>6, Arrived DEF Decodes
  <2> QED BY <1>5, <1>6, <2>1 DEF ValidAckMsg
<1>7. NoneRefused'
  <2>1. place' # "server" /\ place' # "seq_sender"
    BY <1>2
  <2> QED BY <1>1, <1>2, <1>6, <2>1, Zenon DEF NoneRefused
<1> QED BY <1>2, <1>5, <1>7, ReceiverStep

\* isValidAck takes the acknowledgement it waits for.
LEMMA SeqSenderStep ==
  ASSUME WireInv, AtSeqSender
  PROVE  WireInv'
<1>1. PICK wanted \in [{"sender", "msg_id"} -> Words] :
        /\ exp' = wanted
        /\ Take(kSeqAckMessageType,
                ValidSeqAckMsg(FromBuf(kSeqAckMessageType), wanted))
  BY DEF AtSeqSender
<1>2. place = "network" /\ place' = "seq_sender" /\ UNCHANGED <<order, sent, buf>>
  BY DEF AtSeqSender
<1> DEFINE valid == ValidSeqAckMsg(FromBuf(kSeqAckMessageType), wanted)
<1>3. valid \in BOOLEAN /\ (valid => TypeField = kSeqAckMessageType)
  BY DEF ValidSeqAckMsg
<1>4. kSeqAckMessageType \in Types
  BY SMT DEF kSeqAckMessageType, Types
<1>5. /\ taken' = Dropped \/ taken' = sent
      /\ sent.type = kSeqAckMessageType /\ valid
           /\ Len(buf) = SizeOf(kSeqAckMessageType) => taken' = sent
  <2> HIDE DEF valid
  <2> QED BY <1>1, <1>2, <1>3, <1>4, TakeRight DEF valid
<1>6. ASSUME sent.type = kSeqAckMessageType, Len(buf) = SizeOf(kSeqAckMessageType),
             \A f \in {"sender", "msg_id"} : sent.msg[f] = wanted[f]
      PROVE  taken' = sent
  <2>1. TypeField = kSeqAckMessageType /\ FromBuf(kSeqAckMessageType) = sent.msg
    BY <1>2, <1>4, <1>6, Arrived DEF Decodes
  <2> QED BY <1>5, <1>6, <2>1 DEF ValidSeqAckMsg
<1>7. NoneRefused'
  <2>1. place' # "server" /\ place' # "data_sender"
    BY <1>2
  <2> QED BY <1>1, <1>2, <1>6, <2>1, Zenon DEF NoneRefused
<1> QED BY <1>2, <1>5, <1>7, ReceiverStep

\* The fields of the two structs that the server takes.
LEMMA ServerFields ==
  /\ Fields(kDataMessageType) \cap {"sender", "final_seq_proposer"} = {"sender"}
  /\ Fields(kSeqMessageType) \cap {"sender", "final_seq_proposer"} =
       {"sender", "final_seq_proposer"}
<1>1. Struct[kDataMessageType] = DataMessage /\ Struct[kSeqMessageType] = SeqMessage
  BY SMT DEF Struct, kDataMessageType, kSeqMessageType
<1>2. DOMAIN DataMessage = 1 .. 3 /\ DOMAIN SeqMessage = 1 .. 4
  BY SMT DEF DataMessage, SeqMessage
<1>3. Fields(kDataMessageType) = {"sender", "msg_id", "data"}
  BY <1>1, <1>2, SMT DEF Fields, DataMessage
<1>4. Fields(kSeqMessageType) =
        {"sender", "msg_id", "final_seq", "final_seq_proposer"}
  BY <1>1, <1>2, SMT DEF Fields, SeqMessage
<1> QED BY <1>3, <1>4, SMT

\* The server takes a data or sequence message about processes of its list.
LEMMA ServerStep ==
  ASSUME WireInv, AtServer
  PROVE  WireInv'
<1> DEFINE data == ValidDataMsg(FromBuf(kDataMessageType))
           seq == ValidSeqMsg(FromBuf(kSeqMessageType))
           Known(fields) == \A f \in fields : sent.msg[f] < ProcessCount
<1>1. place = "network" /\ place' = "server" /\ UNCHANGED <<order, sent, buf, exp>>
  BY DEF AtServer
<1>2. /\ sent.type \in Types /\ sent.msg \in Messages(sent.type)
      /\ Len(buf) \in Nat
      /\ Len(buf) >= WordBytes => TypeField = sent.type
      /\ Decodes(sent.type) => FromBuf(sent.type) = sent.msg
      /\ SizeOf(sent.type) >= WordBytes
  BY <1>1, Arrived
<1>3. DOMAIN sent.msg = Fields(sent.type)
  BY <1>2 DEF Messages
<1>4. kDataMessageType \in Types /\ kSeqMessageType \in Types
      /\ kDataMessageType # kSeqMessageType
  BY SMT DEF kDataMessageType, kSeqMessageType, Types
<1>5. SUFFICES /\ taken' = Dropped \/ taken' = sent
               /\ taken' # Dropped =>
                    Known(DOMAIN sent.msg \cap {"sender", "final_seq_proposer"})
               /\ Len(buf) = SizeOf(sent.type) =>
                    /\ sent.type = kDataMessageType /\ Known({"sender"}) =>
                         taken' = sent
                    /\ sent.type = kSeqMessageType
                         /\ Known({"sender", "final_seq_proposer"}) => taken' = sent
  <2>1. ASSUME /\ Len(buf) = SizeOf(sent.type) =>
                    /\ sent.type = kDataMessageType /\ Known({"sender"}) =>
                         taken' = sent
                    /\ sent.type = kSeqMessageType
                         /\ Known({"sender", "final_seq_proposer"}) => taken' = sent
        PROVE  NoneRefused'
    BY <1>1, <1>4, <2>1, Zenon DEF NoneRefused
  <2> QED BY <1>1, <2>1, ReceiverStep
<1>6. CASE Len(buf) >= WordBytes /\ sent.type = kDataMessageType
  <2>1. TypeField = kDataMessageType
    BY <1>2, <1>6
  <2>2. Take(kDataMessageType, data)
    BY <1>4, <1>6, <2>1, Zenon DEF AtServer
  <2>3. data \in BOOLEAN /\ (data => TypeField = kDataMessageType)
    BY DEF ValidDataMsg
  <2>4. /\ taken' = Dropped \/ (taken' = sent /\ data)
        /\ data /\ Len(buf) = SizeOf(kDataMessageType) => taken' = sent
    <3> HIDE DEF data
    <3> QED BY <1>1, <1>4, <1>6, <2>2, <2>3, TakeRight
  <2>5. Len(buf) = SizeOf(kDataMessageType) => (data <=> sent.msg.sender < ProcessCount)
    BY <1>2, <1>6, <2>1 DEF Decodes, ValidDataMsg
  <2>6. taken' # Dropped => Len(buf) = SizeOf(kDataMessageType)
    BY <2>2 DEF Take, Decodes
  <2> QED BY <1>3, <1>4, <1>6, <2>4, <2>5, <2>6, ServerFields, Zenon
<1>7. CASE Len(buf) >= WordBytes /\ sent.type = kSeqMessageType
  <2>1. TypeField = kSeqMessageType
    BY <1>2, <1>7
  <2>2. Take(kSeqMessageType, seq)
    BY <1>4, <1>7, <2>1, Zenon DEF AtServer
  <2>3. seq \in BOOLEAN /\ (seq => TypeField = kSeqMessageType)
    BY DEF ValidSeqMsg
  <2>4. /\ taken' = Dropped \/ (taken' = sent /\ seq)
        /\ seq /\ Len(buf) = SizeOf(kSeqMessageType) => taken' = sent
    <3> HIDE DEF seq
    <3> QED BY <1>1, <1>4, <1>7, <2>2, <2>3, TakeRight
  <2>5. Len(buf) = SizeOf(kSeqMessageType) =>
          (seq <=> /\ sent.msg.sender < ProcessCount
                   /\ sent.msg.final_seq_proposer < ProcessCount)
    BY <1>2, <1>7, <2>1 DEF Decodes, ValidSeqMsg
  <2>6. taken' # Dropped => Len(buf) = SizeOf(kSeqMessageType)
    BY <2>2 DEF Take, Decodes
  <2> QED BY <1>3, <1>4, <1>7, <2>4, <2>5, <2>6, ServerFields, Zenon
<1>8. CASE Len(buf) >= WordBytes /\ sent.type \notin {kDataMessageType, kSeqMessageType}
  <2>1. TypeField # kDataMessageType /\ TypeField # kSeqMessageType
    BY <1>2, <1>8
  <2>2. taken' = Dropped
    BY <1>8, <2>1, Zenon DEF AtServer
  <2> QED BY <1>8, <2>2, Zenon
<1>9. CASE ~(Len(buf) >= WordBytes)
  <2>1. taken' = Dropped
    BY <1>9, Zenon DEF AtServer
  <2>2. Len(buf) # SizeOf(sent.type)
    BY <1>2, <1>9
  <2> QED BY <2>1, <2>2, Zenon
<1> QED BY <1>6, <1>7, <1>8, <1>9, Zenon

LEMMA WireInvInit == Init => WireInv
<1> SUFFICES ASSUME Init PROVE WireInv
  OBVIOUS
<1>1. sent = Dropped /\ buf = << >> /\ place = "nowhere" /\ taken = Dropped
      /\ order \in [{"from", "to"} -> {"big", "little"}]
  BY DEF Init
<1> QED BY <1>1 DEF WireInv, UnderstoodAsSent, NoneRefused

LEMMA WireInvNext ==
  ASSUME WireInv, [Next]_vars
  PROVE  WireInv'
<1>1. CASE UNCHANGED vars
  <2>1. CASE place = "nowhere"
    BY <1>1, <2>1 DEF vars, WireInv, UnderstoodAsSent, NoneRefused
  <2>2. CASE place # "nowhere"
    <3>1. /\ (sent = [type |-> sent.type, msg |-> sent.msg])'
          /\ Datagram(sent.type, sent.msg, Len(buf))'
      BY <1>1, <2>2, DatagramStays DEF vars
    <3>2. UnderstoodAsSent' /\ NoneRefused'
      BY <1>1 DEF vars, WireInv, UnderstoodAsSent, NoneRefused, SizeOf
    <3> QED BY <1>1, <3>1, <3>2 DEF vars, WireInv
  <2> QED BY <2>1, <2>2
<1> QED
  BY <1>1, SendStep, ServerStep, DataSenderStep, SeqSenderStep, AgainStep, Zenon
     DEF Next

\* The datagram and what is made of it are as WireInv says, in every run.
THEOREM WireInvariant == Spec => []WireInv
<1>1. WireInv /\ [Next]_vars => WireInv'
  BY WireInvNext
<1> QED BY <1>1, WireInvInit, PTL DEF Spec

\* What a FromBuf function and its Valid function let pass is the message that
\* was sent, of the type it was sent as: no byte order, no other struct of the
\* same size and no datagram cut short makes it another.
THEOREM TakenIsSent == Spec => []UnderstoodAsSent
<1>1. WireInv => UnderstoodAsSent
  BY DEF WireInv
<1> QED BY <1>1, WireInvariant, PTL

\* A whole message that reaches the end it is for is taken there, whatever its
\* sequence numbers, msg_id and data: the tests refuse nothing they should not.
THEOREM WholeIsTaken == Spec => []NoneRefused
<1>1. WireInv => NoneRefused
  BY DEF WireInv
<1> QED BY <1>1, WireInvariant, PTL

\* The datagram is a sequence of bytes, and a message that HandleDataMsg or
\* HandleSeqMsg works on names processes of the list only.
THEOREM WireTypes == Spec => []TypeOK
<1>1. WireInv => TypeOK
  <2> SUFFICES ASSUME WireInv PROVE TypeOK
    OBVIOUS
  <2>1. CASE place = "nowhere"
    <3>1. taken.type = 0 /\ buf \in Seq(0 .. ByteBase - 1)
      BY <2>1, SMT DEF WireInv, Dropped
    <3> QED BY <2>1, <3>1 DEF WireInv, TypeOK
  <2>2. CASE place # "nowhere"
    <3>1. buf \in Seq(0 .. ByteBase - 1) /\ sent.type \in Types
      BY <2>2, Decoded DEF WireInv, Datagram, Byte
    <3>2. taken.type \in Types \cup {0}
      <4>1. taken = Dropped \/ taken = sent
        BY DEF WireInv, UnderstoodAsSent
      <4>2. Dropped.type = 0
        BY DEF Dropped
      <4> QED BY <3>1, <4>1, <4>2
    <3> QED BY <3>1, <3>2, Zenon DEF WireInv, TypeOK
  <2> QED BY <2>1, <2>2
<1> QED BY <1>1, WireInvariant, PTL
=============================================================================
