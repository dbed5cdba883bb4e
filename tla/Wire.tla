-------------------------------- MODULE Wire --------------------------------
(***************************************************************************)
(* The wire format: the structs of message.h, htonl and ntohl on hosts of  *)
(* either byte order, the Send functions that encode the structs, and what *)
(* a datagram meets at the server (MessageTypeFromBuf, the dispatch, the   *)
(* decoding and validation of HandleDataMsg and HandleSeqMsg) and at a     *)
(* sender that waits for an acknowledgement.                               *)
(*                                                                         *)
(* A word, the code's uint32_t, is four bytes of ByteBase values (the      *)
(* code: 256), a buffer a sequence of bytes.  A datagram may come from a   *)
(* process with another list, or end early.                                *)
(***************************************************************************)
EXTENDS Integers, Sequences

CONSTANTS
  ByteBase,      \* the number of values of a byte
  ProcessCount,  \* processes_.size()
  Words,         \* the values the fields of a message take
  Cuts           \* lengths at which a datagram may end early

WordBytes == 4
WordLimit == ByteBase * ByteBase * ByteBase * ByteBase

ASSUME WordAssumption ==
  /\ ByteBase \in Nat \ {0, 1}
  /\ ProcessCount \in Nat
  /\ Words \subseteq 0 .. WordLimit - 1

VARIABLES
  order,     \* order["from"], order["to"]: the byte orders of the two hosts
  sent,      \* the type and the fields given to a Send function
  buf,       \* the datagram
  place,     \* where it arrives: the server, or a sender waiting for exp
  exp,       \* the fields of the message that the sender wants acknowledged
  taken      \* the type and the fields it is taken for, or Dropped

vars == <<order, sent, buf, place, exp, taken>>

kDataMessageType == 1
kAckMessageType == 2
kSeqMessageType == 3
kSeqAckMessageType == 4
Types == 1 .. 4

\* The fields of each struct after its type.
DataMessage == <<"sender", "msg_id", "data">>
AckMessage == <<"sender", "msg_id", "proposed_seq", "proposer">>
SeqMessage == <<"sender", "msg_id", "final_seq", "final_seq_proposer">>
SeqAckMessage == <<"sender", "msg_id">>
Struct == <<DataMessage, AckMessage, SeqMessage, SeqAckMessage>>

Fields(type) == {Struct[type][i] : i \in DOMAIN Struct[type]}

SizeOf(type) == WordBytes * (1 + Len(Struct[type]))
Messages(type) == [Fields(type) -> Words]

Dropped == [type |-> 0]

-----------------------------------------------------------------------------
(* Integers in memory. *)

BigEndian(n) ==
  LET q1 == n \div ByteBase
      q2 == q1 \div ByteBase
      q3 == q2 \div ByteBase
  IN <<q3 % ByteBase, q2 % ByteBase, q1 % ByteBase, n % ByteBase>>
FromBigEndian(b) ==
  ((b[1] * ByteBase + b[2]) * ByteBase + b[3]) * ByteBase + b[4]
Swapped(b) == <<b[4], b[3], b[2], b[1]>>

\* The memory image of an integer on a host, and the integer of an image.
Store(host, n) ==
  IF order[host] = "big" THEN BigEndian(n) ELSE Swapped(BigEndian(n))
Load(host, bytes) ==
  FromBigEndian(IF order[host] = "big" THEN bytes ELSE Swapped(bytes))

\* The integer whose image on this host is n in network order, and back.
htonl(host, n) == Load(host, BigEndian(n))
ntohl(host, n) == FromBigEndian(Store(host, n))

-----------------------------------------------------------------------------
(* Encoding and decoding. *)

\* The Send functions convert the type and each field and send the struct, word
\* after word.
Field(type, msg, i) == IF i = 0 THEN type ELSE msg[Struct[type][i]]
Encode(type, msg) ==
  [j \in 1 .. SizeOf(type) |->
     LET field == Field(type, msg, (j - 1) \div WordBytes)
     IN Store("from", htonl("from", field))[((j - 1) % WordBytes) + 1]]

Word(i) ==
  ntohl("to", Load("to", SubSeq(buf, WordBytes * i + 1, WordBytes * (i + 1))))

\* Decodes gone wrong: a datagram longer than the struct is required.
DecodesLonger(type) == Len(buf) > SizeOf(type)

\* The size test of DataMsgFromBuf, AckMsgFromBuf, ..., and what they return.
Decodes(type) == Len(buf) = SizeOf(type)
FromBuf(type) ==
  [f \in Fields(type) |->
     Word(CHOOSE i \in DOMAIN Struct[type] : Struct[type][i] = f)]
TypeField == Word(0)

ValidDataMsg(msg) ==
  TypeField = kDataMessageType /\ msg.sender < ProcessCount

\* ValidAckMsg gone wrong: the size is trusted to tell the type.
ValidAckMsgUntyped(msg, wanted) ==
  \A f \in {"sender", "msg_id", "proposer"} : msg[f] = wanted[f]

ValidAckMsg(msg, wanted) ==
  /\ TypeField = kAckMessageType
  /\ \A f \in {"sender", "msg_id", "proposer"} : msg[f] = wanted[f]

\* ValidSeqMsg gone wrong: the proposer is not looked at.
ValidSeqMsgAnyProposer(msg) ==
  TypeField = kSeqMessageType /\ msg.sender < ProcessCount

ValidSeqMsg(msg) ==
  /\ TypeField = kSeqMessageType
  /\ msg.sender < ProcessCount
  /\ msg.final_seq_proposer < ProcessCount

ValidSeqAckMsg(msg, wanted) ==
  /\ TypeField = kSeqAckMessageType
  /\ \A f \in {"sender", "msg_id"} : msg[f] = wanted[f]

-----------------------------------------------------------------------------
(* The two ends. *)

Init ==
  /\ order \in [{"from", "to"} -> {"big", "little"}]
  /\ sent = Dropped /\ buf = << >> /\ place = "nowhere" /\ exp = << >>
  /\ taken = Dropped

\* SendDataMsg, SendAckMsg, SendSeqMsg and SendSeqAckMsg.
Send(type) ==
  /\ place = "nowhere"
  /\ \E msg \in Messages(type),
        size \in {SizeOf(type)} \cup (Cuts \cap 0 .. SizeOf(type)) :
       /\ sent' = [type |-> type, msg |-> msg]
       /\ buf' = SubSeq(Encode(type, msg), 1, size)
  /\ place' = "network"
  /\ UNCHANGED <<order, exp, taken>>

Take(type, valid) ==
  taken' = IF Decodes(type) /\ valid
             THEN [type |-> type, msg |-> FromBuf(type)]
             ELSE Dropped

\* The callback of TotalOrder and the first lines of the two handlers.
AtServer ==
  /\ place = "network"
  /\ place' = "server"
  /\ IF Len(buf) >= WordBytes
       THEN CASE TypeField = kDataMessageType ->
                   Take(kDataMessageType, ValidDataMsg(FromBuf(kDataMessageType)))
              [] TypeField = kSeqMessageType ->
                   Take(kSeqMessageType, ValidSeqMsg(FromBuf(kSeqMessageType)))
              [] OTHER -> taken' = Dropped
       ELSE taken' = Dropped
  /\ UNCHANGED <<order, sent, buf, exp>>

\* handle_ack of LaunchMulticastSender, in the multicast of the data.
AtDataSender ==
  /\ place = "network"
  /\ place' = "data_sender"
  /\ \E wanted \in [{"sender", "msg_id", "proposer"} -> Words] :
       /\ exp' = wanted
       /\ Take(kAckMessageType, ValidAckMsg(FromBuf(kAckMessageType), wanted))
  /\ UNCHANGED <<order, sent, buf>>

\* isValidAck of SendSeqMsg.
AtSeqSender ==
  /\ place = "network"
  /\ place' = "seq_sender"
  /\ \E wanted \in [{"sender", "msg_id"} -> Words] :
       /\ exp' = wanted
       /\ Take(kSeqAckMessageType,
               ValidSeqAckMsg(FromBuf(kSeqAckMessageType), wanted))
  /\ UNCHANGED <<order, sent, buf>>

\* The receiving loop of Listen or SendWithAck starts over, its buffer zeroed.
Again ==
  /\ place \in {"server", "data_sender", "seq_sender"}
  /\ sent' = Dropped /\ buf' = << >> /\ place' = "nowhere" /\ exp' = << >>
  /\ taken' = Dropped
  /\ UNCHANGED order

Next ==
  \/ \E type \in Types : Send(type)
  \/ AtServer \/ AtDataSender \/ AtSeqSender
  \/ Again

Spec == Init /\ [][Next]_vars

-----------------------------------------------------------------------------
(* Properties. *)

\* Every variable has its type.  What the server takes names processes of the
\* list only: sender and final_seq_proposer index processes_.
TypeOK ==
  /\ order \in [{"from", "to"} -> {"big", "little"}]
  /\ buf \in Seq(0 .. ByteBase - 1)
  /\ place \in {"nowhere", "network", "server", "data_sender", "seq_sender"}
  /\ taken.type \in Types \cup {0}
  /\ place = "server" /\ taken # Dropped =>
       \A f \in DOMAIN taken.msg \cap {"sender", "final_seq_proposer"} :
         taken.msg[f] < ProcessCount

\* What is taken from a datagram is the message that was sent, of the type it
\* was sent as: between hosts of any byte orders, an AckMessage is not taken for
\* the SeqMessage of its size, nor a datagram cut short for a smaller struct
\* (the FromBuf functions test the size and the Valid functions the type).
UnderstoodAsSent == taken # Dropped => taken = sent

\* A whole datagram that reaches the end it is for, with fields that this end
\* expects, is taken: the size and validity tests refuse no message of a
\* correct process, whatever its sequence numbers, msg_id and data.
NoneRefused ==
  LET Matches(fields) == \A f \in fields : sent.msg[f] = exp[f]
      Known(fields) == \A f \in fields : sent.msg[f] < ProcessCount
      Meant ==
        CASE place = "server" /\ sent.type = kDataMessageType ->
               Known({"sender"})
          [] place = "server" /\ sent.type = kSeqMessageType ->
               Known({"sender", "final_seq_proposer"})
          [] place = "data_sender" /\ sent.type = kAckMessageType ->
               Matches({"sender", "msg_id", "proposer"})
          [] place = "seq_sender" /\ sent.type = kSeqAckMessageType ->
               Matches({"sender", "msg_id"})
          [] OTHER -> FALSE
  IN Meant /\ Len(buf) = SizeOf(sent.type) => taken = sent
=============================================================================
