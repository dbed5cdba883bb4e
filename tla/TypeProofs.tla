----------------------------- MODULE TypeProofs ------------------------------
(***************************************************************************)
(* Proofs about TotalOrder, for any number of processes and threads.       *)
(***************************************************************************)
EXTENDS TotalOrderInv, TLAPS

----------------------------------------------------------------------------
(* Sequences.  The few facts the proofs need of them, stated here to keep    *)
(* the context of every step small.                                         *)

\* The domain of a sequence.
LEMMA SeqDomain ==
  ASSUME NEW S, NEW s \in Seq(S)
  PROVE  Len(s) \in Nat /\ DOMAIN s = 1 .. Len(s)
OBVIOUS

\* The elements of a sequence.
LEMMA SeqElement ==
  ASSUME NEW S, NEW s \in Seq(S), NEW n \in 1 .. Len(s)
  PROVE  s[n] \in S
OBVIOUS

\* Appending an element.
LEMMA SeqAppend ==
  ASSUME NEW S, NEW s \in Seq(S), NEW e \in S
  PROVE  /\ Append(s, e) \in Seq(S)
         /\ Len(Append(s, e)) = Len(s) + 1
         /\ \A n \in 1 .. Len(s) : Append(s, e)[n] = s[n]
         /\ Append(s, e)[Len(s) + 1] = e
OBVIOUS

\* Joining two sequences.
LEMMA SeqConcat ==
  ASSUME NEW S, NEW l \in Seq(S), NEW r \in Seq(S)
  PROVE  /\ l \o r \in Seq(S)
         /\ Len(l \o r) = Len(l) + Len(r)
         /\ \A n \in 1 .. Len(l) + Len(r) :
              (l \o r)[n] = IF n <= Len(l) THEN l[n] ELSE r[n - Len(l)]
OBVIOUS

----------------------------------------------------------------------------
(* Paths of the network. *)

\* Taking the datagram at position i off a path shifts the later ones down.
LEMMA WithoutProperties ==
  ASSUME NEW S, NEW s \in Seq(S), NEW i \in DOMAIN s
  PROVE  /\ Without(s, i) \in Seq(S)
         /\ \A j \in DOMAIN Without(s, i) :
              \/ j < i /\ j \in DOMAIN s /\ Without(s, i)[j] = s[j]
              \/ j >= i /\ j + 1 \in DOMAIN s /\ Without(s, i)[j] = s[j + 1]
<1> DEFINE l == SubSeq(s, 1, i - 1)
           r == SubSeq(s, i + 1, Len(s))
<1>1. DOMAIN s = 1 .. Len(s) /\ Len(s) \in Nat /\ i \in 1 .. Len(s)
  BY SeqDomain
<1>2. /\ l \in Seq(S)
      /\ Len(l) = i - 1
      /\ \A j \in 1 .. i - 1 : l[j] = s[j]
  BY <1>1
<1>3. /\ r \in Seq(S)
      /\ Len(r) = Len(s) - i
      /\ \A j \in 1 .. Len(s) - i : r[j] = s[i + j]
  BY <1>1
<1> DEFINE c == l \o r
<1> HIDE DEF l, r
<1>4. /\ c \in Seq(S)
      /\ Len(c) = Len(l) + Len(r)
      /\ \A j \in 1 .. Len(l) + Len(r) :
           c[j] = IF j <= Len(l) THEN l[j] ELSE r[j - Len(l)]
  BY <1>2, <1>3, SeqConcat, Zenon DEF c
<1> HIDE DEF c
<1>5. Without(s, i) = c
  BY DEF Without, c, l, r
<1>6. DOMAIN c = 1 .. Len(s) - 1
  BY <1>1, <1>2, <1>3, <1>4, SeqDomain
<1>7. ASSUME NEW j \in 1 .. Len(s) - 1
      PROVE  \/ j < i /\ j \in DOMAIN s /\ c[j] = s[j]
             \/ j >= i /\ j + 1 \in DOMAIN s /\ c[j] = s[j + 1]
  <2>1. CASE j <= i - 1
    BY <2>1, <1>1, <1>2, <1>3, <1>4
  <2>2. CASE ~(j <= i - 1)
    <3>1. j - (i - 1) \in 1 .. Len(s) - i /\ i + (j - (i - 1)) = j + 1
      BY <2>2, <1>1
    <3>2. c[j] = r[j - (i - 1)]
      BY <2>2, <1>1, <1>2, <1>3, <1>4
    <3>3. r[j - (i - 1)] = s[i + (j - (i - 1))]
      BY <3>1, <1>3, Zenon
    <3> QED BY <2>2, <3>1, <3>2, <3>3, <1>1
  <2> QED BY <2>1, <2>2
<1> QED BY <1>4, <1>5, <1>6, <1>7

\* A transmission adds the datagram at the end of the path, or nothing.
LEMMA TransmitProperties ==
  ASSUME NEW S, NEW path \in Seq(S), NEW m \in S, NEW lost
  PROVE  /\ Transmit(path, m, lost) \in Seq(S)
         /\ \A j \in DOMAIN Transmit(path, m, lost) :
              \/ j \in DOMAIN path /\ Transmit(path, m, lost)[j] = path[j]
              \/ j = Len(path) + 1 /\ Transmit(path, m, lost)[j] = m
<1>1. /\ Append(path, m) \in Seq(S)
      /\ DOMAIN Append(path, m) = 1 .. Len(path) + 1
      /\ \A j \in 1 .. Len(path) : Append(path, m)[j] = path[j]
      /\ Append(path, m)[Len(path) + 1] = m
      /\ DOMAIN path = 1 .. Len(path) /\ Len(path) \in Nat
  BY SeqAppend, SeqDomain
<1> QED BY <1>1 DEF Transmit

----------------------------------------------------------------------------
(* Types. *)

\* The key of a message, (sender, msg_id), names its sender and its id.
LEMMA KeyType ==
  /\ \A t \in Threads :
       Key(t) \in Keys /\ Key(t).sender = Sender[t] /\ Key(t).msg_id = MsgId[t]
  /\ \A k \in Keys : k.sender \in Procs /\ k.msg_id \in Nat
  BY ConstantsAssumption DEF Key, Keys

\* NextSeqNum and ForwardSeqNum stay within the sequence numbers.
LEMMA SeqNumType ==
  /\ 0 \in SeqNums /\ SeqNums \subseteq Nat
  /\ \A n \in SeqNums : NextSeqNum(n) \in SeqNums
  /\ \A n, m \in SeqNums : ForwardSeqNum(n, m) \in SeqNums
  BY ConstantsAssumption DEF SeqNums, NextSeqNum, ForwardSeqNum

\* ClientForId(pid) is a client of the process while pid is in bounds.
LEMMA ClientType ==
  ASSUME TypeOK, NEW t \in Threads, dest[t] < N
  PROVE  dest[t] \in Procs /\ Client(t) \in Clients
  BY ConstantsAssumption DEF TypeOK, Procs, Clients, Client

\* The messages and queue entries the code builds are well formed.
LEMMA MessageTypes ==
  ASSUME NEW pmk \in Keys, NEW pms \in PendingSeqs
  PROVE  /\ AckMessage(pmk, pms) \in Replies
         /\ SeqAckMessage(pmk) \in Replies
         /\ SeqMessage(pmk, pms) \in SeqMessages
         /\ SeqMessage(pmk, pms) \in Requests
         /\ \A b \in BOOLEAN : PendingMessage(pmk, pms, b) \in PendingMessages
  BY DEF PendingSeqs, AckMessage, SeqAckMessage, SeqMessage, Replies,
         SeqMessages, Requests, PendingMessage, PendingMessages

\* sendto by a thread puts a well-formed datagram on the path, or none.
LEMMA SendType ==
  ASSUME TypeOK, NEW t \in Threads, dest[t] < N, NEW lost, Send(t, lost)
  PROVE  requests' \in [Clients -> Seq(Requests)]
<1>1. Outgoing(t) \in Requests
  BY KeyType, MessageTypes DEF TypeOK, Outgoing, DataMessage, Requests
<1>2. Client(t) \in Clients
  BY ClientType
<1>3. requests[Client(t)] \in Seq(Requests)
  BY <1>2 DEF TypeOK
<1>4. Transmit(requests[Client(t)], Outgoing(t), lost) \in Seq(Requests)
  BY <1>1, <1>3, TransmitProperties
<1> QED BY <1>2, <1>4 DEF TypeOK, Send

\* recvfrom by a thread takes a well-formed reply off its path.
LEMMA ReceiveType ==
  ASSUME TypeOK, NEW t \in Threads, NEW i, Receive(t, i)
  PROVE  /\ dest[t] < N
         /\ i \in DOMAIN replies[Client(t)]
         /\ replies[Client(t)][i] \in Replies
         /\ replies' \in [Clients -> Seq(Replies)]
<1>1. dest[t] < N /\ i \in DOMAIN replies[Client(t)]
  BY DEF TypeOK, Receive, Arrivals
<1>2. Client(t) \in Clients
  BY <1>1, ClientType
<1>3. replies[Client(t)] \in Seq(Replies)
  BY <1>2 DEF TypeOK
<1>4. Without(replies[Client(t)], i) \in Seq(Replies)
  BY <1>1, <1>3, WithoutProperties
<1>5. replies[Client(t)][i] \in Replies
  BY <1>1, <1>3, SeqElement, SeqDomain
<1> QED BY <1>1, <1>2, <1>4, <1>5 DEF TypeOK, Receive

\* recvfrom by a server takes a well-formed request off the path.
LEMMA RecvType ==
  ASSUME TypeOK, NEW c \in Clients, NEW i, Recv(c, i)
  PROVE  /\ i \in DOMAIN requests[c]
         /\ requests[c][i] \in Requests
         /\ requests[c][i].pmk \in Keys
         /\ requests' \in [Clients -> Seq(Requests)]
<1>1. i \in DOMAIN requests[c]
  BY DEF Recv, Arrivals
<1>3. requests[c] \in Seq(Requests)
  BY DEF TypeOK
<1>4. Without(requests[c], i) \in Seq(Requests)
  BY <1>1, <1>3, WithoutProperties
<1>5. requests[c][i] \in Requests
  BY <1>1, <1>3, SeqElement, SeqDomain
<1>6. requests[c][i].pmk \in Keys
  BY <1>5 DEF Requests, SeqMessages
<1> QED BY <1>1, <1>4, <1>5, <1>6 DEF TypeOK, Recv

\* sendto by a server puts a well-formed reply on the path, or none.
LEMMA ReplyType ==
  ASSUME TypeOK, NEW c \in Clients, NEW m \in Replies, NEW lost,
         Reply(c, m, lost)
  PROVE  replies' \in [Clients -> Seq(Replies)]
<1>1. Transmit(replies[c], m, lost) \in Seq(Replies)
  BY TransmitProperties DEF TypeOK
<1> QED BY <1>1 DEF TypeOK, Reply

\* The steps of the sender threads preserve the types.
LEMMA ThreadTypeStep ==
  ASSUME TypeOK, NEW t \in Threads, ThreadStep(t)
  PROVE  TypeOK'
<1>1. ASSUME NEW lost \in BOOLEAN, BeginSend(t, lost)
      PROVE  TypeOK'
  <2>1. requests' \in [Clients -> Seq(Requests)]
    BY <1>1, SendType DEF BeginSend
  <2> QED BY <1>1, <2>1 DEF TypeOK, BeginSend, serverVars
<1>2. ASSUME NEW lost \in BOOLEAN, Timeout(t, lost)
      PROVE  TypeOK'
  <2>1. requests' \in [Clients -> Seq(Requests)]
    BY <1>2, SendType DEF Timeout, TypeOK
  <2> QED BY <1>2, <2>1 DEF TypeOK, Timeout, serverVars, threadVars
<1>3. ASSUME NEW i, NEW lost \in BOOLEAN, RejectAck(t, i, lost)
      PROVE  TypeOK'
  <2>1. dest[t] < N /\ replies' \in [Clients -> Seq(Replies)]
    BY <1>3, ReceiveType DEF RejectAck
  <2>2. requests' \in [Clients -> Seq(Requests)]
    BY <1>3, <2>1, SendType DEF RejectAck
  <2> QED BY <1>3, <2>1, <2>2 DEF TypeOK, RejectAck, serverVars, threadVars
<1>4. ASSUME NEW i, HandleAck(t, i)
      PROVE  TypeOK'
  <2> DEFINE m == replies[Client(t)][i]
  <2>1. /\ dest[t] < N
        /\ m \in Replies
        /\ replies' \in [Clients -> Seq(Replies)]
    BY <1>4, ReceiveType DEF HandleAck
  <2>2. m.proposed_seq \in SeqNums
    BY <1>4, <2>1 DEF HandleAck, ValidAck, ValidAckMsg, Replies
  <2>3. dest[t] \in Procs /\ dest[t] + 1 \in 0 .. N
    BY <2>1, ClientType, ConstantsAssumption DEF Procs
  <2>4. seqs' = [seqs EXCEPT ![t][dest[t]] = m.proposed_seq]
    BY <1>4 DEF HandleAck
  <2> HIDE DEF m
  <2>5. seqs' \in [Threads -> [Procs -> SeqNums]]
    BY <2>2, <2>3, <2>4 DEF TypeOK
  <2> QED BY <1>4, <2>1, <2>3, <2>5 DEF TypeOK, HandleAck, EndSend, serverVars
<1>5. ASSUME NEW i, HandleSeqAck(t, i)
      PROVE  TypeOK'
  <2>1. dest[t] < N /\ replies' \in [Clients -> Seq(Replies)]
    BY <1>5, ReceiveType DEF HandleSeqAck
  <2>2. dest[t] + 1 \in 0 .. N
    BY <2>1, ClientType, ConstantsAssumption DEF Procs
  <2> QED BY <1>5, <2>1, <2>2 DEF TypeOK, HandleSeqAck, EndSend, serverVars
<1>6. ASSUME ChooseFinal(t)
      PROVE  TypeOK'
  <2>1. PICK pid \in Procs :
          final' = [final EXCEPT ![t] =
                      [seq |-> seqs[t][pid], seq_proposer |-> pid]]
    BY <1>6 DEF ChooseFinal
  <2>2. final' \in [Threads -> PendingSeqs]
    BY <2>1 DEF TypeOK, PendingSeqs
  <2>3. 0 \in 0 .. N /\ 0 < N
    BY ConstantsAssumption
  <2> QED BY <1>6, <2>2, <2>3 DEF TypeOK, ChooseFinal, serverVars
<1> QED BY <1>1, <1>2, <1>3, <1>4, <1>5, <1>6 DEF ThreadStep

\* HandleDataMsg, in terms of the sequence number it puts in the queue.
LEMMA DataTypeStep ==
  ASSUME TypeOK, NEW c \in Clients, NEW i, NEW lost \in BOOLEAN,
         HandleDataMsg(c, i, lost)
  PROVE  TypeOK'
<1> DEFINE p   == c[2]
           pmk == requests[c][i].pmk
           new == [seq |-> NextSeqNum(seq_counter[p]), seq_proposer |-> p]
           pms == IF Lookup(pending_seqs[p], pmk)
                  THEN pending_seqs[p][pmk] ELSE new
<1>1. p \in Procs
  BY DEF Clients
<1>2. pmk \in Keys /\ requests' \in [Clients -> Seq(Requests)]
  BY RecvType DEF HandleDataMsg
<1>3. new \in PendingSeqs
  BY <1>1, SeqNumType DEF TypeOK, PendingSeqs
<1>4. pms \in PendingSeqs
  BY <1>1, <1>3 DEF TypeOK, Lookup
<1>5. AckMessage(pmk, pms) \in Replies
  BY <1>2, <1>4, MessageTypes
<1>6. Reply(c, AckMessage(pmk, pms), lost)
  BY DEF HandleDataMsg
<1>7. replies' \in [Clients -> Seq(Replies)]
  BY <1>5, <1>6, ReplyType
<1>8. UNCHANGED <<serving, delivered, pc, dest, awaiting, seqs, final>>
  BY DEF HandleDataMsg, threadVars
<1>9. CASE Lookup(pending_seqs[p], pmk)
  <2>1. UNCHANGED <<seq_counter, pending_seqs, ordering>>
    BY <1>9 DEF HandleDataMsg
  <2> QED BY <2>1, <1>2, <1>7, <1>8 DEF TypeOK
<1>10. CASE ~Lookup(pending_seqs[p], pmk)
  <2>1. /\ seq_counter' = [seq_counter EXCEPT ![p] = new.seq]
        /\ pending_seqs' = [pending_seqs EXCEPT ![p] = MapInsert(@, pmk, new)]
        /\ ordering' =
             [ordering EXCEPT ![p] = InsertUndeliverable(@, pmk, new)]
    BY <1>10 DEF HandleDataMsg
  <2> HIDE DEF new, pms, pmk
  <2>2. seq_counter' \in [Procs -> SeqNums]
    BY <1>1, <1>3, <2>1 DEF TypeOK, PendingSeqs
  <2>3. /\ DOMAIN pending_seqs' = Procs
        /\ \A q \in Procs : /\ DOMAIN pending_seqs'[q] \subseteq Keys
                            /\ \A k \in DOMAIN pending_seqs'[q] :
                                 pending_seqs'[q][k] \in PendingSeqs
    BY <1>1, <1>2, <1>3, <2>1 DEF TypeOK, MapInsert
  <2>4. PendingMessage(pmk, new, FALSE) \in PendingMessages
    BY <1>2, <1>3, MessageTypes
  <2>5. ordering' \in [Procs -> SUBSET PendingMessages]
    BY <1>1, <2>1, <2>4 DEF TypeOK, InsertUndeliverable, SetInsert
  <2> QED BY <1>2, <1>7, <1>8, <2>2, <2>3, <2>5 DEF TypeOK
<1> QED BY <1>9, <1>10

\* HandleSeqMsg, up to the delivery loop.
LEMMA SeqTypeStep ==
  ASSUME TypeOK, NEW c \in Clients, NEW i, NEW lost \in BOOLEAN,
         HandleSeqMsg(c, i, lost)
  PROVE  TypeOK'
<1> DEFINE p   == c[2]
           m   == requests[c][i]
           pms == [seq |-> m.final_seq, seq_proposer |-> m.final_seq_proposer]
<1>1. p \in Procs
  BY DEF Clients
<1>2. m \in SeqMessages /\ requests' \in [Clients -> Seq(Requests)]
  BY RecvType DEF HandleSeqMsg, Requests
<1>3. m.pmk \in Keys /\ m.final_seq \in SeqNums /\ pms \in PendingSeqs
  BY <1>2 DEF SeqMessages, PendingSeqs
<1>4. Reply(c, SeqAckMessage(m.pmk), lost)
  BY DEF HandleSeqMsg
<1>5. replies' \in [Clients -> Seq(Replies)]
  BY <1>3, <1>4, MessageTypes, ReplyType
<1>6. UNCHANGED <<delivered, pc, dest, awaiting, seqs, final>>
  BY DEF HandleSeqMsg, threadVars
<1>7. seq_counter' = [seq_counter EXCEPT ![p] = ForwardSeqNum(@, m.final_seq)]
  BY DEF HandleSeqMsg
<1>8. seq_counter' \in [Procs -> SeqNums]
  BY <1>1, <1>3, <1>7, SeqNumType DEF TypeOK
<1>9. CASE ~Lookup(pending_seqs[p], m.pmk)
  <2>1. UNCHANGED <<pending_seqs, ordering, serving>>
    BY <1>9 DEF HandleSeqMsg
  <2> QED BY <2>1, <1>2, <1>5, <1>6, <1>8 DEF TypeOK
<1>10. CASE Lookup(pending_seqs[p], m.pmk)
  <2>1. /\ pending_seqs' = [pending_seqs EXCEPT ![p] = MapErase(@, m.pmk)]
        /\ ordering' = [ordering EXCEPT ![p] =
                          Reinsert(@, m.pmk, pending_seqs[p][m.pmk], pms)]
        /\ serving' = [serving EXCEPT ![p] = "deliver"]
    BY <1>10 DEF HandleSeqMsg
  <2> HIDE DEF m, pms
  <2>2. /\ DOMAIN pending_seqs' = Procs
        /\ \A q \in Procs : /\ DOMAIN pending_seqs'[q] \subseteq Keys
                            /\ \A k \in DOMAIN pending_seqs'[q] :
                                 pending_seqs'[q][k] \in PendingSeqs
    BY <1>1, <2>1 DEF TypeOK, MapErase
  <2>3. PendingMessage(m.pmk, pms, TRUE) \in PendingMessages
    BY <1>3, MessageTypes
  <2>4. ordering' \in [Procs -> SUBSET PendingMessages]
    BY <1>1, <2>1, <2>3 DEF TypeOK, Reinsert, SetInsert, SetErase
  <2>5. serving' \in [Procs -> {"listen", "deliver"}]
    BY <1>1, <2>1 DEF TypeOK
  <2> QED BY <1>2, <1>5, <1>6, <1>8, <2>2, <2>4, <2>5 DEF TypeOK
<1> QED BY <1>9, <1>10

\* The iterations of the delivery loop and its end.
LEMMA DeliverTypeStep ==
  ASSUME TypeOK, NEW p \in Procs, Deliver(p) \/ EndDelivery(p)
  PROVE  TypeOK'
<1>1. CASE Deliver(p)
  <2>1. PICK pm \in ordering[p] :
          /\ delivered' =
               [delivered EXCEPT ![p] = Append(@, SeqMessage(pm.pmk, pm))]
          /\ ordering' = [ordering EXCEPT ![p] = @ \ {pm}]
    BY <1>1 DEF Deliver
  <2>2. SeqMessage(pm.pmk, pm) \in SeqMessages
    BY DEF TypeOK, PendingMessages, SeqMessage, SeqMessages
  <2>3. delivered' \in [Procs -> Seq(SeqMessages)]
    BY <2>1, <2>2, SeqAppend DEF TypeOK
  <2>4. ordering' \in [Procs -> SUBSET PendingMessages]
    BY <2>1 DEF TypeOK
  <2> QED BY <1>1, <2>3, <2>4 DEF TypeOK, Deliver, threadVars
<1>2. CASE EndDelivery(p)
  BY <1>2 DEF TypeOK, EndDelivery, threadVars
<1> QED BY <1>1, <1>2

\* The types are an invariant of every run of the processes.
THEOREM TypeCorrect == Spec => []TypeOK
<1>1. Init => TypeOK
  <2> SUFFICES ASSUME Init PROVE TypeOK
    OBVIOUS
  <2>1. 0 \in SeqNums /\ 0 \in Procs /\ 0 \in 0 .. N
    BY ConstantsAssumption, SeqNumType DEF Procs
  <2>2. final \in [Threads -> PendingSeqs]
    BY <2>1 DEF Init, PendingSeqs
  <2> QED BY <2>1, <2>2 DEF Init, TypeOK
<1>2. TypeOK /\ [Next]_vars => TypeOK'
  <2> SUFFICES ASSUME TypeOK, [Next]_vars PROVE TypeOK'
    OBVIOUS
  <2>1. CASE UNCHANGED vars
    BY <2>1 DEF TypeOK, vars
  <2>2. ASSUME NEW t \in Threads, ThreadStep(t) PROVE TypeOK'
    BY <2>2, ThreadTypeStep
  <2>3. ASSUME NEW p \in Procs, ServerStep(p) PROVE TypeOK'
    <3>1. \A q \in Procs : <<q, p>> \in Clients
      BY DEF Clients
    <3> QED BY <2>3, <3>1, DataTypeStep, SeqTypeStep, DeliverTypeStep
            DEF ServerStep
  <2> QED BY <2>1, <2>2, <2>3 DEF Next
<1> QED BY <1>1, <1>2, PTL DEF Spec
=============================================================================
