---------------------------- MODULE OrderProofs ----------------------------
(***************************************************************************)
(* OrderInv is inductive, and the first deliveries of all processes agree, *)
(* whatever the network loses, delays or reorders.                         *)
(***************************************************************************)
EXTENDS TypeProofs

\* Most steps are first-order; those with arithmetic or records name SMT.
USE Zenon

----------------------------------------------------------------------------
(* The comparator. *)

\* The fields operator< compares are numbers and a flag.
LEMMA EntryType ==
  ASSUME NEW x \in PendingMessages
  PROVE  /\ x.pmk \in Keys
         /\ x.seq \in Nat /\ x.pmk.sender \in Nat /\ x.pmk.msg_id \in Nat
         /\ x.deliverable \in BOOLEAN
<1>1. x.pmk \in Keys /\ x.seq \in SeqNums /\ x.deliverable \in BOOLEAN
  BY DEF PendingMessages
<1>2. x.pmk.sender \in Procs /\ x.pmk.msg_id \in Nat /\ x.seq \in Nat
  BY <1>1, KeyType, SeqNumType
<1> QED BY <1>1, <1>2, ConstantsAssumption, SMT DEF Procs

\* Two entries are equivalent under operator< exactly when they agree on all
\* but the proposer.
LEMMA EquivalentIff ==
  ASSUME NEW x \in PendingMessages, NEW y \in PendingMessages
  PROVE  Equivalent(x, y) <=>
           x.seq = y.seq /\ x.pmk = y.pmk /\ (x.deliverable <=> y.deliverable)
<1>1. /\ x.seq \in Nat /\ y.seq \in Nat
      /\ x.pmk.sender \in Nat /\ y.pmk.sender \in Nat
      /\ x.pmk.msg_id \in Nat /\ y.pmk.msg_id \in Nat
  BY EntryType
<1>2. x.pmk.sender = y.pmk.sender /\ x.pmk.msg_id = y.pmk.msg_id
      => x.pmk = y.pmk
  BY SMT DEF PendingMessages, Keys, Key
<1> QED BY <1>1, <1>2, SMT DEF Equivalent, Less

\* operator< is asymmetric.
LEMMA LessAsymmetric ==
  ASSUME NEW x \in PendingMessages, NEW y \in PendingMessages
  PROVE  ~(Less(x, y) /\ Less(y, x))
<1>1. /\ x.seq \in Nat /\ y.seq \in Nat
      /\ x.pmk.sender \in Nat /\ y.pmk.sender \in Nat
      /\ x.pmk.msg_id \in Nat /\ y.pmk.msg_id \in Nat
  BY EntryType
<1> QED BY <1>1, SMT DEF Less

----------------------------------------------------------------------------
(* What the steps of the network leave on the paths. *)

\* Every request, or every reply, on a path was on it before.
RequestsKept ==
  \A c \in Clients : \A j \in DOMAIN requests'[c] :
    \E k \in DOMAIN requests[c] : requests'[c][j] = requests[c][k]
RepliesKept ==
  \A c \in Clients : \A j \in DOMAIN replies'[c] :
    \E k \in DOMAIN replies[c] : replies'[c][j] = replies[c][k]

\* sendto by a thread adds its message at the end of its path, or nothing.
LEMMA SendPaths ==
  ASSUME TypeOK, NEW t \in Threads, dest[t] < N, NEW lost, Send(t, lost)
  PROVE  \A c \in Clients : \A j \in DOMAIN requests'[c] :
           \/ j \in DOMAIN requests[c] /\ requests'[c][j] = requests[c][j]
           \/ /\ c = Client(t)
              /\ j = Len(requests[c]) + 1
              /\ requests'[c][j] = Outgoing(t)
<1>1. Outgoing(t) \in Requests
  BY KeyType, MessageTypes DEF TypeOK, Outgoing, DataMessage, Requests
<1>2. Client(t) \in Clients
  BY ClientType
<1>3. requests[Client(t)] \in Seq(Requests)
  BY <1>2 DEF TypeOK
<1> DEFINE path == Transmit(requests[Client(t)], Outgoing(t), lost)
<1>4. \A j \in DOMAIN path :
        \/ j \in DOMAIN requests[Client(t)] /\ path[j] = requests[Client(t)][j]
        \/ j = Len(requests[Client(t)]) + 1 /\ path[j] = Outgoing(t)
  BY <1>1, <1>3, TransmitProperties
<1>5. requests' = [requests EXCEPT ![Client(t)] = path]
  BY DEF Send
<1> HIDE DEF path
<1> QED BY <1>2, <1>4, <1>5 DEF TypeOK

\* recvfrom in SendWithAck only takes a reply off a path.
LEMMA ReceivePaths ==
  ASSUME TypeOK, NEW t \in Threads, NEW i, Receive(t, i)
  PROVE  RepliesKept
<1>1. dest[t] < N /\ i \in DOMAIN replies[Client(t)]
  BY ReceiveType
<1>2. Client(t) \in Clients
  BY <1>1, ClientType
<1>3. replies[Client(t)] \in Seq(Replies)
  BY <1>2 DEF TypeOK
<1> DEFINE path == Without(replies[Client(t)], i)
<1>4. \A j \in DOMAIN path :
        \E k \in DOMAIN replies[Client(t)] : path[j] = replies[Client(t)][k]
  BY <1>1, <1>3, WithoutProperties
<1>5. replies' = [replies EXCEPT ![Client(t)] = path]
  BY DEF Receive
<1> HIDE DEF path
<1> QED BY <1>2, <1>4, <1>5 DEF TypeOK, RepliesKept

\* recvfrom in Server::Listen only takes a request off a path.
LEMMA RecvPaths ==
  ASSUME TypeOK, NEW c \in Clients, NEW i, Recv(c, i)
  PROVE  RequestsKept
<1>1. i \in DOMAIN requests[c] /\ requests[c] \in Seq(Requests)
  BY RecvType DEF TypeOK
<1> DEFINE path == Without(requests[c], i)
<1>2. \A j \in DOMAIN path : \E k \in DOMAIN requests[c] : path[j] = requests[c][k]
  BY <1>1, WithoutProperties
<1>3. requests' = [requests EXCEPT ![c] = path]
  BY DEF Recv
<1> HIDE DEF path
<1> QED BY <1>2, <1>3 DEF TypeOK, RequestsKept

\* The acknowledgement of a handler is the only reply it adds.
LEMMA ReplyPaths ==
  ASSUME TypeOK, NEW c \in Clients, NEW m \in Replies, NEW lost,
         Reply(c, m, lost)
  PROVE  \A d \in Clients : \A j \in DOMAIN replies'[d] :
           \/ j \in DOMAIN replies[d] /\ replies'[d][j] = replies[d][j]
           \/ d = c /\ replies'[d][j] = m
<1> DEFINE path == Transmit(replies[c], m, lost)
<1>1. \A j \in DOMAIN path :
        \/ j \in DOMAIN replies[c] /\ path[j] = replies[c][j]
        \/ path[j] = m
  BY TransmitProperties, SMT DEF TypeOK
<1>2. replies' = [replies EXCEPT ![c] = path]
  BY DEF Reply
<1> HIDE DEF path
<1> QED BY <1>1, <1>2 DEF TypeOK

----------------------------------------------------------------------------
(* The steps of the sender threads. *)

\* A step that changes neither the servers nor pc and final, and takes no reply
\* out of nowhere, preserves all of OrderInv but what it says of dest and seqs.
LEMMA QuietOrderStep ==
  ASSUME OrderInv, TypeOK', CollectedSeqsHeld',
         UNCHANGED <<serverVars, pc, final>>,
         \A c \in Clients : \A j \in DOMAIN requests'[c] :
           requests'[c][j].type = "seq" =>
             \E u \in Threads : pc[u] = "seq" /\ requests'[c][j] = FinalMsg(u),
         RepliesKept
  PROVE  OrderInv'
<1> USE DEF OrderInv, serverVars
<1>1. CounterAbove' /\ QueueConsistent'
  BY DEF CounterAbove, QueueConsistent
<1>2. FinalOnly'
  BY DEF FinalOnly, FinalPm, FinalMsg
<1>3. AcksHeld'
  BY SMT DEF AcksHeld, RepliesKept, Holds
<1>4. FinalHeld'
  BY DEF FinalHeld, Holds, Ready, Delivered
<1>5. NeverOvertaken'
  BY DEF NeverOvertaken, Delivered, DeliveredPm, FinalPm, Holds
<1>6. Ascending'
  BY ZenonT(40) DEF Ascending, DeliveredPm
<1> QED BY <1>1, <1>2, <1>3, <1>4, <1>5, <1>6

\* What a thread sends as a SeqMessage is its final sequence number.
LEMMA SendsFinal ==
  ASSUME OrderInv, NEW t \in Threads, dest[t] < N, NEW lost, Send(t, lost)
  PROVE  \A c \in Clients : \A j \in DOMAIN requests'[c] :
           requests'[c][j].type = "seq" =>
             \E u \in Threads : pc[u] = "seq" /\ requests'[c][j] = FinalMsg(u)
<1> SUFFICES ASSUME NEW c \in Clients, NEW j \in DOMAIN requests'[c],
                    requests'[c][j].type = "seq"
             PROVE  \E u \in Threads :
                      pc[u] = "seq" /\ requests'[c][j] = FinalMsg(u)
  OBVIOUS
<1>1. CASE j \in DOMAIN requests[c] /\ requests'[c][j] = requests[c][j]
  BY <1>1 DEF OrderInv, FinalOnly
<1>2. CASE requests'[c][j] = Outgoing(t)
  <2>1. pc[t] = "seq"
    BY <1>2, SMT DEF OrderInv, TypeOK, Outgoing, DataMessage
  <2> QED BY <1>2, <2>1 DEF Outgoing, FinalMsg
<1> QED BY <1>1, <1>2, SendPaths DEF OrderInv

\* Each step of a sender thread but the choice of the final sequence number.
LEMMA SendOrderStep ==
  ASSUME OrderInv, NEW t \in Threads, NEW lost \in BOOLEAN,
         BeginSend(t, lost) \/ Timeout(t, lost) \/ \E i : RejectAck(t, i, lost)
  PROVE  OrderInv'
<1>1. /\ dest[t] < N
      /\ Send(t, lost)
      /\ UNCHANGED <<serverVars, pc, dest, seqs, final>>
      /\ RepliesKept
      /\ TypeOK'
  <2>1. ASSUME BeginSend(t, lost)
        PROVE  <1>1!:
    BY <2>1, ThreadTypeStep DEF OrderInv, BeginSend, ThreadStep, RepliesKept
  <2>2. ASSUME Timeout(t, lost)
        PROVE  <1>1!:
    BY <2>2, ThreadTypeStep
       DEF OrderInv, TypeOK, Timeout, ThreadStep, threadVars, RepliesKept
  <2>3. ASSUME NEW i, RejectAck(t, i, lost)
        PROVE  <1>1!:
    <3>1. Receive(t, i) /\ Send(t, lost) /\ UNCHANGED <<serverVars, threadVars>>
      BY <2>3 DEF RejectAck
    <3>2. dest[t] < N /\ i \in DOMAIN replies[Client(t)] /\ RepliesKept
      BY <3>1, ReceiveType, ReceivePaths DEF OrderInv
    <3>3. ThreadStep(t)
      BY <2>3, <3>1, <3>2 DEF ThreadStep, Receive
    <3> QED BY <3>1, <3>2, <3>3, ThreadTypeStep DEF OrderInv, threadVars
  <2> QED BY <2>1, <2>2, <2>3
<1>2. CollectedSeqsHeld'
  BY <1>1 DEF OrderInv, CollectedSeqsHeld, serverVars
<1> QED BY <1>1, <1>2, SendsFinal, QuietOrderStep

\* handle_ack records the sequence number the process holds the message under.
LEMMA AckOrderStep ==
  ASSUME OrderInv, NEW t \in Threads, NEW i, HandleAck(t, i)
  PROVE  OrderInv'
<1> DEFINE m == replies[Client(t)][i]
           d == dest[t]
<1>1. Receive(t, i) /\ pc[t] = "data" /\ ValidAck(m, t) /\ EndSend(t)
  BY DEF HandleAck
<1>2. /\ d < N
      /\ i \in DOMAIN replies[Client(t)]
      /\ RepliesKept
  BY <1>1, ReceiveType, ReceivePaths DEF OrderInv
<1>3. d \in Procs /\ Client(t) \in Clients /\ Client(t)[2] = d
  BY <1>2, ClientType DEF OrderInv, Client
<1>4. TypeOK'
  <2>1. ThreadStep(t)
    BY <1>1, <1>2 DEF ThreadStep, Receive
  <2> QED BY <2>1, ThreadTypeStep DEF OrderInv
<1>5. /\ Key(t) \in DOMAIN pending_seqs[d]
      /\ pending_seqs[d][Key(t)] = [seq |-> m.proposed_seq, seq_proposer |-> d]
  BY <1>1, <1>2, <1>3 DEF OrderInv, AcksHeld, Holds, ValidAck, ValidAckMsg
<1>6. /\ seqs' = [seqs EXCEPT ![t][d] = m.proposed_seq]
      /\ dest' = [dest EXCEPT ![t] = d + 1]
      /\ UNCHANGED <<serverVars, pc, final, requests>>
  BY DEF HandleAck, EndSend
<1> HIDE DEF m
<1>7. CollectedSeqsHeld'
  <2> SUFFICES ASSUME NEW u \in Threads, pc[u] = "data", NEW p \in Procs,
                      p < dest'[u]
               PROVE  /\ Key(u) \in DOMAIN pending_seqs[p]
                      /\ pending_seqs[p][Key(u)] =
                           [seq |-> seqs'[u][p], seq_proposer |-> p]
    BY <1>6 DEF CollectedSeqsHeld, serverVars
  <2>1. CASE u = t /\ p = d
    <3>1. seqs'[t][d] = m.proposed_seq
      BY <1>3, <1>6 DEF OrderInv, TypeOK
    <3> QED BY <2>1, <3>1, <1>5
  <2>2. CASE ~(u = t /\ p = d)
    <3>1. p < dest[u]
      BY <2>2, <1>3, <1>6, ConstantsAssumption, SMT DEF OrderInv, TypeOK, Procs
    <3>2. seqs'[u][p] = seqs[u][p]
      BY <2>2, <1>3, <1>6 DEF OrderInv, TypeOK
    <3> QED BY <3>1, <3>2, SMT DEF OrderInv, CollectedSeqsHeld
  <2> QED BY <2>1, <2>2
<1>8. \A c \in Clients : \A j \in DOMAIN requests'[c] :
        requests'[c][j].type = "seq" =>
          \E u \in Threads : pc[u] = "seq" /\ requests'[c][j] = FinalMsg(u)
  BY <1>6 DEF OrderInv, FinalOnly
<1> QED BY <1>2, <1>4, <1>6, <1>7, <1>8, QuietOrderStep

\* A SeqAckMessage changes nothing the invariant speaks of but dest.
LEMMA SeqAckOrderStep ==
  ASSUME OrderInv, NEW t \in Threads, NEW i, HandleSeqAck(t, i)
  PROVE  OrderInv'
<1>1. Receive(t, i) /\ pc[t] = "seq"
  BY DEF HandleSeqAck
<1>2. i \in DOMAIN replies[Client(t)] /\ RepliesKept
  BY <1>1, ReceiveType, ReceivePaths DEF OrderInv
<1>3. TypeOK'
  <2>1. ThreadStep(t)
    BY <1>1, <1>2 DEF ThreadStep, Receive
  <2> QED BY <2>1, ThreadTypeStep DEF OrderInv
<1>4. /\ dest' = [dest EXCEPT ![t] = dest[t] + 1]
      /\ UNCHANGED <<serverVars, pc, final, requests, seqs>>
  BY DEF HandleSeqAck, EndSend
<1>5. CollectedSeqsHeld'
  BY <1>1, <1>4 DEF OrderInv, TypeOK, CollectedSeqsHeld, serverVars
<1>6. \A c \in Clients : \A j \in DOMAIN requests'[c] :
        requests'[c][j].type = "seq" =>
          \E u \in Threads : pc[u] = "seq" /\ requests'[c][j] = FinalMsg(u)
  BY <1>4 DEF OrderInv, FinalOnly
<1> QED BY <1>2, <1>3, <1>4, <1>5, <1>6, QuietOrderStep

\* The final sequence number is the greatest under which the message is held,
\* so it is beyond everything delivered so far.
LEMMA ChooseOrderStep ==
  ASSUME OrderInv, DistinctIds, NEW t \in Threads, ChooseFinal(t)
  PROVE  OrderInv'
<1> USE DEF OrderInv
<1>1. PICK pid \in Procs :
        /\ IsFinalProposer(seqs[t], pid)
        /\ final' = [final EXCEPT ![t] =
                       [seq |-> seqs[t][pid], seq_proposer |-> pid]]
  BY DEF ChooseFinal
<1>2. /\ pc[t] = "data"
      /\ dest[t] = N
      /\ pc' = [pc EXCEPT ![t] = "seq"]
      /\ dest' = [dest EXCEPT ![t] = 0]
      /\ UNCHANGED <<serverVars, awaiting, seqs, requests, replies>>
  BY DEF ChooseFinal
<1>3. TypeOK'
  BY ThreadTypeStep DEF ThreadStep
<1>4. /\ pc'[t] = "seq"
      /\ final'[t].seq = seqs[t][pid]
      /\ \A u \in Threads : u # t => pc'[u] = pc[u] /\ final'[u] = final[u]
  BY <1>1, <1>2 DEF TypeOK
<1>5. ASSUME NEW p \in Procs
      PROVE  Holds(p, t) /\ pending_seqs[p][Key(t)].seq <= final'[t].seq
  <2>1. p < dest[t]
    BY <1>2, ConstantsAssumption, SMT DEF Procs
  <2>2. /\ Key(t) \in DOMAIN pending_seqs[p]
        /\ pending_seqs[p][Key(t)] = [seq |-> seqs[t][p], seq_proposer |-> p]
    BY <2>1, <1>2 DEF CollectedSeqsHeld
  <2>3. seqs[t][p] <= seqs[t][pid]
    BY <1>1 DEF IsFinalProposer
  <2> QED BY <2>2, <2>3, <1>4, SMT DEF Holds
<1>6. ASSUME NEW p \in Procs
      PROVE  ~Delivered(p, t) /\ ~Ready(p, t)
  <2>1. \A u \in Threads : FinalMsg(u).pmk = Key(u) /\ FinalPm(u).pmk = Key(u)
    BY DEF FinalMsg, FinalPm, SeqMessage, PendingMessage
  <2> QED BY <1>2, <2>1, SMT DEF FinalOnly, Delivered, Ready, DistinctIds
<1>7. CounterAbove' /\ QueueConsistent'
  BY <1>2 DEF CounterAbove, QueueConsistent, serverVars
<1>8. FinalOnly'
  <2>1. \A u \in Threads : pc[u] = "seq" =>
          /\ pc'[u] = "seq"
          /\ FinalMsg(u)' = FinalMsg(u)
          /\ FinalPm(u)' = FinalPm(u)
    BY <1>2, <1>4 DEF FinalMsg, FinalPm
  <2> QED BY <1>2, <2>1, SMT DEF FinalOnly, serverVars
<1>9. AcksHeld'
  BY <1>2, <1>4, SMT DEF AcksHeld, Holds, serverVars
<1>10. CollectedSeqsHeld'
  BY <1>2, <1>4, SMT DEF CollectedSeqsHeld, TypeOK, serverVars
<1>11. FinalHeld'
  BY <1>2, <1>4, <1>5 DEF FinalHeld, Holds, Ready, Delivered, serverVars
<1>12. NeverOvertaken'
  <2> SUFFICES ASSUME NEW p \in Procs, NEW i \in DOMAIN delivered[p],
                      NEW u \in Threads, ~Delivered(p, u)
               PROVE  /\ pc'[u] = "seq" =>
                           Less(DeliveredPm(p, i), FinalPm(u)')
                      /\ Holds(p, u) =>
                           delivered[p][i].final_seq < pending_seqs[p][Key(u)].seq
    BY <1>2 DEF NeverOvertaken, DeliveredPm, Delivered, Holds, serverVars
  <2>1. CASE u # t
    BY <2>1, <1>4 DEF NeverOvertaken, FinalPm
  <2>2. CASE u = t
    <3>1. delivered[p][i].final_seq < pending_seqs[p][Key(t)].seq
      BY <2>2, <1>5 DEF NeverOvertaken
    <3>2. /\ delivered[p][i].final_seq \in Nat
          /\ pending_seqs[p][Key(t)].seq \in Nat
          /\ final'[t].seq \in Nat
      <4>1. delivered[p] \in Seq(SeqMessages)
        BY DEF TypeOK
      <4>2. delivered[p][i] \in SeqMessages
        BY <4>1, SeqElement, SeqDomain
      <4>3. pending_seqs[p][Key(t)] \in PendingSeqs /\ final'[t] \in PendingSeqs
        BY <1>3, <1>5 DEF TypeOK, Holds
      <4> QED BY <4>2, <4>3, SeqNumType DEF SeqMessages, PendingSeqs
    <3>3. delivered[p][i].final_seq < final'[t].seq
      BY <3>1, <3>2, <1>5, SMT
    <3> QED BY <2>2, <1>4, <3>1, <3>3 DEF Less, DeliveredPm, FinalPm, PendingMessage
  <2> QED BY <2>1, <2>2
<1>13. Ascending'
  BY <1>2, ZenonT(40) DEF Ascending, DeliveredPm, serverVars
<1> QED BY <1>3, <1>7, <1>8, <1>9, <1>10, <1>11, <1>12, <1>13

----------------------------------------------------------------------------
(* The steps of the servers. *)

\* What has been delivered is well formed.
LEMMA DeliveredType ==
  ASSUME TypeOK, NEW p \in Procs, NEW i \in DOMAIN delivered[p]
  PROVE  /\ delivered[p][i] \in SeqMessages
         /\ delivered[p][i].final_seq \in Nat
         /\ DeliveredPm(p, i) \in PendingMessages
<1>1. delivered[p] \in Seq(SeqMessages)
  BY DEF TypeOK
<1>2. delivered[p][i] \in SeqMessages
  BY <1>1, SeqElement, SeqDomain
<1> QED BY <1>2, SeqNumType DEF SeqMessages, DeliveredPm, PendingMessages

\* A replayed data message is acknowledged as before.
LEMMA ReplayOrderStep ==
  ASSUME OrderInv, NEW c \in Clients, NEW i, NEW lost \in BOOLEAN,
         HandleDataMsg(c, i, lost),
         Lookup(pending_seqs[c[2]], requests[c][i].pmk)
  PROVE  OrderInv'
<1> USE DEF OrderInv
<1> DEFINE p   == c[2]
           pmk == requests[c][i].pmk
           pms == pending_seqs[p][pmk]
<1>1. p \in Procs
  BY DEF Clients
<1>2. pmk \in Keys /\ RequestsKept
  BY RecvType, RecvPaths DEF HandleDataMsg
<1>3. pms \in PendingSeqs
  BY <1>1 DEF TypeOK, Lookup
<1>4. AckMessage(pmk, pms) \in Replies
  BY <1>2, <1>3, MessageTypes
<1>5. /\ Reply(c, AckMessage(pmk, pms), lost)
      /\ UNCHANGED <<serverVars, threadVars>>
  BY DEF HandleDataMsg, serverVars
<1>6. TypeOK'
  BY DataTypeStep
<1>7. \A d \in Clients : \A j \in DOMAIN replies'[d] :
        \/ j \in DOMAIN replies[d] /\ replies'[d][j] = replies[d][j]
        \/ d = c /\ replies'[d][j] = AckMessage(pmk, pms)
  BY <1>4, <1>5, ReplyPaths
<1>8. /\ AckMessage(pmk, pms).pmk = pmk
      /\ pms = [seq |-> AckMessage(pmk, pms).proposed_seq,
                seq_proposer |-> AckMessage(pmk, pms).proposer]
  BY <1>3 DEF AckMessage, PendingSeqs
<1>9. pmk \in DOMAIN pending_seqs[p]
  BY DEF Lookup
<1> HIDE DEF pmk
<1>10. AcksHeld'
  BY <1>5, <1>7, <1>8, <1>9, SMT DEF AcksHeld, Holds, serverVars, threadVars
<1> USE <1>5 DEF serverVars, threadVars
<1>11. CounterAbove' /\ QueueConsistent'
  BY DEF CounterAbove, QueueConsistent
<1>12. FinalOnly'
  <2>1. \A t \in Threads :
          /\ pc'[t] = pc[t]
          /\ FinalMsg(t)' = FinalMsg(t)
          /\ FinalPm(t)' = FinalPm(t)
    BY DEF FinalMsg, FinalPm
  <2>2. \A d \in Clients : \A j \in DOMAIN requests'[d] :
          requests'[d][j].type = "seq" =>
            \E t \in Threads : pc[t] = "seq" /\ requests'[d][j] = FinalMsg(t)
    BY <1>2, SMT DEF FinalOnly, RequestsKept
  <2>3. /\ \A q \in Procs : \A pm \in ordering'[q] : pm.deliverable =>
             \E t \in Threads : pc[t] = "seq" /\ pm = FinalPm(t)
        /\ \A q \in Procs : \A j \in DOMAIN delivered'[q] :
             \E t \in Threads : pc[t] = "seq" /\ delivered'[q][j] = FinalMsg(t)
    BY DEF FinalOnly
  <2> QED BY <2>1, <2>2, <2>3, SMT DEF FinalOnly
<1>13. CollectedSeqsHeld' /\ FinalHeld'
  BY DEF CollectedSeqsHeld, FinalHeld, Holds, Ready, Delivered
<1>14. NeverOvertaken' /\ Ascending'
  BY ZenonT(40) DEF NeverOvertaken, Ascending, Delivered, DeliveredPm, FinalPm,
                    Holds
<1> QED BY <1>6, <1>10, <1>11, <1>12, <1>13, <1>14

\* A data message that is not on hold gets a sequence number beyond all that
\* the process holds or has delivered.
LEMMA NewDataStep ==
  ASSUME OrderInv, NoWrap, NEW c \in Clients, NEW i, NEW lost \in BOOLEAN,
         HandleDataMsg(c, i, lost),
         ~Lookup(pending_seqs[c[2]], requests[c][i].pmk)
  PROVE  LET p   == c[2]
             pmk == requests[c][i].pmk
             new == [seq |-> seq_counter[p] + 1, seq_proposer |-> p]
         IN
         /\ p \in Procs /\ pmk \in Keys /\ new \in PendingSeqs
         /\ pmk \notin DOMAIN pending_seqs[p]
         /\ \A pm \in ordering[p] : pm.seq < new.seq
         /\ \A j \in DOMAIN delivered[p] : delivered[p][j].final_seq < new.seq
         /\ seq_counter' = [seq_counter EXCEPT ![p] = new.seq]
         /\ pending_seqs' = [pending_seqs EXCEPT ![p] = MapInsert(@, pmk, new)]
         /\ ordering' = [ordering EXCEPT ![p] =
                           @ \cup {PendingMessage(pmk, new, FALSE)}]
         /\ Reply(c, AckMessage(pmk, new), lost)
<1> DEFINE p   == c[2]
           pmk == requests[c][i].pmk
           new == [seq |-> seq_counter[p] + 1, seq_proposer |-> p]
<1> USE DEF OrderInv
<1>1. p \in Procs
  BY DEF Clients
<1>2. pmk \in Keys
  BY RecvType DEF HandleDataMsg
<1>3. seq_counter[p] \in Nat /\ seq_counter[p] + 1 < SeqLimit
  BY <1>1, SeqNumType DEF TypeOK, NoWrap
<1>4. NextSeqNum(seq_counter[p]) = seq_counter[p] + 1
  BY <1>3, ConstantsAssumption, SMT DEF NextSeqNum
<1>5. new = [seq |-> NextSeqNum(seq_counter[p]), seq_proposer |-> p]
  BY <1>4
<1>6. new \in PendingSeqs
  <2>1. NextSeqNum(seq_counter[p]) \in SeqNums
    BY <1>1, SeqNumType DEF TypeOK
  <2> QED BY <1>1, <1>5, <2>1 DEF PendingSeqs
<1>7. ASSUME NEW pm \in ordering[p]
      PROVE  pm \in PendingMessages /\ pm.seq < new.seq
  <2>1. pm \in PendingMessages
    BY <1>1 DEF TypeOK
  <2>2. pm.seq \in Nat /\ pm.seq <= seq_counter[p]
    BY <2>1, <1>1, EntryType DEF CounterAbove
  <2> QED BY <2>1, <2>2, <1>3, SMT
<1>8. ASSUME NEW j \in DOMAIN delivered[p]
      PROVE  delivered[p][j].final_seq < new.seq
  <2>1. /\ delivered[p][j].final_seq \in Nat
        /\ delivered[p][j].final_seq <= seq_counter[p]
    BY <1>1, DeliveredType DEF CounterAbove
  <2> QED BY <2>1, <1>3, SMT
<1>9. /\ seq_counter' = [seq_counter EXCEPT ![p] = new.seq]
      /\ pending_seqs' = [pending_seqs EXCEPT ![p] = MapInsert(@, pmk, new)]
      /\ ordering' = [ordering EXCEPT ![p] = InsertUndeliverable(@, pmk, new)]
      /\ Reply(c, AckMessage(pmk, new), lost)
  BY <1>5 DEF HandleDataMsg
<1> DEFINE e == PendingMessage(pmk, new, FALSE)
<1>10. e \in PendingMessages /\ e.seq = new.seq
  BY <1>2, <1>6, MessageTypes DEF PendingMessage
<1> HIDE DEF e
<1>11. \A pm \in ordering[p] : ~Equivalent(pm, e)
  BY <1>7, <1>10, EquivalentIff, EntryType, SMT
<1>12. InsertUndeliverable(ordering[p], pmk, new) = ordering[p] \cup {e}
  BY <1>11 DEF InsertUndeliverable, SetInsert, e
<1>13. ordering' = [ordering EXCEPT ![p] = @ \cup {e}]
  BY <1>1, <1>9, <1>12 DEF TypeOK
<1> QED BY <1>1, <1>2, <1>6, <1>7, <1>8, <1>9, <1>13 DEF e, Lookup

\* A new message is put on hold after all the process has delivered.
LEMMA NewDataOrderStep ==
  ASSUME OrderInv, NoWrap, DistinctIds, NEW c \in Clients, NEW i,
         NEW lost \in BOOLEAN, HandleDataMsg(c, i, lost),
         ~Lookup(pending_seqs[c[2]], requests[c][i].pmk)
  PROVE  OrderInv'
<1> DEFINE p   == c[2]
           pmk == requests[c][i].pmk
           new == [seq |-> seq_counter[p] + 1, seq_proposer |-> p]
           e   == PendingMessage(pmk, new, FALSE)
<1>0. p = c[2]
  OBVIOUS
<1>1. /\ p \in Procs /\ pmk \in Keys /\ new \in PendingSeqs
      /\ pmk \notin DOMAIN pending_seqs[p]
      /\ \A pm \in ordering[p] : pm.seq < new.seq
      /\ \A j \in DOMAIN delivered[p] : delivered[p][j].final_seq < new.seq
      /\ seq_counter' = [seq_counter EXCEPT ![p] = new.seq]
      /\ pending_seqs' = [pending_seqs EXCEPT ![p] = MapInsert(@, pmk, new)]
      /\ ordering' = [ordering EXCEPT ![p] = @ \cup {e}]
      /\ Reply(c, AckMessage(pmk, new), lost)
  BY NewDataStep, ZenonT(40)
<1> HIDE DEF p, pmk, new
<1> USE DEF OrderInv
<1>2. UNCHANGED <<delivered, pc, dest, seqs, final>> /\ RequestsKept
  BY RecvPaths DEF HandleDataMsg, threadVars
<1>3. TypeOK'
  BY DataTypeStep
<1>4. /\ e.pmk = pmk /\ e.seq = new.seq /\ e.deliverable = FALSE
      /\ AckMessage(pmk, new) \in Replies
      /\ AckMessage(pmk, new).pmk = pmk
      /\ new = [seq |-> AckMessage(pmk, new).proposed_seq,
                seq_proposer |-> AckMessage(pmk, new).proposer]
  BY <1>1, MessageTypes DEF PendingMessage, AckMessage, PendingSeqs
<1>5. \A d \in Clients : \A j \in DOMAIN replies'[d] :
        \/ j \in DOMAIN replies[d] /\ replies'[d][j] = replies[d][j]
        \/ d = c /\ replies'[d][j] = AckMessage(pmk, new)
  BY <1>1, <1>4, ReplyPaths
\* The queue and the counter afterwards.
<1>6. /\ DOMAIN pending_seqs'[p] = DOMAIN pending_seqs[p] \cup {pmk}
      /\ pending_seqs'[p][pmk] = new
      /\ \A k \in DOMAIN pending_seqs[p] :
           pending_seqs'[p][k] = pending_seqs[p][k]
      /\ ordering'[p] = ordering[p] \cup {e}
      /\ seq_counter'[p] = new.seq
  BY <1>1 DEF TypeOK, MapInsert
<1>7. \A q \in Procs : q # p =>
        /\ pending_seqs'[q] = pending_seqs[q]
        /\ ordering'[q] = ordering[q]
        /\ seq_counter'[q] = seq_counter[q]
  BY <1>1 DEF TypeOK
<1> HIDE DEF e
<1>8. \A q \in Procs : \A k \in DOMAIN pending_seqs[q] :
        k \in DOMAIN pending_seqs'[q] /\ pending_seqs'[q][k] = pending_seqs[q][k]
  BY <1>6, <1>7
<1>9. \A q \in Procs : \A pm : pm.deliverable = TRUE =>
        (pm \in ordering'[q] <=> pm \in ordering[q])
  BY <1>4, <1>6, <1>7
<1>10. CounterAbove'
  <2>1. new.seq \in Nat
    BY <1>1, SeqNumType DEF PendingSeqs
  <2>2. \A pm \in ordering[p] : pm.seq \in Nat
    BY <1>1, EntryType DEF TypeOK
  <2>3. \A j \in DOMAIN delivered[p] : delivered[p][j].final_seq \in Nat
    BY <1>1, DeliveredType
  <2> QED BY <1>1, <1>2, <1>4, <1>6, <1>7, <2>1, <2>2, <2>3, SMT DEF CounterAbove
<1>11. QueueConsistent'
  <2> SUFFICES ASSUME NEW q \in Procs
               PROVE  /\ \A pm \in ordering'[q] : ~pm.deliverable =>
                           /\ pm.pmk \in DOMAIN pending_seqs'[q]
                           /\ pm = PendingMessage(pm.pmk,
                                                 pending_seqs'[q][pm.pmk], FALSE)
                      /\ \A k \in DOMAIN pending_seqs'[q] :
                           PendingMessage(k, pending_seqs'[q][k], FALSE)
                             \in ordering'[q]
    BY DEF QueueConsistent
  <2>1. CASE q # p
    <3>1. pending_seqs'[q] = pending_seqs[q] /\ ordering'[q] = ordering[q]
      BY <2>1, <1>7
    <3>2. /\ \A pm \in ordering[q] : ~pm.deliverable =>
               /\ pm.pmk \in DOMAIN pending_seqs[q]
               /\ pm = PendingMessage(pm.pmk, pending_seqs[q][pm.pmk], FALSE)
          /\ \A k \in DOMAIN pending_seqs[q] :
               PendingMessage(k, pending_seqs[q][k], FALSE) \in ordering[q]
      BY DEF QueueConsistent
    <3> QED BY <3>1, <3>2, Zenon
  <2>2. CASE q = p
    <3>1. e = PendingMessage(pmk, new, FALSE)
      BY DEF e
    <3>2. \A pm \in ordering[p] : ~pm.deliverable =>
            /\ pm.pmk \in DOMAIN pending_seqs[p]
            /\ pm = PendingMessage(pm.pmk, pending_seqs[p][pm.pmk], FALSE)
      BY <1>1 DEF QueueConsistent
    <3>3. \A k \in DOMAIN pending_seqs[p] :
            PendingMessage(k, pending_seqs[p][k], FALSE) \in ordering[p]
      BY <1>1 DEF QueueConsistent
    <3>4. ASSUME NEW pm \in ordering'[p], ~pm.deliverable
          PROVE  /\ pm.pmk \in DOMAIN pending_seqs'[p]
                 /\ pm = PendingMessage(pm.pmk, pending_seqs'[p][pm.pmk], FALSE)
      <4>1. CASE pm = e
        BY <4>1, <3>1, <1>4, <1>6
      <4>2. CASE pm \in ordering[p]
        BY <3>4, <4>2, <3>2, <1>6, Zenon
      <4> QED BY <4>1, <4>2, <1>6
    <3>5. ASSUME NEW k \in DOMAIN pending_seqs'[p]
          PROVE  PendingMessage(k, pending_seqs'[p][k], FALSE) \in ordering'[p]
      <4>1. CASE k = pmk
        BY <4>1, <3>1, <1>6
      <4>2. CASE k \in DOMAIN pending_seqs[p]
        BY <4>2, <3>3, <1>6
      <4> QED BY <4>1, <4>2, <1>6
    <3> QED BY <2>2, <3>4, <3>5
  <2> QED BY <2>1, <2>2
<1>12. FinalOnly'
  <2>1. \A u \in Threads : FinalMsg(u)' = FinalMsg(u) /\ FinalPm(u)' = FinalPm(u)
    BY <1>2 DEF FinalMsg, FinalPm
  <2>2. \A q \in Procs : \A pm \in ordering'[q] : pm.deliverable =>
          pm \in ordering[q]
    BY <1>4, <1>6, <1>7
  <2> QED BY <1>2, <2>1, <2>2, SMT DEF FinalOnly, RequestsKept
<1>13. AcksHeld'
  <2> SUFFICES ASSUME NEW d \in Clients, NEW j \in DOMAIN replies'[d],
                      NEW t \in Threads,
                      replies'[d][j].type = "ack",
                      replies'[d][j].pmk = Key(t),
                      pc[t] = "data"
               PROVE  /\ Key(t) \in DOMAIN pending_seqs'[d[2]]
                      /\ pending_seqs'[d[2]][Key(t)] =
                           [seq |-> replies'[d][j].proposed_seq,
                            seq_proposer |-> replies'[d][j].proposer]
    BY <1>2 DEF AcksHeld, Holds
  <2>1. CASE j \in DOMAIN replies[d] /\ replies'[d][j] = replies[d][j]
    BY <2>1, <1>8, SMT DEF AcksHeld, Holds, Clients
  <2>2. CASE d = c /\ replies'[d][j] = AckMessage(pmk, new)
    BY <2>2, <1>0, <1>4, <1>6, SMT
  <2> QED BY <1>5, <2>1, <2>2
<1>14. CollectedSeqsHeld'
  BY <1>2, <1>8, SMT DEF CollectedSeqsHeld
<1>15. FinalHeld'
  <2>1. \A q \in Procs, t \in Threads : Ready(q, t) => Ready(q, t)'
    BY <1>6, <1>7 DEF Ready
  <2> QED BY <1>2, <1>8, <2>1 DEF FinalHeld, Delivered, Holds
<1>16. NeverOvertaken'
  <2> SUFFICES ASSUME NEW q \in Procs, NEW j \in DOMAIN delivered[q],
                      NEW t \in Threads, ~Delivered(q, t)
               PROVE  /\ pc[t] = "seq" => Less(DeliveredPm(q, j), FinalPm(t))
                      /\ Key(t) \in DOMAIN pending_seqs'[q] =>
                           delivered[q][j].final_seq < pending_seqs'[q][Key(t)].seq
    BY <1>2 DEF NeverOvertaken, DeliveredPm, Delivered, Holds, FinalPm
  <2>1. CASE Key(t) \in DOMAIN pending_seqs[q]
    BY <2>1, <1>8 DEF NeverOvertaken, Holds
  <2>2. CASE Key(t) \notin DOMAIN pending_seqs[q]
    BY <2>2, <1>1, <1>6, <1>7, SMT DEF NeverOvertaken
  <2> QED BY <2>1, <2>2
<1>17. Ascending'
  BY <1>2 DEF Ascending, DeliveredPm
<1> QED BY <1>3, <1>10, <1>11, <1>12, <1>13, <1>14, <1>15, <1>16, <1>17

\* The effect of HandleSeqMsg at p on receiving the final sequence number of t:
\* if t's message is on hold its entry is replaced by the final one.
SeqEffect(c, i, t, lost) ==
  LET p   == c[2]
      old == PendingMessage(Key(t), pending_seqs[p][Key(t)], FALSE)
  IN
  /\ pc[t] = "seq" /\ requests[c][i] = FinalMsg(t)
  /\ Reply(c, SeqAckMessage(Key(t)), lost)
  /\ seq_counter' = [seq_counter EXCEPT ![p] = ForwardSeqNum(@, final[t].seq)]
  /\ ~Holds(p, t) => UNCHANGED <<pending_seqs, ordering, serving>>
  /\ Holds(p, t) =>
       /\ pending_seqs' = [pending_seqs EXCEPT ![p] = MapErase(@, Key(t))]
       /\ ordering' = [ordering EXCEPT ![p] = (@ \ {old}) \cup {FinalPm(t)}]
       /\ serving' = [serving EXCEPT ![p] = "deliver"]

\* HandleSeqMsg does that, for some thread.
LEMMA SeqStep ==
  ASSUME OrderInv, DistinctIds, NEW c \in Clients, NEW i, NEW lost \in BOOLEAN,
         HandleSeqMsg(c, i, lost)
  PROVE  \E t \in Threads : SeqEffect(c, i, t, lost)
<1> USE DEF OrderInv
<1> DEFINE p == c[2]
           m == requests[c][i]
<1>1. p \in Procs /\ i \in DOMAIN requests[c] /\ m.type = "seq"
  BY RecvType DEF HandleSeqMsg, Clients
<1>2. PICK t \in Threads : pc[t] = "seq" /\ m = FinalMsg(t)
  BY <1>1 DEF FinalOnly
<1>3. /\ m.pmk = Key(t)
      /\ m.final_seq = final[t].seq
      /\ m.final_seq_proposer = final[t].seq_proposer
  BY <1>2, SMT DEF FinalMsg, SeqMessage
<1> DEFINE pms == [seq |-> m.final_seq, seq_proposer |-> m.final_seq_proposer]
           held == pending_seqs[p][Key(t)]
           old == PendingMessage(Key(t), held, FALSE)
<1>4. /\ Reply(c, SeqAckMessage(Key(t)), lost)
      /\ seq_counter' = [seq_counter EXCEPT ![p] = ForwardSeqNum(@, final[t].seq)]
      /\ ~Holds(p, t) => UNCHANGED <<pending_seqs, ordering, serving>>
      /\ Holds(p, t) =>
           /\ pending_seqs' = [pending_seqs EXCEPT ![p] = MapErase(@, Key(t))]
           /\ ordering' = [ordering EXCEPT ![p] = Reinsert(@, Key(t), held, pms)]
           /\ serving' = [serving EXCEPT ![p] = "deliver"]
  BY <1>3 DEF HandleSeqMsg, Lookup, Holds
<1>5. PendingMessage(Key(t), pms, TRUE) = FinalPm(t)
  BY <1>3 DEF PendingMessage, FinalPm
<1>6. FinalPm(t) \in PendingMessages /\ FinalPm(t).pmk = Key(t)
      /\ FinalPm(t).deliverable = TRUE
  BY KeyType, MessageTypes DEF TypeOK, FinalPm, PendingMessage
<1> HIDE DEF p, m, pms, held
<1>7. ASSUME Holds(p, t)
      PROVE  Reinsert(ordering[p], Key(t), held, pms) =
               (ordering[p] \ {old}) \cup {FinalPm(t)}
  <2>1. old \in ordering[p] /\ old.pmk = Key(t) /\ old.deliverable = FALSE
    BY <1>1, <1>7 DEF Holds, QueueConsistent, held, PendingMessage
  <2>2. \A e \in ordering[p] : e \in PendingMessages
    BY <1>1 DEF TypeOK
  <2>3. ASSUME NEW e \in ordering[p]
        PROVE  Equivalent(e, old) <=> e = old
    <3>1. Equivalent(e, old) => e.pmk = Key(t) /\ ~e.deliverable
      BY <2>1, <2>2, EquivalentIff, EntryType
    <3>2. e.pmk = Key(t) /\ ~e.deliverable => e = old
      BY <1>1 DEF QueueConsistent, held
    <3>3. Equivalent(old, old)
      BY <2>1, <2>2, EquivalentIff
    <3> QED BY <3>1, <3>2, <3>3
  <2> HIDE DEF old
  <2>4. SetErase(ordering[p], old) = ordering[p] \ {old}
    BY <2>3 DEF SetErase
  <2>5. ASSUME NEW e \in ordering[p], Equivalent(e, FinalPm(t))
        PROVE  e = FinalPm(t)
    <3>1. e.pmk = Key(t) /\ e.deliverable
      BY <2>2, <2>5, <1>6, EquivalentIff, EntryType
    <3>2. PICK u \in Threads : e = FinalPm(u)
      BY <3>1, <1>1 DEF FinalOnly
    <3>3. FinalPm(u).pmk = Key(u)
      BY DEF FinalPm, PendingMessage
    <3> QED BY <3>1, <3>2, <3>3 DEF DistinctIds
  <2>6. SetInsert(ordering[p] \ {old}, FinalPm(t)) =
          (ordering[p] \ {old}) \cup {FinalPm(t)}
    BY <2>5 DEF SetInsert
  <2> QED BY <2>4, <2>6, <1>5 DEF Reinsert, old
<1> QED
  <2>1. Holds(p, t) =>
          ordering' = [ordering EXCEPT ![p] = (@ \ {old}) \cup {FinalPm(t)}]
    BY <1>4, <1>7
  <2> QED BY <1>2, <1>4, <2>1 DEF SeqEffect, p, m, held

\* A SeqMessage for a message that is not on hold only forwards the counter; it
\* turns one that is on hold into a deliverable entry.
LEMMA SeqOrderStep ==
  ASSUME OrderInv, DistinctIds, NEW c \in Clients, NEW i, NEW lost \in BOOLEAN,
         HandleSeqMsg(c, i, lost)
  PROVE  OrderInv'
<1> DEFINE p == c[2]
<1>0. PICK t \in Threads : SeqEffect(c, i, t, lost)
  BY SeqStep
<1> DEFINE e == PendingMessage(Key(t), pending_seqs[p][Key(t)], FALSE)
<1>1. /\ pc[t] = "seq"
      /\ Reply(c, SeqAckMessage(Key(t)), lost)
      /\ seq_counter' =
           [seq_counter EXCEPT ![p] = ForwardSeqNum(@, final[t].seq)]
      /\ ~Holds(p, t) => UNCHANGED <<pending_seqs, ordering>>
      /\ Holds(p, t) =>
           /\ pending_seqs' = [pending_seqs EXCEPT ![p] = MapErase(@, Key(t))]
           /\ ordering' = [ordering EXCEPT ![p] = (@ \ {e}) \cup {FinalPm(t)}]
  BY <1>0 DEF SeqEffect
<1> USE DEF OrderInv
<1>2. p \in Procs
  BY DEF Clients
<1>3. UNCHANGED <<delivered, pc, dest, seqs, final>> /\ RequestsKept
  BY RecvPaths DEF HandleSeqMsg, threadVars
<1>4. TypeOK'
  BY SeqTypeStep
<1>5. /\ FinalPm(t).pmk = Key(t) /\ FinalPm(t).seq = final[t].seq
      /\ FinalPm(t).deliverable = TRUE
      /\ e.pmk = Key(t) /\ e.deliverable = FALSE
  BY DEF FinalPm, PendingMessage
<1>6. Holds(p, t) => ordering'[p] = (ordering[p] \ {e}) \cup {FinalPm(t)}
  BY <1>1, <1>2 DEF TypeOK
<1>7. \A pm \in ordering[p] : pm.pmk = Key(t) /\ ~pm.deliverable => pm = e
  BY <1>2 DEF QueueConsistent
<1> HIDE DEF e, p
\* The queues and the counters afterwards.
<1>8. \A q \in Procs :
        /\ \A k \in DOMAIN pending_seqs'[q] :
             /\ k \in DOMAIN pending_seqs[q]
             /\ pending_seqs'[q][k] = pending_seqs[q][k]
             /\ q = p => k # Key(t)
        /\ \A k \in DOMAIN pending_seqs[q] : k # Key(t) =>
             /\ k \in DOMAIN pending_seqs'[q]
             /\ pending_seqs'[q][k] = pending_seqs[q][k]
        /\ q # p => pending_seqs'[q] = pending_seqs[q] /\ ordering'[q] = ordering[q]
  <2>1. CASE ~Holds(p, t)
    BY <2>1, <1>1 DEF Holds
  <2>2. CASE Holds(p, t)
    <3>1. /\ pending_seqs'[p] = MapErase(pending_seqs[p], Key(t))
          /\ \A q \in Procs : q # p => /\ pending_seqs'[q] = pending_seqs[q]
                                      /\ ordering'[q] = ordering[q]
      BY <2>2, <1>1, <1>2 DEF TypeOK
    <3> QED BY <3>1, SMT DEF MapErase
  <2> QED BY <2>1, <2>2
<1>9. /\ seq_counter[p] <= seq_counter'[p]
      /\ final[t].seq <= seq_counter'[p]
      /\ \A q \in Procs : q # p => seq_counter'[q] = seq_counter[q]
      /\ \A q \in Procs : seq_counter[q] \in Nat /\ seq_counter'[q] \in Nat
  <2>1. final[t].seq \in Nat /\ seq_counter[p] \in Nat
    BY <1>2, SeqNumType DEF TypeOK, PendingSeqs
  <2>2. \A q \in Procs : seq_counter[q] \in Nat /\ seq_counter'[q] \in Nat
    BY <1>4, SeqNumType DEF TypeOK
  <2>3. seq_counter'[p] = ForwardSeqNum(seq_counter[p], final[t].seq)
        /\ \A q \in Procs : q # p => seq_counter'[q] = seq_counter[q]
    BY <1>1, <1>2 DEF TypeOK
  <2> QED BY <2>1, <2>2, <2>3, SMT DEF ForwardSeqNum
<1>10. \A pm \in ordering'[p] : pm \in ordering[p] \/ pm = FinalPm(t)
  BY <1>1, <1>6
<1>11. SeqAckMessage(Key(t)) \in Replies /\ SeqAckMessage(Key(t)).type = "seqack"
  BY KeyType DEF SeqAckMessage, Replies
<1>12. \A d \in Clients : \A j \in DOMAIN replies'[d] :
         \/ j \in DOMAIN replies[d] /\ replies'[d][j] = replies[d][j]
         \/ replies'[d][j] = SeqAckMessage(Key(t))
  BY <1>1, <1>11, ReplyPaths, SMT
<1>13. CounterAbove'
  <2>1. \A q \in Procs : \A pm \in ordering[q] : pm.seq \in Nat
    BY EntryType DEF TypeOK
  <2>2. \A q \in Procs : \A j \in DOMAIN delivered[q] :
          delivered[q][j].final_seq \in Nat
    BY DeliveredType
  <2>3. ASSUME NEW q \in Procs, NEW pm \in ordering'[q]
        PROVE  pm.seq <= seq_counter'[q]
    BY <2>1, <1>5, <1>8, <1>9, <1>10, SMT DEF CounterAbove
  <2>4. ASSUME NEW q \in Procs, NEW j \in DOMAIN delivered[q]
        PROVE  delivered[q][j].final_seq <= seq_counter'[q]
    BY <2>2, <1>9, SMT DEF CounterAbove
  <2> QED BY <2>3, <2>4, <1>3 DEF CounterAbove
<1>14. QueueConsistent'
  <2>1. ASSUME NEW q \in Procs, NEW pm \in ordering'[q], ~pm.deliverable
        PROVE  /\ pm.pmk \in DOMAIN pending_seqs'[q]
               /\ pm = PendingMessage(pm.pmk, pending_seqs'[q][pm.pmk], FALSE)
    <3>1. pm \in ordering[q]
      BY <2>1, <1>5, <1>8, <1>10
    <3>2. /\ pm.pmk \in DOMAIN pending_seqs[q]
          /\ pm = PendingMessage(pm.pmk, pending_seqs[q][pm.pmk], FALSE)
      BY <2>1, <3>1 DEF QueueConsistent
    <3>3. pm.pmk \in DOMAIN pending_seqs'[q]
      <4>1. CASE q # p
        BY <4>1, <3>2, <1>8
      <4>2. CASE q = p /\ Holds(p, t)
        <5>1. pm # e
          BY <4>2, <2>1, <1>5, <1>6
        <5>2. pm.pmk # Key(t)
          BY <4>2, <5>1, <2>1, <3>1, <1>7
        <5> QED BY <5>2, <3>2, <1>8
      <4>3. CASE q = p /\ ~Holds(p, t)
        BY <4>3, <3>2, <1>1
      <4> QED BY <4>1, <4>2, <4>3
    <3> QED BY <3>2, <3>3, <1>8
  <2>2. ASSUME NEW q \in Procs, NEW k \in DOMAIN pending_seqs'[q]
        PROVE  PendingMessage(k, pending_seqs'[q][k], FALSE) \in ordering'[q]
    <3> DEFINE f == PendingMessage(k, pending_seqs[q][k], FALSE)
    <3>1. /\ f \in ordering[q] /\ f.pmk = k
          /\ pending_seqs'[q][k] = pending_seqs[q][k]
      BY <2>2, <1>8 DEF QueueConsistent, PendingMessage
    <3>2. q = p => k # Key(t)
      BY <2>2, <1>8
    <3> HIDE DEF f
    <3>4. q = p => f # e
      BY <3>1, <3>2, <1>5
    <3>3. f \in ordering'[q]
      BY <3>1, <3>4, <1>1, <1>6, <1>8
    <3> QED BY <3>1, <3>3 DEF f
  <2> QED BY <2>1, <2>2 DEF QueueConsistent
<1>15. FinalOnly'
  <2>1. \A u \in Threads : FinalMsg(u)' = FinalMsg(u) /\ FinalPm(u)' = FinalPm(u)
    BY <1>3 DEF FinalMsg, FinalPm
  <2>2. ASSUME NEW q \in Procs, NEW pm \in ordering'[q], pm.deliverable
        PROVE  \E u \in Threads : pc[u] = "seq" /\ pm = FinalPm(u)
    BY <2>2, <1>1, <1>8, <1>10, SMT DEF FinalOnly
  <2> QED BY <1>3, <2>1, <2>2, SMT DEF FinalOnly, RequestsKept
<1>16. \A u \in Threads : pc[u] = "data" => Key(u) # Key(t)
  BY <1>1 DEF DistinctIds
<1>17. AcksHeld'
  <2> SUFFICES ASSUME NEW d \in Clients, NEW j \in DOMAIN replies'[d],
                      NEW u \in Threads,
                      replies'[d][j].type = "ack",
                      replies'[d][j].pmk = Key(u),
                      pc[u] = "data"
               PROVE  /\ Key(u) \in DOMAIN pending_seqs'[d[2]]
                      /\ pending_seqs'[d[2]][Key(u)] =
                           [seq |-> replies'[d][j].proposed_seq,
                            seq_proposer |-> replies'[d][j].proposer]
    BY <1>3 DEF AcksHeld, Holds
  <2>1. j \in DOMAIN replies[d] /\ replies'[d][j] = replies[d][j]
    BY <1>11, <1>12
  <2> QED BY <2>1, <1>8, <1>16, SMT DEF AcksHeld, Holds, Clients
<1>18. CollectedSeqsHeld'
  BY <1>3, <1>8, <1>16, SMT DEF CollectedSeqsHeld
<1>19. FinalHeld'
  <2> SUFFICES ASSUME NEW u \in Threads, NEW q \in Procs, pc[u] = "seq"
               PROVE  \/ Ready(q, u)'
                      \/ Delivered(q, u)
                      \/ /\ Key(u) \in DOMAIN pending_seqs'[q]
                         /\ pending_seqs'[q][Key(u)].seq <= final[u].seq
    BY <1>3 DEF FinalHeld, Delivered, Holds
  <2>1. Ready(q, u) => Ready(q, u)'
    BY <1>1, <1>5, <1>6, <1>8 DEF Ready
  <2>2. CASE Key(u) = Key(t) /\ q = p /\ Holds(p, t)
    BY <2>2, <1>5, <1>6 DEF Ready
  <2>3. CASE ~(Key(u) = Key(t) /\ q = p /\ Holds(p, t))
    <3>1. Holds(q, u) => /\ Key(u) \in DOMAIN pending_seqs'[q]
                         /\ pending_seqs'[q][Key(u)] = pending_seqs[q][Key(u)]
      BY <2>3, <1>1, <1>8 DEF Holds
    <3> QED BY <2>1, <3>1 DEF FinalHeld
  <2> QED BY <2>2, <2>3
<1>20. NeverOvertaken'
  <2> SUFFICES ASSUME NEW q \in Procs, NEW j \in DOMAIN delivered[q],
                      NEW u \in Threads, ~Delivered(q, u)
               PROVE  /\ pc[u] = "seq" => Less(DeliveredPm(q, j), FinalPm(u))
                      /\ Key(u) \in DOMAIN pending_seqs'[q] =>
                           delivered[q][j].final_seq < pending_seqs'[q][Key(u)].seq
    BY <1>3 DEF NeverOvertaken, DeliveredPm, Delivered, Holds, FinalPm
  <2> QED BY <1>8 DEF NeverOvertaken, Holds
<1>21. Ascending'
  BY <1>3 DEF Ascending, DeliveredPm
<1> QED BY <1>4, <1>13, <1>14, <1>15, <1>17, <1>18, <1>19, <1>20, <1>21

\* The effect of a delivery at p of the message of t, at the head of the queue.
DeliverEffect(p, t) ==
  /\ pc[t] = "seq"
  /\ IsBegin(ordering[p], FinalPm(t))
  /\ delivered' = [delivered EXCEPT ![p] = Append(@, FinalMsg(t))]
  /\ ordering' = [ordering EXCEPT ![p] = @ \ {FinalPm(t)}]
  /\ UNCHANGED <<seq_counter, pending_seqs, serving, pc, dest, awaiting, seqs,
                 final, requests, replies>>

\* An iteration of the delivery loop does that, for some thread.
LEMMA DeliverStep ==
  ASSUME OrderInv, NEW p \in Procs, Deliver(p)
  PROVE  \E t \in Threads : DeliverEffect(p, t)
<1>1. PICK pm \in ordering[p] :
        /\ IsBegin(ordering[p], pm) /\ pm.deliverable
        /\ delivered' =
             [delivered EXCEPT ![p] = Append(@, SeqMessage(pm.pmk, pm))]
        /\ ordering' = [ordering EXCEPT ![p] = @ \ {pm}]
  BY DEF Deliver, DeliverableHead
<1>2. PICK t \in Threads : pc[t] = "seq" /\ pm = FinalPm(t)
  BY <1>1 DEF OrderInv, FinalOnly
<1>3. SeqMessage(pm.pmk, pm) = FinalMsg(t)
  BY <1>2 DEF FinalPm, FinalMsg, PendingMessage, SeqMessage
<1>4. UNCHANGED <<seq_counter, pending_seqs, serving, pc, dest, awaiting, seqs,
                  final, requests, replies>>
  BY DEF Deliver, threadVars
<1> QED BY <1>1, <1>2, <1>3, <1>4 DEF DeliverEffect

\* The delivered sequence of p after the delivery of the message of t.
LEMMA DeliveredAfter ==
  ASSUME TypeOK, NEW p \in Procs, NEW t \in Threads, DeliverEffect(p, t)
  PROVE  LET n == Len(delivered[p]) IN
         /\ n \in Nat
         /\ DOMAIN delivered[p] = 1 .. n
         /\ DOMAIN delivered'[p] = 1 .. n + 1
         /\ \A i \in 1 .. n : delivered'[p][i] = delivered[p][i]
         /\ delivered'[p][n + 1] = FinalMsg(t)
         /\ \A q \in Procs : q # p => delivered'[q] = delivered[q]
         /\ \A q \in Procs, u \in Threads :
              Delivered(q, u)' <=>
                Delivered(q, u) \/ (q = p /\ Key(u) = Key(t))
<1> DEFINE n == Len(delivered[p])
<1>1. delivered[p] \in Seq(SeqMessages)
  BY DEF TypeOK
<1>2. /\ delivered'[p] = Append(delivered[p], FinalMsg(t))
      /\ \A q \in Procs : q # p => delivered'[q] = delivered[q]
  BY DEF DeliverEffect, TypeOK
<1>3. FinalMsg(t) \in SeqMessages /\ FinalMsg(t).pmk = Key(t)
  BY KeyType, MessageTypes DEF TypeOK, FinalMsg, SeqMessage
<1>4. /\ n \in Nat
      /\ DOMAIN delivered[p] = 1 .. n
      /\ DOMAIN delivered'[p] = 1 .. n + 1
      /\ \A i \in 1 .. n : delivered'[p][i] = delivered[p][i]
      /\ delivered'[p][n + 1] = FinalMsg(t)
  BY <1>1, <1>2, <1>3, SeqAppend, SeqDomain, SMT
<1> HIDE DEF n
<1>5. ASSUME NEW q \in Procs, NEW u \in Threads
      PROVE  Delivered(q, u)' <=>
               Delivered(q, u) \/ (q = p /\ Key(u) = Key(t))
  <2>1. CASE q # p
    BY <2>1, <1>2 DEF Delivered
  <2>2. CASE q = p
    <3>1. \A i : i \in 1 .. n + 1 <=> i \in 1 .. n \/ i = n + 1
      BY <1>4, SMT
    <3> QED BY <2>2, <3>1, <1>3, <1>4 DEF Delivered
  <2> QED BY <2>1, <2>2
<1> QED BY <1>2, <1>4, <1>5 DEF n

\* The head of the queue precedes every message not yet delivered.
LEMMA HeadFirst ==
  ASSUME OrderInv, NEW p \in Procs, NEW t \in Threads, DeliverEffect(p, t),
         NEW u \in Threads, Key(u) # Key(t), ~Delivered(p, u), DistinctIds
  PROVE  /\ pc[u] = "seq" => Less(FinalPm(t), FinalPm(u))
         /\ Holds(p, u) =>
              final[t].seq < pending_seqs[p][Key(u)].seq
<1> USE DEF OrderInv
<1>1. /\ FinalPm(t).pmk = Key(t) /\ FinalPm(t).deliverable = TRUE
      /\ FinalPm(u).pmk = Key(u) /\ FinalPm(u).deliverable = TRUE
      /\ FinalPm(t).seq = final[t].seq /\ FinalPm(u).seq = final[u].seq
  BY DEF FinalPm, PendingMessage
<1>2. \A pm \in ordering[p] : pm # FinalPm(t) => Less(FinalPm(t), pm)
  BY DEF DeliverEffect, IsBegin
<1>3. final[t].seq \in Nat /\ final[u].seq \in Nat
  BY SeqNumType DEF TypeOK, PendingSeqs
\* An undeliverable entry at the head's own sequence number would precede it.
<1>4. Holds(p, u) => final[t].seq < pending_seqs[p][Key(u)].seq
  <2> SUFFICES ASSUME Holds(p, u)
               PROVE  final[t].seq < pending_seqs[p][Key(u)].seq
    OBVIOUS
  <2> DEFINE e == PendingMessage(Key(u), pending_seqs[p][Key(u)], FALSE)
  <2>1. e \in ordering[p]
    BY DEF QueueConsistent, Holds
  <2>2. /\ e.pmk = Key(u) /\ e.deliverable = FALSE
        /\ e.seq = pending_seqs[p][Key(u)].seq
    BY DEF PendingMessage
  <2> HIDE DEF e
  <2>3. Less(FinalPm(t), e)
    BY <2>1, <2>2, <1>1, <1>2
  <2> QED BY <2>2, <2>3, <1>1 DEF Less
<1>5. ASSUME pc[u] = "seq" PROVE Less(FinalPm(t), FinalPm(u))
  <2>1. CASE Ready(p, u)
    <3>1. PICK pm \in ordering[p] : pm.deliverable /\ pm.pmk = Key(u)
      BY <2>1 DEF Ready
    <3>2. Less(FinalPm(t), pm)
      BY <3>1, <1>1, <1>2
    <3>3. PICK v \in Threads : pm = FinalPm(v)
      BY <3>1 DEF FinalOnly
    <3> QED
      <4>1. pm.pmk = Key(v)
        BY <3>3 DEF FinalPm, PendingMessage
      <4>2. v = u
        BY <3>1, <4>1 DEF DistinctIds
      <4> QED BY <3>2, <3>3, <4>2
  <2>2. CASE Holds(p, u) /\ pending_seqs[p][Key(u)].seq <= final[u].seq
    <3>1. pending_seqs[p][Key(u)].seq \in Nat
      BY <2>2, SeqNumType DEF TypeOK, PendingSeqs, Holds
    <3>2. final[t].seq < final[u].seq
      BY <2>2, <3>1, <1>3, <1>4, SMT
    <3> QED BY <3>2, <1>1 DEF Less
  <2> QED BY <1>5, <2>1, <2>2 DEF FinalHeld
<1> QED BY <1>4, <1>5

\* A delivery preserves the invariant.
LEMMA DeliverOrderStep ==
  ASSUME OrderInv, DistinctIds, NEW p \in Procs, Deliver(p)
  PROVE  OrderInv'
<1> USE DEF OrderInv
<1>0. PICK t \in Threads : DeliverEffect(p, t)
  BY DeliverStep
<1>1. PICK n \in Nat :
        /\ DOMAIN delivered[p] = 1 .. n
        /\ DOMAIN delivered'[p] = 1 .. n + 1
        /\ \A i \in 1 .. n : delivered'[p][i] = delivered[p][i]
        /\ delivered'[p][n + 1] = FinalMsg(t)
        /\ \A q \in Procs : q # p => delivered'[q] = delivered[q]
        /\ \A q \in Procs, u \in Threads :
             Delivered(q, u)' <=> Delivered(q, u) \/ (q = p /\ Key(u) = Key(t))
  BY <1>0, DeliveredAfter
<1>2. /\ pc[t] = "seq"
      /\ FinalPm(t) \in ordering[p]
      /\ ordering' = [ordering EXCEPT ![p] = @ \ {FinalPm(t)}]
      /\ UNCHANGED <<seq_counter, pending_seqs, serving, pc, dest, awaiting, seqs,
                     final, requests, replies>>
  BY <1>0 DEF DeliverEffect, IsBegin
<1>3. TypeOK'
  BY DeliverTypeStep
<1>4. /\ FinalPm(t).pmk = Key(t) /\ FinalPm(t).deliverable = TRUE
      /\ FinalMsg(t).pmk = Key(t) /\ FinalMsg(t).final_seq = FinalPm(t).seq
      /\ FinalMsg(t).final_seq = final[t].seq
  BY DEF FinalPm, FinalMsg, PendingMessage, SeqMessage
<1>5. /\ \A q \in Procs : \A pm \in ordering'[q] : pm \in ordering[q]
      /\ \A q \in Procs : \A pm \in ordering[q] :
           pm # FinalPm(t) => pm \in ordering'[q]
  BY <1>2 DEF TypeOK
<1>6. \A i \in DOMAIN delivered'[p] : i \in 1 .. n \/ i = n + 1
  BY <1>1, SMT
<1>7. CounterAbove'
  <2>1. ASSUME NEW q \in Procs, NEW i \in DOMAIN delivered'[q]
        PROVE  delivered'[q][i].final_seq <= seq_counter[q]
    <3>1. CASE q # p
      BY <3>1, <1>1 DEF CounterAbove
    <3>2. CASE q = p /\ i \in 1 .. n
      BY <3>2, <1>1 DEF CounterAbove
    <3>3. CASE q = p /\ i = n + 1
      BY <3>3, <1>1, <1>2, <1>4, ZenonT(40) DEF CounterAbove
    <3> QED BY <3>1, <3>2, <3>3, <1>6
  <2> QED BY <2>1, <1>2, <1>5 DEF CounterAbove
<1>8. QueueConsistent'
  <2>1. \A k, pms : PendingMessage(k, pms, FALSE) # FinalPm(t)
    BY <1>4, SMT DEF PendingMessage
  <2>2. ASSUME NEW q \in Procs, NEW pm \in ordering'[q], ~pm.deliverable
        PROVE  /\ pm.pmk \in DOMAIN pending_seqs[q]
               /\ pm = PendingMessage(pm.pmk, pending_seqs[q][pm.pmk], FALSE)
    BY <2>2, <1>5 DEF QueueConsistent
  <2>3. ASSUME NEW q \in Procs, NEW k \in DOMAIN pending_seqs[q]
        PROVE  PendingMessage(k, pending_seqs[q][k], FALSE) \in ordering'[q]
    BY <2>1, <1>5 DEF QueueConsistent
  <2> QED BY <2>2, <2>3, <1>2 DEF QueueConsistent
<1>9. FinalOnly'
  <2>1. \A u \in Threads : FinalMsg(u)' = FinalMsg(u) /\ FinalPm(u)' = FinalPm(u)
    BY <1>2 DEF FinalMsg, FinalPm
  <2>2. ASSUME NEW q \in Procs, NEW i \in DOMAIN delivered'[q]
        PROVE  \E u \in Threads : pc[u] = "seq" /\ delivered'[q][i] = FinalMsg(u)
    <3>1. CASE q # p
      BY <3>1, <1>1, SMT DEF FinalOnly
    <3>2. CASE q = p /\ i \in 1 .. n
      BY <3>2, <1>1, SMT DEF FinalOnly
    <3>3. CASE q = p /\ i = n + 1
      BY <3>3, <1>1, <1>2
    <3> QED BY <3>1, <3>2, <3>3, <1>6
  <2> QED BY <2>1, <2>2, <1>2, <1>5, SMT DEF FinalOnly
<1>10. AcksHeld' /\ CollectedSeqsHeld'
  BY <1>2 DEF AcksHeld, CollectedSeqsHeld, Holds
<1>11. FinalHeld'
  <2> SUFFICES ASSUME NEW u \in Threads, NEW q \in Procs, pc[u] = "seq"
               PROVE  \/ Ready(q, u)'
                      \/ Delivered(q, u)'
                      \/ Holds(q, u) /\ pending_seqs[q][Key(u)].seq <= final[u].seq
    BY <1>2 DEF FinalHeld, Holds
  <2>1. ASSUME Ready(q, u) PROVE Ready(q, u)' \/ Delivered(q, u)'
    <3>1. PICK pm \in ordering[q] : pm.deliverable /\ pm.pmk = Key(u)
      BY <2>1 DEF Ready
    <3>2. CASE q # p
      BY <3>1, <3>2, <1>2 DEF Ready, TypeOK
    <3>3. CASE q = p /\ Key(u) = Key(t)
      BY <3>3, <1>1
    <3>4. CASE Key(u) # Key(t)
      BY <3>1, <3>4, <1>4, <1>5 DEF Ready
    <3> QED BY <3>2, <3>3, <3>4
  <2> QED BY <2>1, <1>1 DEF FinalHeld
<1>12. \A i \in 1 .. n : DeliveredPm(p, i)' = DeliveredPm(p, i)
  BY <1>1 DEF DeliveredPm
<1>13. DeliveredPm(p, n + 1)' = FinalPm(t)
  BY <1>1, SMT DEF DeliveredPm, FinalMsg, FinalPm, SeqMessage, PendingMessage
<1>14. \A q \in Procs : q # p =>
         \A i \in DOMAIN delivered[q] : DeliveredPm(q, i)' = DeliveredPm(q, i)
  BY <1>1 DEF DeliveredPm
<1>15. NeverOvertaken'
  <2> SUFFICES ASSUME NEW q \in Procs, NEW i \in DOMAIN delivered'[q],
                      NEW u \in Threads, ~Delivered(q, u)'
               PROVE  /\ pc[u] = "seq" => Less(DeliveredPm(q, i)', FinalPm(u))
                      /\ Holds(q, u) =>
                           delivered'[q][i].final_seq < pending_seqs[q][Key(u)].seq
    BY <1>2 DEF NeverOvertaken, FinalPm, Holds
  <2>1. ~Delivered(q, u) /\ ~(q = p /\ Key(u) = Key(t))
    BY <1>1
  <2>2. CASE q # p
    BY <2>1, <2>2, <1>1, <1>14 DEF NeverOvertaken
  <2>3. CASE q = p /\ i \in 1 .. n
    BY <2>1, <2>3, <1>1, <1>12 DEF NeverOvertaken
  <2>4. CASE q = p /\ i = n + 1
    <3>1. /\ pc[u] = "seq" => Less(FinalPm(t), FinalPm(u))
          /\ Holds(p, u) =>
               final[t].seq < pending_seqs[p][Key(u)].seq
      BY <2>1, <2>4, <1>0, HeadFirst
    <3>2. delivered'[p][n + 1].final_seq = final[t].seq
      BY <1>1, <1>4
    <3> QED BY <2>4, <3>1, <3>2, <1>13
  <2> QED BY <2>2, <2>3, <2>4, <1>6
<1>16. Ascending'
  <2> SUFFICES ASSUME NEW q \in Procs,
                      NEW i \in DOMAIN delivered'[q],
                      NEW j \in DOMAIN delivered'[q],
                      i < j,
                      \A k \in DOMAIN delivered'[q] :
                        k <= i => delivered'[q][k].pmk # delivered'[q][j].pmk
               PROVE  Less(DeliveredPm(q, i)', DeliveredPm(q, j)')
    BY DEF Ascending
  <2>1. CASE q # p
    BY <2>1, <1>1, <1>14, SMT DEF Ascending
  <2>2. CASE q = p /\ j \in 1 .. n
    <3>1. i \in 1 .. n
      BY <2>2, <1>1, SMT
    <3>2. \A k \in 1 .. n : k <= i => delivered[p][k].pmk # delivered[p][j].pmk
      BY <2>2, <1>1, SMT
    <3>3. Less(DeliveredPm(p, i), DeliveredPm(p, j))
      BY <2>2, <3>1, <3>2, <1>1 DEF Ascending
    <3> QED BY <2>2, <3>1, <3>3, <1>12
  <2>3. CASE q = p /\ j = n + 1
    <3>1. i \in 1 .. n
      BY <2>3, <1>1, SMT
    <3>2. \A k \in 1 .. n : k <= i => delivered[p][k].pmk # Key(t)
      BY <2>3, <1>1, <1>4, SMT
    <3>3. Less(DeliveredPm(p, i), FinalPm(t))
      <4>1. CASE ~Delivered(p, t)
        BY <4>1, <3>1, <1>1, <1>2 DEF NeverOvertaken
      <4>2. CASE Delivered(p, t)
        <5>1. PICK k \in 1 .. n : delivered[p][k].pmk = Key(t)
          BY <4>2, <1>1 DEF Delivered
        <5>2. i < k
          BY <5>1, <3>1, <3>2, <1>1, SMT
        <5>3. Less(DeliveredPm(p, i), DeliveredPm(p, k))
          BY <5>1, <5>2, <3>1, <3>2, <1>1 DEF Ascending
        <5>4. PICK u \in Threads : delivered[p][k] = FinalMsg(u)
          BY <5>1, <1>1, SMT DEF FinalOnly
        <5>5. FinalMsg(u).pmk = Key(u)
          BY DEF FinalMsg, SeqMessage
        <5>6. u = t
          BY <5>1, <5>4, <5>5 DEF DistinctIds
        <5>7. DeliveredPm(p, k) = FinalPm(t)
          BY <5>4, <5>6, SMT DEF DeliveredPm, FinalMsg, FinalPm, SeqMessage, PendingMessage
        <5> QED BY <5>3, <5>7
      <4> QED BY <4>1, <4>2
    <3> QED BY <2>3, <3>1, <3>3, <1>12, <1>13
  <2> QED BY <2>1, <2>2, <2>3, <1>6
<1> QED BY <1>3, <1>7, <1>8, <1>9, <1>10, <1>11, <1>15, <1>16

\* The end of the delivery loop changes nothing the invariant speaks of.
LEMMA EndOrderStep ==
  ASSUME OrderInv, NEW p \in Procs, EndDelivery(p)
  PROVE  OrderInv'
<1>1. UNCHANGED <<seq_counter, pending_seqs, ordering, delivered, pc, dest,
                  awaiting, seqs, final, requests, replies>>
  BY DEF EndDelivery, threadVars
<1>2. TypeOK'
  BY DeliverTypeStep DEF OrderInv
<1> USE <1>1 DEF OrderInv
<1>3. CounterAbove' /\ QueueConsistent' /\ CollectedSeqsHeld'
  BY DEF CounterAbove, QueueConsistent, CollectedSeqsHeld
<1>4. FinalOnly' /\ AcksHeld'
  BY ZenonT(40) DEF FinalOnly, AcksHeld, FinalPm, FinalMsg, Holds
<1>5. FinalHeld' /\ NeverOvertaken' /\ Ascending'
  BY ZenonT(40) DEF FinalHeld, NeverOvertaken, Ascending, Ready, Delivered,
                    DeliveredPm, FinalPm, Holds
<1> QED BY <1>2, <1>3, <1>4, <1>5

----------------------------------------------------------------------------
(* The invariant and its consequences. *)

\* The invariant holds when all processes start.
LEMMA OrderInvInit == Init => OrderInv
<1> SUFFICES ASSUME Init PROVE OrderInv
  OBVIOUS
<1>1. TypeOK
  <2>1. 0 \in SeqNums /\ 0 \in Procs /\ 0 \in 0 .. N
    BY ConstantsAssumption, SeqNumType, SMT DEF Procs
  <2>2. final \in [Threads -> PendingSeqs]
    BY <2>1 DEF Init, PendingSeqs
  <2> QED BY <2>1, <2>2, SMT DEF Init, TypeOK
<1>2. CounterAbove /\ QueueConsistent
  BY SMT DEF Init, CounterAbove, QueueConsistent
<1>3. FinalOnly /\ AcksHeld /\ FinalHeld
  BY SMT DEF Init, FinalOnly, AcksHeld, FinalHeld
<1>4. CollectedSeqsHeld
  BY ConstantsAssumption, SMT DEF Init, CollectedSeqsHeld, Procs
<1>5. NeverOvertaken /\ Ascending
  BY SMT DEF Init, NeverOvertaken, Ascending
<1> QED BY <1>1, <1>2, <1>3, <1>4, <1>5 DEF OrderInv

\* Every step of every thread preserves the invariant.
LEMMA OrderInvNext ==
  ASSUME DistinctIds, OrderInv, NoWrap, [Next]_vars
  PROVE  OrderInv'
<1>1. CASE UNCHANGED vars
  <2> USE <1>1 DEF OrderInv, vars
  <2>1. TypeOK' /\ CounterAbove' /\ QueueConsistent' /\ CollectedSeqsHeld'
    BY ZenonT(40) DEF TypeOK, CounterAbove, QueueConsistent, CollectedSeqsHeld
  <2>2. FinalOnly' /\ AcksHeld'
    BY ZenonT(40) DEF FinalOnly, AcksHeld, FinalPm, FinalMsg, Holds
  <2>3. FinalHeld' /\ NeverOvertaken' /\ Ascending'
    BY ZenonT(40) DEF FinalHeld, NeverOvertaken, Ascending, Ready, Delivered,
                      DeliveredPm, FinalPm, Holds
  <2> QED BY <2>1, <2>2, <2>3
<1>2. ASSUME NEW t \in Threads, ThreadStep(t) PROVE OrderInv'
  <2>1. ASSUME NEW lost \in BOOLEAN,
               BeginSend(t, lost) \/ Timeout(t, lost) \/ \E i : RejectAck(t, i, lost)
        PROVE  OrderInv'
    BY <2>1, SendOrderStep
  <2>2. ASSUME NEW i, HandleAck(t, i) PROVE OrderInv'
    BY <2>2, AckOrderStep
  <2>3. ASSUME NEW i, HandleSeqAck(t, i) PROVE OrderInv'
    BY <2>3, SeqAckOrderStep
  <2>4. ASSUME ChooseFinal(t) PROVE OrderInv'
    BY <2>4, ChooseOrderStep
  <2> QED BY <1>2, <2>1, <2>2, <2>3, <2>4 DEF ThreadStep
<1>3. ASSUME NEW p \in Procs, ServerStep(p) PROVE OrderInv'
  <2>0. \A q \in Procs : <<q, p>> \in Clients
    BY DEF Clients
  <2>1. ASSUME NEW c \in Clients, NEW i, NEW lost \in BOOLEAN,
               HandleDataMsg(c, i, lost)
        PROVE  OrderInv'
    BY <2>1, ReplayOrderStep, NewDataOrderStep
  <2>2. ASSUME NEW c \in Clients, NEW i, NEW lost \in BOOLEAN,
               HandleSeqMsg(c, i, lost)
        PROVE  OrderInv'
    BY <2>2, SeqOrderStep
  <2>3. ASSUME Deliver(p) PROVE OrderInv'
    BY <2>3, DeliverOrderStep
  <2>4. ASSUME EndDelivery(p) PROVE OrderInv'
    BY <2>4, EndOrderStep
  <2> QED BY <1>3, <2>0, <2>1, <2>2, <2>3, <2>4 DEF ServerStep
<1> QED BY <1>1, <1>2, <1>3 DEF Next

\* The invariant holds in every run in which message ids are distinct and no
\* counter comes to its limit, whatever the network does.
THEOREM OrderInvariant ==
  ASSUME DistinctIds
  PROVE  Spec /\ []NoWrap => []OrderInv
<1>1. Init => OrderInv
  BY OrderInvInit
<1>2. OrderInv /\ NoWrap /\ [Next]_vars => OrderInv'
  BY OrderInvNext
<1> QED BY <1>1, <1>2, PTL DEF Spec

\* Two processes cannot deliver two messages first in opposite orders: each
\* order would put one strictly before the other under operator<.
LEMMA OrderInvImpliesAgreement ==
  ASSUME DistinctIds, OrderInv
  PROVE  FirstDeliveriesAgree
<1> USE DEF OrderInv
<1> SUFFICES ASSUME NEW p \in Procs, NEW q \in Procs,
                    NEW i \in DOMAIN delivered[p], NEW j \in DOMAIN delivered[p],
                    NEW l \in DOMAIN delivered[q],
                    i < j, IsFirst(p, j),
                    delivered[q][l].pmk = delivered[p][j].pmk,
                    \A k \in DOMAIN delivered[q] :
                      k < l => delivered[q][k] # delivered[p][i]
             PROVE  FALSE
  BY SMT DEF FirstDeliveriesAgree
<1>1. PICK t \in Threads : pc[t] = "seq" /\ delivered[p][i] = FinalMsg(t)
  BY DEF FinalOnly
<1>2. PICK u \in Threads : pc[u] = "seq" /\ delivered[p][j] = FinalMsg(u)
  BY DEF FinalOnly
<1>3. \A v \in Threads : FinalMsg(v).pmk = Key(v)
  BY DEF FinalMsg, SeqMessage
<1>4. \A r \in Procs : \A k \in DOMAIN delivered[r] : \A v \in Threads :
        delivered[r][k].pmk = Key(v) => delivered[r][k] = FinalMsg(v)
  BY <1>3, SMT DEF FinalOnly, DistinctIds
<1>5. \A r \in Procs : \A k \in DOMAIN delivered[r] : \A v \in Threads :
        delivered[r][k] = FinalMsg(v) => DeliveredPm(r, k) = FinalPm(v)
  BY SMT DEF DeliveredPm, FinalMsg, FinalPm, SeqMessage, PendingMessage
<1>6. DOMAIN delivered[p] \subseteq Nat /\ DOMAIN delivered[q] \subseteq Nat
  BY SeqDomain, SMT DEF TypeOK
<1>7. Less(FinalPm(t), FinalPm(u))
  <2>1. \A k \in DOMAIN delivered[p] :
          k <= i => delivered[p][k].pmk # delivered[p][j].pmk
    BY <1>6, SMT DEF IsFirst
  <2>2. Less(DeliveredPm(p, i), DeliveredPm(p, j))
    BY <2>1 DEF Ascending
  <2> QED BY <2>2, <1>1, <1>2, <1>5
<1>8. delivered[q][l] = FinalMsg(u) /\ DeliveredPm(q, l) = FinalPm(u)
  BY <1>2, <1>3, <1>4, <1>5, SMT
<1>9. t # u
  BY <1>1, <1>2, <1>3 DEF IsFirst
<1>10. Less(FinalPm(u), FinalPm(t))
  <2>1. CASE ~Delivered(q, t)
    BY <2>1, <1>1, <1>8 DEF NeverOvertaken
  <2>2. CASE Delivered(q, t)
    <3>1. PICK k \in DOMAIN delivered[q] : delivered[q][k].pmk = Key(t)
      BY <2>2 DEF Delivered
    <3>2. k # l
      BY <3>1, <1>3, <1>8, <1>9 DEF DistinctIds
    <3>3. \A h \in DOMAIN delivered[q] : h <= l => delivered[q][h].pmk # Key(t)
      <4> SUFFICES ASSUME NEW h \in DOMAIN delivered[q], h <= l,
                          delivered[q][h].pmk = Key(t)
                   PROVE  FALSE
        OBVIOUS
      <4>1. h # l
        BY <1>3, <1>8, <1>9 DEF DistinctIds
      <4> QED BY <4>1, <1>1, <1>4, <1>6, SMT
    <3>4. l < k
      BY <3>1, <3>2, <3>3, <1>6, SMT
    <3>5. Less(DeliveredPm(q, l), DeliveredPm(q, k))
      BY <3>1, <3>3, <3>4 DEF Ascending
    <3> QED BY <3>1, <3>5, <1>4, <1>5, <1>8
  <2> QED BY <2>1, <2>2
<1>11. FinalPm(t) \in PendingMessages /\ FinalPm(u) \in PendingMessages
  BY KeyType, MessageTypes DEF TypeOK, FinalPm
<1> QED BY <1>7, <1>10, <1>11, LessAsymmetric

\* All processes agree on the order of the first deliveries, for any number of
\* processes and messages, even when datagrams overtake one another.
THEOREM FirstDeliveriesAgreement ==
  ASSUME DistinctIds
  PROVE  Spec /\ []NoWrap => []FirstDeliveriesAgree
<1>1. OrderInv => FirstDeliveriesAgree
  BY OrderInvImpliesAgreement
<1> QED BY <1>1, OrderInvariant, PTL

\* HandleDataMsg numbers a message that is not on hold beyond all the process
\* holds or has delivered; no other step puts a message on hold.
LEMMA ProposalsAboveStep ==
  ASSUME OrderInv, NoWrap, [Next]_vars
  PROVE  [ProposalsAbove]_vars
<1>1. ASSUME NEW c \in Clients, NEW i, NEW lost \in BOOLEAN,
             HandleDataMsg(c, i, lost)
      PROVE  ProposalsAbove
  <2>1. CASE Lookup(pending_seqs[c[2]], requests[c][i].pmk)
    BY <1>1, <2>1 DEF HandleDataMsg, ProposalsAbove
  <2>2. CASE ~Lookup(pending_seqs[c[2]], requests[c][i].pmk)
    <3> DEFINE p   == c[2]
               pmk == requests[c][i].pmk
               new == [seq |-> seq_counter[p] + 1, seq_proposer |-> p]
               e   == PendingMessage(pmk, new, FALSE)
    <3>1. /\ p \in Procs /\ pmk \in Keys /\ new \in PendingSeqs
          /\ pmk \notin DOMAIN pending_seqs[p]
          /\ \A pm \in ordering[p] : pm.seq < new.seq
          /\ \A j \in DOMAIN delivered[p] : delivered[p][j].final_seq < new.seq
          /\ seq_counter' = [seq_counter EXCEPT ![p] = new.seq]
          /\ pending_seqs' = [pending_seqs EXCEPT ![p] = MapInsert(@, pmk, new)]
          /\ ordering' = [ordering EXCEPT ![p] = @ \cup {e}]
          /\ Reply(c, AckMessage(pmk, new), lost)
      BY <1>1, <2>2, NewDataStep, ZenonT(40)
    <3>2. DOMAIN pending_seqs = Procs
      BY DEF OrderInv, TypeOK
    <3> HIDE DEF p, pmk, new, e
    <3>3. /\ pending_seqs'[p] = MapInsert(pending_seqs[p], pmk, new)
          /\ \A q \in Procs : q # p => pending_seqs'[q] = pending_seqs[q]
      BY <3>1, <3>2
    <3>4. /\ DOMAIN pending_seqs'[p] = DOMAIN pending_seqs[p] \cup {pmk}
          /\ pending_seqs'[p][pmk] = new
      BY <3>3 DEF MapInsert
    <3> QED BY <3>1, <3>3, <3>4 DEF ProposalsAbove
  <2> QED BY <2>1, <2>2
<1>2. ASSUME NEW c \in Clients, NEW i, NEW lost \in BOOLEAN,
             HandleSeqMsg(c, i, lost)
      PROVE  ProposalsAbove
  <2>1. DOMAIN pending_seqs = Procs
    BY DEF OrderInv, TypeOK
  <2>2. \/ UNCHANGED pending_seqs
        \/ pending_seqs' = [pending_seqs EXCEPT ![c[2]] =
                              MapErase(@, requests[c][i].pmk)]
    BY <1>2 DEF HandleSeqMsg
  <2>3. \A q \in Procs : \A k :
          DOMAIN MapErase(pending_seqs[q], k) \subseteq DOMAIN pending_seqs[q]
    BY DEF MapErase
  <2>4. \A q \in Procs : DOMAIN pending_seqs'[q] \subseteq DOMAIN pending_seqs[q]
    BY <2>1, <2>2, <2>3
  <2> QED BY <2>4 DEF ProposalsAbove
<1>3. UNCHANGED pending_seqs => ProposalsAbove
  BY DEF ProposalsAbove
<1>4. ASSUME NEW t \in Threads, ThreadStep(t)
      PROVE  UNCHANGED pending_seqs
  BY <1>4 DEF ThreadStep, BeginSend, Timeout, RejectAck, HandleAck,
              HandleSeqAck, EndSend, ChooseFinal, serverVars
<1>5. ASSUME NEW p \in Procs, ServerStep(p)
      PROVE  ProposalsAbove
  <2>1. \A q \in Procs : <<q, p>> \in Clients
    BY DEF Clients
  <2>2. Deliver(p) \/ EndDelivery(p) => UNCHANGED pending_seqs
    BY DEF Deliver, EndDelivery
  <2> QED BY <1>1, <1>2, <1>3, <1>5, <2>1, <2>2 DEF ServerStep
<1> QED BY <1>3, <1>4, <1>5 DEF Next

\* A process always proposes a sequence number greater than any it holds or has
\* delivered, until the counter comes to its limit.
THEOREM ProposalsAlwaysGrow ==
  ASSUME DistinctIds
  PROVE  Spec /\ []NoWrap => ProposalsGrow
<1>1. OrderInv /\ NoWrap /\ [Next]_vars => [ProposalsAbove]_vars
  BY ProposalsAboveStep
<1> QED BY <1>1, OrderInvariant, PTL DEF Spec, ProposalsGrow

\* A held message that has not been delivered sorts after all deliveries.
LEMMA OrderInvImpliesHeldAfter ==
  ASSUME OrderInv
  PROVE  HeldAfterDelivered
<1> USE DEF OrderInv
<1> SUFFICES ASSUME NEW p \in Procs, NEW pm \in ordering[p],
                    NEW i \in DOMAIN delivered[p],
                    \A j \in DOMAIN delivered[p] : delivered[p][j].pmk # pm.pmk
             PROVE  Less(DeliveredPm(p, i), pm)
  BY DEF HeldAfterDelivered, DeliveredPm, PendingMessage
<1>1. pm \in PendingMessages
  BY DEF TypeOK
<1>2. PICK t \in Threads : pm.pmk = Key(t)
  BY <1>1, EntryType DEF Keys
<1>3. ~Delivered(p, t)
  BY <1>2 DEF Delivered
<1>4. CASE pm.deliverable
  <2>1. PICK u \in Threads : pc[u] = "seq" /\ pm = FinalPm(u)
    BY <1>4 DEF FinalOnly
  <2>2. ~Delivered(p, u)
    BY <2>1 DEF Delivered, FinalPm, PendingMessage
  <2> QED BY <2>1, <2>2 DEF NeverOvertaken
<1>5. CASE ~pm.deliverable
  <2>1. /\ Holds(p, t)
        /\ pm = PendingMessage(Key(t), pending_seqs[p][Key(t)], FALSE)
    BY <1>2, <1>5 DEF QueueConsistent, Holds
  <2>2. delivered[p][i].final_seq < pending_seqs[p][Key(t)].seq
    BY <2>1, <1>3 DEF NeverOvertaken
  <2>3. pm.seq = pending_seqs[p][Key(t)].seq
    BY <2>1 DEF PendingMessage
  <2> QED BY <2>2, <2>3 DEF Less, DeliveredPm
<1> QED BY <1>4, <1>5

\* A message on hold for its first delivery sorts after all the process has
\* delivered: the delivery loop never has to go back.
THEOREM HeldMessagesLater ==
  ASSUME DistinctIds
  PROVE  Spec /\ []NoWrap => []HeldAfterDelivered
<1>1. OrderInv => HeldAfterDelivered
  BY OrderInvImpliesHeldAfter
<1> QED BY <1>1, OrderInvariant, PTL

\* The two halves of the hold-back queue agree: SetDeliverable always finds the
\* entry it erases, and InsertUndeliverable never throws.
THEOREM QueueSound ==
  ASSUME DistinctIds
  PROVE  Spec /\ []NoWrap => []QueueConsistent
<1>1. OrderInv => QueueConsistent
  BY DEF OrderInv
<1> QED BY <1>1, OrderInvariant, PTL

\* The final sequence number of a delivered message has been chosen, so every
\* process has acknowledged its data.
LEMMA OrderInvImpliesKnown ==
  ASSUME OrderInv
  PROVE  KnownEverywhere
<1> SUFFICES ASSUME NEW p \in Procs, NEW q \in Procs,
                    NEW i \in DOMAIN delivered[p]
             PROVE  \/ delivered[p][i].pmk \in DOMAIN pending_seqs[q]
                    \/ Finalised(q, delivered[p][i].pmk)
  BY DEF KnownEverywhere
<1>1. PICK t \in Threads : pc[t] = "seq" /\ delivered[p][i] = FinalMsg(t)
  BY DEF OrderInv, FinalOnly
<1>2. delivered[p][i].pmk = Key(t)
  <2>1. FinalMsg(t).pmk = Key(t)
    BY DEF FinalMsg, SeqMessage
  <2> QED BY <1>1, <2>1
<1>3. Ready(q, t) \/ Delivered(q, t) \/ Holds(q, t)
  BY <1>1 DEF OrderInv, FinalHeld
<1> QED BY <1>2, <1>3 DEF Ready, Delivered, Holds, Finalised

\* No process delivers a message that another process does not know of, even
\* when datagrams overtake one another.
THEOREM DeliveredIsKnown ==
  ASSUME DistinctIds
  PROVE  Spec /\ []NoWrap => []KnownEverywhere
<1>1. OrderInv => KnownEverywhere
  BY OrderInvImpliesKnown
<1> QED BY <1>1, OrderInvariant, PTL

\* No acknowledgement that handle_ack accepts is stale: while a thread collects
\* them, each process that answered holds its message under the number recorded.
THEOREM CollectedSeqsSound ==
  ASSUME DistinctIds
  PROVE  Spec /\ []NoWrap => []CollectedSeqsHeld
<1>1. OrderInv => CollectedSeqsHeld
  BY DEF OrderInv
<1> QED BY <1>1, OrderInvariant, PTL
=============================================================================
