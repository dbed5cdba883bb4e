----------------------------- MODULE TotalOrder -----------------------------
(***************************************************************************)
(* N processes running Process::TotalOrder over UDP.                       *)
(*                                                                         *)
(* Every process has one server thread (Server::Listen with the callbacks  *)
(* HandleDataMsg and HandleSeqMsg) and one multicast sender thread per     *)
(* message (LaunchMulticastSender).  The sender threads of a process share *)
(* one udp::Client, hence one socket, per destination; a thread owns it,   *)
(* through sockfd_mutex_, for the whole of SendWithAck.                    *)
(*                                                                         *)
(* The server thread is the only one to touch the hold-back queue and the  *)
(* sequence counter, so a handler is one step.  The delivery loop of       *)
(* SetDeliverable calls out once per message: it is one step per           *)
(* iteration, during which the server receives nothing.                    *)
(*                                                                         *)
(* Datagrams may be lost.  With Reorder they may overtake one another on   *)
(* the way between two sockets, as UDP permits; without it they may not,   *)
(* as on one host.  A process that has not been started, or has stopped,   *)
(* is one that takes no steps and to which every datagram is lost.         *)
(***************************************************************************)
EXTENDS HoldBackQueue, Sequences, FiniteSets

CONSTANTS
  N,            \* processes_.size()
  Threads,      \* the multicast sender threads, one per message
  Sender,       \* Sender[t]: the process (id_) that runs thread t
  MsgId,        \* MsgId[t]: what UniqueID() returns in thread t
  SeqLimit,     \* sequence numbers are taken modulo this: 2^32 in the code
  MaxInFlight,  \* datagrams a path between two sockets holds; more are dropped
  Reorder       \* may datagrams of one path overtake one another?

Procs == 0 .. N - 1

ASSUME ConstantsAssumption ==
  /\ N \in Nat \ {0}
  /\ Sender \in [Threads -> Procs]
  /\ MsgId \in [Threads -> Nat]
  /\ SeqLimit \in Nat \ {0}
  /\ MaxInFlight \in Nat \ {0}
  /\ Reorder \in BOOLEAN

\* The socket of process c[1]'s udp::Client for process c[2].
Clients == Procs \X Procs

VARIABLES
  seq_counter,  \* seq_counter[p]: Process::seq_counter_
  pending_seqs, \* pending_seqs[p]: HoldBackQueue::pending_seqs_
  ordering,     \* ordering[p]: HoldBackQueue::ordering_
  serving,      \* serving[p]: where the server thread is
  delivered,    \* delivered[p]: the SeqMessages passed to deliver, in order
  pc,           \* pc[t]: the multicast, of the data or of final_seq, t is in
  dest,         \* dest[t]: the pid of the loop over the processes
  awaiting,     \* awaiting[t]: t holds sockfd_mutex_ and waits in recvfrom
  seqs,         \* seqs[t]: the proposed sequence numbers collected
  final,        \* final[t]: the final sequence number and its proposer
  requests,     \* requests[c]: datagrams from socket c to the server of c[2]
  replies       \* replies[c]: datagrams from the server of c[2] to socket c

serverVars == <<seq_counter, pending_seqs, ordering, serving, delivered>>
threadVars == <<pc, dest, awaiting, seqs, final>>
vars == <<seq_counter, pending_seqs, ordering, serving, delivered, pc, dest,
          awaiting, seqs, final, requests, replies>>

----------------------------------------------------------------------------
\* The four message types of message.h, with (sender, msg_id) as the key pmk.

Key(t) == [sender |-> Sender[t], msg_id |-> MsgId[t]]
Keys == {Key(t) : t \in Threads}
SeqNums == 0 .. SeqLimit - 1

DataMessage(t) == [type |-> "data", pmk |-> Key(t)]
AckMessage(pmk, pms) ==
  [type |-> "ack", pmk |-> pmk, proposed_seq |-> pms.seq,
   proposer |-> pms.seq_proposer]
SeqMessage(pmk, pms) ==
  [type |-> "seq", pmk |-> pmk, final_seq |-> pms.seq,
   final_seq_proposer |-> pms.seq_proposer]
SeqAckMessage(pmk) == [type |-> "seqack", pmk |-> pmk]

PendingSeqs == [seq : SeqNums, seq_proposer : Procs]
PendingMessages ==
  [pmk : Keys, seq : SeqNums, seq_proposer : Procs, deliverable : BOOLEAN]
SeqMessages ==
  [type : {"seq"}, pmk : Keys, final_seq : SeqNums, final_seq_proposer : Procs]
Requests == [type : {"data"}, pmk : Keys] \cup SeqMessages
Replies ==
  [type : {"ack"}, pmk : Keys, proposed_seq : SeqNums, proposer : Procs]
    \cup [type : {"seqack"}, pmk : Keys]

\* Every variable has its type, and a thread waits only for an acknowledgement
\* of an existing process: ClientForId(pid) is defined.
TypeOK ==
  /\ seq_counter \in [Procs -> SeqNums]
  /\ DOMAIN pending_seqs = Procs
  /\ \A p \in Procs : /\ DOMAIN pending_seqs[p] \subseteq Keys
                      /\ \A k \in DOMAIN pending_seqs[p] :
                           pending_seqs[p][k] \in PendingSeqs
  /\ ordering \in [Procs -> SUBSET PendingMessages]
  /\ serving \in [Procs -> {"listen", "deliver"}]
  /\ delivered \in [Procs -> Seq(SeqMessages)]
  /\ pc \in [Threads -> {"data", "seq"}]
  /\ dest \in [Threads -> 0 .. N]
  /\ awaiting \in [Threads -> BOOLEAN]
  /\ \A t \in Threads : awaiting[t] => dest[t] < N
  /\ seqs \in [Threads -> [Procs -> SeqNums]]
  /\ final \in [Threads -> PendingSeqs]
  /\ requests \in [Clients -> Seq(Requests)]
  /\ replies \in [Clients -> Seq(Replies)]

Init ==
  /\ seq_counter = [p \in Procs |-> 0]
  /\ pending_seqs = [p \in Procs |-> [k \in {} |-> 0]]
  /\ ordering = [p \in Procs |-> {}]
  /\ serving = [p \in Procs |-> "listen"]
  /\ delivered = [p \in Procs |-> << >>]
  /\ pc = [t \in Threads |-> "data"]
  /\ dest = [t \in Threads |-> 0]
  /\ awaiting = [t \in Threads |-> FALSE]
  /\ seqs = [t \in Threads |-> [p \in Procs |-> 0]]
  /\ final = [t \in Threads |-> [seq |-> 0, seq_proposer |-> 0]]
  /\ requests = [c \in Clients |-> << >>]
  /\ replies = [c \in Clients |-> << >>]

----------------------------------------------------------------------------
\* The network: sendto and recvfrom on a path that holds MaxInFlight datagrams.

Transmit(path, m, lost) ==
  IF lost \/ Len(path) >= MaxInFlight THEN path ELSE Append(path, m)

\* The path once its i-th datagram has been received.
Without(path, i) == SubSeq(path, 1, i - 1) \o SubSeq(path, i + 1, Len(path))

\* The positions a recvfrom may take its datagram from.
Arrivals(path) == IF Reorder THEN DOMAIN path ELSE DOMAIN path \cap {1}

----------------------------------------------------------------------------
\* The multicast sender threads: SendDataMsg and SendSeqMsg to each process in
\* turn, each a udp::Client::SendWithAck with unlimited attempts.

Client(t) == <<Sender[t], dest[t]>>

\* Outgoing gone wrong: the final sequence number goes out as an AckMessage,
\* which has the size and the layout of a SeqMessage.
OutgoingMistyped(t) ==
  IF pc[t] = "data" THEN DataMessage(t) ELSE AckMessage(Key(t), final[t])

Outgoing(t) ==
  IF pc[t] = "data" THEN DataMessage(t) ELSE SeqMessage(Key(t), final[t])

Send(t, lost) ==
  requests' = [requests EXCEPT ![Client(t)] = Transmit(@, Outgoing(t), lost)]

\* SendWithAck takes the mutex of the client and makes its first attempt.
BeginSend(t, lost) ==
  /\ dest[t] < N
  /\ ~awaiting[t]
  /\ \A u \in Threads : awaiting[u] => Client(u) # Client(t)
  /\ awaiting' = [awaiting EXCEPT ![t] = TRUE]
  /\ Send(t, lost)
  /\ UNCHANGED <<serverVars, pc, dest, seqs, final, replies>>

\* recvfrom times out (no reply has come yet, whether or not one is on its
\* way); after the backoff the message is sent again.
Timeout(t, lost) ==
  /\ awaiting[t]
  /\ Send(t, lost)
  /\ UNCHANGED <<serverVars, threadVars, replies>>

\* ValidAckMsg gone wrong: any message's acknowledgement will do.
ValidAckMsgOfAny(m, t) == m.type = "ack" /\ m.proposer = dest[t]

ValidAckMsg(m, t) == m.type = "ack" /\ m.pmk = Key(t) /\ m.proposer = dest[t]
ValidSeqAckMsg(m, t) == m.type = "seqack" /\ m.pmk = Key(t)

ValidAck(m, t) ==
  IF pc[t] = "data" THEN ValidAckMsg(m, t) ELSE ValidSeqAckMsg(m, t)

\* recvfrom returns a datagram, the i-th of the path to the thread's socket.
Receive(t, i) ==
  /\ awaiting[t]
  /\ i \in Arrivals(replies[Client(t)])
  /\ replies' = [replies EXCEPT ![Client(t)] = Without(@, i)]

\* An acknowledgement meant for an earlier exchange over this socket: it is
\* dropped and the message is sent again.
RejectAck(t, i, lost) ==
  /\ Receive(t, i)
  /\ ~ValidAck(replies[Client(t)][i], t)
  /\ Send(t, lost)
  /\ UNCHANGED <<serverVars, threadVars>>

\* SendWithAck returns, releasing the mutex; the loop goes to the next process.
EndSend(t) ==
  /\ awaiting' = [awaiting EXCEPT ![t] = FALSE]
  /\ dest' = [dest EXCEPT ![t] = @ + 1]
  /\ UNCHANGED <<serverVars, pc, final, requests>>

\* handle_ack: records the proposed sequence number.
HandleAck(t, i) ==
  LET m == replies[Client(t)][i] IN
  /\ Receive(t, i)
  /\ pc[t] = "data"
  /\ ValidAck(m, t)
  /\ seqs' = [seqs EXCEPT ![t][dest[t]] = m.proposed_seq]
  /\ EndSend(t)

\* isValidAck of SendSeqMsg.
HandleSeqAck(t, i) ==
  /\ Receive(t, i)
  /\ pc[t] = "seq"
  /\ ValidAck(replies[Client(t)][i], t)
  /\ UNCHANGED seqs
  /\ EndSend(t)

\* IsFinalProposer gone wrong: the smallest proposal is taken.
IsFinalProposerLeast(proposed, pid) ==
  /\ \A q \in Procs : proposed[q] >= proposed[pid]
  /\ \A q \in Procs : q < pid => proposed[q] # proposed[pid]

\* pid is the smallest process that proposed the greatest sequence number.
IsFinalProposer(proposed, pid) ==
  /\ \A q \in Procs : proposed[q] <= proposed[pid]
  /\ \A q \in Procs : q < pid => proposed[q] # proposed[pid]

\* ChooseFinal gone wrong: the last acknowledgement is not waited for.
ChooseFinalEarly(t) ==
  /\ pc[t] = "data"
  /\ dest[t] >= N - 1 /\ ~awaiting[t]
  /\ \E pid \in Procs :
       /\ IsFinalProposer(seqs[t], pid)
       /\ final' = [final EXCEPT ![t] =
                      [seq |-> seqs[t][pid], seq_proposer |-> pid]]
  /\ pc' = [pc EXCEPT ![t] = "seq"]
  /\ dest' = [dest EXCEPT ![t] = 0]
  /\ UNCHANGED <<serverVars, awaiting, seqs, requests, replies>>

\* All processes have acknowledged the data: choose final_seq and multicast it.
ChooseFinal(t) ==
  /\ pc[t] = "data"
  /\ dest[t] = N
  /\ \E pid \in Procs :
       /\ IsFinalProposer(seqs[t], pid)
       /\ final' = [final EXCEPT ![t] =
                      [seq |-> seqs[t][pid], seq_proposer |-> pid]]
  /\ pc' = [pc EXCEPT ![t] = "seq"]
  /\ dest' = [dest EXCEPT ![t] = 0]
  /\ UNCHANGED <<serverVars, awaiting, seqs, requests, replies>>

----------------------------------------------------------------------------
\* The server thread.

\* Server::Listen: recvfrom returns the i-th datagram from socket c.
Recv(c, i) ==
  /\ serving[c[2]] = "listen"
  /\ i \in Arrivals(requests[c])
  /\ requests' = [requests EXCEPT ![c] = Without(@, i)]

\* udp::Client::Send to the address the datagram came from.
Reply(c, m, lost) == replies' = [replies EXCEPT ![c] = Transmit(@, m, lost)]

\* ForwardSeqNum gone wrong: the counter is not forwarded.
ForwardSeqNumDropped(counter, seen) == counter

NextSeqNum(counter) == (counter + 1) % SeqLimit
ForwardSeqNum(counter, seen) == IF seen > counter THEN seen ELSE counter

\* A data message already in the queue gets its old acknowledgement; any other
\* is given the next sequence number and put on hold.
HandleDataMsg(c, i, lost) ==
  LET p   == c[2]
      pmk == requests[c][i].pmk
      pms == IF Lookup(pending_seqs[p], pmk)
             THEN pending_seqs[p][pmk]
             ELSE [seq |-> NextSeqNum(seq_counter[p]), seq_proposer |-> p]
  IN
  /\ Recv(c, i)
  /\ requests[c][i].type = "data"
  /\ IF Lookup(pending_seqs[p], pmk)
     THEN UNCHANGED <<seq_counter, pending_seqs, ordering>>
     ELSE /\ seq_counter' = [seq_counter EXCEPT ![p] = pms.seq]
          /\ pending_seqs' =
               [pending_seqs EXCEPT ![p] = MapInsert(@, pmk, pms)]
          /\ ordering' =
               [ordering EXCEPT ![p] = InsertUndeliverable(@, pmk, pms)]
  /\ Reply(c, AckMessage(pmk, pms), lost)
  /\ UNCHANGED <<serving, delivered, threadVars>>

\* The counter is forwarded and the message acknowledged in any case; a message
\* that is on hold becomes deliverable and the delivery loop starts.
HandleSeqMsg(c, i, lost) ==
  LET p   == c[2]
      m   == requests[c][i]
      pms == [seq |-> m.final_seq, seq_proposer |-> m.final_seq_proposer]
  IN
  /\ Recv(c, i)
  /\ m.type = "seq"
  /\ seq_counter' = [seq_counter EXCEPT ![p] = ForwardSeqNum(@, m.final_seq)]
  /\ Reply(c, SeqAckMessage(m.pmk), lost)
  /\ IF Lookup(pending_seqs[p], m.pmk)
     THEN /\ pending_seqs' = [pending_seqs EXCEPT ![p] = MapErase(@, m.pmk)]
          /\ ordering' = [ordering EXCEPT ![p] =
                            Reinsert(@, m.pmk, pending_seqs[p][m.pmk], pms)]
          /\ serving' = [serving EXCEPT ![p] = "deliver"]
     ELSE UNCHANGED <<pending_seqs, ordering, serving>>
  /\ UNCHANGED <<delivered, threadVars>>

\* An iteration of the delivery loop: the head of the queue is deliverable, is
\* passed to deliver and erased.
Deliver(p) ==
  /\ serving[p] = "deliver"
  /\ \E pm \in ordering[p] :
       /\ DeliverableHead(ordering[p], pm)
       /\ delivered' =
            [delivered EXCEPT ![p] = Append(@, SeqMessage(pm.pmk, pm))]
       /\ ordering' = [ordering EXCEPT ![p] = @ \ {pm}]
  /\ UNCHANGED <<seq_counter, pending_seqs, serving, threadVars, requests,
                 replies>>

\* EndDelivery gone wrong: the loop may stop with a deliverable head.
EndDeliveryEarly(p) ==
  /\ serving[p] = "deliver"
  /\ serving' = [serving EXCEPT ![p] = "listen"]
  /\ UNCHANGED <<seq_counter, pending_seqs, ordering, delivered, threadVars,
                 requests, replies>>

\* The delivery loop ends and the server goes back to recvfrom.
EndDelivery(p) ==
  /\ serving[p] = "deliver"
  /\ \A pm \in ordering[p] : ~DeliverableHead(ordering[p], pm)
  /\ serving' = [serving EXCEPT ![p] = "listen"]
  /\ UNCHANGED <<seq_counter, pending_seqs, ordering, delivered, threadVars,
                 requests, replies>>

----------------------------------------------------------------------------
ThreadStep(t) ==
  \/ \E lost \in BOOLEAN : BeginSend(t, lost)
  \/ \E lost \in BOOLEAN : Timeout(t, lost)
  \/ /\ awaiting[t]
     /\ \E i \in DOMAIN replies[Client(t)], lost \in BOOLEAN :
          RejectAck(t, i, lost)
  \/ awaiting[t] /\ \E i \in DOMAIN replies[Client(t)] : HandleAck(t, i)
  \/ awaiting[t] /\ \E i \in DOMAIN replies[Client(t)] : HandleSeqAck(t, i)
  \/ ChooseFinal(t)

ServerStep(p) ==
  \/ \E q \in Procs : \E i \in DOMAIN requests[<<q, p>>], lost \in BOOLEAN :
       HandleDataMsg(<<q, p>>, i, lost)
  \/ \E q \in Procs : \E i \in DOMAIN requests[<<q, p>>], lost \in BOOLEAN :
       HandleSeqMsg(<<q, p>>, i, lost)
  \/ Deliver(p)
  \/ EndDelivery(p)

Next == (\E t \in Threads : ThreadStep(t)) \/ (\E p \in Procs : ServerStep(p))

Spec == Init /\ [][Next]_vars

\* Every thread that can take a step does.  The network is fair-lossy: of
\* infinitely many transmissions of a message, and of infinitely many replies
\* to it, infinitely many arrive.
Fairness ==
  /\ \A t \in Threads :
       /\ WF_vars(\/ \E lost \in BOOLEAN : BeginSend(t, lost)
                  \/ /\ awaiting[t]
                     /\ \E i \in DOMAIN replies[Client(t)] :
                          \/ \E lost \in BOOLEAN : RejectAck(t, i, lost)
                          \/ HandleAck(t, i)
                          \/ HandleSeqAck(t, i)
                  \/ ChooseFinal(t))
       /\ SF_vars(Timeout(t, FALSE))
  /\ \A c \in Clients :
       SF_vars(\E i \in DOMAIN requests[c] :
                 HandleDataMsg(c, i, FALSE) \/ HandleSeqMsg(c, i, FALSE))
  /\ \A p \in Procs : WF_vars(Deliver(p) \/ EndDelivery(p))

FairSpec == Spec /\ Fairness

----------------------------------------------------------------------------
\* What the algorithm promises.

\* Total order: position by position, any two processes have passed the same
\* message, with the same final sequence number and proposer, to deliver.  What
\* the tests compare between the outputs of the processes.
SameOrder ==
  \A p, q \in Procs : \A i \in DOMAIN delivered[p] \cap DOMAIN delivered[q] :
    delivered[p][i] = delivered[q][i]

\* deliver is called at most once per message in each process, however often
\* its DataMessage and SeqMessage are retransmitted.
NoDuplicateDelivery ==
  \A p \in Procs : \A i, j \in DOMAIN delivered[p] :
    delivered[p][i].pmk = delivered[p][j].pmk => i = j

IsFirst(p, j) ==
  \A i \in DOMAIN delivered[p] :
    i < j => delivered[p][i].pmk # delivered[p][j].pmk

\* Total order of the first deliveries: if q has delivered a message then it
\* delivered before it all that p delivered before delivering it for the first
\* time.  HoldBackQueue::SetDeliverable at q cannot have skipped any of it.
FirstDeliveriesAgree ==
  \A p, q \in Procs : \A i, j \in DOMAIN delivered[p], l \in DOMAIN delivered[q] :
    /\ i < j
    /\ IsFirst(p, j)
    /\ delivered[q][l].pmk = delivered[p][j].pmk
    => \E k \in DOMAIN delivered[q] : k < l /\ delivered[q][k] = delivered[p][i]

Finished(t) == pc[t] = "seq" /\ dest[t] = N

\* Once every sender thread has returned and no server is in its delivery loop
\* each process has delivered one message per thread: nothing is left stuck
\* behind an undeliverable head of the hold-back queue.
CompleteWhenDone ==
  (\A t \in Threads : Finished(t)) =>
    \A p \in Procs : serving[p] = "listen" =>
      Len(delivered[p]) = Cardinality(Threads)

\* Every message is eventually delivered by every process, whatever the network
\* loses: SendWithAck retries without limit.
EventuallyDelivered ==
  \A t \in Threads, p \in Procs :
    <>(\E i \in DOMAIN delivered[p] : delivered[p][i].pmk = Key(t))

----------------------------------------------------------------------------
\* Why it does.

Finalised(p, pmk) ==
  \/ \E pm \in ordering[p] : pm.deliverable /\ pm.pmk = pmk
  \/ \E i \in DOMAIN delivered[p] : delivered[p][i].pmk = pmk

\* A message is delivered nowhere before every process knows of it: each other
\* process holds it back, has it deliverable or has delivered it too.  A process
\* that is ahead has not gone ahead with a message that others may never get.
KnownEverywhere ==
  \A p, q \in Procs : \A i \in DOMAIN delivered[p] :
    \/ delivered[p][i].pmk \in DOMAIN pending_seqs[q]
    \/ Finalised(q, delivered[p][i].pmk)

\* A process that has the final sequence number of a message does not propose
\* another one for it: HandleDataMsg never takes a replayed message for a new
\* one.
NoReproposal ==
  \A p \in Procs : \A pmk \in DOMAIN pending_seqs[p] : ~Finalised(p, pmk)

\* pending_seqs_ holds exactly the keys and sequence numbers of the
\* undeliverable entries of ordering_: SetDeliverable finds the entry it means
\* to erase, and the exceptions of InsertUndeliverable are never thrown.
QueueConsistent ==
  \A p \in Procs :
    /\ \A pm \in ordering[p] : ~pm.deliverable =>
         /\ pm.pmk \in DOMAIN pending_seqs[p]
         /\ pm = PendingMessage(pm.pmk, pending_seqs[p][pm.pmk], FALSE)
    /\ \A pmk \in DOMAIN pending_seqs[p] :
         PendingMessage(pmk, pending_seqs[p][pmk], FALSE) \in ordering[p]

\* A message on hold for its first delivery sorts, under operator<, after every
\* message already delivered.
HeldAfterDelivered ==
  \A p \in Procs : \A pm \in ordering[p], i \in DOMAIN delivered[p] :
    \/ \E j \in DOMAIN delivered[p] : delivered[p][j].pmk = pm.pmk
    \/ LET m == delivered[p][i] IN
       Less(PendingMessage(m.pmk, [seq |-> m.final_seq, seq_proposer |->
                                   m.final_seq_proposer], TRUE), pm)

\* While thread t collects acknowledgements every process that has answered
\* holds t's message back under the very sequence number t recorded: no stale
\* acknowledgement on the shared socket is taken for the answer.
CollectedSeqsHeld ==
  \A t \in Threads : pc[t] = "data" =>
    \A p \in Procs : p < dest[t] =>
      /\ Key(t) \in DOMAIN pending_seqs[p]
      /\ pending_seqs[p][Key(t)] = [seq |-> seqs[t][p], seq_proposer |-> p]

ProposalsAbove ==
  \A p \in Procs : \A pmk \in DOMAIN pending_seqs'[p] \ DOMAIN pending_seqs[p] :
    /\ \A pm \in ordering[p] : pm.seq < pending_seqs'[p][pmk].seq
    /\ \A i \in DOMAIN delivered[p] :
         delivered[p][i].final_seq < pending_seqs'[p][pmk].seq

\* Every sequence number a process puts on a new message is greater than any it
\* holds or has delivered, as ForwardSeqNum is there to ensure.
ProposalsGrow == [][ProposalsAbove]_vars
=============================================================================
