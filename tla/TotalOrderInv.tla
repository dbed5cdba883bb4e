--------------------------- MODULE TotalOrderInv ---------------------------
(***************************************************************************)
(* The inductive invariants behind the total order.                        *)
(*                                                                         *)
(* OrderInv holds whatever the network does to the datagrams.  It says     *)
(* that the final sequence number of a message bounds every proposal made  *)
(* for it, and that a delivery at a process never overtakes a message that *)
(* can still get a smaller place in the order.                             *)
(*                                                                         *)
(* FifoInv adds what is true when datagrams do not overtake one another: a *)
(* data message never arrives after the final sequence number of the same  *)
(* message, so that no message is put on hold twice.                       *)
(*                                                                         *)
(* CompleteInv adds that an acknowledged final sequence number has been    *)
(* applied and that no deliverable head is left behind, so that nothing is *)
(* missing when all is acknowledged.                                       *)
(***************************************************************************)
EXTENDS TotalOrder

\* (sender, msg_id) identifies a message, as the end of operator< assumes.
DistinctIds == \A t, u \in Threads : Key(t) = Key(u) => t = u

\* No counter is about to wrap around.
NoWrap == \A p \in Procs : seq_counter[p] + 1 < SeqLimit

----------------------------------------------------------------------------
Holds(p, t) == Key(t) \in DOMAIN pending_seqs[p]
Ready(p, t) == \E pm \in ordering[p] : pm.deliverable /\ pm.pmk = Key(t)
Delivered(p, t) == \E i \in DOMAIN delivered[p] : delivered[p][i].pmk = Key(t)

\* What carries the final sequence number of t: the message on the wire and
\* handed to deliver, and the entry of the hold-back queue.
FinalMsg(t) == SeqMessage(Key(t), final[t])
FinalPm(t) == PendingMessage(Key(t), final[t], TRUE)

\* The i-th message delivered by p, as the hold-back queue had it.
DeliveredPm(p, i) ==
  [pmk |-> delivered[p][i].pmk, seq |-> delivered[p][i].final_seq,
   seq_proposer |-> delivered[p][i].final_seq_proposer, deliverable |-> TRUE]

\* The counter is at least every sequence number held or delivered.
CounterAbove ==
  \A p \in Procs :
    /\ \A pm \in ordering[p] : pm.seq <= seq_counter[p]
    /\ \A i \in DOMAIN delivered[p] : delivered[p][i].final_seq <= seq_counter[p]

\* What is deliverable, delivered or sent as a SeqMessage is the final sequence
\* number of a thread that has chosen it.
FinalOnly ==
  /\ \A p \in Procs : \A pm \in ordering[p] :
       pm.deliverable => \E t \in Threads : pc[t] = "seq" /\ pm = FinalPm(t)
  /\ \A p \in Procs : \A i \in DOMAIN delivered[p] :
       \E t \in Threads : pc[t] = "seq" /\ delivered[p][i] = FinalMsg(t)
  /\ \A c \in Clients : \A i \in DOMAIN requests[c] :
       requests[c][i].type = "seq" =>
         \E t \in Threads : pc[t] = "seq" /\ requests[c][i] = FinalMsg(t)

\* An acknowledgement on its way to a thread that still collects them carries
\* the sequence number the message is on hold under.
AcksHeld ==
  \A c \in Clients : \A i \in DOMAIN replies[c] : \A t \in Threads :
    /\ replies[c][i].type = "ack"
    /\ replies[c][i].pmk = Key(t)
    /\ pc[t] = "data"
    => /\ Holds(c[2], t)
       /\ pending_seqs[c[2]][Key(t)] =
            [seq |-> replies[c][i].proposed_seq,
             seq_proposer |-> replies[c][i].proposer]

\* Once the final sequence number is chosen every process has the message: it
\* still holds it under a sequence number that is not greater, or has it
\* deliverable, or has delivered it.
FinalHeld ==
  \A t \in Threads, p \in Procs : pc[t] = "seq" =>
    \/ Ready(p, t)
    \/ Delivered(p, t)
    \/ Holds(p, t) /\ pending_seqs[p][Key(t)].seq <= final[t].seq

\* A message that p has yet to deliver comes after all that p has delivered.
NeverOvertaken ==
  \A p \in Procs : \A i \in DOMAIN delivered[p] : \A t \in Threads :
    ~Delivered(p, t) =>
      /\ pc[t] = "seq" => Less(DeliveredPm(p, i), FinalPm(t))
      /\ Holds(p, t) =>
           delivered[p][i].final_seq < pending_seqs[p][Key(t)].seq

\* Up to repetitions, messages are delivered in ascending order.
Ascending ==
  \A p \in Procs : \A i, j \in DOMAIN delivered[p] :
    /\ i < j
    /\ \A k \in DOMAIN delivered[p] :
         k <= i => delivered[p][k].pmk # delivered[p][j].pmk
    => Less(DeliveredPm(p, i), DeliveredPm(p, j))

OrderInv ==
  /\ TypeOK
  /\ CounterAbove
  /\ QueueConsistent
  /\ FinalOnly
  /\ AcksHeld
  /\ CollectedSeqsHeld
  /\ FinalHeld
  /\ NeverOvertaken
  /\ Ascending

----------------------------------------------------------------------------
\* A message travels on the sockets of its sender only, data before seq.
DataBeforeSeq ==
  \A c \in Clients : \A i \in DOMAIN requests[c] :
    /\ requests[c][i].pmk.sender = c[1]
    /\ \A j \in DOMAIN requests[c] :
         /\ i < j
         /\ requests[c][i].type = "seq"
         /\ requests[c][j].type = "data"
         => requests[c][i].pmk # requests[c][j].pmk

\* No data message is on its way to a process that knows its final number.
NoLateData ==
  \A c \in Clients : \A i \in DOMAIN requests[c] :
    requests[c][i].type = "data" => ~Finalised(c[2], requests[c][i].pmk)

\* What is deliverable has not been delivered yet.
DeliverableOnce ==
  \A p \in Procs, t \in Threads : ~(Ready(p, t) /\ Delivered(p, t))

FifoInv ==
  /\ OrderInv
  /\ DataBeforeSeq
  /\ NoLateData
  /\ NoReproposal
  /\ DeliverableOnce
  /\ NoDuplicateDelivery
  /\ SameOrder

----------------------------------------------------------------------------
\* A process that has acknowledged a final sequence number, to a reply under way
\* or to one its thread has received, knows it.
AckedFinalised ==
  /\ \A c \in Clients : \A i \in DOMAIN replies[c] : \A t \in Threads :
       replies[c][i].type = "seqack" /\ replies[c][i].pmk = Key(t) =>
         Finalised(c[2], Key(t))
  /\ \A t \in Threads, p \in Procs :
       pc[t] = "seq" /\ p < dest[t] => Finalised(p, Key(t))

\* Outside its delivery loop no process has a deliverable head.
NoHeadLeft ==
  \A p \in Procs : serving[p] = "listen" =>
    \A pm \in ordering[p] : ~DeliverableHead(ordering[p], pm)

CompleteInv ==
  /\ FifoInv
  /\ AckedFinalised
  /\ NoHeadLeft
=============================================================================
