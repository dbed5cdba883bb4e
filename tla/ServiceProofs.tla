---------------------------- MODULE ServiceProofs ---------------------------
(***************************************************************************)
(* What a caller of TotalOrder gets when the datagrams of a path do not    *)
(* overtake one another.                                                   *)
(*                                                                         *)
(* First: no message is put on hold again once its final sequence number   *)
(* is known, and all processes deliver the same messages in the same       *)
(* order.  FifoInv is inductive.                                           *)
(*                                                                         *)
(* Second: nothing is missing once every sender thread has returned.       *)
(* CompleteInv is inductive and empties the hold-back queues then, because *)
(* a queue without an undeliverable entry has a deliverable head.          *)
(*                                                                         *)
(* Third: TotalOrder implements AtomicMulticast.  Choosing final_seq       *)
(* gives a message its place, an iteration of the delivery loop delivers   *)
(* it, and every other step is a stutter.                                  *)
(***************************************************************************)
EXTENDS OrderProofs, AtomicRefinement, WellFoundedInduction, FiniteSetTheorems

USE Zenon

----------------------------------------------------------------------------
(* The paths. *)

\* Without reordering recvfrom takes the oldest datagram of a path.
LEMMA RecvOldest ==
  ASSUME TypeOK, ~Reorder, NEW c \in Clients, NEW i, Recv(c, i)
  PROVE  /\ i = 1 /\ 1 \in DOMAIN requests[c]
         /\ \A d \in Clients : d # c => requests'[d] = requests[d]
         /\ \A j \in DOMAIN requests'[c] :
              /\ j \in Nat \ {0} /\ j + 1 \in DOMAIN requests[c]
              /\ requests'[c][j] = requests[c][j + 1]
<1>1. i = 1 /\ 1 \in DOMAIN requests[c]
  BY DEF Recv, Arrivals
<1>2. requests[c] \in Seq(Requests)
  BY DEF TypeOK
<1> DEFINE path == Without(requests[c], 1)
<1>3. path \in Seq(Requests)
  BY <1>1, <1>2, WithoutProperties
<1>4. \A j \in DOMAIN path : j \in Nat \ {0}
  BY <1>3, SeqDomain, SMT
<1>5. \A j \in DOMAIN path :
        \/ j < 1 /\ j \in DOMAIN requests[c] /\ path[j] = requests[c][j]
        \/ j >= 1 /\ j + 1 \in DOMAIN requests[c] /\ path[j] = requests[c][j + 1]
  BY <1>1, <1>2, WithoutProperties
<1>6. requests' = [requests EXCEPT ![c] = path]
  BY <1>1 DEF Recv
<1> HIDE DEF path
<1> QED BY <1>1, <1>4, <1>5, <1>6, SMT DEF TypeOK

\* Receiving a datagram leaves the others in their order.
LEMMA RecvFifo ==
  ASSUME TypeOK, DataBeforeSeq, ~Reorder, NEW c \in Clients, NEW i, Recv(c, i)
  PROVE  DataBeforeSeq'
<1>1. SUFFICES ASSUME NEW d \in Clients, NEW j \in DOMAIN requests'[d]
               PROVE  /\ requests'[d][j].pmk.sender = d[1]
                      /\ \A k \in DOMAIN requests'[d] :
                           /\ j < k
                           /\ requests'[d][j].type = "seq"
                           /\ requests'[d][k].type = "data"
                           => requests'[d][j].pmk # requests'[d][k].pmk
  BY DEF DataBeforeSeq
<1>2. CASE d # c
  BY <1>2, RecvOldest, SMT DEF DataBeforeSeq
<1>3. CASE d = c
  <2>1. \A k \in DOMAIN requests'[c] :
          /\ k \in Nat /\ k + 1 \in DOMAIN requests[c]
          /\ requests'[c][k] = requests[c][k + 1]
    BY RecvOldest
  <2>2. \A k \in DOMAIN requests'[c] : j < k => j + 1 < k + 1
    BY <2>1, <1>3, SMT
  <2> QED BY <2>1, <2>2, <1>3, SMT DEF DataBeforeSeq
<1> QED BY <1>2, <1>3

----------------------------------------------------------------------------
(* The steps of the sender threads. *)

\* A message has its final sequence number when it is ready or delivered.
LEMMA FinalisedIff ==
  ASSUME NEW p \in Procs, NEW t \in Threads
  PROVE  Finalised(p, Key(t)) <=> Ready(p, t) \/ Delivered(p, t)
  BY DEF Finalised, Ready, Delivered

\* A process knows the final sequence number only after it was chosen.
LEMMA FinalisedChosen ==
  ASSUME OrderInv, DistinctIds, NEW p \in Procs, NEW t \in Threads,
         Finalised(p, Key(t))
  PROVE  pc[t] = "seq"
<1> USE DEF OrderInv
<1>1. \A u \in Threads : FinalPm(u).pmk = Key(u) /\ FinalMsg(u).pmk = Key(u)
  BY DEF FinalPm, FinalMsg, PendingMessage, SeqMessage
<1>2. CASE Ready(p, t)
  BY <1>1, <1>2, SMT DEF Ready, FinalOnly, DistinctIds
<1>3. CASE Delivered(p, t)
  BY <1>1, <1>3, SMT DEF Delivered, FinalOnly, DistinctIds
<1> QED BY <1>2, <1>3, FinalisedIff

\* A step that leaves the servers and the requests alone.
LEMMA QuietFifoStep ==
  ASSUME FifoInv, OrderInv', UNCHANGED <<pending_seqs, ordering, delivered>>,
         UNCHANGED requests
  PROVE  FifoInv'
<1> USE DEF FifoInv
<1>1. DataBeforeSeq' /\ NoLateData' /\ NoReproposal'
  BY SMT DEF DataBeforeSeq, NoLateData, NoReproposal, Finalised
<1>2. DeliverableOnce' /\ NoDuplicateDelivery' /\ SameOrder'
  BY SMT DEF DeliverableOnce, NoDuplicateDelivery, SameOrder, Ready, Delivered
<1> QED BY <1>1, <1>2

\* A thread sends data only before it has chosen the final sequence number, so
\* before any SeqMessage of its own.
LEMMA SendFifoStep ==
  ASSUME FifoInv, DistinctIds, OrderInv', NEW t \in Threads, dest[t] < N,
         NEW lost, Send(t, lost), UNCHANGED serverVars
  PROVE  FifoInv'
<1> USE DEF FifoInv, OrderInv
<1>1. \A c \in Clients : \A j \in DOMAIN requests'[c] :
        \/ j \in DOMAIN requests[c] /\ requests'[c][j] = requests[c][j]
        \/ /\ c = Client(t)
           /\ j = Len(requests[c]) + 1
           /\ requests'[c][j] = Outgoing(t)
  BY SendPaths
<1>2. \A c \in Clients :
        /\ Len(requests[c]) \in Nat
        /\ DOMAIN requests[c] = 1 .. Len(requests[c])
  BY SeqDomain DEF TypeOK
<1>3. /\ Outgoing(t).pmk = Key(t)
      /\ Outgoing(t).type = "data" => pc[t] = "data"
  BY DEF TypeOK, Outgoing, DataMessage, SeqMessage
<1>4. DataBeforeSeq'
  <2>1. ASSUME NEW c \in Clients, NEW j \in DOMAIN requests'[c]
        PROVE  requests'[c][j].pmk.sender = c[1]
    <3>1. Key(t).sender = Client(t)[1]
      BY KeyType DEF Client
    <3> QED BY <3>1, <1>1, <1>3, ZenonT(40) DEF DataBeforeSeq
  <2>2. ASSUME NEW c \in Clients, NEW j \in DOMAIN requests'[c],
               NEW k \in DOMAIN requests'[c], j < k,
               requests'[c][j].type = "seq", requests'[c][k].type = "data",
               requests'[c][j].pmk = requests'[c][k].pmk
        PROVE  FALSE
    <3>1. CASE k \in DOMAIN requests[c] /\ requests'[c][k] = requests[c][k]
      <4>1. j \in DOMAIN requests[c] /\ requests'[c][j] = requests[c][j]
        BY <2>2, <3>1, <1>1, <1>2, SMT
      <4> QED BY <2>2, <3>1, <4>1, SMT DEF DataBeforeSeq
    <3>2. CASE requests'[c][k] = Outgoing(t) /\ k = Len(requests[c]) + 1
      <4>1. j \in DOMAIN requests[c] /\ requests'[c][j] = requests[c][j]
        BY <2>2, <3>2, <1>1, <1>2
      <4>2. PICK u \in Threads : pc[u] = "seq" /\ requests[c][j] = FinalMsg(u)
        BY <2>2, <4>1 DEF FinalOnly
      <4>3. requests[c][j].pmk = Key(u)
        BY <4>2, SMT DEF FinalMsg, SeqMessage
      <4>4. u = t
        BY <2>2, <3>2, <4>1, <4>3, <1>3 DEF DistinctIds
      <4> QED BY <2>2, <3>2, <4>2, <4>4, <1>3
    <3> QED BY <3>1, <3>2, <1>1
  <2> QED BY <2>1, <2>2 DEF DataBeforeSeq
<1>5. NoLateData'
  <2> SUFFICES ASSUME NEW c \in Clients, NEW j \in DOMAIN requests'[c],
                      requests'[c][j].type = "data",
                      Finalised(c[2], requests'[c][j].pmk)
               PROVE  FALSE
    BY DEF NoLateData, Finalised, serverVars
  <2>1. requests'[c][j] = Outgoing(t)
    BY <1>1 DEF NoLateData
  <2>2. pc[t] = "data" /\ c[2] \in Procs /\ Finalised(c[2], Key(t))
    BY <2>1, <1>3 DEF Clients
  <2> QED BY <2>2, FinalisedChosen
<1>6. NoReproposal'
  BY DEF NoReproposal, Finalised, serverVars
<1>7. DeliverableOnce' /\ NoDuplicateDelivery' /\ SameOrder'
  BY SMT DEF DeliverableOnce, NoDuplicateDelivery, SameOrder, Ready, Delivered,
         serverVars
<1> QED BY <1>4, <1>5, <1>6, <1>7

----------------------------------------------------------------------------
(* The steps of the servers. *)

\* A data message taken for a new one is one the process has no final sequence
\* number for.
LEMMA DataFifoStep ==
  ASSUME FifoInv, DistinctIds, NoWrap, ~Reorder, OrderInv', NEW c \in Clients,
         NEW i, NEW lost \in BOOLEAN, HandleDataMsg(c, i, lost)
  PROVE  FifoInv'
<1> DEFINE p   == c[2]
           pmk == requests[c][i].pmk
           new == [seq |-> seq_counter[p] + 1, seq_proposer |-> p]
           e   == PendingMessage(pmk, new, FALSE)
<1>0. ASSUME ~Lookup(pending_seqs[p], pmk)
      PROVE  /\ pending_seqs' = [pending_seqs EXCEPT ![p] = MapInsert(@, pmk, new)]
             /\ ordering' = [ordering EXCEPT ![p] = @ \cup {e}]
  <2>1. OrderInv
    BY DEF FifoInv
  <2>2. /\ p \in Procs /\ pmk \in Keys /\ new \in PendingSeqs
        /\ pmk \notin DOMAIN pending_seqs[p]
        /\ \A pm \in ordering[p] : pm.seq < new.seq
        /\ \A j \in DOMAIN delivered[p] : delivered[p][j].final_seq < new.seq
        /\ seq_counter' = [seq_counter EXCEPT ![p] = new.seq]
        /\ pending_seqs' = [pending_seqs EXCEPT ![p] = MapInsert(@, pmk, new)]
        /\ ordering' = [ordering EXCEPT ![p] = @ \cup {e}]
        /\ Reply(c, AckMessage(pmk, new), lost)
    BY <1>0, <2>1, NewDataStep
  <2> QED BY <2>2
<1> USE DEF FifoInv, OrderInv
<1>1. /\ p \in Procs /\ Recv(c, i) /\ i \in DOMAIN requests[c]
      /\ requests[c][i].type = "data" /\ RequestsKept
      /\ UNCHANGED <<delivered, serving>>
  BY RecvType, RecvPaths DEF HandleDataMsg, Clients
<1>2. \A q \in Procs : \A k \in DOMAIN pending_seqs'[q] :
        k \in DOMAIN pending_seqs[q] \/ (q = p /\ k = pmk)
  <2>1. CASE Lookup(pending_seqs[p], pmk)
    BY <2>1 DEF HandleDataMsg
  <2>2. CASE ~Lookup(pending_seqs[p], pmk)
    <3> HIDE DEF pmk, new, e
    <3>1. DOMAIN MapInsert(pending_seqs[p], pmk, new) =
            DOMAIN pending_seqs[p] \cup {pmk}
      BY DEF MapInsert
    <3> QED BY <2>2, <3>1, <1>0, <1>1 DEF TypeOK
  <2> QED BY <2>1, <2>2
<1>3. \A q \in Procs : \A pm \in ordering'[q] :
        pm.deliverable => pm \in ordering[q]
  <2>1. CASE Lookup(pending_seqs[p], pmk)
    BY <2>1 DEF HandleDataMsg
  <2>2. CASE ~Lookup(pending_seqs[p], pmk)
    <3>1. e.deliverable = FALSE
      BY DEF PendingMessage
    <3>2. \A pm : pm.deliverable => pm # e
      BY <3>1, Zenon
    <3>3. DOMAIN ordering = Procs
      BY DEF TypeOK
    <3> HIDE DEF p, pmk, new, e, FifoInv, OrderInv
    <3>4. \A q \in Procs : \A pm \in ordering'[q] : pm \in ordering[q] \/ pm = e
      BY <2>2, <3>3, <1>0
    <3> QED BY <3>2, <3>4
  <2> QED BY <2>1, <2>2
<1> HIDE DEF p, e
<1>4. \A q \in Procs : \A k : Finalised(q, k)' => Finalised(q, k)
  BY <1>1, <1>3 DEF Finalised
<1>5. DataBeforeSeq'
  BY <1>1, RecvFifo
<1>6. NoLateData'
  <2> SUFFICES ASSUME NEW d \in Clients, NEW j \in DOMAIN requests'[d],
                      requests'[d][j].type = "data",
                      NEW x, x = requests'[d][j].pmk
               PROVE  ~Finalised(d[2], x)'
    BY DEF NoLateData, Finalised
  <2>1. PICK k \in DOMAIN requests[d] : requests'[d][j] = requests[d][k]
    BY <1>1 DEF RequestsKept
  <2>2. ~Finalised(d[2], x) /\ d[2] \in Procs
    BY <2>1 DEF NoLateData, Clients
  <2> QED BY <2>2, <1>4
<1>7. NoReproposal'
  <2> SUFFICES ASSUME NEW q \in Procs, NEW k \in DOMAIN pending_seqs'[q]
               PROVE  ~Finalised(q, k)'
    BY DEF NoReproposal
  <2>1. ~Finalised(q, k)
    BY <1>1, <1>2 DEF NoReproposal, NoLateData, p
  <2> QED BY <2>1, <1>4
<1>8. DeliverableOnce'
  BY <1>1, <1>3 DEF DeliverableOnce, Ready, Delivered
<1>9. NoDuplicateDelivery' /\ SameOrder'
  BY <1>1, SMT DEF NoDuplicateDelivery, SameOrder
<1> QED BY <1>5, <1>6, <1>7, <1>8, <1>9

\* Every data message of t has been received before its SeqMessage, so that t's
\* message is put on hold no more.
LEMMA SeqFifoStep ==
  ASSUME FifoInv, DistinctIds, ~Reorder, OrderInv', NEW c \in Clients, NEW i,
         NEW lost \in BOOLEAN, HandleSeqMsg(c, i, lost)
  PROVE  FifoInv'
<1> USE DEF FifoInv, OrderInv
<1> DEFINE p == c[2]
<1>0. PICK t \in Threads : SeqEffect(c, i, t, lost)
  BY SeqStep
<1>1. /\ p \in Procs /\ Recv(c, i) /\ i \in DOMAIN requests[c]
      /\ requests[c][i].type = "seq" /\ RequestsKept
      /\ UNCHANGED delivered
  BY RecvType, RecvPaths DEF HandleSeqMsg, Clients
<1>2. requests[c][i].pmk = Key(t)
  BY <1>0, SMT DEF SeqEffect, FinalMsg, SeqMessage
<1>3. FinalPm(t).pmk = Key(t)
  BY DEF FinalPm, PendingMessage
<1>4. /\ \A q \in Procs : \A k \in DOMAIN pending_seqs'[q] :
           k \in DOMAIN pending_seqs[q] /\ ~(q = p /\ k = Key(t))
      /\ \A q \in Procs : \A pm \in ordering'[q] :
           \/ pm \in ordering[q]
           \/ q = p /\ pm = FinalPm(t) /\ Holds(p, t)
  <2>1. CASE Holds(p, t)
    <3> DEFINE old == PendingMessage(Key(t), pending_seqs[p][Key(t)], FALSE)
    <3>1. /\ pending_seqs' = [pending_seqs EXCEPT ![p] = MapErase(@, Key(t))]
          /\ ordering' = [ordering EXCEPT ![p] = (@ \ {old}) \cup {FinalPm(t)}]
      BY <2>1, <1>0 DEF SeqEffect
    <3>2. DOMAIN MapErase(pending_seqs[p], Key(t)) =
            DOMAIN pending_seqs[p] \ {Key(t)}
      BY DEF MapErase
    <3> HIDE DEF old, p
    <3> QED BY <2>1, <3>1, <3>2, <1>1 DEF TypeOK
  <2>2. CASE ~Holds(p, t)
    BY <2>2, <1>0, <1>1 DEF SeqEffect, Holds
  <2> QED BY <2>1, <2>2
<1>5. DataBeforeSeq'
  BY <1>1, RecvFifo
<1>6. ASSUME NEW q \in Procs, NEW k, Finalised(q, k)'
      PROVE  Finalised(q, k) \/ (q = p /\ k = Key(t))
  BY <1>1, <1>3, <1>4, <1>6 DEF Finalised
<1>7. NoLateData'
  <2> SUFFICES ASSUME NEW d \in Clients, NEW j \in DOMAIN requests'[d],
                      requests'[d][j].type = "data",
                      NEW x, x = requests'[d][j].pmk, Finalised(d[2], x)'
               PROVE  FALSE
    BY DEF NoLateData, Finalised
  <2>1. PICK k \in DOMAIN requests[d] : requests'[d][j] = requests[d][k]
    BY <1>1 DEF RequestsKept
  <2>2. d[2] \in Procs /\ ~Finalised(d[2], x)
    BY <2>1 DEF NoLateData, Clients
  <2>3. d[2] = p /\ x = Key(t)
    BY <2>2, <1>6
  <2>4. d = c
    <3>1. Key(t).sender = d[1] /\ Key(t).sender = c[1]
      BY <2>1, <2>3, <1>1, <1>2, SMT DEF DataBeforeSeq
    <3>2. c = <<c[1], c[2]>> /\ d = <<d[1], d[2]>>
      BY SMT DEF Clients
    <3> QED BY <2>3, <3>1, <3>2
  <2>5. /\ i = 1 /\ j \in Nat \ {0} /\ j + 1 \in DOMAIN requests[c]
        /\ requests'[c][j] = requests[c][j + 1]
    BY <2>4, <1>1, RecvOldest
  <2>6. 1 < j + 1
    BY <2>5, SMT
  <2>7. requests[c][j + 1].type = "data" /\ requests[c][j + 1].pmk = x
    BY <2>4, <2>5
  <2>8. requests[c][1].pmk = x /\ requests[c][1].type = "seq"
    BY <2>3, <2>5, <1>1, <1>2
  <2> QED BY <2>5, <2>6, <2>7, <2>8, <1>1, SMT DEF DataBeforeSeq
<1>8. NoReproposal'
  BY <1>4, <1>6 DEF NoReproposal
<1>9. DeliverableOnce'
  <2> SUFFICES ASSUME NEW q \in Procs, NEW u \in Threads, Ready(q, u)',
                      Delivered(q, u)
               PROVE  FALSE
    BY <1>1 DEF DeliverableOnce, Delivered
  <2>1. q = p /\ Key(u) = Key(t) /\ Holds(p, t)
    BY <1>3, <1>4 DEF DeliverableOnce, Ready
  <2> QED BY <2>1 DEF NoReproposal, Holds, Finalised, Delivered
<1>10. NoDuplicateDelivery' /\ SameOrder'
  BY <1>1, SMT DEF NoDuplicateDelivery, SameOrder
<1> QED BY <1>5, <1>7, <1>8, <1>9, <1>10

\* The crux of the total order: if q has delivered more than p then what p
\* delivers next, the message of t, is what q delivered at that place.  Another
\* message there would have to come both before and after t's.
LEMMA NextDeliveryAgrees ==
  ASSUME FifoInv, DistinctIds, NEW p \in Procs, NEW q \in Procs,
         NEW t \in Threads, DeliverEffect(p, t), ~Delivered(p, t),
         NEW n \in Nat, DOMAIN delivered[p] = 1 .. n,
         n + 1 \in DOMAIN delivered[q]
  PROVE  delivered[q][n + 1] = FinalMsg(t)
<1> USE DEF FifoInv
<1>1. PICK u \in Threads : pc[u] = "seq" /\ delivered[q][n + 1] = FinalMsg(u)
  BY DEF OrderInv, FinalOnly
<1> SUFFICES ASSUME u # t PROVE FALSE
  BY <1>1
<1>2. \A v \in Threads : FinalMsg(v).pmk = Key(v)
  BY DEF FinalMsg, SeqMessage
<1>3. Key(u) # Key(t)
  BY DEF DistinctIds
<1>4. \A k \in DOMAIN delivered[q] : k \in Nat \ {0}
  BY SeqDomain, SMT DEF OrderInv, TypeOK
<1>5. \A k \in 1 .. n : k \in DOMAIN delivered[q]
  <2>1. delivered[q] \in Seq(SeqMessages)
    BY DEF OrderInv, TypeOK
  <2>2. DOMAIN delivered[q] = 1 .. Len(delivered[q]) /\ Len(delivered[q]) \in Nat
    BY <2>1, SeqDomain
  <2> QED BY <2>2, SMT
<1>6. \A k \in 1 .. n : delivered[p][k] = delivered[q][k]
  BY <1>5 DEF SameOrder
<1>7. ~Delivered(p, u)
  <2> SUFFICES ASSUME NEW k \in 1 .. n, delivered[p][k].pmk = Key(u)
               PROVE  FALSE
    BY DEF Delivered
  <2>1. delivered[q][k].pmk = delivered[q][n + 1].pmk
    BY <1>1, <1>2, <1>6
  <2>2. k = n + 1
    BY <2>1, <1>5 DEF NoDuplicateDelivery
  <2> QED BY <2>2, SMT
<1>8. Less(FinalPm(t), FinalPm(u))
  BY <1>1, <1>3, <1>7, HeadFirst
<1>9. \A k \in DOMAIN delivered[q] : \A v \in Threads :
        delivered[q][k] = FinalMsg(v) => DeliveredPm(q, k) = FinalPm(v)
  BY SMT DEF DeliveredPm, FinalMsg, FinalPm, SeqMessage, PendingMessage
<1>10. pc[t] = "seq"
  BY DEF DeliverEffect
<1>11. Less(FinalPm(u), FinalPm(t))
  <2>1. CASE ~Delivered(q, t)
    BY <2>1, <1>1, <1>9, <1>10 DEF OrderInv, NeverOvertaken
  <2>2. CASE Delivered(q, t)
    <3>1. PICK k \in DOMAIN delivered[q] : delivered[q][k].pmk = Key(t)
      BY <2>2 DEF Delivered
    <3>2. ~(k \in 1 .. n)
      BY <3>1, <1>6 DEF Delivered
    <3>3. k # n + 1
      BY <3>1, <1>1, <1>2, <1>3
    <3>4. n + 1 < k
      BY <3>2, <3>3, <1>4, SMT
    <3>5. \A h \in DOMAIN delivered[q] :
            h <= n + 1 => delivered[q][h].pmk # delivered[q][k].pmk
      BY <3>4, <1>4, SMT DEF NoDuplicateDelivery
    <3>6. Less(DeliveredPm(q, n + 1), DeliveredPm(q, k))
      BY <3>4, <3>5 DEF OrderInv, Ascending
    <3>7. PICK v \in Threads : delivered[q][k] = FinalMsg(v)
      BY DEF OrderInv, FinalOnly
    <3>8. v = t
      BY <3>1, <3>7, <1>2 DEF DistinctIds
    <3> QED BY <3>6, <3>7, <3>8, <1>1, <1>9
  <2> QED BY <2>1, <2>2
<1>12. FinalPm(t) \in PendingMessages /\ FinalPm(u) \in PendingMessages
  BY KeyType, MessageTypes DEF OrderInv, TypeOK, FinalPm
<1> QED BY <1>8, <1>11, <1>12, LessAsymmetric

\* A delivery preserves the invariant: the message is delivered for the first
\* time, at the place where the other processes deliver it.
LEMMA DeliverFifoStep ==
  ASSUME FifoInv, DistinctIds, OrderInv', NEW p \in Procs, Deliver(p)
  PROVE  FifoInv'
<1> USE DEF FifoInv
<1>0. PICK t \in Threads : DeliverEffect(p, t)
  BY DeliverStep
<1>1. PICK n \in Nat :
        /\ DOMAIN delivered[p] = 1 .. n
        /\ DOMAIN delivered'[p] = 1 .. n + 1
        /\ \A i \in 1 .. n : delivered'[p][i] = delivered[p][i]
        /\ delivered'[p][n + 1] = FinalMsg(t)
        /\ \A q \in Procs : q # p => delivered'[q] = delivered[q]
        /\ \A q \in Procs, u \in Threads :
             Delivered(q, u)' <=> Delivered(q, u) \/ (q = p /\ Key(u) = Key(t))
  BY <1>0, DeliveredAfter DEF OrderInv
<1>2. /\ FinalPm(t) \in ordering[p]
      /\ ordering' = [ordering EXCEPT ![p] = @ \ {FinalPm(t)}]
      /\ UNCHANGED <<pending_seqs, requests, pc, final>>
  BY <1>0 DEF DeliverEffect, IsBegin
<1>3. /\ FinalMsg(t).pmk = Key(t)
      /\ \A u \in Threads : FinalPm(u).pmk = Key(u)
      /\ FinalPm(t).deliverable
  BY DEF FinalPm, FinalMsg, PendingMessage, SeqMessage
<1>4. \A q \in Procs : \A pm \in ordering'[q] :
        pm \in ordering[q] /\ ~(q = p /\ pm = FinalPm(t))
  BY <1>2 DEF OrderInv, TypeOK
<1>5. Ready(p, t) /\ ~Delivered(p, t)
  BY <1>2, <1>3 DEF Ready, DeliverableOnce
<1>6. \A i \in DOMAIN delivered'[p] : i \in 1 .. n \/ i = n + 1
  BY <1>1, SMT
<1>7. ASSUME NEW q \in Procs, NEW k, Finalised(q, k)'
      PROVE  Finalised(q, k)
  <2>1. CASE \E pm \in ordering'[q] : pm.deliverable /\ pm.pmk = k
    BY <2>1, <1>4 DEF Finalised
  <2>2. CASE \E i \in DOMAIN delivered'[q] : delivered'[q][i].pmk = k
    <3>1. CASE q # p
      BY <2>2, <3>1, <1>1 DEF Finalised
    <3>2. CASE q = p
      <4>1. PICK i \in DOMAIN delivered'[p] : delivered'[p][i].pmk = k
        BY <2>2, <3>2
      <4>2. CASE i \in 1 .. n
        BY <3>2, <4>1, <4>2, <1>1 DEF Finalised
      <4>3. CASE i = n + 1
        <5>1. k = Key(t)
          BY <4>1, <4>3, <1>1, <1>3
        <5> QED BY <3>2, <5>1, <1>2, <1>3 DEF Finalised
      <4> QED BY <4>1, <4>2, <4>3, <1>6
    <3> QED BY <3>1, <3>2
  <2> QED BY <1>7, <2>1, <2>2 DEF Finalised
<1>8. DataBeforeSeq' /\ NoReproposal'
  BY <1>2, <1>7, SMT DEF DataBeforeSeq, NoReproposal
<1>9. NoLateData'
  <2> SUFFICES ASSUME NEW c \in Clients, NEW i \in DOMAIN requests[c],
                      requests[c][i].type = "data",
                      NEW x, x = requests[c][i].pmk, Finalised(c[2], x)'
               PROVE  FALSE
    BY <1>2, SMT DEF NoLateData, Finalised
  <2>1. c[2] \in Procs
    BY DEF Clients
  <2> QED BY <2>1, <1>7 DEF NoLateData
<1>10. DeliverableOnce'
  <2> SUFFICES ASSUME NEW q \in Procs, NEW u \in Threads, Ready(q, u)',
                      Delivered(q, u)'
               PROVE  FALSE
    BY DEF DeliverableOnce
  <2>1. PICK pm \in ordering'[q] : pm.deliverable /\ pm.pmk = Key(u)
    BY DEF Ready
  <2>2. Ready(q, u)
    BY <2>1, <1>4 DEF Ready
  <2>3. q = p /\ Key(u) = Key(t)
    BY <2>2, <1>1 DEF DeliverableOnce
  <2>4. PICK v \in Threads : pm = FinalPm(v)
    BY <2>1, <1>4 DEF OrderInv, FinalOnly
  <2>5. v = t
    BY <2>1, <2>3, <2>4, <1>3 DEF DistinctIds
  <2> QED BY <2>3, <2>4, <2>5, <1>4
<1>11. NoDuplicateDelivery'
  <2> SUFFICES ASSUME NEW q \in Procs, NEW i \in DOMAIN delivered'[q],
                      NEW j \in DOMAIN delivered'[q],
                      delivered'[q][i].pmk = delivered'[q][j].pmk
               PROVE  i = j
    BY DEF NoDuplicateDelivery
  <2>1. \A k \in 1 .. n : delivered'[p][k].pmk # delivered'[p][n + 1].pmk
    BY <1>1, <1>3, <1>5 DEF Delivered
  <2>2. CASE q # p
    BY <2>2, <1>1 DEF NoDuplicateDelivery
  <2>3. CASE q = p /\ i \in 1 .. n /\ j \in 1 .. n
    BY <2>3, <1>1, SMT DEF NoDuplicateDelivery
  <2>4. CASE q = p /\ (i = n + 1 \/ j = n + 1)
    BY <2>1, <2>4, <1>6
  <2> QED BY <2>2, <2>3, <2>4, <1>6
<1>12. SameOrder'
  <2>1. ASSUME NEW q \in Procs, q # p,
               NEW i \in DOMAIN delivered'[p] \cap DOMAIN delivered[q]
        PROVE  delivered'[p][i] = delivered[q][i]
    <3>1. CASE i \in 1 .. n
      BY <3>1, <1>1 DEF SameOrder
    <3>2. CASE i = n + 1
      BY <3>2, <1>0, <1>1, <1>5, NextDeliveryAgrees
    <3> QED BY <3>1, <3>2, <1>6
  <2> SUFFICES ASSUME NEW q \in Procs, NEW r \in Procs,
                      NEW i \in DOMAIN delivered'[q] \cap DOMAIN delivered'[r]
               PROVE  delivered'[q][i] = delivered'[r][i]
    BY DEF SameOrder
  <2>2. CASE q # p /\ r # p
    BY <2>2, <1>1, SMT DEF SameOrder
  <2>3. CASE q = p /\ r # p
    BY <2>1, <2>3, <1>1, ZenonT(40)
  <2>4. CASE q # p /\ r = p
    BY <2>1, <2>4, <1>1, ZenonT(40)
  <2> QED BY <2>2, <2>3, <2>4
<1> QED BY <1>8, <1>9, <1>10, <1>11, <1>12

----------------------------------------------------------------------------
(* The invariant and its consequences. *)

\* The invariant holds when all processes start.
LEMMA FifoInvInit == Init => FifoInv
<1> SUFFICES ASSUME Init PROVE FifoInv
  OBVIOUS
<1>1. OrderInv
  BY OrderInvInit
<1>2. DataBeforeSeq /\ NoLateData
  BY SMT DEF Init, DataBeforeSeq, NoLateData
<1>3. NoReproposal /\ DeliverableOnce
  BY DEF Init, NoReproposal, DeliverableOnce, Ready
<1>4. NoDuplicateDelivery /\ SameOrder
  BY SMT DEF Init, NoDuplicateDelivery, SameOrder
<1> QED BY <1>1, <1>2, <1>3, <1>4 DEF FifoInv

\* Every step preserves the invariant.
LEMMA FifoInvNext ==
  ASSUME DistinctIds, ~Reorder, FifoInv, NoWrap, [Next]_vars
  PROVE  FifoInv'
<1>1. OrderInv /\ TypeOK
  BY DEF FifoInv, OrderInv
<1>2. OrderInv'
  BY <1>1, OrderInvNext
<1>3. CASE UNCHANGED vars
  BY <1>2, <1>3, QuietFifoStep DEF vars
<1>4. ASSUME NEW t \in Threads, ThreadStep(t) PROVE FifoInv'
  <2>1. ASSUME NEW lost \in BOOLEAN, BeginSend(t, lost) PROVE FifoInv'
    BY <2>1, <1>2, SendFifoStep DEF BeginSend
  <2>2. ASSUME NEW lost \in BOOLEAN, Timeout(t, lost) PROVE FifoInv'
    <3>1. dest[t] < N
      BY <2>2, <1>1 DEF Timeout, TypeOK
    <3> QED BY <2>2, <3>1, <1>2, SendFifoStep DEF Timeout
  <2>3. ASSUME NEW i, NEW lost \in BOOLEAN, RejectAck(t, i, lost)
        PROVE  FifoInv'
    <3>1. dest[t] < N
      BY <2>3, <1>1 DEF RejectAck, Receive, TypeOK
    <3> QED BY <2>3, <3>1, <1>2, SendFifoStep DEF RejectAck
  <2>4. ASSUME NEW i, HandleAck(t, i) \/ HandleSeqAck(t, i) PROVE FifoInv'
    BY <2>4, <1>2, QuietFifoStep DEF HandleAck, HandleSeqAck, EndSend, serverVars
  <2>5. ASSUME ChooseFinal(t) PROVE FifoInv'
    BY <2>5, <1>2, QuietFifoStep DEF ChooseFinal, serverVars
  <2> QED BY <1>4, <2>1, <2>2, <2>3, <2>4, <2>5 DEF ThreadStep
<1>5. ASSUME NEW p \in Procs, ServerStep(p) PROVE FifoInv'
  <2>0. \A q \in Procs : <<q, p>> \in Clients
    BY DEF Clients
  <2>1. ASSUME NEW c \in Clients, NEW i, NEW lost \in BOOLEAN,
               HandleDataMsg(c, i, lost)
        PROVE  FifoInv'
    BY <2>1, <1>2, DataFifoStep
  <2>2. ASSUME NEW c \in Clients, NEW i, NEW lost \in BOOLEAN,
               HandleSeqMsg(c, i, lost)
        PROVE  FifoInv'
    BY <2>2, <1>2, SeqFifoStep
  <2>3. ASSUME Deliver(p) PROVE FifoInv'
    BY <2>3, <1>2, DeliverFifoStep
  <2>4. ASSUME EndDelivery(p) PROVE FifoInv'
    BY <2>4, <1>2, QuietFifoStep DEF EndDelivery
  <2> QED BY <1>5, <2>0, <2>1, <2>2, <2>3, <2>4 DEF ServerStep
<1> QED BY <1>3, <1>4, <1>5 DEF Next

\* FifoInv holds in every run without reordering in which message ids are
\* distinct and no counter comes to its limit.
THEOREM FifoInvariant ==
  ASSUME DistinctIds, ~Reorder
  PROVE  Spec /\ []NoWrap => []FifoInv
<1>1. Init => FifoInv
  BY FifoInvInit
<1>2. FifoInv /\ NoWrap /\ [Next]_vars => FifoInv'
  BY FifoInvNext
<1> QED BY <1>1, <1>2, PTL DEF Spec

\* All processes pass the same messages to deliver in the same order, for any
\* number of processes and messages, whatever datagrams are lost or
\* retransmitted, as long as they do not overtake one another.
THEOREM TotalOrderDelivery ==
  ASSUME DistinctIds, ~Reorder
  PROVE  Spec /\ []NoWrap => []SameOrder
<1>1. FifoInv => SameOrder
  BY DEF FifoInv
<1> QED BY <1>1, FifoInvariant, PTL

\* Under the same assumptions no process passes a message to deliver twice.
THEOREM AtMostOnceDelivery ==
  ASSUME DistinctIds, ~Reorder
  PROVE  Spec /\ []NoWrap => []NoDuplicateDelivery
<1>1. FifoInv => NoDuplicateDelivery
  BY DEF FifoInv
<1> QED BY <1>1, FifoInvariant, PTL

\* Under the same assumptions HandleDataMsg never takes a replayed message for
\* a new one.
THEOREM NoSecondProposal ==
  ASSUME DistinctIds, ~Reorder
  PROVE  Spec /\ []NoWrap => []NoReproposal
<1>1. FifoInv => NoReproposal
  BY DEF FifoInv
<1> QED BY <1>1, FifoInvariant, PTL

----------------------------------------------------------------------------
(* The steps of the sender threads. *)

\* A step that leaves the servers, pc and dest alone and adds no reply.
LEMMA QuietCompleteStep ==
  ASSUME CompleteInv, FifoInv', UNCHANGED <<ordering, delivered, serving>>,
         UNCHANGED <<pc, dest>>, RepliesKept
  PROVE  CompleteInv'
<1>1. \A p \in Procs : \A k : Finalised(p, k)' <=> Finalised(p, k)
  BY DEF Finalised
<1>2. AckedFinalised'
  <2>1. ASSUME NEW c \in Clients, NEW i \in DOMAIN replies'[c],
               NEW t \in Threads,
               replies'[c][i].type = "seqack" /\ replies'[c][i].pmk = Key(t)
        PROVE  Finalised(c[2], Key(t))'
    <3>1. PICK j \in DOMAIN replies[c] : replies'[c][i] = replies[c][j]
      BY DEF RepliesKept
    <3>2. Finalised(c[2], Key(t)) /\ c[2] \in Procs
      BY <2>1, <3>1 DEF CompleteInv, AckedFinalised, Clients
    <3> QED BY <3>2, <1>1
  <2>2. \A t \in Threads, p \in Procs :
          pc'[t] = "seq" /\ p < dest'[t] => Finalised(p, Key(t))'
    BY <1>1 DEF CompleteInv, AckedFinalised
  <2> QED BY <2>1, <2>2 DEF AckedFinalised
<1>3. NoHeadLeft'
  BY DEF CompleteInv, NoHeadLeft
<1> QED BY <1>2, <1>3 DEF CompleteInv

\* A thread goes on to the next process, in the multicast of final_seq after an
\* acknowledgement, or begins that multicast.
LEMMA AdvanceCompleteStep ==
  ASSUME CompleteInv, FifoInv', NEW t \in Threads,
         \/ \E i : HandleAck(t, i) \/ HandleSeqAck(t, i)
         \/ ChooseFinal(t)
  PROVE  CompleteInv'
<1>0. TypeOK
  BY DEF CompleteInv, FifoInv, OrderInv
<1>1. UNCHANGED <<ordering, delivered, serving>>
  BY DEF HandleAck, HandleSeqAck, EndSend, ChooseFinal, serverVars
<1>2. \A p \in Procs : \A k : Finalised(p, k)' <=> Finalised(p, k)
  BY <1>1 DEF Finalised
<1>3. RepliesKept
  <2>1. CASE \E i : HandleAck(t, i) \/ HandleSeqAck(t, i)
    BY <2>1, <1>0, ReceivePaths DEF HandleAck, HandleSeqAck
  <2>2. CASE ChooseFinal(t)
    BY <2>2 DEF ChooseFinal, RepliesKept
  <2> QED BY <2>1, <2>2
<1>4. ASSUME NEW c \in Clients, NEW i \in DOMAIN replies'[c], NEW u \in Threads,
             replies'[c][i].type = "seqack" /\ replies'[c][i].pmk = Key(u)
      PROVE  Finalised(c[2], Key(u))'
  <2>1. PICK j \in DOMAIN replies[c] : replies'[c][i] = replies[c][j]
    BY <1>3 DEF RepliesKept
  <2>2. Finalised(c[2], Key(u)) /\ c[2] \in Procs
    BY <1>4, <2>1 DEF CompleteInv, AckedFinalised, Clients
  <2> QED BY <2>2, <1>2
<1>5. ASSUME NEW u \in Threads, NEW p \in Procs, pc'[u] = "seq", p < dest'[u]
      PROVE  Finalised(p, Key(u))'
  <2>0. DOMAIN dest = Threads /\ DOMAIN pc = Threads
        /\ dest[t] \in 0 .. N /\ pc[t] \in {"data", "seq"}
    BY <1>0 DEF TypeOK
  <2>1. CASE u # t
    <3>1. pc'[u] = pc[u] /\ dest'[u] = dest[u]
      BY <2>0, <2>1 DEF HandleAck, HandleSeqAck, EndSend, ChooseFinal
    <3> QED BY <3>1, <1>2, <1>5 DEF CompleteInv, AckedFinalised
  <2>2. CASE u = t /\ ChooseFinal(t)
    <3>1. dest'[t] = 0
      BY <2>0, <2>2 DEF ChooseFinal
    <3> QED BY <3>1, <2>2, <1>5, ConstantsAssumption, SMT DEF Procs
  <2>3. CASE u = t /\ \E i : HandleAck(t, i)
    BY <2>3, <1>5 DEF HandleAck, EndSend
  <2>4. CASE u = t /\ \E i : HandleSeqAck(t, i)
    <3>1. PICK i : HandleSeqAck(t, i)
      BY <2>4
    <3>2. pc[t] = "seq" /\ dest'[t] = dest[t] + 1
      BY <3>1, <2>0 DEF HandleSeqAck, EndSend
    <3>3. CASE p < dest[t]
      BY <3>2, <3>3, <2>4, <1>2 DEF CompleteInv, AckedFinalised
    <3>4. CASE p = dest[t]
      <4>1. /\ i \in DOMAIN replies[Client(t)] /\ dest[t] < N
            /\ Client(t) \in Clients /\ Client(t)[2] = dest[t]
        BY <3>1, <1>0, ReceiveType, ClientType DEF HandleSeqAck, Client
      <4>2. /\ replies[Client(t)][i].type = "seqack"
            /\ replies[Client(t)][i].pmk = Key(t)
        BY <3>1, <3>2 DEF HandleSeqAck, ValidAck, ValidSeqAckMsg
      <4>3. Finalised(p, Key(t))
        BY <3>4, <4>1, <4>2 DEF CompleteInv, AckedFinalised
      <4> QED BY <4>3, <2>4, <1>2
    <3>5. p < dest[t] \/ p = dest[t]
      BY <3>2, <2>0, <2>4, <1>5, ConstantsAssumption, SMT DEF Procs
    <3> QED BY <3>3, <3>4, <3>5
  <2> QED BY <2>1, <2>2, <2>3, <2>4
<1>6. AckedFinalised'
  BY <1>4, <1>5 DEF AckedFinalised
<1>7. NoHeadLeft'
  BY <1>1 DEF CompleteInv, NoHeadLeft
<1> QED BY <1>6, <1>7 DEF CompleteInv

----------------------------------------------------------------------------
(* The steps of the servers. *)

\* A data message makes nothing deliverable and its entry is not deliverable.
LEMMA DataCompleteStep ==
  ASSUME CompleteInv, FifoInv', NoWrap, NEW c \in Clients, NEW i,
         NEW lost \in BOOLEAN, HandleDataMsg(c, i, lost)
  PROVE  CompleteInv'
<1> DEFINE p   == c[2]
           pmk == requests[c][i].pmk
           new == [seq |-> seq_counter[p] + 1, seq_proposer |-> p]
           e   == PendingMessage(pmk, new, FALSE)
<1>0. OrderInv /\ TypeOK
  BY DEF CompleteInv, FifoInv, OrderInv
<1>1. /\ p \in Procs /\ pmk \in Keys
      /\ UNCHANGED <<delivered, serving, pc, dest>>
  BY <1>0, RecvType DEF HandleDataMsg, Clients, threadVars
<1>2. ASSUME ~Lookup(pending_seqs[p], pmk)
      PROVE  /\ new \in PendingSeqs /\ Reply(c, AckMessage(pmk, new), lost)
             /\ ordering' = [ordering EXCEPT ![p] = @ \cup {e}]
  <2>1. /\ p \in Procs /\ pmk \in Keys /\ new \in PendingSeqs
        /\ pmk \notin DOMAIN pending_seqs[p]
        /\ \A pm \in ordering[p] : pm.seq < new.seq
        /\ \A j \in DOMAIN delivered[p] : delivered[p][j].final_seq < new.seq
        /\ seq_counter' = [seq_counter EXCEPT ![p] = new.seq]
        /\ pending_seqs' = [pending_seqs EXCEPT ![p] = MapInsert(@, pmk, new)]
        /\ ordering' = [ordering EXCEPT ![p] = @ \cup {e}]
        /\ Reply(c, AckMessage(pmk, new), lost)
    BY <1>2, <1>0, NewDataStep
  <2> QED BY <2>1
<1>3. \E m \in Replies : m.type = "ack" /\ Reply(c, m, lost)
  <2>1. CASE Lookup(pending_seqs[p], pmk)
    <3>1. pending_seqs[p][pmk] \in PendingSeqs
      BY <2>1, <1>0, <1>1 DEF Lookup, TypeOK
    <3>2. /\ AckMessage(pmk, pending_seqs[p][pmk]) \in Replies
          /\ AckMessage(pmk, pending_seqs[p][pmk]).type = "ack"
      BY <3>1, <1>1, MessageTypes DEF AckMessage
    <3> QED BY <2>1, <3>2 DEF HandleDataMsg
  <2>2. CASE ~Lookup(pending_seqs[p], pmk)
    <3>1. new \in PendingSeqs /\ Reply(c, AckMessage(pmk, new), lost)
      BY <2>2, <1>2
    <3>2. AckMessage(pmk, new) \in Replies /\ AckMessage(pmk, new).type = "ack"
      BY <3>1, <1>1, MessageTypes DEF AckMessage
    <3> QED BY <3>1, <3>2
  <2> QED BY <2>1, <2>2
<1>4. /\ \A q \in Procs : \A pm \in ordering[q] : pm \in ordering'[q]
      /\ \A q \in Procs : \A pm \in ordering'[q] :
           pm.deliverable => pm \in ordering[q]
  <2>1. CASE Lookup(pending_seqs[p], pmk)
    BY <2>1 DEF HandleDataMsg
  <2>2. CASE ~Lookup(pending_seqs[p], pmk)
    <3>1. ordering' = [ordering EXCEPT ![p] = @ \cup {e}]
      BY <2>2, <1>2
    <3>2. \A pm : pm.deliverable => pm # e
      <4>1. e.deliverable = FALSE
        BY DEF PendingMessage
      <4> QED BY <4>1
    <3>3. DOMAIN ordering = Procs
      BY <1>0 DEF TypeOK
    <3> HIDE DEF p, pmk, new, e
    <3> QED BY <3>1, <3>2, <3>3
  <2> QED BY <2>1, <2>2
<1> HIDE DEF p, pmk, new, e
<1>5. \A q \in Procs : \A k : Finalised(q, k) => Finalised(q, k)'
  BY <1>1, <1>4 DEF Finalised
<1>6. PICK m \in Replies : m.type = "ack" /\ Reply(c, m, lost)
  BY <1>3
<1>7. \A d \in Clients : \A j \in DOMAIN replies'[d] :
        \/ j \in DOMAIN replies[d] /\ replies'[d][j] = replies[d][j]
        \/ d = c /\ replies'[d][j] = m
  BY <1>0, <1>6, ReplyPaths
<1>8. AckedFinalised'
  <2>1. ASSUME NEW d \in Clients, NEW j \in DOMAIN replies'[d],
               NEW u \in Threads,
               replies'[d][j].type = "seqack" /\ replies'[d][j].pmk = Key(u)
        PROVE  Finalised(d[2], Key(u))'
    <3>1. j \in DOMAIN replies[d] /\ replies'[d][j] = replies[d][j]
      <4>1. "ack" # "seqack"
        OBVIOUS
      <4> QED BY <2>1, <1>6, <1>7, <4>1
    <3>2. Finalised(d[2], Key(u)) /\ d[2] \in Procs
      BY <2>1, <3>1 DEF CompleteInv, AckedFinalised, Clients
    <3> QED BY <3>2, <1>5
  <2>2. \A t \in Threads, q \in Procs :
          pc'[t] = "seq" /\ q < dest'[t] => Finalised(q, Key(t))'
    BY <1>1, <1>5 DEF CompleteInv, AckedFinalised
  <2> QED BY <2>1, <2>2 DEF AckedFinalised
<1>9. NoHeadLeft'
  BY <1>1, <1>4 DEF CompleteInv, NoHeadLeft, DeliverableHead, IsBegin
<1> QED BY <1>8, <1>9 DEF CompleteInv

\* A SeqMessage is acknowledged by a process that has the final sequence number
\* from then on, or has had it already.
LEMMA SeqCompleteStep ==
  ASSUME CompleteInv, FifoInv', DistinctIds, NEW c \in Clients, NEW i,
         NEW lost \in BOOLEAN, HandleSeqMsg(c, i, lost)
  PROVE  CompleteInv'
<1> DEFINE p == c[2]
<1>0. OrderInv /\ TypeOK
  BY DEF CompleteInv, FifoInv, OrderInv
<1>1. PICK t \in Threads : SeqEffect(c, i, t, lost)
  BY <1>0, SeqStep
<1>2. p \in Procs /\ UNCHANGED <<delivered, pc, dest>>
  BY DEF HandleSeqMsg, Clients, threadVars
<1>3. /\ pc[t] = "seq" /\ Reply(c, SeqAckMessage(Key(t)), lost)
      /\ SeqAckMessage(Key(t)) \in Replies /\ SeqAckMessage(Key(t)).pmk = Key(t)
  <2>1. SeqAckMessage(Key(t)).pmk = Key(t)
    BY DEF SeqAckMessage
  <2>2. SeqAckMessage(Key(t)) \in Replies
    BY KeyType, SMT DEF SeqAckMessage, Replies
  <2> QED BY <2>1, <2>2, <1>1 DEF SeqEffect
<1>4. FinalPm(t).pmk = Key(t) /\ FinalPm(t).deliverable
  BY DEF FinalPm, PendingMessage
<1>5. \A d \in Clients : \A j \in DOMAIN replies'[d] :
        \/ j \in DOMAIN replies[d] /\ replies'[d][j] = replies[d][j]
        \/ d = c /\ replies'[d][j] = SeqAckMessage(Key(t))
  BY <1>0, <1>3, ReplyPaths
<1>6. CASE Holds(p, t)
  <2> DEFINE old == PendingMessage(Key(t), pending_seqs[p][Key(t)], FALSE)
  <2>1. /\ ordering' = [ordering EXCEPT ![p] = (@ \ {old}) \cup {FinalPm(t)}]
        /\ serving' = [serving EXCEPT ![p] = "deliver"]
    BY <1>1, <1>6 DEF SeqEffect
  <2>2. \A pm : pm.deliverable => pm # old
    <3>1. old.deliverable = FALSE
      BY DEF PendingMessage
    <3> QED BY <3>1
  <2>3. DOMAIN ordering = Procs /\ DOMAIN serving = Procs
    BY <1>0 DEF TypeOK
  <2> HIDE DEF old, p
  <2>4. \A q \in Procs : \A k : Finalised(q, k) => Finalised(q, k)'
    BY <2>1, <2>2, <2>3, <1>2 DEF Finalised
  <2>5. Finalised(p, Key(t))'
    BY <2>1, <2>3, <1>2, <1>4 DEF Finalised
  <2>6. AckedFinalised'
    <3>1. ASSUME NEW d \in Clients, NEW j \in DOMAIN replies'[d],
                 NEW u \in Threads,
                 replies'[d][j].type = "seqack" /\ replies'[d][j].pmk = Key(u)
          PROVE  Finalised(d[2], Key(u))'
      <4>1. CASE j \in DOMAIN replies[d] /\ replies'[d][j] = replies[d][j]
        <5>1. Finalised(d[2], Key(u)) /\ d[2] \in Procs
          BY <3>1, <4>1 DEF CompleteInv, AckedFinalised, Clients
        <5> QED BY <5>1, <2>4
      <4>2. CASE d = c /\ replies'[d][j] = SeqAckMessage(Key(t))
        <5>1. Key(u) = Key(t)
          BY <3>1, <4>2, <1>3
        <5> QED BY <4>2, <5>1, <2>5 DEF p
      <4> QED BY <3>1, <4>1, <4>2, <1>5
    <3>2. \A u \in Threads, q \in Procs :
            pc'[u] = "seq" /\ q < dest'[u] => Finalised(q, Key(u))'
      BY <1>2, <2>4 DEF CompleteInv, AckedFinalised
    <3> QED BY <3>1, <3>2 DEF AckedFinalised
  <2>7. NoHeadLeft'
    <3> SUFFICES ASSUME NEW q \in Procs, serving'[q] = "listen",
                        NEW pm \in ordering'[q]
                 PROVE  ~DeliverableHead(ordering'[q], pm)
      BY DEF NoHeadLeft
    <3>1. q # p
      BY <2>1, <2>3, <1>2
    <3>2. ordering'[q] = ordering[q] /\ serving'[q] = serving[q]
      BY <2>1, <2>3, <3>1
    <3> QED BY <3>2 DEF CompleteInv, NoHeadLeft
  <2> QED BY <2>6, <2>7 DEF CompleteInv
<1>7. CASE ~Holds(p, t)
  <2>1. UNCHANGED <<ordering, serving>>
    BY <1>1, <1>7 DEF SeqEffect
  <2>2. Finalised(p, Key(t))
    <3>1. Ready(p, t) \/ Delivered(p, t)
      BY <1>0, <1>2, <1>3, <1>7 DEF OrderInv, FinalHeld
    <3> QED BY <3>1, <1>2, FinalisedIff
  <2>3. \A q \in Procs : \A k : Finalised(q, k) => Finalised(q, k)'
    BY <2>1, <1>2 DEF Finalised
  <2>4. AckedFinalised'
    <3>1. ASSUME NEW d \in Clients, NEW j \in DOMAIN replies'[d],
                 NEW u \in Threads,
                 replies'[d][j].type = "seqack" /\ replies'[d][j].pmk = Key(u)
          PROVE  Finalised(d[2], Key(u))'
      <4>1. CASE j \in DOMAIN replies[d] /\ replies'[d][j] = replies[d][j]
        <5>1. Finalised(d[2], Key(u)) /\ d[2] \in Procs
          BY <3>1, <4>1 DEF CompleteInv, AckedFinalised, Clients
        <5> QED BY <5>1, <2>3
      <4>2. CASE d = c /\ replies'[d][j] = SeqAckMessage(Key(t))
        <5>1. Key(u) = Key(t)
          BY <3>1, <4>2, <1>3
        <5> QED BY <4>2, <5>1, <2>2, <2>3, <1>2
      <4> QED BY <3>1, <4>1, <4>2, <1>5
    <3>2. \A u \in Threads, q \in Procs :
            pc'[u] = "seq" /\ q < dest'[u] => Finalised(q, Key(u))'
      BY <1>2, <2>3 DEF CompleteInv, AckedFinalised
    <3> QED BY <3>1, <3>2 DEF AckedFinalised
  <2>5. NoHeadLeft'
    BY <2>1 DEF CompleteInv, NoHeadLeft
  <2> QED BY <2>4, <2>5 DEF CompleteInv
<1> QED BY <1>6, <1>7

\* A delivered message is known as much as before; the loop goes on.
LEMMA DeliverCompleteStep ==
  ASSUME CompleteInv, FifoInv', DistinctIds, NEW p \in Procs, Deliver(p)
  PROVE  CompleteInv'
<1>0. OrderInv /\ TypeOK
  BY DEF CompleteInv, FifoInv, OrderInv
<1>1. PICK t \in Threads : DeliverEffect(p, t)
  BY <1>0, DeliverStep
<1>2. PICK n \in Nat :
        /\ DOMAIN delivered[p] = 1 .. n
        /\ DOMAIN delivered'[p] = 1 .. n + 1
        /\ \A i \in 1 .. n : delivered'[p][i] = delivered[p][i]
        /\ delivered'[p][n + 1] = FinalMsg(t)
        /\ \A q \in Procs : q # p => delivered'[q] = delivered[q]
        /\ \A q \in Procs, u \in Threads :
             Delivered(q, u)' <=> Delivered(q, u) \/ (q = p /\ Key(u) = Key(t))
  BY <1>0, <1>1, DeliveredAfter
<1>3. /\ ordering' = [ordering EXCEPT ![p] = @ \ {FinalPm(t)}]
      /\ UNCHANGED <<serving, pc, dest, replies>>
      /\ FinalPm(t).pmk = Key(t)
  BY <1>1 DEF DeliverEffect, FinalPm, PendingMessage
<1>4. DOMAIN ordering = Procs
  BY <1>0 DEF TypeOK
<1>5. \A q \in Procs, u \in Threads : Ready(q, u) => Ready(q, u)' \/ Delivered(q, u)'
  <2> SUFFICES ASSUME NEW q \in Procs, NEW u \in Threads,
                      NEW pm \in ordering[q], pm.deliverable, pm.pmk = Key(u)
               PROVE  Ready(q, u)' \/ Delivered(q, u)'
    BY DEF Ready
  <2>1. CASE q = p /\ pm = FinalPm(t)
    BY <2>1, <1>2, <1>3
  <2>2. CASE ~(q = p /\ pm = FinalPm(t))
    <3>1. pm \in ordering'[q]
      BY <2>2, <1>3, <1>4
    <3> QED BY <3>1 DEF Ready
  <2> QED BY <2>1, <2>2
<1>6. \A q \in Procs, u \in Threads :
        Finalised(q, Key(u)) => Finalised(q, Key(u))'
  <2>1. ASSUME NEW q \in Procs, NEW u \in Threads
        PROVE  /\ Finalised(q, Key(u)) <=> Ready(q, u) \/ Delivered(q, u)
               /\ Finalised(q, Key(u))' <=> Ready(q, u)' \/ Delivered(q, u)'
    BY DEF Finalised, Ready, Delivered
  <2> QED BY <2>1, <1>2, <1>5
<1>7. AckedFinalised'
  <2>1. ASSUME NEW d \in Clients, NEW j \in DOMAIN replies[d], NEW u \in Threads,
               replies[d][j].type = "seqack" /\ replies[d][j].pmk = Key(u)
        PROVE  Finalised(d[2], Key(u))'
    <3>1. Finalised(d[2], Key(u)) /\ d[2] \in Procs
      BY <2>1 DEF CompleteInv, AckedFinalised, Clients
    <3> QED BY <3>1, <1>6
  <2>2. \A u \in Threads, q \in Procs :
          pc'[u] = "seq" /\ q < dest'[u] => Finalised(q, Key(u))'
    BY <1>3, <1>6 DEF CompleteInv, AckedFinalised
  <2> QED BY <2>1, <2>2, <1>3 DEF AckedFinalised
<1>8. NoHeadLeft'
  <2> SUFFICES ASSUME NEW q \in Procs, serving'[q] = "listen",
                      NEW pm \in ordering'[q]
               PROVE  ~DeliverableHead(ordering'[q], pm)
    BY DEF NoHeadLeft
  <2>1. q # p
    <3>1. serving[p] = "deliver" /\ "deliver" # "listen"
      BY DEF Deliver
    <3> QED BY <3>1, <1>3
  <2>2. ordering'[q] = ordering[q] /\ serving'[q] = serving[q]
    BY <2>1, <1>3, <1>4
  <2> QED BY <2>2 DEF CompleteInv, NoHeadLeft
<1> QED BY <1>7, <1>8 DEF CompleteInv

\* The loop ends when there is no deliverable head.
LEMMA EndDeliveryCompleteStep ==
  ASSUME CompleteInv, FifoInv', NEW p \in Procs, EndDelivery(p)
  PROVE  CompleteInv'
<1>0. DOMAIN serving = Procs
  BY DEF CompleteInv, FifoInv, OrderInv, TypeOK
<1>1. UNCHANGED <<ordering, delivered, pc, dest, replies>>
  BY DEF EndDelivery, threadVars
<1>2. AckedFinalised'
  BY <1>1 DEF CompleteInv, AckedFinalised, Finalised
<1>3. NoHeadLeft'
  BY <1>0, <1>1 DEF EndDelivery, CompleteInv, NoHeadLeft
<1> QED BY <1>2, <1>3 DEF CompleteInv

----------------------------------------------------------------------------
(* The invariant. *)

\* The invariant holds when all processes start.
LEMMA CompleteInvInit == Init => CompleteInv
<1> SUFFICES ASSUME Init PROVE CompleteInv
  OBVIOUS
<1>1. FifoInv
  BY FifoInvInit
<1>2. AckedFinalised
  <2>1. \A c \in Clients : DOMAIN replies[c] = {}
    BY SMT DEF Init
  <2>2. \A t \in Threads : pc[t] # "seq"
    BY DEF Init
  <2> QED BY <2>1, <2>2 DEF AckedFinalised
<1>3. NoHeadLeft
  BY DEF Init, NoHeadLeft
<1> QED BY <1>1, <1>2, <1>3 DEF CompleteInv

\* Every step preserves the invariant.
LEMMA CompleteInvNext ==
  ASSUME DistinctIds, ~Reorder, CompleteInv, NoWrap, [Next]_vars
  PROVE  CompleteInv'
<1>1. FifoInv /\ TypeOK
  BY DEF CompleteInv, FifoInv, OrderInv
<1>2. FifoInv'
  BY <1>1, FifoInvNext
<1>3. CASE UNCHANGED vars
  <2>1. RepliesKept
    BY <1>3 DEF vars, RepliesKept
  <2> QED BY <1>2, <1>3, <2>1, QuietCompleteStep DEF vars
<1>4. ASSUME NEW t \in Threads, ThreadStep(t) PROVE CompleteInv'
  <2>1. ASSUME NEW lost \in BOOLEAN, BeginSend(t, lost) \/ Timeout(t, lost)
        PROVE  CompleteInv'
    <3>1. RepliesKept
      BY <2>1 DEF BeginSend, Timeout, RepliesKept
    <3> QED BY <2>1, <3>1, <1>2, QuietCompleteStep
            DEF BeginSend, Timeout, serverVars, threadVars
  <2>2. ASSUME NEW i, NEW lost \in BOOLEAN, RejectAck(t, i, lost)
        PROVE  CompleteInv'
    <3>1. RepliesKept
      BY <2>2, <1>1, ReceivePaths DEF RejectAck
    <3> QED BY <2>2, <3>1, <1>2, QuietCompleteStep
            DEF RejectAck, serverVars, threadVars
  <2>3. ASSUME NEW i, HandleAck(t, i) \/ HandleSeqAck(t, i) PROVE CompleteInv'
    BY <2>3, <1>2, AdvanceCompleteStep
  <2>4. ASSUME ChooseFinal(t) PROVE CompleteInv'
    BY <2>4, <1>2, AdvanceCompleteStep
  <2> QED BY <1>4, <2>1, <2>2, <2>3, <2>4 DEF ThreadStep
<1>5. ASSUME NEW p \in Procs, ServerStep(p) PROVE CompleteInv'
  <2>0. \A q \in Procs : <<q, p>> \in Clients
    BY DEF Clients
  <2>1. ASSUME NEW c \in Clients, NEW i, NEW lost \in BOOLEAN,
               HandleDataMsg(c, i, lost)
        PROVE  CompleteInv'
    BY <2>1, <1>2, DataCompleteStep
  <2>2. ASSUME NEW c \in Clients, NEW i, NEW lost \in BOOLEAN,
               HandleSeqMsg(c, i, lost)
        PROVE  CompleteInv'
    BY <2>2, <1>2, SeqCompleteStep
  <2>3. ASSUME Deliver(p) PROVE CompleteInv'
    BY <2>3, <1>2, DeliverCompleteStep
  <2>4. ASSUME EndDelivery(p) PROVE CompleteInv'
    BY <2>4, <1>2, EndDeliveryCompleteStep
  <2> QED BY <1>5, <2>0, <2>1, <2>2, <2>3, <2>4 DEF ServerStep
<1> QED BY <1>3, <1>4, <1>5 DEF Next

\* CompleteInv holds in every run without reordering in which message ids are
\* distinct and no counter comes to its limit.
THEOREM CompleteInvariant ==
  ASSUME DistinctIds, ~Reorder
  PROVE  Spec /\ []NoWrap => []CompleteInv
<1>1. Init => CompleteInv
  BY CompleteInvInit
<1>2. CompleteInv /\ NoWrap /\ [Next]_vars => CompleteInv'
  BY CompleteInvNext
<1> QED BY <1>1, <1>2, PTL DEF Spec

----------------------------------------------------------------------------
(* Nothing is missing at the end. *)

\* A nonempty set of natural numbers has a least element.
LEMMA LeastNat ==
  ASSUME NEW T, T \subseteq Nat, T # {}
  PROVE  \E x \in T : \A y \in T : x <= y
<1>1. PICK x \in T : \A y \in T : ~(<<y, x>> \in OpToRel(<, Nat))
  BY NatLessThanWellFounded, WFMin
<1>2. \A y \in T : <<y, x>> \in OpToRel(<, Nat) <=> y < x
  BY DEF OpToRel
<1>3. \A y \in T : ~(y < x)
  BY <1>1, <1>2
<1> QED BY <1>3, SMT

\* A nonempty queue in which all is deliverable has a head.
LEMMA BeginExists ==
  ASSUME OrderInv, DistinctIds, NEW p \in Procs, ordering[p] # {},
         \A pm \in ordering[p] : pm.deliverable
  PROVE  \E pm \in ordering[p] : IsBegin(ordering[p], pm)
<1> DEFINE S == ordering[p]
<1>1. \A pm \in S : /\ pm.seq \in Nat /\ pm.pmk.sender \in Nat
                    /\ pm.pmk.msg_id \in Nat /\ pm.pmk \in Keys
  <2>1. \A t \in Threads : Key(t).sender \in Nat /\ Key(t).msg_id \in Nat
    BY ConstantsAssumption, SMT DEF Key, Procs
  <2>2. \A k \in Keys : k.sender \in Nat /\ k.msg_id \in Nat
    BY <2>1 DEF Keys
  <2>3. \A pm \in S : pm \in PendingMessages
    BY DEF OrderInv, TypeOK
  <2>4. \A pm \in PendingMessages : pm.seq \in SeqNums /\ pm.pmk \in Keys
    BY DEF PendingMessages
  <2>5. SeqNums \subseteq Nat
    BY ConstantsAssumption, SMT DEF SeqNums
  <2> HIDE DEF S
  <2> QED BY <2>2, <2>3, <2>4, <2>5
<1>2. \A pm, e \in S : pm.pmk = e.pmk => pm = e
  <2> SUFFICES ASSUME NEW pm \in S, NEW e \in S, pm.pmk = e.pmk PROVE pm = e
    OBVIOUS
  <2>1. PICK t \in Threads : pm = FinalPm(t)
    BY DEF OrderInv, FinalOnly
  <2>2. PICK u \in Threads : e = FinalPm(u)
    BY DEF OrderInv, FinalOnly
  <2>3. Key(t) = Key(u)
    BY <2>1, <2>2 DEF FinalPm, PendingMessage
  <2> QED BY <2>1, <2>2, <2>3 DEF DistinctIds
<1>3. \A pm, e \in S : /\ pm.pmk.sender = e.pmk.sender
                       /\ pm.pmk.msg_id = e.pmk.msg_id
                       => pm = e
  <2>1. \A t, u \in Threads : /\ Key(t).sender = Key(u).sender
                              /\ Key(t).msg_id = Key(u).msg_id
                              => Key(t) = Key(u)
    BY SMT DEF Key
  <2>2. \A k, l \in Keys : k.sender = l.sender /\ k.msg_id = l.msg_id => k = l
    BY <2>1 DEF Keys
  <2> HIDE DEF S
  <2> QED BY <2>2, <1>1, <1>2
<1> S # {} /\ \A pm \in S : pm.deliverable
  OBVIOUS
<1> SUFFICES \E pm \in S : IsBegin(S, pm)
  OBVIOUS
<1> HIDE DEF S
<1>4. PICK a \in S : \A e \in S : a.seq <= e.seq
  <2> DEFINE T == {e.seq : e \in S}
  <2>1. PICK x \in T : \A y \in T : x <= y
    <3>1. T \subseteq Nat /\ T # {}
      BY <1>1
    <3> HIDE DEF T
    <3> QED BY <3>1, LeastNat
  <2> QED BY <2>1
<1> DEFINE A == {e \in S : e.seq = a.seq}
<1>5. PICK b \in A : \A e \in A : b.pmk.sender <= e.pmk.sender
  <2> DEFINE T == {e.pmk.sender : e \in A}
  <2>1. PICK x \in T : \A y \in T : x <= y
    <3>1. T \subseteq Nat /\ T # {}
      BY <1>1
    <3> HIDE DEF T
    <3> QED BY <3>1, LeastNat
  <2> QED BY <2>1
<1> DEFINE B == {e \in A : e.pmk.sender = b.pmk.sender}
<1>6. PICK h \in B : \A e \in B : h.pmk.msg_id <= e.pmk.msg_id
  <2> DEFINE T == {e.pmk.msg_id : e \in B}
  <2>1. PICK x \in T : \A y \in T : x <= y
    <3>1. T \subseteq Nat /\ T # {}
      BY <1>1
    <3> HIDE DEF T
    <3> QED BY <3>1, LeastNat
  <2> QED BY <2>1
<1>7. ASSUME NEW e \in S, e # h PROVE Less(h, e)
  <2>1. /\ h \in S /\ h.seq = a.seq /\ h.pmk.sender = b.pmk.sender
        /\ b.seq = a.seq
    BY <1>6
  <2>2. CASE e.seq # a.seq
    <3>1. h.seq < e.seq
      BY <2>1, <2>2, <1>1, <1>4, SMT
    <3> QED BY <3>1 DEF Less
  <2>3. CASE e.seq = a.seq /\ e.pmk.sender # b.pmk.sender
    <3>1. b.pmk.sender <= e.pmk.sender
      BY <2>3, <1>5
    <3>2. h.pmk.sender < e.pmk.sender
      BY <2>1, <2>3, <3>1, <1>1, SMT
    <3> QED BY <2>1, <2>3, <3>2 DEF Less
  <2>4. CASE e.seq = a.seq /\ e.pmk.sender = b.pmk.sender
    <3>1. h.pmk.msg_id <= e.pmk.msg_id
      BY <2>4, <1>6
    <3>2. h.pmk.msg_id # e.pmk.msg_id
      BY <2>1, <2>4, <1>3, <1>7
    <3>3. h.pmk.msg_id < e.pmk.msg_id
      BY <2>1, <3>1, <3>2, <1>1, SMT
    <3> QED BY <2>1, <2>4, <3>3 DEF Less
  <2> QED BY <2>2, <2>3, <2>4
<1> QED BY <1>6, <1>7 DEF IsBegin

\* Once all is acknowledged a process outside its delivery loop has delivered
\* every message.
LEMMA AllDelivered ==
  ASSUME CompleteInv, DistinctIds, \A t \in Threads : Finished(t),
         NEW p \in Procs, serving[p] = "listen"
  PROVE  \A t \in Threads : Delivered(p, t)
<1>0. OrderInv /\ TypeOK
  BY DEF CompleteInv, FifoInv, OrderInv
<1>1. \A t \in Threads : Finalised(p, Key(t))
  <2>1. p < N
    BY ConstantsAssumption, SMT DEF Procs
  <2> QED BY <2>1 DEF CompleteInv, AckedFinalised, Finished
<1>2. DOMAIN pending_seqs[p] = {}
  <2>1. \A k \in DOMAIN pending_seqs[p] : k \in Keys /\ ~Finalised(p, k)
    BY <1>0 DEF CompleteInv, FifoInv, NoReproposal, TypeOK
  <2> QED BY <2>1, <1>1 DEF Keys
<1>3. \A pm \in ordering[p] : pm.deliverable
  BY <1>0, <1>2 DEF OrderInv, QueueConsistent
<1>4. ordering[p] = {}
  <2> SUFFICES ASSUME ordering[p] # {} PROVE FALSE
    OBVIOUS
  <2>1. PICK pm \in ordering[p] : IsBegin(ordering[p], pm)
    BY <1>0, <1>3, BeginExists
  <2>2. DeliverableHead(ordering[p], pm)
    BY <2>1, <1>3 DEF DeliverableHead
  <2> QED BY <2>2 DEF CompleteInv, NoHeadLeft
<1> QED BY <1>1, <1>4 DEF Finalised, Delivered

\* A process that has delivered every message has delivered as many messages as
\* there are threads.
LEMMA DeliveredCount ==
  ASSUME CompleteInv, DistinctIds, NEW p \in Procs,
         \A t \in Threads : Delivered(p, t)
  PROVE  Len(delivered[p]) = Cardinality(Threads)
<1> DEFINE n == Len(delivered[p])
           f == [i \in 1 .. n |->
                   CHOOSE t \in Threads : delivered[p][i] = FinalMsg(t)]
<1>1. n \in Nat /\ DOMAIN delivered[p] = 1 .. n
  <2>1. delivered[p] \in Seq(SeqMessages)
    BY DEF CompleteInv, FifoInv, OrderInv, TypeOK
  <2> QED BY <2>1, SMT
<1> HIDE DEF n
<1>2. \A i \in 1 .. n : f[i] \in Threads /\ delivered[p][i] = FinalMsg(f[i])
  <2> SUFFICES ASSUME NEW i \in 1 .. n
               PROVE  f[i] \in Threads /\ delivered[p][i] = FinalMsg(f[i])
    OBVIOUS
  <2>1. \E t \in Threads : delivered[p][i] = FinalMsg(t)
    BY <1>1 DEF CompleteInv, FifoInv, OrderInv, FinalOnly
  <2> QED BY <2>1
<1>3. \A t \in Threads : FinalMsg(t).pmk = Key(t)
  BY DEF FinalMsg, SeqMessage
<1>4. f \in [1 .. n -> Threads]
  BY <1>2
<1> HIDE DEF f
<1>5. ASSUME NEW i \in 1 .. n, NEW j \in 1 .. n, f[i] = f[j] PROVE i = j
  <2>1. delivered[p][i].pmk = delivered[p][j].pmk
    BY <1>2, <1>5
  <2> QED BY <2>1, <1>1 DEF CompleteInv, FifoInv, NoDuplicateDelivery
<1>6. ASSUME NEW t \in Threads PROVE \E i \in 1 .. n : f[i] = t
  <2>1. PICK i \in 1 .. n : delivered[p][i].pmk = Key(t)
    BY <1>1 DEF Delivered
  <2>2. Key(f[i]) = Key(t)
    BY <2>1, <1>2, <1>3
  <2> QED BY <2>2, <1>2 DEF DistinctIds
<1>7. ExistsBijection(1 .. n, Threads)
  <2>1. f \in Bijection(1 .. n, Threads)
    BY <1>4, <1>5, <1>6 DEF Bijection, Injection, Surjection, IsInjective
  <2> QED BY <2>1 DEF ExistsBijection
<1>8. Cardinality(Threads) = n
  BY <1>1, <1>7, FS_CountingElements
<1> QED BY <1>8 DEF n

\* When every SendSeqMsg has been acknowledged by every process each process
\* outside its delivery loop has delivered every message: none is left stuck in
\* a hold-back queue, for any number of processes and messages.
THEOREM CompleteDelivery ==
  ASSUME DistinctIds, ~Reorder
  PROVE  Spec /\ []NoWrap => []CompleteWhenDone
<1>1. CompleteInv => CompleteWhenDone
  BY AllDelivered, DeliveredCount DEF CompleteWhenDone
<1> QED BY <1>1, CompleteInvariant, PTL

----------------------------------------------------------------------------
(* The refinement. *)

\* The keys of a sequence of messages, and of one that a message is added to.
LEMMA KeysOfSeq ==
  ASSUME NEW msgs \in Seq(SeqMessages), NEW m \in SeqMessages
  PROVE  /\ KeysOf(msgs) \in Seq(Keys)
         /\ Len(KeysOf(msgs)) = Len(msgs)
         /\ \A i \in 1 .. Len(msgs) : KeysOf(msgs)[i] = msgs[i].pmk
         /\ KeysOf(Append(msgs, m)) = Append(KeysOf(msgs), m.pmk)
<1>0. m.pmk \in Keys
  BY SMT DEF SeqMessages
<1>1. \A i \in 1 .. Len(msgs) : msgs[i].pmk \in Keys
  <2>1. \A i \in 1 .. Len(msgs) : msgs[i] \in SeqMessages
    BY SMT
  <2> QED BY <2>1, SMT DEF SeqMessages
<1>2. Len(msgs) \in Nat
  BY SMT
<1>3. KeysOf(msgs) \in Seq(Keys) /\ Len(KeysOf(msgs)) = Len(msgs)
  BY <1>1, <1>2, SMT DEF KeysOf
<1>4. \A i \in 1 .. Len(msgs) : KeysOf(msgs)[i] = msgs[i].pmk
  BY DEF KeysOf
<1>5. KeysOf(Append(msgs, m)) = Append(KeysOf(msgs), m.pmk)
  <2>1. Len(Append(msgs, m)) = Len(msgs) + 1
    BY SMT
  <2>2. \A i \in 1 .. Len(msgs) + 1 :
          Append(msgs, m)[i] = IF i = Len(msgs) + 1 THEN m ELSE msgs[i]
    BY SMT
  <2>3. KeysOf(Append(msgs, m)) =
          [i \in 1 .. Len(msgs) + 1 |-> Append(msgs, m)[i].pmk]
    BY <2>1 DEF KeysOf
  <2>4. KeysOf(Append(msgs, m)) \in Seq(Keys)
    <3>1. \A i \in 1 .. Len(msgs) + 1 : Append(msgs, m)[i].pmk \in Keys
      BY <1>0, <1>1, <1>2, <2>2, SMT
    <3> QED BY <2>3, <3>1, <1>2, SMT
  <2>5. Append(KeysOf(msgs), m.pmk) \in Seq(Keys)
    BY <1>0, <1>3, SMT
  <2>6. Len(KeysOf(Append(msgs, m))) = Len(msgs) + 1
    BY <2>3, <1>2, SMT
  <2>7. Len(Append(KeysOf(msgs), m.pmk)) = Len(msgs) + 1
    BY <1>0, <1>3, SMT
  <2>8. \A i \in 1 .. Len(msgs) + 1 :
          KeysOf(Append(msgs, m))[i] = Append(KeysOf(msgs), m.pmk)[i]
    <3> SUFFICES ASSUME NEW i \in 1 .. Len(msgs) + 1
                 PROVE  KeysOf(Append(msgs, m))[i] = Append(KeysOf(msgs), m.pmk)[i]
      OBVIOUS
    <3>1. KeysOf(Append(msgs, m))[i] = Append(msgs, m)[i].pmk
      BY <2>3
    <3>2. CASE i = Len(msgs) + 1
      BY <3>1, <3>2, <2>2, <1>0, <1>3, SMT
    <3>3. CASE i \in 1 .. Len(msgs)
      <4>1. Append(KeysOf(msgs), m.pmk)[i] = KeysOf(msgs)[i]
        BY <3>3, <1>0, <1>3, SMT
      <4>2. Append(msgs, m)[i] = msgs[i]
        BY <3>3, <2>2, <1>2, SMT
      <4> QED BY <3>1, <3>3, <4>1, <4>2, <1>4
    <3>4. i = Len(msgs) + 1 \/ i \in 1 .. Len(msgs)
      BY <1>2, SMT
    <3> QED BY <3>2, <3>3, <3>4
  <2> QED BY <2>4, <2>5, <2>6, <2>7, <2>8, SMT
<1> QED BY <1>3, <1>4, <1>5

\* A step that changes neither a pc nor what has been delivered is a stutter.
LEMMA StutterStep ==
  ASSUME pc' = pc, delivered' = delivered
  PROVE  UNCHANGED Atomic!vars
BY DEF Atomic!vars, Placed, DeliveredKeys

\* The abstract specification starts where the processes start.
LEMMA AtomicInit == Init => Atomic!Init
<1> SUFFICES ASSUME Init PROVE Atomic!Init
  OBVIOUS
<1>1. Placed = {}
  BY DEF Init, Placed
<1>2. KeysOf(<< >>) = << >>
  BY SMT DEF KeysOf
<1>3. DeliveredKeys = [p \in Procs |-> << >>]
  <2>1. \A p \in Procs : KeysOf(delivered[p]) = << >>
    BY <1>2 DEF Init
  <2> QED BY <2>1 DEF DeliveredKeys
<1> QED BY <1>1, <1>3 DEF Atomic!Init

\* Choosing final_seq gives the message of the thread its place.
LEMMA ChooseStep ==
  ASSUME DistinctIds, TypeOK, NEW t \in Threads, ChooseFinal(t)
  PROVE  Atomic!Next
<1>1. pc[t] = "data" /\ pc' = [pc EXCEPT ![t] = "seq"] /\ DOMAIN pc = Threads
  BY DEF ChooseFinal, TypeOK
<1>2. delivered' = delivered
  BY DEF ChooseFinal, serverVars
<1>3. Key(t) \in Keys \ Placed
  BY <1>1 DEF Keys, Placed, DistinctIds
<1>4. Placed' = Placed \cup {Key(t)}
  <2>1. \A u \in Threads : pc'[u] = "seq" <=> u = t \/ pc[u] = "seq"
    BY <1>1
  <2> QED BY <2>1 DEF Placed
<1>5. DeliveredKeys' = DeliveredKeys
  BY <1>2 DEF DeliveredKeys
<1>6. Atomic!Place(Key(t))
  BY <1>3, <1>4, <1>5 DEF Atomic!Place
<1> QED BY <1>3, <1>6 DEF Atomic!Next

\* An iteration of the delivery loop delivers a message that has its place, for
\* the first time, and the one that any process ahead delivered there.
LEMMA DeliverAtomicStep ==
  ASSUME FifoInv, FifoInv', NEW p \in Procs, Deliver(p)
  PROVE  Atomic!Next
<1>0. TypeOK /\ FinalOnly /\ NoDuplicateDelivery' /\ SameOrder'
  BY DEF FifoInv, OrderInv
<1>1. PICK pm \in ordering[p] :
        /\ DeliverableHead(ordering[p], pm)
        /\ delivered' = [delivered EXCEPT ![p] = Append(@, SeqMessage(pm.pmk, pm))]
  BY DEF Deliver
<1>2. PICK t \in Threads : pc[t] = "seq" /\ pm = FinalPm(t)
  BY <1>0, <1>1 DEF DeliverableHead, FinalOnly
<1>3. pm.pmk = Key(t)
  BY <1>2, SMT DEF FinalPm, PendingMessage
<1>4. Key(t) \in Placed /\ Key(t) \in Keys
  BY <1>2 DEF Placed, Keys
<1>5. PICK m : m = SeqMessage(pm.pmk, pm)
  OBVIOUS
<1>6. m \in SeqMessages /\ m.pmk = Key(t)
  <2>1. pm \in PendingMessages
    BY <1>1, <1>0 DEF TypeOK
  <2> QED BY <2>1, <1>3, <1>5, SMT DEF SeqMessage, SeqMessages, PendingMessages
<1>7. PICK msgs : msgs = delivered[p]
  OBVIOUS
<1>8. msgs \in Seq(SeqMessages) /\ Len(msgs) \in Nat
  <2>1. msgs \in Seq(SeqMessages)
    BY <1>0, <1>7 DEF TypeOK
  <2> QED BY <2>1, SMT
<1>9. delivered' = [delivered EXCEPT ![p] = Append(msgs, m)] /\ DOMAIN delivered = Procs
  BY <1>0, <1>1, <1>5, <1>7 DEF TypeOK
<1>10. Placed' = Placed
  BY DEF Deliver, threadVars, Placed
<1>11. DeliveredKeys' = [DeliveredKeys EXCEPT ![p] = Append(@, Key(t))]
  <2>1. KeysOf(Append(msgs, m)) = Append(KeysOf(msgs), Key(t))
    BY <1>6, <1>8, KeysOfSeq
  <2>2. \A q \in Procs : KeysOf(delivered'[q]) =
          IF q = p THEN Append(KeysOf(delivered[p]), Key(t)) ELSE KeysOf(delivered[q])
    BY <1>7, <1>9, <2>1
  <2> QED BY <2>2 DEF DeliveredKeys
<1>12. /\ DOMAIN delivered'[p] = 1 .. Len(msgs) + 1
       /\ delivered'[p][Len(msgs) + 1] = m
       /\ \A i \in 1 .. Len(msgs) : delivered'[p][i] = msgs[i]
  <2>1. delivered'[p] = Append(msgs, m)
    BY <1>9
  <2>2. /\ DOMAIN Append(msgs, m) = 1 .. Len(msgs) + 1
        /\ Append(msgs, m)[Len(msgs) + 1] = m
    BY <1>6, <1>8, SMT
  <2>3. \A i \in 1 .. Len(msgs) : Append(msgs, m)[i] = msgs[i]
    BY <1>6, <1>8, SMT
  <2> QED BY <2>1, <2>2, <2>3
<1>13. ASSUME NEW q \in Procs
       PROVE  /\ delivered[q] \in Seq(SeqMessages)
              /\ Len(DeliveredKeys[q]) = Len(delivered[q])
              /\ \A i \in 1 .. Len(delivered[q]) :
                   DeliveredKeys[q][i] = delivered[q][i].pmk
  <2>1. delivered[q] \in Seq(SeqMessages)
    BY <1>0 DEF TypeOK
  <2>2. DeliveredKeys[q] = KeysOf(delivered[q])
    BY DEF DeliveredKeys
  <2> QED BY <2>1, <2>2, <1>6, KeysOfSeq
<1>14. Atomic!New(p, Key(t))
  <2>1. ASSUME NEW i \in 1 .. Len(msgs) PROVE msgs[i].pmk # Key(t)
    <3>1. i \in DOMAIN delivered'[p] /\ Len(msgs) + 1 \in DOMAIN delivered'[p]
          /\ i # Len(msgs) + 1
      BY <1>8, <1>12, SMT
    <3> QED BY <3>1, <1>0, <1>6, <1>12 DEF NoDuplicateDelivery
  <2>2. Len(DeliveredKeys[p]) = Len(msgs)
    BY <1>7, <1>13
  <2>3. \A i \in 1 .. Len(msgs) : DeliveredKeys[p][i] = msgs[i].pmk
    BY <1>7, <1>13
  <2> QED BY <2>1, <2>2, <2>3 DEF Atomic!New
<1>15. Atomic!Settled(p, Key(t))
  <2>0. Len(DeliveredKeys[p]) = Len(msgs)
    BY <1>7, <1>13
  <2> SUFFICES ASSUME NEW q \in Procs, Len(msgs) < Len(DeliveredKeys[q])
               PROVE  DeliveredKeys[q][Len(msgs) + 1] = Key(t)
    BY <2>0 DEF Atomic!Settled
  <2>1. Len(delivered[q]) \in Nat /\ DOMAIN delivered[q] = 1 .. Len(delivered[q])
    <3>1. delivered[q] \in Seq(SeqMessages)
      BY <1>13
    <3> QED BY <3>1, SMT
  <2>2. Len(msgs) + 1 \in DOMAIN delivered[q]
    <3>1. Len(msgs) < Len(delivered[q])
      BY <1>13
    <3> QED BY <3>1, <2>1, <1>8, SMT
  <2>3. q # p
    BY <2>0, <1>8, SMT
  <2>4. delivered'[q] = delivered[q]
    BY <2>3, <1>9
  <2>5. Len(msgs) + 1 \in DOMAIN delivered'[p]
    BY <1>8, <1>12, SMT
  <2>6. delivered'[p][Len(msgs) + 1] = delivered'[q][Len(msgs) + 1]
    BY <2>2, <2>4, <2>5, <1>0 DEF SameOrder
  <2>7. DeliveredKeys[q][Len(msgs) + 1] = delivered[q][Len(msgs) + 1].pmk
    BY <2>1, <2>2, <1>13
  <2> QED BY <2>4, <2>6, <2>7, <1>6, <1>12
<1>16. Atomic!Deliver(p, Key(t))
  BY <1>4, <1>10, <1>11, <1>14, <1>15 DEF Atomic!Deliver
<1> QED BY <1>4, <1>16 DEF Atomic!Next

\* Every step is a step of the abstract specification or a stutter.
LEMMA AtomicStep ==
  ASSUME DistinctIds, FifoInv, FifoInv', [Next]_vars
  PROVE  [Atomic!Next]_Atomic!vars
<1>1. CASE UNCHANGED vars
  BY <1>1, StutterStep DEF vars
<1>2. ASSUME NEW t \in Threads, ThreadStep(t)
      PROVE  Atomic!Next \/ UNCHANGED Atomic!vars
  <2>1. CASE ChooseFinal(t)
    BY <2>1, ChooseStep DEF FifoInv, OrderInv
  <2>2. CASE ~ChooseFinal(t)
    <3>1. pc' = pc /\ delivered' = delivered
      BY <1>2, <2>2 DEF ThreadStep, BeginSend, Timeout, RejectAck, HandleAck,
         HandleSeqAck, EndSend, serverVars, threadVars
    <3> QED BY <3>1, StutterStep
  <2> QED BY <2>1, <2>2
<1>3. ASSUME NEW p \in Procs, ServerStep(p)
      PROVE  Atomic!Next \/ UNCHANGED Atomic!vars
  <2>1. CASE Deliver(p)
    BY <2>1, DeliverAtomicStep
  <2>2. CASE ~Deliver(p)
    <3>1. pc' = pc /\ delivered' = delivered
      BY <1>3, <2>2, ZenonT(40) DEF ServerStep, HandleDataMsg, HandleSeqMsg, EndDelivery,
         threadVars
    <3> QED BY <3>1, StutterStep
  <2> QED BY <2>1, <2>2
<1> QED BY <1>1, <1>2, <1>3 DEF Next

\* Process::TotalOrder, run by any number of processes with any number of
\* messages, implements total order multicast as AtomicMulticast defines it,
\* whatever datagrams are lost or retransmitted, as long as those of a path do
\* not overtake one another, message ids are distinct and no counter wraps.
THEOREM TotalOrderIsAtomic ==
  ASSUME DistinctIds, ~Reorder
  PROVE  Spec /\ []NoWrap => ImplementsAtomicMulticast
<1>1. Init => Atomic!Init
  BY AtomicInit
<1>2. FifoInv /\ FifoInv' /\ [Next]_vars => [Atomic!Next]_Atomic!vars
  BY AtomicStep
<1> QED BY <1>1, <1>2, FifoInvariant, PTL DEF Spec, ImplementsAtomicMulticast,
        Atomic!Spec
=============================================================================
