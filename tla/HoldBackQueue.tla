--------------------------- MODULE HoldBackQueue ---------------------------
(***************************************************************************)
(* The HoldBackQueue class: an unordered map pending_seqs_ from message    *)
(* keys to the sequence number this process proposed, and an ordered set   *)
(* ordering_ of PendingMessages kept by the comparator operator<.          *)
(*                                                                         *)
(* The map is a function whose domain is the set of keys present.  The     *)
(* ordered set is a set of records in which, as in std::set, no two        *)
(* elements are equivalent under the comparator.  The data field of a      *)
(* PendingMessage is left out: nothing ever reads it back.                 *)
(***************************************************************************)
EXTENDS Integers

\* PendingMessage, from a key, a PendingMessageSeq and the deliverable flag.
PendingMessage(pmk, pms, deliverable) ==
  [pmk |-> pmk, seq |-> pms.seq, seq_proposer |-> pms.seq_proposer,
   deliverable |-> deliverable]

\* Less gone wrong: a deliverable message passes the undeliverable ones that
\* have its sequence number.
LessDeliverableFirst(lhs, rhs) ==
  \/ lhs.seq < rhs.seq
  \/ /\ lhs.seq = rhs.seq
     /\ \/ lhs.deliverable /\ ~rhs.deliverable
        \/ /\ lhs.deliverable <=> rhs.deliverable
           /\ \/ lhs.pmk.sender < rhs.pmk.sender
              \/ /\ lhs.pmk.sender = rhs.pmk.sender
                 /\ lhs.pmk.msg_id < rhs.pmk.msg_id

\* operator<: by sequence number, undeliverable messages first, then by sender
\* and message id.
Less(lhs, rhs) ==
  \/ lhs.seq < rhs.seq
  \/ /\ lhs.seq = rhs.seq
     /\ \/ ~lhs.deliverable /\ rhs.deliverable
        \/ /\ lhs.deliverable <=> rhs.deliverable
           /\ \/ lhs.pmk.sender < rhs.pmk.sender
              \/ /\ lhs.pmk.sender = rhs.pmk.sender
                 /\ lhs.pmk.msg_id < rhs.pmk.msg_id

\* The notion of equality of std::set: neither element sorts before the other.
Equivalent(lhs, rhs) == ~Less(lhs, rhs) /\ ~Less(rhs, lhs)

\* std::set::insert keeps the element already there when one is equivalent.
SetInsert(ordering, pm) ==
  IF \E e \in ordering : Equivalent(e, pm) THEN ordering ELSE ordering \cup {pm}

\* std::set::erase by key removes the element equivalent to pm, if any.
SetErase(ordering, pm) == {e \in ordering : ~Equivalent(e, pm)}

\* pm is *ordering_.begin().
IsBegin(ordering, pm) ==
  pm \in ordering /\ \A e \in ordering \ {pm} : Less(pm, e)

\* Lookup: the data message is already in the queue.
Lookup(pending_seqs, pmk) == pmk \in DOMAIN pending_seqs

\* MapErase gone wrong: the key stays.
MapEraseForgotten(pending_seqs, pmk) == pending_seqs

\* pending_seqs_[pmk] = pms and pending_seqs_.erase(pmk).
MapInsert(pending_seqs, pmk, pms) ==
  [k \in DOMAIN pending_seqs \cup {pmk} |->
     IF k = pmk THEN pms ELSE pending_seqs[k]]
MapErase(pending_seqs, pmk) ==
  [k \in DOMAIN pending_seqs \ {pmk} |-> pending_seqs[k]]

\* InsertUndeliverable: the ordered set after the insertion.
InsertUndeliverable(ordering, pmk, pms) ==
  SetInsert(ordering, PendingMessage(pmk, pms, FALSE))

\* Reinsert gone wrong: the old entry stays.
ReinsertOnly(ordering, pmk, old_pms, pms) ==
  SetInsert(ordering, PendingMessage(pmk, pms, TRUE))

\* SetDeliverable up to its delivery loop: the old entry is erased and the
\* message reinserted, deliverable, under its final sequence number.
Reinsert(ordering, pmk, old_pms, pms) ==
  SetInsert(SetErase(ordering, PendingMessage(pmk, old_pms, FALSE)),
            PendingMessage(pmk, pms, TRUE))

\* One test of the delivery loop: the head of the queue exists and is
\* deliverable, so it is delivered and erased.
DeliverableHead(ordering, pm) == IsBegin(ordering, pm) /\ pm.deliverable
=============================================================================
