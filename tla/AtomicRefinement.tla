-------------------------- MODULE AtomicRefinement --------------------------
(***************************************************************************)
(* TotalOrder implements AtomicMulticast.  A message is its key, (sender,  *)
(* msg_id); it has its place once its thread has chosen final_seq.  The    *)
(* multicast of data and final_seq, the acknowledgements and the hold-back *)
(* queue are steps that the abstract specification does not see.           *)
(***************************************************************************)
EXTENDS TotalOrderInv

Placed == {Key(t) : t \in {u \in Threads : pc[u] = "seq"}}

KeysOf(msgs) == [i \in 1 .. Len(msgs) |-> msgs[i].pmk]
DeliveredKeys == [p \in Procs |-> KeysOf(delivered[p])]

Atomic == INSTANCE AtomicMulticast
            WITH Messages <- Keys, placed <- Placed, delivered <- DeliveredKeys

\* What Process::TotalOrder does is total order multicast: at each call of
\* deliver the process is given, and never for a second time, a message whose
\* final sequence number is known, and the very one that any process ahead of it
\* was given at that point; nothing else changes what the callers of
\* TotalOrder see.
ImplementsAtomicMulticast == Atomic!Spec
=============================================================================
