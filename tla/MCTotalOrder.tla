---------------------------- MODULE MCTotalOrder ----------------------------
(***************************************************************************)
(* Instances of TotalOrder for TLC.  A thread is named by its process.     *)
(***************************************************************************)
EXTENDS AtomicRefinement, TLC

CONSTANTS a0, b0, a1, a2  \* threads of process 0, 1 and 2

MCSender == [t \in Threads |-> CASE t \in {a0, b0} -> 0
                                 [] t = a1 -> 1
                                 [] t = a2 -> 2]

\* Distinct message ids in each process, unordered with respect to the senders.
MCMsgId == [t \in Threads |-> CASE t = a0 -> 7
                                [] t = b0 -> 4
                                [] t = a1 -> 5
                                [] t = a2 -> 4]

\* UniqueID() returned the same random number in both threads of process 0.
MCCollidingMsgId == [t \in Threads |-> 7]

\* The datagrams in flight in the whole network, for the larger instances.
InFlight ==
  LET places == Clients \X (1 .. MaxInFlight)
      Used(paths) == {x \in places : x[2] <= Len(paths[x[1]])}
  IN  Cardinality(Used(requests)) + Cardinality(Used(replies))
AtMostTwoInFlight == InFlight <= 2
=============================================================================
