-------------------------- MODULE AtomicMulticast --------------------------
(***************************************************************************)
(* What total order multicast promises, without sequence numbers, queues   *)
(* or a network.  A message is given its place in the order some time      *)
(* after it is multicast; from then on processes deliver it, each at its   *)
(* own pace, in the one order that those ahead have already settled.       *)
(***************************************************************************)
EXTENDS Naturals, Sequences

CONSTANTS Procs, Messages

VARIABLES
  placed,    \* the messages that have been given their place
  delivered  \* delivered[p]: the messages p has delivered, in order

vars == <<placed, delivered>>

Init ==
  /\ placed = {}
  /\ delivered = [p \in Procs |-> << >>]

Place(m) ==
  /\ m \in Messages \ placed
  /\ placed' = placed \cup {m}
  /\ UNCHANGED delivered

\* The next message of p is the one that every process ahead of p delivered
\* after as many messages; the first process to come so far is free to choose.
Settled(p, m) ==
  \A q \in Procs :
    Len(delivered[p]) < Len(delivered[q]) =>
      delivered[q][Len(delivered[p]) + 1] = m

New(p, m) == \A i \in 1 .. Len(delivered[p]) : delivered[p][i] # m

Deliver(p, m) ==
  /\ m \in placed
  /\ New(p, m)
  /\ Settled(p, m)
  /\ delivered' = [delivered EXCEPT ![p] = Append(@, m)]
  /\ UNCHANGED placed

Next ==
  \/ \E m \in Messages : Place(m)
  \/ \E p \in Procs, m \in Messages : Deliver(p, m)

Spec == Init /\ [][Next]_vars
=============================================================================
