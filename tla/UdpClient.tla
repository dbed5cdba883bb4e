------------------------------ MODULE UdpClient ------------------------------
(***************************************************************************)
(* One udp::Client, hence one socket, and the threads that call its Send   *)
(* and SendWithAck.  SendWithAck holds sockfd_mutex_ from its first line to *)
(* its return or exception and calls Send, which locks it again: the mutex *)
(* is recursive.                                                           *)
(*                                                                         *)
(* A datagram is named by the call it belongs to: the request of call t,   *)
(* and an answer of the peer to it, which validAck of t alone accepts.     *)
(* Either may be lost; a timeout and a late answer may come in any order.  *)
(***************************************************************************)
EXTENDS Integers, Sequences

CONSTANTS
  Callers,   \* the calls, each made by a thread of its own
  Plain,     \* the calls of Send; the others are calls of SendWithAck
  Attempts,  \* Attempts[t]: the argument of a SendWithAck
  UIntLimit, \* unsigned int is taken modulo this: 2^32 in the code
  MaxInbox   \* datagrams the socket holds; more are dropped

kUnlimitedAttempts == 0
kMaxBackoffMultiplier == 64

ASSUME CallsAssumption ==
  /\ UIntLimit \in Nat \ {0, 1}
  /\ Plain \subseteq Callers
  /\ Attempts \in [Callers -> 0 .. UIntLimit - 1]
  /\ MaxInbox \in Nat \ {0}

VARIABLES
  holders,       \* holders[t]: how often t has locked sockfd_mutex_
  pc,            \* pc[t]: where the call is
  attempts,      \* attempts[t]: the parameter, counted down
  backoff_mult,  \* backoff_mult[t]
  requests,      \* the calls with a request on its way to the peer
  inbox,         \* the calls that the datagrams in the socket answer
  sent,          \* sent[t]: requests sent, counted up to UIntLimit
  acked          \* the calls whose validAck returned Stop

vars == <<holders, pc, attempts, backoff_mult, requests, inbox, sent, acked>>

noLimit(t) == Attempts[t] = kUnlimitedAttempts

Init ==
  /\ holders = [t \in Callers |-> 0]
  /\ pc = [t \in Callers |-> IF t \in Plain THEN "send" ELSE "call"]
  /\ attempts = Attempts
  /\ backoff_mult = [t \in Callers |-> 1]
  /\ requests = {} /\ inbox = << >>
  /\ sent = [t \in Callers |-> 0]
  /\ acked = {}

-----------------------------------------------------------------------------
(* sockfd_mutex_, a std::recursive_mutex held by lock_guards. *)

\* Lock gone wrong: a plain std::mutex.
LockOnce(t) ==
  /\ \A u \in Callers : holders[u] = 0
  /\ holders' = [holders EXCEPT ![t] = 1]

Lock(t) ==
  /\ \A u \in Callers \ {t} : holders[u] = 0
  /\ holders' = [holders EXCEPT ![t] = @ + 1]

\* Unlock gone wrong: the guard of Send gives the mutex up altogether.
UnlockAll(t) == holders' = [holders EXCEPT ![t] = 0]

Unlock(t) == holders' = [holders EXCEPT ![t] = @ - 1]

\* An exception leaves every lock_guard of the call.
Throw(t) ==
  /\ pc' = [pc EXCEPT ![t] = "threw"]
  /\ holders' = [holders EXCEPT ![t] = 0]

-----------------------------------------------------------------------------
(* SendWithAck, and the Send within it. *)

Goto(t, l) == pc' = [pc EXCEPT ![t] = l]

Enter(t) ==
  /\ pc[t] = "call"
  /\ Lock(t)
  /\ Goto(t, "loop")
  /\ UNCHANGED <<attempts, backoff_mult, requests, inbox, sent, acked>>

\* MoreAttempts gone wrong: kUnlimitedAttempts is not treated apart.
MoreAttemptsLimited(t) == attempts[t] > 0

MoreAttempts(t) == noLimit(t) \/ attempts[t] > 0

LoopTest(t) ==
  /\ pc[t] = "loop"
  /\ IF MoreAttempts(t)
       THEN Goto(t, "send") /\ UNCHANGED holders
       ELSE Goto(t, "returned") /\ Unlock(t)
  /\ UNCHANGED <<attempts, backoff_mult, requests, inbox, sent, acked>>

SendLock(t) ==
  /\ pc[t] = "send"
  /\ Lock(t)
  /\ Goto(t, "sendto")
  /\ UNCHANGED <<attempts, backoff_mult, requests, inbox, sent, acked>>

SendTo(t) ==
  /\ pc[t] = "sendto"
  /\ requests' = requests \cup {t}
  /\ sent' = [sent EXCEPT ![t] = IF @ < UIntLimit THEN @ + 1 ELSE @]
  /\ Unlock(t)
  /\ Goto(t, IF t \in Plain THEN "returned" ELSE "recvfrom")
  /\ UNCHANGED <<attempts, backoff_mult, inbox, acked>>

\* sendto fails: SendException.
SendError(t) ==
  /\ pc[t] = "sendto"
  /\ Throw(t)
  /\ UNCHANGED <<attempts, backoff_mult, requests, inbox, sent, acked>>

\* The step of the for loop; attempts wraps around when there is no limit.
Again(t) ==
  /\ attempts' = [attempts EXCEPT ![t] = (@ - 1) % UIntLimit]
  /\ Goto(t, "loop")
  /\ UNCHANGED holders

Receive(t) ==
  /\ pc[t] = "recvfrom" /\ inbox # << >>
  /\ inbox' = Tail(inbox)
  /\ IF Head(inbox) = t
       THEN /\ acked' = acked \cup {t}
            /\ Goto(t, "returned") /\ Unlock(t) /\ UNCHANGED attempts
       ELSE Again(t) /\ UNCHANGED acked
  /\ UNCHANGED <<backoff_mult, requests, sent>>

\* recvfrom fails with EAGAIN, EWOULDBLOCK or ECONNREFUSED.
Timeout(t) ==
  /\ pc[t] = "recvfrom" /\ inbox = << >>
  /\ Goto(t, "backoff")
  /\ UNCHANGED <<holders, attempts, backoff_mult, requests, inbox, sent, acked>>

\* DoubledBackoff gone wrong: the bound is passed by one doubling.
DoubledBackoffOnceMore(mult) ==
  IF mult <= kMaxBackoffMultiplier THEN 2 * mult ELSE mult

DoubledBackoff(mult) ==
  IF mult < kMaxBackoffMultiplier THEN 2 * mult ELSE mult

WaitBackoff(t) ==
  /\ pc[t] = "backoff"
  /\ backoff_mult' = [backoff_mult EXCEPT ![t] = DoubledBackoff(@)]
  /\ Again(t)
  /\ UNCHANGED <<requests, inbox, sent, acked>>

\* recvfrom fails otherwise: ReceiveException.
ReceiveError(t) ==
  /\ pc[t] = "recvfrom"
  /\ Throw(t)
  /\ UNCHANGED <<attempts, backoff_mult, requests, inbox, sent, acked>>

-----------------------------------------------------------------------------
(* The peer and the network. *)

Answer(t) ==
  /\ t \in requests /\ Len(inbox) < MaxInbox
  /\ requests' = requests \ {t}
  /\ inbox' = Append(inbox, t)
  /\ UNCHANGED <<holders, pc, attempts, backoff_mult, sent, acked>>

\* The request or the answer to it is lost.
Lose(t) ==
  /\ t \in requests
  /\ requests' = requests \ {t}
  /\ UNCHANGED <<holders, pc, attempts, backoff_mult, inbox, sent, acked>>

-----------------------------------------------------------------------------

Step(t) ==
  \/ Enter(t) \/ LoopTest(t) \/ SendLock(t) \/ SendTo(t)
  \/ Receive(t) \/ Timeout(t) \/ WaitBackoff(t)

Fail(t) == SendError(t) \/ ReceiveError(t)

Next == \E t \in Callers : Step(t) \/ Fail(t) \/ Answer(t) \/ Lose(t)

Spec == Init /\ [][Next]_vars

\* A thread is scheduled whenever it can go on, and a peer that a caller keeps
\* sending to answers now and again.  Nothing is assumed of the order in which
\* the mutex is handed over: every thread makes one call.
FairSpec ==
  /\ Spec
  /\ \A t \in Callers : WF_vars(Step(t)) /\ SF_vars(Answer(t))

-----------------------------------------------------------------------------
(* Properties. *)

\* Every variable has its type; in particular backoff_mult is a power of two
\* not above kMaxBackoffMultiplier after any number of timeouts.
TypeOK ==
  /\ holders \in [Callers -> 0 .. 2]
  /\ pc \in [Callers -> {"call", "loop", "send", "sendto", "recvfrom",
                         "backoff", "returned", "threw"}]
  /\ attempts \in [Callers -> 0 .. UIntLimit - 1]
  /\ backoff_mult \in [Callers -> {1, 2, 4, 8, 16, 32, 64}]
  /\ requests \subseteq Callers
  /\ inbox \in Seq(Callers)
  /\ sent \in [Callers -> 0 .. UIntLimit]
  /\ acked \subseteq Callers

\* The locks t holds, from where it is in Send and SendWithAck.
Depth(t) ==
  CASE pc[t] \in {"call", "returned", "threw"} -> 0
    [] pc[t] = "send" -> IF t \in Plain THEN 0 ELSE 1
    [] pc[t] = "sendto" -> IF t \in Plain THEN 1 ELSE 2
    [] OTHER -> 1

\* "Sending through a client is thread-safe": while a call is between its send
\* and the return of SendWithAck, no other thread sends on the socket or
\* receives from it; and a call that is over, by return or exception, has
\* given the mutex up as often as it took it.
ExchangesExclusive ==
  /\ \A t, u \in Callers : Depth(t) > 0 /\ Depth(u) > 0 => t = u
  /\ \A t \in Callers : holders[t] = Depth(t)

\* "Will send up to the number of attempts provided, unless attempts = 0, in
\* which case it will continue to send forever until an ack is seen": a
\* SendWithAck that returns was acknowledged, or was limited and has sent that
\* many times; none sends more often, although attempts wraps around.
AckedOrExhausted ==
  \A t \in Callers \ Plain :
    /\ ~noLimit(t) => sent[t] <= Attempts[t]
    /\ pc[t] = "returned" =>
         t \in acked \/ (~noLimit(t) /\ sent[t] = Attempts[t])

\* Every call ends.  No thread waits for the mutex that it holds itself
\* (SendWithAck calling Send), and none for an exchange that never ends,
\* provided that the peer does not ignore a caller for ever.
EveryCallEnds == \A t \in Callers : <>(pc[t] \in {"returned", "threw"})
=============================================================================
