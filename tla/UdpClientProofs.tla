-------------------------- MODULE UdpClientProofs --------------------------
(***************************************************************************)
(* The exchanges of a udp::Client are exclusive and SendWithAck keeps its  *)
(* promise about attempts, for any number of threads and any arguments.    *)
(*                                                                         *)
(* ExchangesExclusive is inductive on top of TypeOK.  AckedOrExhausted is  *)
(* not: Counted adds what the loop keeps between the parameter, counted    *)
(* down, and the requests sent.                                            *)
(***************************************************************************)
EXTENDS UdpClient, TLAPS

\* A limited call has sent what attempts has been counted down by, and one more
\* between sendto and the step of the loop, which is taken with attempts > 0.
Counted(t) ==
  /\ pc[t] \in {"call", "loop", "send", "sendto"} =>
       sent[t] + attempts[t] = Attempts[t]
  /\ pc[t] \in {"recvfrom", "backoff"} =>
       sent[t] + attempts[t] = Attempts[t] + 1
  /\ pc[t] \in {"send", "sendto", "recvfrom", "backoff"} => attempts[t] > 0
  /\ sent[t] <= Attempts[t]

\* What is true of each call by itself.
CallInv(t) ==
  /\ holders[t] = Depth(t)
  /\ t \in Plain => pc[t] \in {"send", "sendto", "returned", "threw"}
  /\ t \notin Plain =>
       /\ ~noLimit(t) => Counted(t)
       /\ pc[t] = "returned" =>
            t \in acked \/ (~noLimit(t) /\ sent[t] = Attempts[t])

ClientInv ==
  /\ TypeOK
  /\ \A t, u \in Callers : Depth(t) > 0 /\ Depth(u) > 0 => t = u
  /\ \A t \in Callers : CallInv(t)

\* What a step of thread t leaves alone, and when it may take the mutex.
OthersLeft(t) ==
  /\ \A u \in Callers \ {t} :
       /\ pc'[u] = pc[u] /\ holders'[u] = holders[u]
       /\ attempts'[u] = attempts[u] /\ sent'[u] = sent[u]
       /\ u \in acked' <=> u \in acked
  /\ Depth(t)' > 0 =>
       Depth(t) > 0 \/ \A u \in Callers \ {t} : holders[u] = 0

----------------------------------------------------------------------------

\* --attempts, on unsigned int.
LEMMA Decremented ==
  ASSUME NEW a \in 0 .. UIntLimit - 1
  PROVE  /\ (a - 1) % UIntLimit \in 0 .. UIntLimit - 1
         /\ a > 0 => (a - 1) % UIntLimit = a - 1
  BY CallsAssumption, SMT

\* The steps of the network and the peer.
LEMMA NetworkStep ==
  ASSUME ClientInv, NEW t \in Callers, Answer(t) \/ Lose(t)
  PROVE  ClientInv'
<1>1. TypeOK'
  <2>1. inbox' \in Seq(Callers)
    <3>1. inbox \in Seq(Callers)
      BY Zenon DEF ClientInv, TypeOK
    <3>2. CASE inbox' = Append(inbox, t)
      BY <3>1, <3>2, SMT
    <3>3. inbox' = Append(inbox, t) \/ inbox' = inbox
      BY Zenon DEF Answer, Lose
    <3> QED BY <3>1, <3>2, <3>3, Zenon
  <2>2. requests' \subseteq Callers
    BY Zenon DEF ClientInv, TypeOK, Answer, Lose
  <2>3. UNCHANGED <<holders, pc, attempts, backoff_mult, sent, acked>>
    BY Zenon DEF Answer, Lose
  <2> QED BY <2>1, <2>2, <2>3, Zenon DEF ClientInv, TypeOK
<1>2. UNCHANGED <<holders, pc, attempts, sent, acked>>
  BY Zenon DEF Answer, Lose
<1> QED BY <1>1, <1>2, SMT DEF ClientInv, CallInv, Counted, Depth, noLimit

\* A step of a thread that keeps what is true of its own call keeps the rest.
LEMMA LocalStep ==
  ASSUME ClientInv, NEW t \in Callers, TypeOK', CallInv(t)', OthersLeft(t)
  PROVE  ClientInv'
<1>1. \A u \in Callers \ {t} : CallInv(u)' /\ (Depth(u)' = Depth(u))
  BY SMT DEF ClientInv, CallInv, Counted, Depth, noLimit, OthersLeft
<1>2. ASSUME NEW u \in Callers, NEW v \in Callers, Depth(u)' > 0, Depth(v)' > 0
      PROVE  u = v
  <2>1. \A w \in Callers : Depth(w) \in Nat /\ holders[w] = Depth(w)
    BY SMT DEF ClientInv, CallInv, Depth
  <2>2. CASE u # t /\ v # t
    BY <2>2, <1>1, <1>2, SMT DEF ClientInv
  <2>3. CASE u = t /\ v # t
    BY <2>1, <2>3, <1>1, <1>2, SMT DEF ClientInv, OthersLeft
  <2>4. CASE u # t /\ v = t
    BY <2>1, <2>4, <1>1, <1>2, SMT DEF ClientInv, OthersLeft
  <2> QED BY <2>2, <2>3, <2>4
<1> QED BY <1>1, <1>2, Zenon DEF ClientInv

----------------------------------------------------------------------------
(* The steps of a thread. *)

\* SendWithAck takes the mutex that no other thread holds.
LEMMA EnterStep ==
  ASSUME ClientInv, NEW t \in Callers, Enter(t)
  PROVE  ClientInv'
<1>1. /\ pc[t] = "call" /\ pc'[t] = "loop"
      /\ holders'[t] = holders[t] + 1
      /\ \A u \in Callers \ {t} : holders[u] = 0
      /\ pc' = [pc EXCEPT ![t] = "loop"]
      /\ holders' = [holders EXCEPT ![t] = holders[t] + 1]
      /\ UNCHANGED <<attempts, backoff_mult, requests, inbox, sent, acked>>
  BY Zenon DEF Enter, Lock, Goto, ClientInv, TypeOK
<1>2. Depth(t) = 0 /\ Depth(t)' = 1
  BY <1>1, SMT DEF Depth
<1>3. holders[t] = 0
  BY <1>2, Zenon DEF ClientInv, CallInv
<1>4. CallInv(t)'
  BY <1>1, <1>2, <1>3, SMT DEF ClientInv, CallInv, Counted, noLimit
<1>5. TypeOK'
  BY <1>1, <1>3, SMT DEF ClientInv, TypeOK
<1>6. OthersLeft(t)
  BY <1>1, Zenon DEF ClientInv, TypeOK, OthersLeft
<1> QED BY <1>4, <1>5, <1>6, LocalStep, Zenon

\* A limited call leaves the loop when attempts is zero.
LEMMA LoopTestStep ==
  ASSUME ClientInv, NEW t \in Callers, LoopTest(t)
  PROVE  ClientInv'
<1>1. /\ pc[t] = "loop"
      /\ UNCHANGED <<attempts, backoff_mult, requests, inbox, sent, acked>>
  BY Zenon DEF LoopTest
<1>2. Depth(t) = 1 /\ holders[t] = 1 /\ t \notin Plain
  BY <1>1, SMT DEF Depth, ClientInv, CallInv
<1>3. CASE MoreAttempts(t)
  <2>1. /\ pc' = [pc EXCEPT ![t] = "send"] /\ pc'[t] = "send"
        /\ UNCHANGED holders
    BY <1>3, ZenonT(40) DEF LoopTest, Goto, ClientInv, TypeOK
  <2>2. Depth(t)' = 1
    BY <1>2, <2>1, SMT DEF Depth
  <2>3. CallInv(t)'
    BY <1>1, <1>2, <1>3, <2>1, <2>2, SMT
       DEF ClientInv, CallInv, Counted, MoreAttempts, noLimit
  <2>4. TypeOK'
    BY <1>1, <2>1, SMT DEF ClientInv, TypeOK
  <2>5. OthersLeft(t)
    BY <1>1, <1>2, <2>1, SMT DEF ClientInv, TypeOK, OthersLeft
  <2> QED BY <2>3, <2>4, <2>5, LocalStep, Zenon
<1>4. CASE ~MoreAttempts(t)
  <2>1. /\ pc' = [pc EXCEPT ![t] = "returned"] /\ pc'[t] = "returned"
        /\ holders' = [holders EXCEPT ![t] = 0] /\ holders'[t] = 0
    BY <1>2, <1>4, SMT DEF LoopTest, Goto, Unlock, ClientInv, TypeOK
  <2>2. Depth(t)' = 0
    BY <1>2, <2>1, SMT DEF Depth
  <2>3. CallInv(t)'
    BY <1>1, <1>2, <1>4, <2>1, <2>2, SMT
       DEF ClientInv, TypeOK, CallInv, Counted, MoreAttempts, noLimit
  <2>4. TypeOK'
    BY <1>1, <2>1, SMT DEF ClientInv, TypeOK
  <2>5. OthersLeft(t)
    BY <1>1, <2>1, <2>2, SMT DEF ClientInv, TypeOK, OthersLeft
  <2> QED BY <2>3, <2>4, <2>5, LocalStep, Zenon
<1> QED BY <1>3, <1>4

\* Send locks the mutex, for the second time within SendWithAck.
LEMMA SendLockStep ==
  ASSUME ClientInv, NEW t \in Callers, SendLock(t)
  PROVE  ClientInv'
<1>1. /\ pc[t] = "send" /\ pc'[t] = "sendto"
      /\ holders'[t] = holders[t] + 1
      /\ \A u \in Callers \ {t} : holders[u] = 0
      /\ pc' = [pc EXCEPT ![t] = "sendto"]
      /\ holders' = [holders EXCEPT ![t] = holders[t] + 1]
      /\ UNCHANGED <<attempts, backoff_mult, requests, inbox, sent, acked>>
  BY Zenon DEF SendLock, Lock, Goto, ClientInv, TypeOK
<1>2. Depth(t) \in 0 .. 1 /\ Depth(t)' = Depth(t) + 1
  BY <1>1, SMT DEF Depth
<1>3. holders[t] = Depth(t)
  BY Zenon DEF ClientInv, CallInv
<1>4. CallInv(t)'
  BY <1>1, <1>2, <1>3, SMT DEF ClientInv, CallInv, Counted, noLimit
<1>5. TypeOK'
  BY <1>1, <1>2, <1>3, SMT DEF ClientInv, TypeOK
<1>6. OthersLeft(t)
  BY <1>1, Zenon DEF ClientInv, TypeOK, OthersLeft
<1> QED BY <1>4, <1>5, <1>6, LocalStep, Zenon

\* A limited call has sent less than its limit before sendto.
LEMMA SendToStep ==
  ASSUME ClientInv, NEW t \in Callers, SendTo(t)
  PROVE  ClientInv'
<1>1. /\ pc[t] = "sendto"
      /\ requests' = requests \cup {t}
      /\ sent' = [sent EXCEPT ![t] = sent'[t]]
      /\ sent'[t] = IF sent[t] < UIntLimit THEN sent[t] + 1 ELSE sent[t]
      /\ holders' = [holders EXCEPT ![t] = holders'[t]]
      /\ holders'[t] = holders[t] - 1
      /\ pc' = [pc EXCEPT ![t] = pc'[t]]
      /\ pc'[t] = IF t \in Plain THEN "returned" ELSE "recvfrom"
      /\ UNCHANGED <<attempts, backoff_mult, inbox, acked>>
  BY ZenonT(40) DEF SendTo, Unlock, Goto, ClientInv, TypeOK
<1>2. Depth(t) \in 1 .. 2 /\ Depth(t)' = Depth(t) - 1
  BY <1>1, SMT DEF Depth
<1>3. holders[t] = Depth(t)
  BY Zenon DEF ClientInv, CallInv
<1>4. CallInv(t)'
  <2>1. CASE t \in Plain
    BY <2>1, <1>1, <1>2, <1>3, SMT DEF CallInv
  <2>2. CASE t \notin Plain
    <3>1. ~noLimit(t) => Counted(t)
      BY <2>2, Zenon DEF ClientInv, CallInv
    <3>2. sent[t] \in 0 .. UIntLimit /\ Attempts[t] \in 0 .. UIntLimit - 1
          /\ attempts[t] \in 0 .. UIntLimit - 1 /\ UIntLimit \in Nat
      BY CallsAssumption, SMT DEF ClientInv, TypeOK
    <3>3. ~noLimit(t) => Counted(t)'
      BY <2>2, <3>1, <3>2, <1>1, SMT DEF Counted
    <3> QED BY <2>2, <3>3, <1>1, <1>2, <1>3, SMT DEF CallInv, noLimit
  <2> QED BY <2>1, <2>2
<1>5. TypeOK'
  <2>1. sent'[t] \in 0 .. UIntLimit /\ holders'[t] \in 0 .. 2
    BY <1>1, <1>2, <1>3, CallsAssumption, SMT DEF ClientInv, TypeOK
  <2>2. sent' \in [Callers -> 0 .. UIntLimit] /\ holders' \in [Callers -> 0 .. 2]
    BY <2>1, <1>1, Zenon DEF ClientInv, TypeOK
  <2>3. requests' \subseteq Callers
    BY <1>1, Zenon DEF ClientInv, TypeOK
  <2>4. pc' \in [Callers -> {"call", "loop", "send", "sendto", "recvfrom",
                            "backoff", "returned", "threw"}]
    BY <1>1, ZenonT(40) DEF ClientInv, TypeOK
  <2> QED BY <2>2, <2>3, <2>4, <1>1, Zenon DEF ClientInv, TypeOK
<1>6. OthersLeft(t)
  BY <1>1, <1>2, SMT DEF ClientInv, TypeOK, OthersLeft
<1> QED BY <1>4, <1>5, <1>6, LocalStep, Zenon

\* The step of the loop, after an answer that validAck rejects or a timeout.
LEMMA AgainStep ==
  ASSUME ClientInv, NEW t \in Callers, pc[t] \in {"recvfrom", "backoff"}, Again(t),
         UNCHANGED <<sent, requests, acked>>, inbox' \in Seq(Callers),
         backoff_mult' \in [Callers -> {1, 2, 4, 8, 16, 32, 64}]
  PROVE  ClientInv'
<1> DEFINE a == (attempts[t] - 1) % UIntLimit
<1>1. /\ pc' = [pc EXCEPT ![t] = "loop"] /\ pc'[t] = "loop"
      /\ attempts' = [attempts EXCEPT ![t] = a] /\ attempts'[t] = a
      /\ UNCHANGED <<holders, sent, requests, acked>>
  <2>1. DOMAIN pc = Callers /\ DOMAIN attempts = Callers
    BY Zenon DEF ClientInv, TypeOK
  <2>2. attempts' = [attempts EXCEPT ![t] = a] /\ UNCHANGED holders
    BY Zenon DEF Again
  <2>3. pc' = [pc EXCEPT ![t] = "loop"]
    BY Zenon DEF Again, Goto
  <2> HIDE DEF a
  <2> QED BY <2>1, <2>2, <2>3, Zenon
<1>2. Depth(t) = 1 /\ Depth(t)' = 1 /\ holders[t] = 1 /\ t \notin Plain
  BY <1>1, SMT DEF Depth, ClientInv, CallInv
<1>3. /\ attempts[t] \in 0 .. UIntLimit - 1
      /\ attempts[t] \in Nat /\ sent[t] \in Nat /\ Attempts[t] \in Nat
  <2>1. UIntLimit \in Nat /\ Attempts[t] \in 0 .. UIntLimit - 1
    BY CallsAssumption, Zenon
  <2>2. attempts[t] \in 0 .. UIntLimit - 1 /\ sent[t] \in 0 .. UIntLimit
    BY Zenon DEF ClientInv, TypeOK
  <2>3. \A n : n \in 0 .. UIntLimit - 1 \/ n \in 0 .. UIntLimit => n \in Nat
    BY <2>1, SMT
  <2> QED BY <2>1, <2>2, <2>3, Zenon
<1>4. a \in 0 .. UIntLimit - 1 /\ (attempts[t] > 0 => a = attempts[t] - 1)
  BY <1>3, Decremented, Zenon
<1> HIDE DEF a
<1>5. CallInv(t)'
  <2>1. ~noLimit(t) => Counted(t)
    BY <1>2, Zenon DEF ClientInv, CallInv
  <2>2. ~noLimit(t) => Counted(t)'
    <3>1. sent'[t] = sent[t] /\ attempts'[t] = a /\ pc'[t] = "loop"
      BY <1>1, Zenon
    <3>2. ASSUME ~noLimit(t)
          PROVE  /\ sent[t] + attempts[t] = Attempts[t] + 1 /\ attempts[t] > 0
                 /\ sent[t] <= Attempts[t]
      BY <2>1, <3>2, Zenon DEF Counted
    <3>3. ASSUME ~noLimit(t) PROVE sent[t] + a = Attempts[t]
      <4>1. a = attempts[t] - 1
        BY <3>2, <3>3, <1>4, Zenon
      <4>2. sent[t] + attempts[t] = Attempts[t] + 1
        BY <3>2, <3>3, Zenon
      <4>3. sent[t] + (attempts[t] - 1) = Attempts[t]
        BY ONLY <4>2, <1>3, SMT
      <4> QED BY <4>1, <4>3, Zenon
    <3> QED BY <3>1, <3>2, <3>3, Zenon DEF Counted
  <2> QED BY <2>2, <1>1, <1>2, SMT DEF CallInv, noLimit
<1>6. TypeOK'
  <2>1. attempts' \in [Callers -> 0 .. UIntLimit - 1]
    BY <1>1, <1>4, Zenon DEF ClientInv, TypeOK
  <2>2. pc' \in [Callers -> {"call", "loop", "send", "sendto", "recvfrom",
                            "backoff", "returned", "threw"}]
    BY <1>1, Zenon DEF ClientInv, TypeOK
  <2> QED BY <2>1, <2>2, <1>1, Zenon DEF ClientInv, TypeOK
<1>7. OthersLeft(t)
  BY <1>1, <1>2, SMT DEF ClientInv, TypeOK, OthersLeft
<1> QED BY <1>5, <1>6, <1>7, LocalStep, Zenon

\* The answer that validAck accepts ends the call.
LEMMA ReceiveStep ==
  ASSUME ClientInv, NEW t \in Callers, Receive(t)
  PROVE  ClientInv'
<1>1. pc[t] = "recvfrom" /\ UNCHANGED <<backoff_mult, requests, sent>>
  BY Zenon DEF Receive
<1>2. inbox' \in Seq(Callers)
  <2>1. inbox \in Seq(Callers) /\ inbox # << >> /\ inbox' = Tail(inbox)
    BY Zenon DEF Receive, ClientInv, TypeOK
  <2> QED BY <2>1, SMT
<1>3. CASE Head(inbox) = t
  <2>1. /\ pc' = [pc EXCEPT ![t] = "returned"] /\ pc'[t] = "returned"
        /\ holders' = [holders EXCEPT ![t] = holders'[t]]
        /\ holders'[t] = holders[t] - 1
        /\ acked' = acked \cup {t}
        /\ UNCHANGED attempts
    BY <1>3, ZenonT(40) DEF Receive, Goto, Unlock, ClientInv, TypeOK
  <2>2. Depth(t) = 1 /\ Depth(t)' = 0 /\ holders[t] = 1 /\ t \notin Plain
    BY <1>1, <2>1, SMT DEF Depth, ClientInv, CallInv
  <2>3. CallInv(t)'
    <3>1. ~noLimit(t) => Counted(t)
      BY <2>2, Zenon DEF ClientInv, CallInv
    <3>2. ~noLimit(t) => Counted(t)'
      BY <3>1, <1>1, <2>1, SMT DEF Counted
    <3> QED BY <3>2, <1>1, <2>1, <2>2, SMT DEF CallInv, noLimit
  <2>4. TypeOK'
    <3>1. holders'[t] \in 0 .. 2
      BY <2>1, <2>2, SMT
    <3>2. holders' \in [Callers -> 0 .. 2] /\ acked' \subseteq Callers
      BY <3>1, <2>1, Zenon DEF ClientInv, TypeOK
    <3>3. pc' \in [Callers -> {"call", "loop", "send", "sendto", "recvfrom",
                              "backoff", "returned", "threw"}]
      BY <2>1, Zenon DEF ClientInv, TypeOK
    <3> QED BY <3>2, <3>3, <1>1, <1>2, <2>1, Zenon DEF ClientInv, TypeOK
  <2>5. OthersLeft(t)
    BY <1>1, <2>1, <2>2, SMT DEF ClientInv, TypeOK, OthersLeft
  <2> QED BY <2>3, <2>4, <2>5, LocalStep, Zenon
<1>4. CASE Head(inbox) # t
  <2>1. Again(t) /\ UNCHANGED acked
    BY <1>4, Zenon DEF Receive
  <2>2. backoff_mult' \in [Callers -> {1, 2, 4, 8, 16, 32, 64}]
    BY <1>1, Zenon DEF ClientInv, TypeOK
  <2> QED BY <1>1, <1>2, <2>1, <2>2, AgainStep, Zenon
<1> QED BY <1>3, <1>4

\* A timeout is followed by the backoff.
LEMMA TimeoutStep ==
  ASSUME ClientInv, NEW t \in Callers, Timeout(t)
  PROVE  ClientInv'
<1>1. /\ pc[t] = "recvfrom"
      /\ pc' = [pc EXCEPT ![t] = "backoff"] /\ pc'[t] = "backoff"
      /\ UNCHANGED <<holders, attempts, backoff_mult, requests, inbox, sent, acked>>
  BY Zenon DEF Timeout, Goto, ClientInv, TypeOK
<1>2. Depth(t) = 1 /\ Depth(t)' = 1
  BY <1>1, SMT DEF Depth
<1>3. CallInv(t)'
  BY <1>1, <1>2, SMT DEF ClientInv, CallInv, Counted, noLimit
<1>4. TypeOK'
  BY <1>1, SMT DEF ClientInv, TypeOK
<1>5. OthersLeft(t)
  BY <1>1, <1>2, SMT DEF ClientInv, TypeOK, OthersLeft
<1> QED BY <1>3, <1>4, <1>5, LocalStep, Zenon

\* The backoff is doubled up to its bound.
LEMMA BackoffStep ==
  ASSUME ClientInv, NEW t \in Callers, WaitBackoff(t)
  PROVE  ClientInv'
<1>1. /\ pc[t] = "backoff" /\ Again(t) /\ UNCHANGED <<requests, inbox, sent, acked>>
      /\ backoff_mult' = [backoff_mult EXCEPT ![t] = DoubledBackoff(backoff_mult[t])]
  BY Zenon DEF WaitBackoff
<1>2. DoubledBackoff(backoff_mult[t]) \in {1, 2, 4, 8, 16, 32, 64}
  BY SMT DEF ClientInv, TypeOK, DoubledBackoff, kMaxBackoffMultiplier
<1>3. /\ backoff_mult' \in [Callers -> {1, 2, 4, 8, 16, 32, 64}]
      /\ inbox' \in Seq(Callers)
  BY <1>1, <1>2, Zenon DEF ClientInv, TypeOK
<1> QED BY <1>1, <1>3, AgainStep, Zenon

\* An exception releases every lock of the call.
LEMMA FailStep ==
  ASSUME ClientInv, NEW t \in Callers, Fail(t)
  PROVE  ClientInv'
<1>1. /\ pc' = [pc EXCEPT ![t] = "threw"] /\ pc'[t] = "threw"
      /\ holders' = [holders EXCEPT ![t] = 0] /\ holders'[t] = 0
      /\ UNCHANGED <<attempts, backoff_mult, requests, inbox, sent, acked>>
  <2>1. Throw(t) /\ UNCHANGED <<attempts, backoff_mult, requests, inbox, sent, acked>>
    BY Zenon DEF Fail, SendError, ReceiveError
  <2>2. DOMAIN pc = Callers /\ DOMAIN holders = Callers
    BY Zenon DEF ClientInv, TypeOK
  <2> QED BY <2>1, <2>2, Zenon DEF Throw
<1>2. Depth(t)' = 0
  BY <1>1, SMT DEF Depth
<1>3. CallInv(t)'
  BY <1>1, <1>2, SMT DEF ClientInv, CallInv, Counted, noLimit
<1>4. TypeOK'
  BY <1>1, SMT DEF ClientInv, TypeOK
<1>5. OthersLeft(t)
  BY <1>1, <1>2, SMT DEF ClientInv, TypeOK, OthersLeft
<1> QED BY <1>3, <1>4, <1>5, LocalStep, Zenon

----------------------------------------------------------------------------
(* The invariant and its consequences. *)

\* No call has begun.
LEMMA ClientInvInit == Init => ClientInv
<1> SUFFICES ASSUME Init PROVE ClientInv
  OBVIOUS
<1>1. TypeOK
  BY CallsAssumption, SMT DEF Init, TypeOK
<1>2. \A t \in Callers : Depth(t) = 0
  <2> SUFFICES ASSUME NEW t \in Callers PROVE Depth(t) = 0
    OBVIOUS
  <2>1. pc[t] = IF t \in Plain THEN "send" ELSE "call"
    BY Zenon DEF Init
  <2> QED BY <2>1, SMT DEF Depth
<1>3. ASSUME NEW t \in Callers PROVE CallInv(t)
  <2>1. /\ pc[t] = IF t \in Plain THEN "send" ELSE "call"
        /\ holders[t] = 0 /\ sent[t] = 0 /\ attempts[t] = Attempts[t]
    BY Zenon DEF Init
  <2>2. Attempts[t] \in Nat
    BY CallsAssumption, SMT
  <2> QED BY <2>1, <2>2, <1>2, SMT DEF CallInv, Counted
<1> QED BY <1>1, <1>2, <1>3, SMT DEF ClientInv

\* Every step preserves the invariant.
LEMMA ClientInvNext ==
  ASSUME ClientInv, [Next]_vars
  PROVE  ClientInv'
<1>1. CASE UNCHANGED vars
  BY <1>1, SMT DEF vars, ClientInv, TypeOK, CallInv, Counted, Depth, noLimit
<1>2. ASSUME NEW t \in Callers, Step(t) \/ Fail(t) \/ Answer(t) \/ Lose(t)
      PROVE  ClientInv'
  BY <1>2, EnterStep, LoopTestStep, SendLockStep, SendToStep, ReceiveStep,
     TimeoutStep, BackoffStep, FailStep, NetworkStep, Zenon DEF Step
<1> QED BY <1>1, <1>2, Zenon DEF Next

\* ClientInv holds in every run: nothing is assumed of the peer, the network or
\* the order in which the threads take the mutex.
THEOREM ClientInvariant == Spec => []ClientInv
<1>1. Init => ClientInv
  BY ClientInvInit
<1>2. ClientInv /\ [Next]_vars => ClientInv'
  BY ClientInvNext
<1> QED BY <1>1, <1>2, PTL DEF Spec

\* One exchange at a time: from its first send to its return a SendWithAck has
\* the socket to itself, although it locks and unlocks the mutex again for each
\* Send, and an exception leaves nothing locked.
THEOREM ExclusiveExchanges == Spec => []ExchangesExclusive
<1>1. ClientInv => ExchangesExclusive
  BY Zenon DEF ClientInv, CallInv, ExchangesExclusive
<1> QED BY <1>1, ClientInvariant, PTL

\* A SendWithAck returns only acknowledged or, when limited, after exactly as
\* many requests as it was asked for, for every width of unsigned int.
THEOREM AttemptsHonoured == Spec => []AckedOrExhausted
<1>1. ClientInv => AckedOrExhausted
  BY Zenon DEF ClientInv, CallInv, Counted, AckedOrExhausted
<1> QED BY <1>1, ClientInvariant, PTL

\* The variables of the calls and of the network have their types: the parameter
\* attempts never leaves unsigned int and the back-off multiplier never passes
\* 64, however long a peer stays silent.
THEOREM ClientTypes == Spec => []TypeOK
<1>1. ClientInv => TypeOK
  BY Zenon DEF ClientInv
<1> QED BY <1>1, ClientInvariant, PTL
=============================================================================
