-------------------------- MODULE LifecycleProofs --------------------------
(***************************************************************************)
(* What the destructors of Process rely on, for any number of processes    *)
(* and threads and any set of failing calls.                               *)
(*                                                                         *)
(* The invariant says for each place of the main thread what has been      *)
(* opened and which threads may run there.                                 *)
(***************************************************************************)
EXTENDS ProcessLifecycle, FiniteSetTheorems, TLAPS

USE Zenon

\* Every socket is open from the end of the constructor to the end of JoinAll.
Opened ==
  main \in {"launch", "listen", "handle", "join"} => clients = Procs /\ server

\* No thread runs before the constructor is over or after JoinAll; those that
\* JoinAll has passed do not run.
Joined ==
  /\ main \in {"clients", "destroy", "exited"} =>
       \A t \in Threads : thread[t] # "running"
  /\ main = "join" =>
       \A t \in Threads : t < next => thread[t] # "running"

\* The bounds of the loops.
Loops ==
  /\ next \in Nat
  /\ main = "clients" => next <= N
  /\ main \in {"launch", "join"} => next <= SendCount

LifeInv ==
  /\ main \in {"clients", "launch", "listen", "handle", "join", "destroy",
               "exited", "terminated"}
  /\ thread \in [Threads -> {"none", "running", "done"}]
  /\ clients \subseteq Procs
  /\ Opened /\ Joined /\ Loops
  /\ main = "clients" => clients = 0 .. next - 1
  /\ TerminatedBySender
  /\ half => main \notin {"clients", "launch", "listen", "handle"}

----------------------------------------------------------------------------

\* A client is opened.
LEMMA OpenClientStep ==
  ASSUME LifeInv, OpenClient
  PROVE  LifeInv'
<1>1. /\ main = "clients" /\ next < N /\ next \in Nat
      /\ clients = 0 .. next - 1 /\ clients' = clients \cup {next}
      /\ next' = next + 1 /\ UNCHANGED <<main, server, half, thread, left, thrown>>
  BY DEF OpenClient, LifeInv, Loops, threadVars
<1>2. /\ clients' = 0 .. next' - 1 /\ clients' \subseteq Procs
      /\ next' \in Nat /\ next' <= N
  BY <1>1, LifecycleAssumption, SMT DEF Procs
<1>3. Loops'
  BY <1>1, <1>2 DEF Loops
<1>4. Opened' /\ Joined' /\ TerminatedBySender'
  BY <1>1 DEF LifeInv, Opened, Joined, TerminatedBySender
<1> QED BY <1>1, <1>2, <1>3, <1>4 DEF LifeInv

\* All clients are open when the server is opened.
LEMMA OpenServerStep ==
  ASSUME LifeInv, OpenServer
  PROVE  LifeInv'
<1>1. /\ main = "clients" /\ next = N /\ clients = 0 .. next - 1
      /\ server' = TRUE /\ main' = "launch" /\ next' = 0
      /\ UNCHANGED <<clients, half, thread, left, thrown>>
  BY DEF OpenServer, LifeInv, threadVars
<1>2. clients' = Procs /\ next' \in Nat /\ next' <= SendCount
  BY <1>1, LifecycleAssumption, SMT DEF Procs
<1>3. Loops' /\ Opened' /\ Joined' /\ TerminatedBySender'
  BY <1>1, <1>2 DEF Loops, Opened, Joined, TerminatedBySender
<1> QED BY <1>1, <1>2, <1>3 DEF LifeInv

\* A constructor throws: no thread has been launched.
LEMMA AbandonStep ==
  ASSUME LifeInv, OpenClientFails \/ OpenServerFails
  PROVE  LifeInv'
<1>1. /\ main = "clients" /\ main' = "destroy"
      /\ UNCHANGED <<next, clients, server, half, thread, left, thrown>>
  BY DEF OpenClientFails, OpenServerFails, Abandon, threadVars
<1>2. Loops' /\ Opened' /\ Joined' /\ TerminatedBySender'
  BY <1>1 DEF LifeInv, Loops, Opened, Joined, TerminatedBySender
<1> QED BY <1>1, <1>2 DEF LifeInv

\* A thread is launched.
LEMMA LaunchStep ==
  ASSUME LifeInv, LaunchMulticastSender
  PROVE  LifeInv'
<1>1. /\ main = "launch" /\ next < SendCount /\ next \in Nat
      /\ thread' = [thread EXCEPT ![next] = "running"] /\ next' = next + 1
      /\ UNCHANGED <<main, clients, server, left, thrown, half>>
  BY DEF LaunchMulticastSender, LifeInv, Loops
<1>2. next' \in Nat /\ next' <= SendCount
  BY <1>1, LifecycleAssumption, SMT
<1>3. thread' \in [Threads -> {"none", "running", "done"}]
  BY <1>1 DEF LifeInv
<1>4. Loops' /\ Opened' /\ Joined' /\ TerminatedBySender'
  BY <1>1, <1>2 DEF LifeInv, Loops, Opened, Joined, TerminatedBySender
<1> QED BY <1>1, <1>3, <1>4 DEF LifeInv

\* The server listens, serves and listens again.
LEMMA ServeStep ==
  ASSUME LifeInv, Listen \/ Receive \/ Handle
  PROVE  LifeInv'
<1>1. /\ main \in {"launch", "listen", "handle"} /\ main' \in {"listen", "handle"}
      /\ UNCHANGED <<next, clients, server, half, thread, left, thrown>>
  BY DEF Listen, Receive, Handle, threadVars
<1>2. Loops' /\ Opened' /\ Joined' /\ TerminatedBySender'
  BY <1>1 DEF LifeInv, Loops, Opened, Joined, TerminatedBySender
<1>3. ~half
  BY <1>1 DEF LifeInv
<1> QED BY <1>1, <1>2, <1>3 DEF LifeInv

\* An exception of the main thread begins the destruction with JoinAll.
LEMMA UnwindStep ==
  ASSUME LifeInv,
         LaunchFails \/ ReceiveFails \/ ReplyClientFails \/ HandleFails
  PROVE  LifeInv'
<1>1. /\ main \in {"launch", "listen", "handle"} /\ main' = "join" /\ next' = 0
      /\ UNCHANGED <<clients, server, thread, left, thrown>>
  BY DEF LaunchFails, ReceiveFails, ReplyClientFails, HandleFails, Unwind,
         threadVars
<1>2. /\ next' \in Nat /\ next' <= SendCount
      /\ \A t \in Threads : ~(t < next')
  BY <1>1, LifecycleAssumption, SMT DEF Threads
<1>3. Loops' /\ Opened' /\ Joined' /\ TerminatedBySender'
  BY <1>1, <1>2 DEF LifeInv, Loops, Opened, Joined, TerminatedBySender
<1> QED BY <1>1, <1>3 DEF LifeInv

\* JoinAll passes a thread that does not run.
LEMMA JoinStep ==
  ASSUME LifeInv, Join
  PROVE  LifeInv'
<1>1. /\ main = "join" /\ next < SendCount /\ next \in Nat
      /\ thread[next] # "running" /\ next' = next + 1
      /\ UNCHANGED <<main, clients, server, half, thread, left, thrown>>
  BY DEF Join, LifeInv, Loops, threadVars
<1>2. /\ next' \in Nat /\ next' <= SendCount
      /\ \A t \in Threads : t < next' => t < next \/ t = next
  BY <1>1, LifecycleAssumption, SMT DEF Threads
<1>3. Joined'
  BY <1>1, <1>2 DEF LifeInv, Joined
<1>4. Loops' /\ Opened' /\ TerminatedBySender'
  BY <1>1, <1>2 DEF LifeInv, Loops, Opened, TerminatedBySender
<1> QED BY <1>1, <1>3, <1>4 DEF LifeInv

\* After JoinAll no thread runs, so clear() terminates nothing.
LEMMA ClearStep ==
  ASSUME LifeInv, ClearThreads
  PROVE  LifeInv'
<1>1. /\ main = "join" /\ next = SendCount
      /\ UNCHANGED <<next, clients, server, half, thread, left, thrown>>
  BY DEF ClearThreads, threadVars
<1>2. \A t \in Threads : t < next
  BY <1>1, LifecycleAssumption, SMT DEF Threads
<1>3. \A t \in Threads : thread[t] # "running"
  BY <1>1, <1>2 DEF LifeInv, Joined
<1>4. main' = "destroy"
  BY <1>3 DEF ClearThreads
<1>5. Loops' /\ Opened' /\ Joined' /\ TerminatedBySender'
  BY <1>1, <1>3, <1>4 DEF LifeInv, Loops, Opened, Joined, TerminatedBySender
<1> QED BY <1>1, <1>4, <1>5 DEF LifeInv

\* The sockets are closed and main returns.
LEMMA CloseStep ==
  ASSUME LifeInv, CloseServer \/ CloseClient \/ Exit
  PROVE  LifeInv'
<1>1. /\ main = "destroy" /\ main' \in {"destroy", "exited"}
      /\ clients' \subseteq clients
      /\ UNCHANGED <<next, half, thread, left, thrown>>
  BY DEF CloseServer, CloseClient, Exit, threadVars
<1>2. Loops' /\ Opened' /\ Joined' /\ TerminatedBySender'
  BY <1>1 DEF LifeInv, Loops, Opened, Joined, TerminatedBySender
<1> QED BY <1>1, <1>2 DEF LifeInv

\* The steps of a sender thread.
LEMMA SenderStep ==
  ASSUME LifeInv, NEW t \in Threads, Exchange(t) \/ Finish(t) \/ Fail(t)
  PROVE  LifeInv'
<1>1. CASE Exchange(t)
  <2>1. UNCHANGED <<main, next, clients, server, thread, thrown, half>>
    BY <1>1 DEF Exchange
  <2> QED BY <2>1
          DEF LifeInv, Loops, Opened, Joined, TerminatedBySender
<1>2. CASE Finish(t)
  <2>1. /\ thread' = [thread EXCEPT ![t] = "done"]
        /\ UNCHANGED <<main, next, clients, server, thrown, half>>
    BY <1>2 DEF Finish
  <2>2. /\ thread' \in [Threads -> {"none", "running", "done"}]
        /\ \A u \in Threads : thread'[u] = "running" => thread[u] = "running"
    BY <2>1 DEF LifeInv
  <2>3. Loops' /\ Opened' /\ Joined' /\ TerminatedBySender'
    BY <2>1, <2>2 DEF LifeInv, Loops, Opened, Joined, TerminatedBySender
  <2> QED BY <2>1, <2>2, <2>3 DEF LifeInv
<1>3. CASE Fail(t)
  <2>1. /\ thrown' = TRUE /\ main' = "terminated"
        /\ UNCHANGED <<next, clients, server, thread, half>>
    BY <1>3 DEF Fail
  <2>2. Loops' /\ Opened' /\ Joined' /\ TerminatedBySender'
    BY <2>1 DEF LifeInv, Loops, Opened, Joined, TerminatedBySender
  <2> QED BY <2>1, <2>2 DEF LifeInv
<1> QED BY <1>1, <1>2, <1>3

----------------------------------------------------------------------------
(* The invariant and its consequences. *)

\* Nothing is open and no thread exists at first.
LEMMA LifeInvInit == Init => LifeInv
<1> SUFFICES ASSUME Init PROVE LifeInv
  OBVIOUS
<1>1. /\ main = "clients" /\ next = 0 /\ clients = {} /\ server = FALSE
      /\ thread = [t \in Threads |-> "none"] /\ thrown = FALSE /\ half = FALSE
  BY DEF Init
<1>2. next \in Nat /\ next <= N /\ clients = 0 .. next - 1
  BY <1>1, LifecycleAssumption, SMT
<1>3. Loops /\ Opened /\ Joined /\ TerminatedBySender
  BY <1>1, <1>2 DEF Loops, Opened, Joined, TerminatedBySender
<1> QED BY <1>1, <1>2, <1>3 DEF LifeInv

\* Every step preserves the invariant.
LEMMA LifeInvNext ==
  ASSUME LifeInv, [Next]_vars
  PROVE  LifeInv'
<1>1. CASE UNCHANGED vars
  BY <1>1 DEF vars, LifeInv, Loops, Opened, Joined, TerminatedBySender
<1>2. CASE Construct \/ Serve
  BY <1>2, OpenClientStep, OpenServerStep, LaunchStep, ServeStep
     DEF Construct, Serve
<1>3. CASE Destroy
  BY <1>3, JoinStep, ClearStep, CloseStep DEF Destroy
<1>4. CASE MainFails
  BY <1>4, AbandonStep, UnwindStep DEF MainFails
<1>5. CASE \E t \in Threads : Exchange(t) \/ Finish(t) \/ Fail(t)
  BY <1>5, SenderStep
<1> QED BY <1>1, <1>2, <1>3, <1>4, <1>5 DEF Next

\* LifeInv holds in every run, whichever calls fail.
THEOREM LifeInvariant == Spec => []LifeInv
<1>1. Init => LifeInv
  BY LifeInvInit
<1>2. LifeInv /\ [Next]_vars => LifeInv'
  BY LifeInvNext
<1> QED BY <1>1, <1>2, PTL DEF Spec

\* No destructor closes a socket that a running sender thread may use.
THEOREM ThreadsHaveSockets == Spec => []SocketsOutliveThreads
<1>1. LifeInv => SocketsOutliveThreads
  BY DEF LifeInv, Opened, Joined, SocketsOutliveThreads, Alive
<1> QED BY <1>1, LifeInvariant, PTL

\* No std::thread is destroyed while it runs, whatever part of the threads had
\* been launched when the exception came.
THEOREM JoinedBeforeDestroyed == Spec => []TerminatedBySender
<1>1. LifeInv => TerminatedBySender
  BY DEF LifeInv
<1> QED BY <1>1, LifeInvariant, PTL

\* After HandleSeqMsg was left half way the process serves nothing.
THEOREM HalfHandledSound == Spec => []HalfHandledNeverServes
<1>1. LifeInv => HalfHandledNeverServes
  BY DEF LifeInv, HalfHandledNeverServes, ServerUp
<1> QED BY <1>1, LifeInvariant, PTL

----------------------------------------------------------------------------
(* Waiting for ever in JoinAll. *)

\* The types of the counters of the threads.
LeftType == left \in [Threads -> 0 .. 2 * N]

\* The exchanges of a thread are counted down to zero.
THEOREM LeftTyped == Spec => []LeftType
<1>1. Init => LeftType
  <2> SUFFICES ASSUME Init PROVE LeftType
    OBVIOUS
  <2>1. 2 * N \in 0 .. 2 * N
    BY LifecycleAssumption, SMT
  <2> QED BY <2>1 DEF Init, LeftType
<1>2. ASSUME LeftType, [Next]_vars PROVE LeftType'
  <2>1. CASE \E t \in Threads : Exchange(t)
    <3>1. PICK t \in Threads :
            left[t] > 0 /\ left' = [left EXCEPT ![t] = left[t] - 1]
      BY <2>1 DEF Exchange
    <3>2. left[t] \in 0 .. 2 * N
      BY <1>2 DEF LeftType
    <3>3. left[t] - 1 \in 0 .. 2 * N
      BY <3>1, <3>2, LifecycleAssumption, SMT
    <3> QED BY <3>1, <3>3, <1>2 DEF LeftType
  <2>2. CASE ~(\E t \in Threads : Exchange(t))
    <3>1. UNCHANGED left
      BY <2>2, <1>2 DEF Next, vars, threadVars, Construct, Serve, Destroy,
         MainFails, OpenClient, OpenServer, LaunchMulticastSender, Listen, Receive,
         Handle, Join, ClearThreads, CloseServer, CloseClient, Exit,
         OpenClientFails, OpenServerFails, Abandon, LaunchFails, ReceiveFails,
         ReplyClientFails, HandleFails, Finish, Fail
    <3> QED BY <3>1, <1>2 DEF LeftType
  <2> QED BY <2>1, <2>2
<1> QED BY <1>1, <1>2, PTL DEF Spec

\* The last exchange of a thread with its own process.
LEMMA OwnExchange ==
  ASSUME NEW t \in Threads, left[t] = N - Id
  PROVE  Dest(t) = Id
<1>1. (N + Id) % N = Id
  BY LifecycleAssumption, SMT
<1>2. 2 * N - left[t] = N + Id
  BY LifecycleAssumption, SMT
<1> QED BY <1>1, <1>2 DEF Dest

\* A thread that still needs the server of its process makes no more than the
\* exchanges before the next one with it, and JoinAll does not get past it.
LEMMA StuckStep ==
  ASSUME LifeInv, LeftType, [Next]_vars, Stuck
  PROVE  Stuck' \/ thrown'
<1>1. PICK t \in Threads : thread[t] = "running" /\ left[t] >= N - Id
  BY DEF Stuck
<1>2. main = "join" /\ left[t] \in 0 .. 2 * N
  BY DEF Stuck, LeftType
<1>3. ASSUME main' = "join", thread'[t] = "running", left'[t] = left[t]
      PROVE  Stuck'
  BY <1>1, <1>3 DEF Stuck
<1>4. CASE UNCHANGED vars
  BY <1>1, <1>2, <1>3, <1>4 DEF vars
<1>5. CASE Construct \/ Serve \/ MainFails
  BY <1>2, <1>5
     DEF Construct, Serve, MainFails, OpenClient, OpenServer,
         LaunchMulticastSender, Listen, Receive, Handle, OpenClientFails,
         OpenServerFails, LaunchFails, ReceiveFails, ReplyClientFails, HandleFails
<1>6. CASE Destroy
  <2>1. CASE Join
    BY <2>1, <1>1, <1>2, <1>3 DEF Join, threadVars
  <2>2. CASE ClearThreads
    <3>1. next = SendCount
      BY <2>2 DEF ClearThreads
    <3>2. t < next
      BY <3>1, LifecycleAssumption, SMT DEF Threads
    <3> QED BY <3>2, <1>1, <1>2 DEF LifeInv, Joined
  <2> QED BY <2>1, <2>2, <1>2, <1>6 DEF Destroy, CloseServer, CloseClient, Exit
<1>7. ASSUME NEW u \in Threads, Exchange(u) PROVE Stuck'
  <2>1. /\ UNCHANGED <<main, thread>> /\ left' = [left EXCEPT ![u] = left[u] - 1]
        /\ Dest(u) = Id => ServerUp
    BY <1>7 DEF Exchange
  <2>2. CASE u # t
    BY <2>1, <2>2, <1>1, <1>2, <1>3 DEF LeftType
  <2>3. CASE u = t
    <3>1. Dest(t) # Id
      BY <2>1, <2>3, <1>2 DEF ServerUp
    <3>2. left[t] # N - Id
      BY <3>1, OwnExchange
    <3>3. left[t] - 1 >= N - Id
      BY <3>2, <1>1, <1>2, LifecycleAssumption, SMT
    <3>4. left'[t] >= N - Id
      BY <2>1, <2>3, <3>3 DEF LeftType
    <3> QED BY <2>1, <3>4, <1>1, <1>2 DEF Stuck
  <2> QED BY <2>2, <2>3
<1>8. ASSUME NEW u \in Threads, Finish(u) PROVE Stuck'
  <2>1. u # t
    <3>1. left[t] # 0
      BY <1>1, <1>2, LifecycleAssumption, SMT
    <3> QED BY <3>1, <1>8 DEF Finish
  <2> QED BY <2>1, <1>1, <1>2, <1>3, <1>8 DEF Finish, LifeInv
<1>9. ASSUME NEW u \in Threads, Fail(u) PROVE thrown'
  BY <1>9 DEF Fail
<1> QED BY <1>4, <1>5, <1>6, <1>7, <1>8, <1>9 DEF Next

\* Once a sender needs a server that has thrown, the process never ends by
\* itself: for any number of processes, messages and ids.
THEOREM StuckSendersStay == Spec => StuckForGood
<1>1. LifeInv /\ LeftType /\ [Next]_vars => [Stuck => Stuck' \/ thrown']_vars
  BY StuckStep
<1> QED BY <1>1, LifeInvariant, LeftTyped, PTL DEF Spec, StuckForGood

----------------------------------------------------------------------------
(* The sockets. *)

Held == Cardinality(clients) + IF server THEN 1 ELSE 0

\* Beside the sockets of clients_ and server_ there is one of a reply, or one
\* that the failed constructor of a Client or Server left open.
SocketInv ==
  /\ main = "clients" => ~server
  /\ open \in {Held, Held + 1}
  /\ main \in {"clients", "launch", "listen"} => open = Held
  /\ main = "handle" => open = Held + 1

\* clients_ has at most N entries.
LEMMA ClientsFinite ==
  ASSUME clients \subseteq Procs
  PROVE  /\ IsFiniteSet(clients) /\ Cardinality(clients) \in Nat
         /\ Cardinality(clients) <= N /\ Held \in Nat /\ Held <= N + 1
<1>1. IsFiniteSet(Procs) /\ Cardinality(Procs) = N
  <2>1. 0 \in Int /\ N - 1 \in Int
    BY LifecycleAssumption, SMT
  <2>2. /\ IsFiniteSet(0 .. N - 1)
        /\ Cardinality(0 .. N - 1) = IF 0 > N - 1 THEN 0 ELSE N - 1 - 0 + 1
    BY <2>1, FS_Interval
  <2> QED BY <2>2, LifecycleAssumption, SMT DEF Procs
<1>2. IsFiniteSet(clients) /\ Cardinality(clients) <= N
  BY <1>1, FS_Subset
<1>3. Cardinality(clients) \in Nat
  BY <1>2, FS_CardinalityType
<1> QED BY <1>2, <1>3, LifecycleAssumption, SMT DEF Held

\* Nothing is open at first.
LEMMA SocketInvInit == Init => SocketInv
<1> SUFFICES ASSUME Init PROVE SocketInv
  OBVIOUS
<1>1. main = "clients" /\ clients = {} /\ server = FALSE /\ open = 0
  BY DEF Init
<1>2. Cardinality({}) = 0
  BY FS_EmptySet
<1>3. Held = 0
  BY <1>1, <1>2, SMT DEF Held
<1> QED BY <1>1, <1>3 DEF SocketInv

\* Every step opens or closes the socket it accounts for.
LEMMA SocketInvNext ==
  ASSUME LifeInv, SocketInv, [Next]_vars
  PROVE  SocketInv'
<1>0. /\ IsFiniteSet(clients) /\ Cardinality(clients) \in Nat /\ Held \in Nat
      /\ open \in Nat
  <2>1. /\ IsFiniteSet(clients) /\ Cardinality(clients) \in Nat /\ Held \in Nat
    BY ClientsFinite DEF LifeInv
  <2> QED BY <2>1, SMT DEF SocketInv
<1>1. ASSUME UNCHANGED <<clients, server>> PROVE Held' = Held
  BY <1>1 DEF Held
<1>2. CASE UNCHANGED vars
  BY <1>1, <1>2 DEF vars, SocketInv
<1>3. CASE OpenClient
  <2>1. /\ main = "clients" /\ clients' = clients \cup {next}
        /\ open' = open + 1 /\ UNCHANGED <<main, server>> /\ open = Held
    BY <1>3 DEF OpenClient, SocketInv
  <2>2. next \notin clients
    <3>1. clients = 0 .. next - 1 /\ next \in Nat
      BY <2>1 DEF LifeInv, Loops
    <3> QED BY <3>1, SMT
  <2>3. Cardinality(clients') = Cardinality(clients) + 1
    BY <2>1, <2>2, <1>0, FS_AddElement
  <2>4. open' = Held'
    BY <2>1, <2>3, <1>0, SMT DEF Held
  <2> QED BY <2>1, <2>4 DEF SocketInv
<1>4. CASE OpenServer
  <2>1. /\ main = "clients" /\ ~server /\ server' /\ open' = open + 1
        /\ main' = "launch" /\ UNCHANGED clients /\ open = Held
    BY <1>4 DEF OpenServer, SocketInv
  <2>2. open' = Held'
    BY <2>1, <1>0, SMT DEF Held
  <2> QED BY <2>1, <2>2 DEF SocketInv
<1>5. CASE OpenClientFails \/ OpenServerFails
  <2>1. /\ main = "clients" /\ main' = "destroy" /\ UNCHANGED <<clients, server>>
        /\ open = Held
        /\ \E failing : \E leaked \in IF failing = "CreateSocket" THEN {0, 1} ELSE {1} :
             open' = open + leaked
    BY <1>5 DEF OpenClientFails, OpenServerFails, Abandon, SocketInv
  <2>2. open' = open \/ open' = open + 1
    BY <2>1, <1>0, SMT
  <2> QED BY <2>1, <2>2, <1>1 DEF SocketInv
<1>6. CASE LaunchMulticastSender \/ Listen
  <2>1. /\ main = "launch" /\ main' \in {"launch", "listen"}
        /\ UNCHANGED <<clients, server, open>>
    BY <1>6 DEF LaunchMulticastSender, Listen
  <2> QED BY <2>1, <1>1 DEF SocketInv
<1>7. CASE Receive
  <2>1. /\ main = "listen" /\ main' = "handle" /\ open' = open + 1
        /\ UNCHANGED <<clients, server>>
    BY <1>7 DEF Receive
  <2> QED BY <2>1, <1>1 DEF SocketInv
<1>8. CASE Handle \/ HandleFails
  <2>1. /\ main = "handle" /\ main' \in {"listen", "join"} /\ open' = open - 1
        /\ UNCHANGED <<clients, server>> /\ open = Held + 1
    BY <1>8 DEF Handle, HandleFails, CloseReply, Unwind, SocketInv
  <2>2. open' = Held
    BY <2>1, <1>0, SMT
  <2> QED BY <2>1, <2>2, <1>1 DEF SocketInv
<1>9. CASE LaunchFails \/ ReceiveFails \/ ReplyClientFails
  <2>1. /\ main \in {"launch", "listen"} /\ main' = "join"
        /\ UNCHANGED <<clients, server>>
        /\ open' = open \/ \E leaked \in {0, 1} : open' = open + leaked
    BY <1>9 DEF LaunchFails, ReceiveFails, ReplyClientFails, Unwind
  <2>2. open' = open \/ open' = open + 1
    BY <2>1, <1>0, SMT
  <2>3. open = Held
    BY <2>1 DEF SocketInv
  <2> QED BY <2>1, <2>2, <2>3, <1>1 DEF SocketInv
<1>10. CASE Join \/ ClearThreads \/ Exit
  <2>1. /\ main' \in {"join", "terminated", "destroy", "exited"}
        /\ UNCHANGED <<clients, server, open>>
    BY <1>10 DEF Join, ClearThreads, Exit
  <2> QED BY <2>1, <1>1 DEF SocketInv
<1>11. CASE CloseServer
  <2>1. /\ main' = "destroy" /\ server /\ ~server' /\ open' = open - 1
        /\ UNCHANGED clients
    BY <1>11 DEF CloseServer
  <2>2. Held = Held' + 1 /\ Held' \in Nat
    BY <2>1, <1>0, SMT DEF Held
  <2>3. open = Held \/ open = Held + 1
    BY DEF SocketInv
  <2>4. open' = Held' \/ open' = Held' + 1
    <3>1. PICK h : h = Held'
      OBVIOUS
    <3>2. h \in Nat /\ Held = h + 1 /\ open' = open - 1
      BY <2>1, <2>2, <3>1
    <3>3. open' = h \/ open' = h + 1
      BY ONLY <2>3, <3>2, SMT
    <3> QED BY <3>1, <3>3
  <2> QED BY <2>1, <2>4 DEF SocketInv
<1>12. CASE CloseClient
  <2>1. /\ main' = "destroy" /\ open' = open - 1 /\ UNCHANGED server
        /\ \E p \in clients : clients' = clients \ {p}
    BY <1>12 DEF CloseClient
  <2>2. Cardinality(clients') = Cardinality(clients) - 1
    BY <2>1, <1>0, FS_RemoveElement
  <2>3. Held' = Held - 1
    BY <2>1, <2>2, <1>0, SMT DEF Held
  <2>4. open' \in {Held', Held' + 1}
    BY <2>1, <2>3, <1>0, SMT DEF SocketInv
  <2> QED BY <2>1, <2>4 DEF SocketInv
<1>13. ASSUME NEW t \in Threads, Exchange(t) \/ Finish(t) \/ Fail(t)
       PROVE  SocketInv'
  <2>1. /\ UNCHANGED main \/ main' = "terminated"
        /\ UNCHANGED <<clients, server, open>>
    BY <1>13 DEF Exchange, Finish, Fail
  <2> QED BY <2>1, <1>1 DEF SocketInv
<1> QED BY <1>2, <1>3, <1>4, <1>5, <1>6, <1>7, <1>8, <1>9, <1>10, <1>11, <1>12,
           <1>13
        DEF Next, Construct, Serve, Destroy, MainFails

\* main returns after the last destructor.
ClosedAtEnd == main = "exited" => ~server /\ clients = {}

\* The process exits with every socket of clients_ and server_ closed.
THEOREM ClosedAtExit == Spec => []ClosedAtEnd
<1>1. Init => ClosedAtEnd
  BY DEF Init, ClosedAtEnd
<1>2. ASSUME ClosedAtEnd, [Next]_vars PROVE ClosedAtEnd'
  <2> SUFFICES ASSUME main' = "exited" PROVE ~server' /\ clients' = {}
    BY DEF ClosedAtEnd
  <2>1. CASE Exit
    BY <2>1 DEF Exit
  <2>2. CASE ~Exit
    <3>1. main = "exited" /\ UNCHANGED <<server, clients>>
      BY <2>2, <1>2
         DEF Next, vars, Construct, Serve, Destroy, MainFails, OpenClient,
             OpenServer, LaunchMulticastSender, Listen, Receive, Handle, Join,
             ClearThreads, CloseServer, CloseClient, OpenClientFails,
             OpenServerFails, Abandon, LaunchFails, ReceiveFails,
             ReplyClientFails, HandleFails, Unwind, Exchange, Finish, Fail, Alive
    <3> QED BY <3>1, <1>2 DEF ClosedAtEnd
  <2> QED BY <2>1, <2>2
<1> QED BY <1>1, <1>2, PTL DEF Spec

\* However many datagrams a process serves, and whichever call fails, its
\* sockets are those of its clients and its server and at most one more; when
\* main returns at most one is left.
THEOREM SocketsAreBounded == Spec => []SocketsBounded
<1>1. LifeInv /\ SocketInv /\ [Next]_vars => SocketInv'
  BY SocketInvNext
<1>2. LifeInv /\ SocketInv /\ ClosedAtEnd => SocketsBounded
  <2> SUFFICES ASSUME LifeInv, SocketInv, ClosedAtEnd
               PROVE  SocketsBounded
    OBVIOUS
  <2>1. Held \in Nat /\ Held <= N + 1
    BY ClientsFinite DEF LifeInv
  <2>2. open <= N + 2
    BY <2>1, LifecycleAssumption, SMT DEF SocketInv
  <2>3. ASSUME main = "exited" PROVE open <= 1
    <3>1. Cardinality({}) = 0
      BY FS_EmptySet
    <3>2. Held = 0
      BY <2>3, <3>1, SMT DEF Held, ClosedAtEnd
    <3> QED BY <3>2, SMT DEF SocketInv
  <2> QED BY <2>2, <2>3 DEF SocketsBounded
<1> QED BY <1>1, <1>2, LifeInvariant, SocketInvInit, ClosedAtExit, PTL DEF Spec

----------------------------------------------------------------------------
\* A process that serves stops only because a call of its server or of one of
\* its senders failed, whether or not its threads have finished or any was
\* launched.
THEOREM ServesForEver == Spec => RemainsOperational
<1>1. ASSUME [Next]_vars, ServerUp PROVE ServerUp' \/ failed' \/ thrown'
  <2>1. CASE UNCHANGED vars
    BY <2>1, <1>1 DEF vars, ServerUp
  <2>2. CASE Construct \/ Serve \/ Destroy
    BY <2>2, <1>1
       DEF Construct, Serve, Destroy, ServerUp, OpenClient, OpenServer,
           LaunchMulticastSender, Listen, Receive, Handle, Join, ClearThreads,
           CloseServer, CloseClient, Exit
  <2>3. CASE MainFails
    BY <2>3
       DEF MainFails, OpenClientFails, OpenServerFails, LaunchFails, Abandon,
           ReceiveFails, ReplyClientFails, HandleFails, Unwind
  <2>4. CASE \E t \in Threads : Exchange(t) \/ Finish(t) \/ Fail(t)
    BY <2>4, <1>1 DEF Exchange, Finish, Fail, ServerUp
  <2> QED BY <2>1, <2>2, <2>3, <2>4, <1>1 DEF Next
<1>2. [Next]_vars => [ServerUp => ServerUp' \/ failed' \/ thrown']_vars
  BY <1>1
<1> QED BY <1>2, PTL DEF Spec, RemainsOperational

\* The marks that the constructor, Listen and the failing calls set.
Marked == server \in BOOLEAN /\ half \in BOOLEAN /\ thrown \in BOOLEAN /\ failed \in BOOLEAN

\* Every variable of the life of a process has its type; no destructor closes a
\* socket that is not open (open, the number of sockets, stays a natural).
THEOREM LifecycleTypes == Spec => []TypeOK
<1>1. Init => Marked
  BY DEF Init, Marked
<1>2. Marked /\ [Next]_vars => Marked'
  <2> SUFFICES ASSUME Marked, [Next]_vars PROVE Marked'
    OBVIOUS
  <2>1. CASE UNCHANGED vars
    BY <2>1 DEF vars, Marked
  <2>2. CASE Construct \/ Serve \/ Destroy
    BY <2>2
       DEF Construct, Serve, Destroy, Marked, OpenClient, OpenServer,
           LaunchMulticastSender, Listen, Receive, Handle, Join, ClearThreads,
           CloseServer, CloseClient, Exit, threadVars
  <2>3. CASE MainFails
    BY <2>3
       DEF MainFails, OpenClientFails, OpenServerFails, LaunchFails, Abandon,
           ReceiveFails, ReplyClientFails, HandleFails, Unwind, Marked, threadVars
  <2>4. CASE \E t \in Threads : Exchange(t) \/ Finish(t) \/ Fail(t)
    BY <2>4 DEF Exchange, Finish, Fail, Marked
  <2> QED BY <2>1, <2>2, <2>3, <2>4 DEF Next
<1>3. LifeInv /\ SocketInv /\ [Next]_vars => SocketInv'
  BY SocketInvNext
<1>4. LifeInv /\ SocketInv /\ LeftType /\ Marked => TypeOK
  <2> SUFFICES ASSUME LifeInv, SocketInv, LeftType, Marked PROVE TypeOK
    OBVIOUS
  <2>1. Held \in Nat
    BY ClientsFinite DEF LifeInv
  <2>2. open \in Nat
    BY <2>1, SMT DEF SocketInv
  <2> QED BY <2>2 DEF TypeOK, LifeInv, Loops, LeftType, Marked
<1> QED BY <1>1, <1>2, <1>3, <1>4, LifeInvariant, LeftTyped, SocketInvInit, PTL DEF Spec
=============================================================================
