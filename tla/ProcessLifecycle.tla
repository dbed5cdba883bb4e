-------------------------- MODULE ProcessLifecycle --------------------------
(***************************************************************************)
(* One process from the construction of Process to the end of main: the    *)
(* clients and the server are opened, one thread per message is launched,  *)
(* the server listens for ever, and an exception anywhere unwinds the main *)
(* thread through the destructors of Process.                              *)
(*                                                                         *)
(* A sender thread makes 2 * N exchanges, the data and the final sequence  *)
(* number with each process in the order of their ids; its own process is  *)
(* one of them, so a sender depends on the server of its own process.  An  *)
(* exchange is modelled in UdpClient, what the handlers do in TotalOrder;  *)
(* here a handler is what it does to the life of the process.              *)
(***************************************************************************)
EXTENDS Integers

CONSTANTS
  N,          \* processes_.size(), their addresses distinct
  Id,         \* id_
  SendCount,  \* the argument of TotalOrder
  Faults      \* the calls that may fail, a set of the names in FaultKinds

FaultKinds ==
  {"CreateSocket", "gethostbyname", "bind", "thread", "recvfrom", "sendto",
   "SendWithAck"}

ASSUME LifecycleAssumption ==
  /\ N \in Nat \ {0}
  /\ Id \in 0 .. N - 1
  /\ SendCount \in Nat
  /\ Faults \subseteq FaultKinds

Procs == 0 .. N - 1
Threads == 0 .. SendCount - 1

VARIABLES
  main,     \* where the main thread is
  next,     \* the variable of the loop it is in
  clients,  \* the processes with an open udp::Client in clients_
  server,   \* is server_ open?
  open,     \* the number of open sockets
  thread,   \* thread[t]: the state of a multicast sender thread
  left,     \* left[t]: the exchanges it has still to make
  thrown,   \* has an exception left the function of a thread?
  failed,   \* has an exception been thrown in the main thread?
  half      \* has HandleSeqMsg been left between ForwardSeqNum and SetDeliverable?

vars ==
  <<main, next, clients, server, open, thread, left, thrown, failed, half>>
threadVars == <<thread, left, thrown>>

Init ==
  /\ main = "clients" /\ next = 0
  /\ clients = {} /\ server = FALSE /\ open = 0
  /\ thread = [t \in Threads |-> "none"]
  /\ left = [t \in Threads |-> 2 * N]
  /\ thrown = FALSE /\ failed = FALSE /\ half = FALSE

-----------------------------------------------------------------------------
(* The constructor of Process. *)

\* A constructor that throws runs the destructors of the members built so far
\* only.  The socket of a Client or Server under construction stays open when
\* the address or the bind is at fault, or setsockopt.
Abandon(failing) ==
  /\ failing \in Faults
  /\ \E leaked \in IF failing = "CreateSocket" THEN {0, 1} ELSE {1} :
       open' = open + leaked
  /\ main' = "destroy" /\ failed' = TRUE
  /\ UNCHANGED <<next, clients, server, half>>
  /\ UNCHANGED threadVars

\* One round of the loop of ClientsForProcessList.
OpenClient ==
  /\ main = "clients" /\ next < N
  /\ clients' = clients \cup {next}
  /\ open' = open + 1
  /\ next' = next + 1
  /\ UNCHANGED <<main, server, half, failed>> /\ UNCHANGED threadVars

OpenClientFails ==
  /\ main = "clients" /\ next < N
  /\ \E failing \in {"CreateSocket", "gethostbyname"} : Abandon(failing)

OpenServer ==
  /\ main = "clients" /\ next = N
  /\ server' = TRUE /\ open' = open + 1
  /\ main' = "launch" /\ next' = 0
  /\ UNCHANGED <<clients, half, failed>> /\ UNCHANGED threadVars

OpenServerFails ==
  /\ main = "clients" /\ next = N
  /\ \E failing \in {"CreateSocket", "bind"} : Abandon(failing)

-----------------------------------------------------------------------------
(* TotalOrder: launch the senders, then listen. *)

\* Unwind gone wrong: the sockets are destroyed before the thread group, as
\* they would be with multicast_threads_ declared first.
UnwindSocketsFirst ==
  main' = "join" /\ next' = 0 /\ failed' = TRUE /\ server' = FALSE /\ clients' = {}

\* An exception destroys the members of Process in reverse order, hence first
\* multicast_threads_, whose destructor joins the threads.
Unwind ==
  main' = "join" /\ next' = 0 /\ failed' = TRUE /\ UNCHANGED <<clients, server>>

\* LaunchMulticastSender gone wrong: the loop starts at 1.
LaunchMulticastSenderButFirst ==
  /\ main = "launch" /\ next < SendCount
  /\ thread' = [thread EXCEPT ![next] = IF next = 0 THEN @ ELSE "running"]
  /\ next' = next + 1
  /\ UNCHANGED <<main, clients, server, open, left, thrown, half, failed>>

LaunchMulticastSender ==
  /\ main = "launch" /\ next < SendCount
  /\ thread' = [thread EXCEPT ![next] = "running"]
  /\ next' = next + 1
  /\ UNCHANGED <<main, clients, server, open, left, thrown, half, failed>>

\* std::thread throws system_error.
LaunchFails ==
  /\ "thread" \in Faults
  /\ main = "launch" /\ next < SendCount
  /\ Unwind
  /\ UNCHANGED <<open, half>> /\ UNCHANGED threadVars

Listen ==
  /\ main = "launch" /\ next = SendCount
  /\ main' = "listen"
  /\ UNCHANGED <<next, clients, server, open, half, failed>> /\ UNCHANGED threadVars

\* A datagram: a Client is made for the reply.
Receive ==
  /\ main = "listen"
  /\ main' = "handle" /\ open' = open + 1
  /\ UNCHANGED <<next, clients, server, half, failed>> /\ UNCHANGED threadVars

\* recvfrom fails; there is no timeout handler, so any error is an exception.
ReceiveFails ==
  /\ main = "listen" /\ "recvfrom" \in Faults
  /\ Unwind
  /\ UNCHANGED <<open, half>> /\ UNCHANGED threadVars

\* The Client for the reply cannot be made.
ReplyClientFails ==
  /\ main = "listen" /\ "CreateSocket" \in Faults
  /\ \E leaked \in {0, 1} : open' = open + leaked
  /\ Unwind
  /\ UNCHANGED half /\ UNCHANGED threadVars

\* CloseReply gone wrong: the Client outlives the call.
CloseReplyNever == UNCHANGED open

\* The Client of the reply is destroyed as its shared_ptr leaves the scope.
CloseReply == open' = open - 1

\* Handle gone wrong: the callback returns Stop after the last message.
HandleStops ==
  /\ main = "handle"
  /\ IF \A t \in Threads : thread[t] = "done"
       THEN main' = "join" /\ next' = 0
       ELSE main' = "listen" /\ UNCHANGED next
  /\ UNCHANGED <<clients, server>>
  /\ CloseReply
  /\ UNCHANGED <<half, failed>> /\ UNCHANGED threadVars

\* The callback returns Continue.
Handle ==
  /\ main = "handle"
  /\ main' = "listen" /\ UNCHANGED <<next, clients, server>>
  /\ CloseReply
  /\ UNCHANGED <<half, failed>> /\ UNCHANGED threadVars

\* HandleFails gone wrong: the exception of a reply is swallowed.
HandleFailsCaught ==
  /\ main = "handle" /\ "sendto" \in Faults
  /\ main' = "listen" /\ UNCHANGED <<next, clients, server, failed>>
  /\ CloseReply
  /\ half' \in {half, TRUE}
  /\ UNCHANGED threadVars

\* The reply cannot be sent: from HandleDataMsg, whose work is then done, or
\* from HandleSeqMsg, which has still to make the message deliverable.
HandleFails ==
  /\ main = "handle" /\ "sendto" \in Faults
  /\ Unwind
  /\ CloseReply
  /\ half' \in {half, TRUE}
  /\ UNCHANGED threadVars

-----------------------------------------------------------------------------
(* The multicast sender threads. *)

Alive == main \notin {"exited", "terminated"}

\* The process of the exchange a thread is in.
Dest(t) == (2 * N - left[t]) % N

ServerUp == main \in {"listen", "handle"}

\* Exchange gone wrong: the loop over the processes is off by one.
ExchangeOnceMore(t) ==
  /\ Alive
  /\ thread[t] = "running"
  /\ Dest(t) = Id => ServerUp
  /\ left' = [left EXCEPT ![t] = @ - 1]
  /\ UNCHANGED <<main, next, clients, server, open, thread, thrown, half, failed>>

\* Exchange gone wrong: a process leaves itself out.
ExchangeWithOthers(t) ==
  /\ Alive
  /\ thread[t] = "running" /\ left[t] > 0
  /\ left' = [left EXCEPT ![t] = @ - 1]
  /\ UNCHANGED <<main, next, clients, server, open, thread, thrown, half, failed>>

\* Another process is taken to answer, this one does while its server listens.
\* An exchange is one step, done when the answer is in the sender's socket: the
\* sender then needs the server no more to return from recvfrom.
Exchange(t) ==
  /\ Alive
  /\ thread[t] = "running" /\ left[t] > 0
  /\ Dest(t) = Id => ServerUp
  /\ left' = [left EXCEPT ![t] = @ - 1]
  /\ UNCHANGED <<main, next, clients, server, open, thread, thrown, half, failed>>

Finish(t) ==
  /\ Alive
  /\ thread[t] = "running" /\ left[t] = 0
  /\ thread' = [thread EXCEPT ![t] = "done"]
  /\ UNCHANGED <<main, next, clients, server, open, left, thrown, half, failed>>

\* SendWithAck throws: nothing in the thread catches it and std::terminate ends
\* the process.
Fail(t) ==
  /\ Alive /\ "SendWithAck" \in Faults
  /\ thread[t] = "running" /\ left[t] > 0
  /\ thrown' = TRUE /\ main' = "terminated"
  /\ UNCHANGED <<next, clients, server, open, thread, left, half, failed>>

-----------------------------------------------------------------------------
(* The destructors. *)

\* Join gone wrong: a thread is detached rather than waited for.
JoinNone ==
  /\ main = "join" /\ next < SendCount
  /\ next' = next + 1
  /\ UNCHANGED <<main, clients, server, open, half, failed>> /\ UNCHANGED threadVars

\* Join gone wrong: the loop does not get past the first thread.
JoinFirst ==
  /\ main = "join" /\ next < SendCount
  /\ thread[next] # "running"
  /\ next' = 0
  /\ UNCHANGED <<main, clients, server, open, half, failed>> /\ UNCHANGED threadVars

\* A round of JoinAll: the threads that were launched are waited for.
Join ==
  /\ main = "join" /\ next < SendCount
  /\ thread[next] # "running"
  /\ next' = next + 1
  /\ UNCHANGED <<main, clients, server, open, half, failed>> /\ UNCHANGED threadVars

\* threads_.clear(): destroying a std::thread that runs calls std::terminate.
ClearThreads ==
  /\ main = "join" /\ next = SendCount
  /\ main' = IF \E t \in Threads : thread[t] = "running"
               THEN "terminated" ELSE "destroy"
  /\ UNCHANGED <<next, clients, server, open, half, failed>> /\ UNCHANGED threadVars

CloseServer ==
  /\ main = "destroy" /\ server
  /\ server' = FALSE /\ open' = open - 1
  /\ UNCHANGED <<main, next, clients, half, failed>> /\ UNCHANGED threadVars

CloseClient ==
  /\ main = "destroy" /\ ~server
  /\ \E p \in clients : clients' = clients \ {p}
  /\ open' = open - 1
  /\ UNCHANGED <<main, next, server, half, failed>> /\ UNCHANGED threadVars

\* main prints the exception and returns 1.
Exit ==
  /\ main = "destroy" /\ ~server /\ clients = {}
  /\ main' = "exited"
  /\ UNCHANGED <<next, clients, server, open, half, failed>> /\ UNCHANGED threadVars

-----------------------------------------------------------------------------

Construct == OpenClient \/ OpenServer \/ LaunchMulticastSender \/ Listen
Serve == Receive \/ Handle
Destroy == Join \/ ClearThreads \/ CloseServer \/ CloseClient \/ Exit
MainFails ==
  \/ OpenClientFails \/ OpenServerFails \/ LaunchFails
  \/ ReceiveFails \/ ReplyClientFails \/ HandleFails

Next ==
  \/ Construct \/ Serve \/ Destroy \/ MainFails
  \/ \E t \in Threads : Exchange(t) \/ Finish(t) \/ Fail(t)

Spec == Init /\ [][Next]_vars

\* The scheduler runs every thread that can go on; an exchange with a process
\* that is up ends (UdpClient!EveryCallEnds).
FairSpec ==
  /\ Spec
  /\ WF_vars(Construct) /\ WF_vars(Handle) /\ WF_vars(Destroy)
  /\ \A t \in Threads : WF_vars(Exchange(t)) /\ WF_vars(Finish(t))

-----------------------------------------------------------------------------
(* Properties. *)

\* Every variable has its type.
TypeOK ==
  /\ main \in {"clients", "launch", "listen", "handle", "join", "destroy",
              "exited", "terminated"}
  /\ next \in Nat
  /\ clients \subseteq Procs
  /\ server \in BOOLEAN /\ half \in BOOLEAN
  /\ thrown \in BOOLEAN /\ failed \in BOOLEAN
  /\ open \in Nat
  /\ thread \in [Threads -> {"none", "running", "done"}]
  /\ left \in [Threads -> 0 .. 2 * N]

\* A sender thread that runs finds every client and the server open: the
\* destructors of Process close no socket before JoinAll is over, because
\* multicast_threads_ is its last member.
SocketsOutliveThreads ==
  Alive /\ (\E t \in Threads : thread[t] = "running")
    => clients = Procs /\ server

\* The only way into std::terminate is an exception of a sender thread: no
\* std::thread is destroyed while it runs ("ThreadGroup's destructor makes
\* sure that all threads are joined, else we risk 'terminate called without an
\* active exception' crashes"), even when only some threads were launched.
TerminatedBySender == main = "terminated" => thrown

\* However many datagrams are served and whichever call fails, a process has at
\* most one socket per process of the list, the server's and one more, and
\* returns from main with all closed but one that a constructor abandoned.
SocketsBounded ==
  /\ open <= N + 2
  /\ main = "exited" => open <= 1

\* A process that acknowledged nothing but forwarded its counter for a
\* SeqMessage it has not made deliverable (HandleSeqMsg throws in
\* SendSeqAckMsg) serves no other datagram in that state.
HalfHandledNeverServes == half => ~ServerUp

\* A thread of a process whose server is gone that has yet to reach its own
\* process: the last exchange with it is number N + Id + 1.
Stuck ==
  main = "join" /\ \E t \in Threads : thread[t] = "running" /\ left[t] >= N - Id

\* Once the server has thrown, the process ends (main returns 1, or a sender
\* throws too) unless a sender still needs the server that is gone.
UnwindingEnds == main = "join" ~> ~Alive \/ Stuck

\* In that case the destructor waits for ever in JoinAll: nothing but an
\* exception of a sender gets the process out of it.  An exchange counts as done
\* once the server's answer is in the sender's socket, received or not; a sender
\* whose last answer from this process is there is not stuck.
StuckForGood == [][Stuck => Stuck' \/ thrown']_vars

\* "The process should remain operational once started, even if the count is 0
\* or the process finishes multicasting all its messages": a server that listens
\* stops only because a call failed.
RemainsOperational == [][ServerUp => ServerUp' \/ failed' \/ thrown']_vars

\* Unless a call fails every sender finishes its multicasts, although each needs
\* the server of its own process, which is started after all of them: the
\* launching thread does not wait for a sender.
SendersFinish ==
  \A t \in Threads :
    <>(thread[t] = "done" \/ main \in {"join", "destroy", "exited", "terminated"})
=============================================================================
