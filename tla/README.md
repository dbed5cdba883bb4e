# Total order multicast: models and proofs

The program is an implementation of the ISIS total order multicast algorithm
over UDP (`src/src/`). This directory holds TLA+ models of it, the TLC
configurations that check them on small instances, and TLAPS proofs of the main
results for every number of processes and messages.

## The system

Each process has one **server thread** (`Process::TotalOrder` runs
`udp::Server::Listen`) and one **multicast sender thread** per message it sends
(`LaunchMulticastSender`).

| part | state | operations | talks to |
|---|---|---|---|
| multicast senders (`process.cc:463-524`) | `msg_id`, `seqs`, `final_seq`, position in the loop | send data to each process and collect proposals; choose the maximum; send the final number to each process | servers, through the UDP clients |
| total order server (`process.cc:336-422`) | `seq_counter_` | `HandleDataMsg`, `HandleSeqMsg`, `NextSeqNum`, `ForwardSeqNum` | hold-back queue; replies to senders |
| `HoldBackQueue` (`process.cc:208-334`) | `pending_seqs_`, `ordering_` | `Lookup`, `InsertUndeliverable`, `SetDeliverable` with its delivery loop | calls `deliver` |
| UDP client (`udp_conn.cc:71-137`) | socket, `sockfd_mutex_` | `Send`, `SendWithAck` (unlimited attempts, timeout, backoff) | one per destination, shared by the sender threads of a process |
| UDP server (`udp_conn.cc:139-191`) | socket | `Listen` | callbacks above |
| wire messages (`message.h`, `process.cc:24-206`) | | encode, decode, validate, dispatch on the type | server and senders |
| process life cycle (`process.h`, `udp_conn.h`) | the members of `Process` | construct, launch, listen, unwind, destroy | all of the above |
| thread group (`thread.h`) | threads | add, join all on destruction | senders |
| startup (`main.cc`, `net.cc`) | flags, host file, process list, id | `GetProcesses`, `CheckProcessId`, `GetProcessId`, `AddressWithDefaultPort` | argument parser; starts the process |
| argument parser (`include/args.h`) | matched flags, values, position in the line | `ParseCLI`, `ParseArgs`, the option classes, the validators | startup |
| formatting, logging, help menu | | text | |

What is hard about it: messages and acknowledgements are lost, late and
repeated; acknowledgements of different exchanges meet on one socket; proposals
of several processes race; a message with its final number must wait for others
that might still come before it; the hold-back queue is two structures that
must agree. Around that, an exception in the server destroys sockets that sender
threads use, and every process must number the group as the others do.
`PROJECT.json` lists these hazards with the line each one bites at.

## Modules

The algorithm:

- `HoldBackQueue` has the operators of the queue. `pending_seqs_` is a function
  on the keys present. `ordering_` is a set in which no two elements are
  equivalent under `operator<` (`Less`); insertion and erasure behave as in
  `std::set`, by equivalence and not by equality.
- `TotalOrder` is the senders, the servers, the queues and the network between
  them: the variables, one action per step, the specification `Spec`, its fair
  version `FairSpec`, and the properties.
- `TotalOrderInv` has the inductive invariants `OrderInv`, `FifoInv` and
  `CompleteInv`.
- `AtomicMulticast` is the abstract specification, what total order multicast
  promises to its callers: messages are given their place, and each process
  delivers, once, the next message that those ahead of it have settled.
  `AtomicRefinement` has the mapping from `TotalOrder`: a message is its key, it
  has its place when its thread has chosen `final_seq`.

The parts around it:

- `UdpClient` is one `udp::Client` with the threads that call it, in steps of a
  line or a system call.
- `ProcessLifecycle` is one process from its constructor to the end of `main`,
  with every call that can throw.
- `Wire` is a datagram from the struct it is made of to what the receiver takes
  it for.
- `ArgumentParser` is `args.h` as a library, `Startup` extends it with `main`.

An exchange of `TotalOrder` is a call of `UdpClient`; there it is shown that
calls on one socket do not mix, which `TotalOrder` assumes in taking the mutex
for the whole exchange. `Wire` shows that a datagram is taken for what was sent
or dropped, which is why the messages of `TotalOrder` are records.
`ProcessLifecycle` has the exceptions that `TotalOrder` leaves out, and
`Startup` the process list and the id it takes as constants.

`MCTotalOrder`, `MCUdpClient`, `MCProcessLifecycle`, `MCWire`,
`MCArgumentParser` and `MCStartup` give the constants their values for TLC.
`TypeProofs`, `OrderProofs` and `ServiceProofs` hold the proofs about
`TotalOrder`, each extending the one before: the types, what holds whatever the
network does, and what callers get on ordered paths, the refinement included; `UdpClientProofs`, `LifecycleProofs`, `WireProofs`,
`ParserProofs` and `StartupProofs` those about the modules they are named after,
the last one extending `ParserProofs`.

The modules below the proofs extend nothing but the standard modules. tlapm
carries every definition in scope along with every step, and with the larger
libraries in scope the proofs of `OrderProofs` take more than half an hour
instead of four minutes. For the same reason its default prover there is Zenon
(`USE Zenon`), and the steps that need arithmetic or records name SMT. Recursion
is written as recursive functions (`Walk`, `Matched`), which the prover accepts,
and not as recursive operators.

The modules also hold operators described as "gone wrong". Nothing in a
specification uses them. Each is a plausible mistake in the definition that
follows it, and substituting it makes TLC report the property it is paired with
in `PROJECT.json`.

### From the code to the actions: TotalOrder

| action | code |
|---|---|
| `BeginSend` | `SendWithAck` takes the mutex and sends for the first time |
| `Timeout` | `recvfrom` times out; back off and send again |
| `RejectAck` | `validAck` says Continue; send again |
| `HandleAck` | `handle_ack` accepts: the proposal is recorded, the mutex released, next process |
| `HandleSeqAck` | `isValidAck` of `SendSeqMsg` accepts; next process |
| `ChooseFinal` | the maximum of the proposals, the smallest proposer on ties |
| `HandleDataMsg` | the whole handler: lookup, else number and insert; reply |
| `HandleSeqMsg` | the whole handler up to the delivery loop: forward the counter, reply, erase and reinsert |
| `Deliver` | one iteration of the delivery loop |
| `EndDelivery` | the loop ends; back to `recvfrom` |

Granularity. Only the server thread touches the queue and the counter, and a
sender thread touches nothing but its locals and its socket, so a handler is
one step. The delivery loop calls out once per message and is one step per
message; the server receives nothing meanwhile. `HandleSeqMsg` sends its reply
before it changes the queue; since nobody else sees the queue the two are one
step, and a sender may finish while the server is still in the loop.

Data. The payload is left out: the queue stores it and nothing reads it. The
(sender, id) pair is the key of a message. Sequence numbers are taken modulo
`SeqLimit`, which is 2^32 in the code. `delivered` is a history of the calls of
`deliver`.

Network (external to the source). A path between two sockets is a sequence of
datagrams. Any transmission may be lost. A path holds `MaxInFlight` datagrams
and drops what does not fit, as a full socket buffer does. With `Reorder` a
datagram may overtake those before it, which UDP permits between hosts; without
it, it may not, as between sockets of one host. Duplicates made by the network
are not modelled apart from the retransmissions of the senders. A process that
is not started yet, or has stopped for good, is one that takes no step and to
which every datagram is lost. Nothing is persisted, so there is no recovery to
model; a process that restarts with empty state is outside the model.

Undefined behaviour. `HandleDataMsg` writes through a disengaged optional
(`process.cc:388-391`) and reads the result back. With the flags of the Makefile
the library checks nothing and the storage is used as written; the model follows
that build.

### From the code to the actions: the other modules

| module | action | code |
|---|---|---|
| `UdpClient` | `Enter`, `LoopTest` | `SendWithAck` locks the mutex; the `while` with its attempts, which are unsigned and wrap |
| | `SendLock`, `SendTo`, `SendError` | `Send`: the second lock of the recursive mutex, `sendto`, the exception |
| | `Receive`, `Timeout`, `WaitBackoff`, `ReceiveError` | `recvfrom` and `validAck`; a timeout and its backoff; any other error |
| | `Answer`, `Lose` | the peer and the network (external) |
| `ProcessLifecycle` | `OpenClient`, `OpenServer` and their `Fails` | the constructor; a socket abandoned by a constructor that throws stays open |
| | `LaunchMulticastSender`, `LaunchFails`, `Listen` | `TotalOrder` up to the receive loop |
| | `Receive`, `Handle`, `ReceiveFails`, `ReplyClientFails`, `HandleFails` | a round of `Listen` and each place where it throws |
| | `Exchange`, `Finish`, `Fail` | a sender thread; an exception in it is `std::terminate` |
| | `Join`, `ClearThreads`, `CloseServer`, `CloseClient`, `Exit` | the destructors in reverse order of the members, and the `catch` of `main` |
| `Wire` | `Send` | `SendDataMsg`, `SendAckMsg`, `SendSeqMsg`, `SendSeqAckMsg` |
| | `AtServer`, `AtDataSender`, `AtSeqSender` | the callback of `TotalOrder`, `handle_ack`, `isValidAck` |
| | `Again` | the receiving loop starts over |
| `ArgumentParser` | `ParseCLI` | `Reset` of every option, then the loop |
| | `Terminator`, `LongArg`, `ShortArg`, `PositionalArg` | the four branches of the loop of `ParseArgs` |
| | `JoinedValue`, `SeparateValue`, `NoValue` | what a flag makes of the text behind it |
| | `EndOfArgs` | `Matched`, the validators |
| `Startup` | `ParseFailed`, `CheckRequired` | `ParseCLI` throws; the required flags, the conversions, the file is opened |
| | `ReadHost`, `EndOfHosts` | `GetProcesses`, a word at a time |
| | `Run` | `CheckProcessId` or `GetProcessId`; the process is started |

Data. In `UdpClient` a datagram is the name of the call it belongs to. In
`ProcessLifecycle` the sockets are counted and the datagrams have no content; an
exchange with another process is taken to end. In `Wire` an integer is
four bytes in the byte order of its host. A text of the command line is a
sequence of symbols: prefixes, the separator, numerals, letters and words; a
word of the host file is a host and the text after its colon. `operator>>` into
an int saturates, `std::stoi` throws, and the conversions to `unsigned short`
and `unsigned int` are taken modulo their width. Undefined behaviour: `args.h`
reads a value into a local variable that an empty text leaves unassigned; the
model takes any member of `Uninitialised`.

## Properties

The order of deliveries (`TotalOrder`):

- `SameOrder`: position by position all processes deliver the same message with
  the same final number; this is what the tests compare.
- `NoDuplicateDelivery`, `CompleteWhenDone`, `EventuallyDelivered`: each message
  is delivered once, nothing is stuck when the senders have returned, and every
  message gets through.
- `FirstDeliveriesAgree`: the part of the total order that survives reordering.
  If a process has delivered a message, it has delivered before it all that
  another process delivered before delivering it for the first time.
- `KnownEverywhere`: no process delivers a message that another one neither
  holds nor has delivered.
- `NoReproposal`: no message is numbered again after its final number is known.
- `QueueConsistent`: the map and the undeliverable part of the ordered set hold
  the same entries, so that `SetDeliverable` erases what it means to and the
  exceptions of `InsertUndeliverable` are never thrown.
- `HeldAfterDelivered`: what waits for its first delivery sorts after everything
  delivered.
- `CollectedSeqsHeld`: a recorded proposal is the number the proposer still
  holds the message under.
- `ProposalsGrow` (action property): a new message is numbered above everything
  its process holds or has delivered.
- `ImplementsAtomicMulticast`: `TotalOrder` implements `AtomicMulticast`.

Exchanges (`UdpClient`):

- `ExchangesExclusive`: a call has the socket to itself and gives the mutex up
  as often as it took it, by return or exception.
- `AckedOrExhausted`: `SendWithAck` returns acknowledged, or after exactly as
  many requests as it was limited to.
- `EveryCallEnds`: no call waits for ever.

The life of a process (`ProcessLifecycle`):

- `SocketsOutliveThreads`, `TerminatedBySender`: while a sender runs every
  socket it may use is open, and no `std::thread` is destroyed while it runs.
- `SocketsBounded`: serving opens and closes; nothing accumulates.
- `HalfHandledNeverServes`: a process that left `HandleSeqMsg` half way serves
  nothing in that state.
- `UnwindingEnds`, `StuckForGood`: a process whose server has thrown ends,
  unless a sender has yet to reach its own process. Then the destructor waits
  in `JoinAll` for a thread that waits for the server, and only an exception of
  a sender ends it.
- `RemainsOperational`, `SendersFinish`: a server stops only because a call
  failed, and unless one fails every sender finishes.

Messages (`Wire`): `UnderstoodAsSent`, what is taken from a datagram is what was
sent; `NoneRefused`, a whole datagram at the end it is for is taken.

Command line (`ArgumentParser`, `Startup`):

- `EveryChunkOnce`, `PositionalsInOrder`: how the chunks of a line are shared
  out.
- `AboutThisCall`: what a parser reports is made of what its last call was
  given: the marks, the counts, every element of a list (one per text, in order)
  and each single value (the last text). `texts`, a variable of the model only,
  records the texts each option was given in the call. The exception is in the
  property: `Reset` does not clear single values (only `args.h:1400`, 1531, 1659,
  1750 and 1877 clear a value) and an empty text assigns nothing. A single value
  for which a call gives no text, or only empty ones, is the default in the first
  call and stays what it was in a later one: after `--num=1` in one call, `--num=`
  in the next is matched and reports 1.
- `ListFollowsFile`, `RunsUnderOwnId`: every process numbers the group as the
  file does, with the ports asked for when they fit in an unsigned short, and
  runs under an id of its own host.
- `ZeroOnlyForHelp`: no mistake exits with 0.

## Runs

| run | instance | shows |
|---|---|---|
| `pair` | 2 processes, a message each, ordered paths of 1 datagram; 257k states | `TypeOK`, `SameOrder`, `NoDuplicateDelivery`, `CompleteWhenDone`, `HeldAfterDelivered`, `CompleteInv`, `ImplementsAtomicMulticast` |
| `shared_socket` | 2 processes, two messages of process 0, ordered paths of 1, `FairSpec`; 24k states | `CollectedSeqsHeld`, `NoReproposal`, `QueueConsistent`, `ProposalsGrow`, `EventuallyDelivered` |
| `reordering` | as `pair`, paths of 2 that reorder, at most two datagrams in the network; 539k states | `FirstDeliveriesAgree`, `OrderInv` |
| `three_processes` | 3 processes, two of them send, at most two datagrams in the network; 617k states | `SameOrder`, `KnownEverywhere` |
| `udp_client` | an unlimited `SendWithAck`, one limited to 2 attempts and a `Send` on one socket, `FairSpec`; 72k states | `TypeOK`, `ExchangesExclusive`, `AckedOrExhausted`, `EveryCallEnds` |
| `lifecycle` | the middle one of 3 processes, 3 messages, any call may fail, `FairSpec`; 5.6k states | `TypeOK` and the eight properties of `ProcessLifecycle` |
| `wire` | words of 4 bytes with 2 values each, hosts of both byte orders, whole datagrams and cut ones; 1.1M states | `TypeOK`, `UnderstoodAsSent`, `NoneRefused` |
| `command_line` | the program with lines of up to 4 different ones of 19 chunks and 7 host files, and three parsers with all option classes, two of them called twice; 950k states | `TypeOK`, `StartupTypeOK` and the properties of `ArgumentParser` and `Startup` |
| `reordered_delivery` | as `reordering` | violates `SameOrder` |
| `wraparound` | as `pair`, counter of one bit | violates `ProposalsGrow` |
| `id_collision` | as `shared_socket`, both messages with one id | violates `CompleteWhenDone` |
| `negative_count` | the program with lines of up to 3 chunks | violates `CountAsAsked` |

Bounds. Two concurrent messages are what a conflict of order needs, and two
processes what a disagreement needs; the third process of `three_processes`
decides final numbers without sending. A path of one datagram already allows a
retransmission to cross an acknowledgement and the second acknowledgement to
wait for the next exchange; one of two allows two datagrams to change places.
`SeqLimit` is 16 in the passing runs, more than their counters reach. Message
ids are chosen so that their order differs from that of the senders. In
`udp_client` unsigned integers have two bits, so that the unlimited call wraps.
In `lifecycle` a sender has exchanges before and after those with its own
process. In `wire` the words hold the types, and some of them are not what they
are with their bytes swapped. The lines of `command_line` hold every
required flag and two more, in any order, each right, wrong or missing its
value.

Deadlock is not checked where the system may stop: the servers wait in
`recvfrom` for ever once the senders have returned, calls and processes end, and
so do command lines. `wire` never stops, and checks it.

Fairness.

- `shared_socket`: every thread that can step does (weak fairness: the operating
  system schedules threads, and `sockfd_mutex_` is released after every
  exchange). A thread in `recvfrom` without a valid answer times out again and
  again, and of these retransmissions infinitely many are not lost (strong
  fairness on `Timeout` with `lost` false); of the requests that keep coming
  from a client infinitely many are handled and answered without loss (strong
  fairness per client). That is a fair-lossy network and a server that does not
  starve one client. Nothing assumes that a particular datagram arrives.
- `udp_client`: threads are scheduled (weak), and the peer answers a caller that
  keeps asking (strong). Nothing is assumed of the mutex, nor of errors.
- `lifecycle`: the main thread and the senders are scheduled (weak), an exchange
  with a process that is up ends. That a datagram arrives is not assumed, nor
  that a call fails.

### What the violations say

- `reordered_delivery`: the queue forgets a message as soon as its final number
  is known (`process.cc:300`). A retransmitted `DataMessage` that arrives after
  that is treated as new (`process.cc:384`) and numbered again, against the
  comment at `process.cc:382` and `README.md:118`; with a retransmitted
  `SeqMessage` it is delivered again. It takes a datagram overtaken by a later
  one from the same socket; on ordered paths the proofs below exclude it.
- `wraparound`: `++seq_counter_` wraps, against the comment at `process.h:233`.
- `id_collision`: `UniqueID` is random and not unique, against `process.h:238`;
  when two exchanges with one id overlap, one message is delivered for both.
- `negative_count`: the count is an `int` passed as `unsigned int`, against "The
  value of count is non-negative." (`main.cc:46`). Ports are treated alike: an
  `int` is stored in an `unsigned short` (`main.cc:142`, `net.cc:20`) without
  the test that "any integer from 1024 to 65535" (`main.cc:18`) suggests; 70536
  is taken for 5000, and `ListFollowsFile` is about the numbers that fit.

Two observations without a run. A short flag that takes a value does not kick
out, its long form does (`args.h:1223`, `AfterValue`); the program sets no
kick-out. And a process whose server fails while a sender still needs it does
not end (`UnwindingEnds`, `StuckForGood`); no document says it should.

## Proofs

The theorems about `TotalOrder` hold for any number of processes and threads,
any assignment of messages to processes, any capacity of the paths and any loss.
They assume `ConstantsAssumption` (the types of the constants) and, where
stated,

- `DistinctIds`: the keys of different messages differ (`operator<` assumes it);
- `[]NoWrap`: no counter comes to its limit in the run;
- `~Reorder`: datagrams of one path keep their order.

| theorem | statement | needs |
|---|---|---|
| `TypeCorrect` | `TypeOK` | |
| `OrderInvariant` | `OrderInv` | ids, no wrap |
| `FirstDeliveriesAgreement` | `FirstDeliveriesAgree` | ids, no wrap |
| `ProposalsAlwaysGrow` | `ProposalsGrow` | ids, no wrap |
| `HeldMessagesLater` | `HeldAfterDelivered` | ids, no wrap |
| `QueueSound` | `QueueConsistent` | ids, no wrap |
| `DeliveredIsKnown` | `KnownEverywhere` | ids, no wrap |
| `CollectedSeqsSound` | `CollectedSeqsHeld` | ids, no wrap |
| `FifoInvariant` | `FifoInv` | ids, no wrap, order |
| `TotalOrderDelivery` | `SameOrder` | ids, no wrap, order |
| `AtMostOnceDelivery` | `NoDuplicateDelivery` | ids, no wrap, order |
| `NoSecondProposal` | `NoReproposal` | ids, no wrap, order |
| `CompleteInvariant` | `CompleteInv` | ids, no wrap, order |
| `CompleteDelivery` | `CompleteWhenDone` | ids, no wrap, order |
| `TotalOrderIsAtomic` | `ImplementsAtomicMulticast` | ids, no wrap, order |

The theorems about a client and about a process assume the types of the
constants only: any number of threads, processes and messages, any width of
`unsigned int`, any set of calls that may fail.

| theorem | statement |
|---|---|
| `ExclusiveExchanges` | `ExchangesExclusive` |
| `AttemptsHonoured` | `AckedOrExhausted` |
| `ThreadsHaveSockets` | `SocketsOutliveThreads` |
| `JoinedBeforeDestroyed` | `TerminatedBySender` |
| `HalfHandledSound` | `HalfHandledNeverServes` |
| `SocketsAreBounded` | `SocketsBounded` |
| `StuckSendersStay` | `StuckForGood` |
| `ServesForEver` | `RemainsOperational` |
| `ClientTypes`, `LifecycleTypes` | `TypeOK` of `UdpClient` and of `ProcessLifecycle` |

The theorems about a datagram assume that a byte has two values or more and that
the fields are words (`WordAssumption`): any number of byte values (256 in the
code), any number of processes, any cut, all four combinations of byte orders.

| theorem | statement |
|---|---|
| `WireInvariant` | `WireInv` |
| `TakenIsSent` | `UnderstoodAsSent` |
| `WholeIsTaken` | `NoneRefused` |
| `WireTypes` | `TypeOK` |

The theorems about the parser hold for any tree of groups and options of all
classes, any lines and any number of calls. Those about `main`, from
`StartupParses` on, are about `StartupSpec` and hold for any line, any host files
and any host name.

| theorem | statement |
|---|---|
| `ParserInvariant` | `ParserInv` |
| `ParserTypes` | `TypeOK` |
| `EveryChunkTaken` | `EveryChunkOnce` |
| `ReportsThisCall` | `AboutThisCall` |
| `PositionalsFilledInOrder` | `PositionalsInOrder` |
| `StartupParses` | `Spec` of `ArgumentParser` |
| `MainInvariant` | `MainInv` |
| `StartupTypes` | `StartupTypeOK` |
| `ListIsFile` | `ListFollowsFile` |
| `OwnId` | `RunsUnderOwnId` |
| `ZeroMeansHelp` | `ZeroOnlyForHelp` |

They assume what the constructors establish. `ParsersAssumption`: the
depth-first walk over the groups comes to each option once, because an option or
group enters the tree in its constructor, in one group (`Group::Add`); an option
has the class and type its constructor gives it, a list starts as a list, a
counter as a number. `ProgramAssumption`: the parser `"program"` is the one
`main` sets up. `FilesAssumption`: a host file is a sequence of words. TLC
evaluates all three for the parsers and files of the run.

The assumptions are not idle: `reordered_delivery` violates `SameOrder` with
reordering, `wraparound` violates `ProposalsGrow` when a counter wraps, and
`id_collision` violates `CompleteWhenDone` when two ids agree.

The argument. Agreement is not inductive: it says nothing of what is still on
hold. `OrderInv` adds, in the order in which they are needed:
`CounterAbove` and `QueueConsistent` (a new number exceeds all held and
delivered ones); `AcksHeld` and `CollectedSeqsHeld` (an acknowledgement in
flight or recorded is the number on hold); hence, when the maximum is chosen,
`FinalHeld` (every process holds the message under a number that is not greater
than the final one, until it has the final one); hence `NeverOvertaken` (what a
process has delivered precedes, under `operator<`, every message it has yet to
deliver: such a message was in the queue under a number that is not greater than
its final one, undeliverable entries come first on ties, and only the head is
delivered); and `Ascending` for what has been delivered. Two processes that
disagreed on two first deliveries would each put one of them strictly before the
other, and `operator<` is asymmetric.

`FifoInv` adds `DataBeforeSeq` and `NoLateData` (a thread sends no data after
its final number, so on an ordered path no data arrives after it), which makes
`NoReproposal` and `DeliverableOnce` inductive. Every delivery is then a first
delivery, and when a process delivers its next message, a process that is ahead
has delivered the same one at that place (`NextDeliveryAgrees`).

`CompleteInv` adds `AckedFinalised` (a process that has acknowledged a final
number has applied it) and `NoHeadLeft` (a server that listens has no
deliverable head). When every sender has returned, all entries of all queues are
deliverable; a queue that is finite and not empty has a least entry under
`operator<`, which would be a deliverable head; so the queues are empty and
everything has been delivered, once. That a finite set has a least element comes
from the library's theorem on well-founded relations.

The refinement. `ChooseFinal` is `Place`, an iteration of the delivery loop is
`Deliver`, and every other step changes neither `Placed` nor `DeliveredKeys`.
That the delivered message is new and settled is what `FifoInv` gives
(`DeliverableOnce`, `NextDeliveryAgrees`).

A client. `ClientInv` ties the depth of the lock to the place in the code
(`holders[t] = Depth(t)`), says that one thread at most is inside, and counts:
requests sent and attempts left add up to the argument (`Counted`), from which
`AckedOrExhausted` follows although the counter of an unlimited call wraps.

A process. `LifeInv` says when all sockets are open (`Opened`), which threads
cannot run (`Joined`: none before the launch or after `JoinAll`, none that
`JoinAll` has passed) and how far the loops are (`Loops`). `SocketInv` counts
the open sockets against the members that hold them, with at most one more.

A datagram. `WireInv` says what travels: a buffer that is the encoding of the
message sent up to the cut (`Datagram`). That a word survives the way from one
byte order to another is the arithmetic of four digits (`Store` after `htonl` is
the big-endian image on every host, `ntohl` after `Load` its inverse), from which
each field of a whole datagram is what was sent, and the type field of any
datagram that has one. A datagram that is cut has another size than its type
requires, and the struct of that smaller size has another type.

The parser. The properties speak of a call that is over, so they say nothing
while one goes on. `ParserInv` says where the call is. `Control` ties the place
in the loop to the variables that matter there. `ChunksTaken`: the chunks taken
are those before the iterator, and the one at the iterator if a bundle in it is
not finished or its flag waits for its value; a chunk has one role, or several
as a flag. `Reports`: each option reports the roles it has so far, where a list
lags by one behind the flag whose value is to come; `ParseCLI` establishes it
anew, whatever the state was, which is why earlier calls do not matter.
`TextsRead`: each value is made of the texts given so far (`MadeOf`), a list of
all, a single value of the last that leaves something; a matched flag without a
text is the one whose value is to come. Here an earlier call does matter, and
`TextsRead` claims the default only for the first.
`Filling`: a positional that is not ready has been matched and is no list.
`HelpThrown`: `Help` comes from a help flag.

main. A step of `main` is one of the parser or leaves the parser alone
(`StartupParses`), so that `ParserInv` holds of the program. `MainInv` adds
`ListSoFar`: the words of the host file are those in the list followed by those
not yet read, each entry made of the word at its place with the default port the
flag gives; `OwnPlace` and `Stages` have the id and the exit code. That an exit
with 0 is a request for help rests on `HelpThrown` and on `help` being the only
help flag of the program.

Only model-checked. Liveness under fairness is out of the prover's reach:
`EventuallyDelivered`, `EveryCallEnds`, `UnwindingEnds`, `SendersFinish`. What
the recursive functions `Walk` and `Matched` compute for every tree would need
induction over the tree: the proofs use of `Walk` what `ParsersAssumption` says,
which TLC evaluates for the trees of the run, and nothing of `Matched`, on which
no property depends but for the exceptions it leads to.

## Not modelled

- The help menu, with `Wrap`, and the formatting of messages, logging and
  exception texts: layout, on which nothing depends.
- `args.h` under `ARGS_NOEXCEPT`, which the build does not define; the setters
  of prefixes, separator and terminator, which nobody calls.
- The lengths of timeouts and backoffs and of the random delay of `-d`. Any
  delay is a thread that does not move for a while.
- The timeout handler of `Listen`, which `TotalOrder` does not pass.
- Lack of memory, and failures inside `std::mutex`.
- Two processes with one address in the list. `clients_` is keyed by address, so
  that they would share a client; the models take the addresses to be distinct.
- A process that restarts. Nothing is persisted, so that it is a new process
  under an old id, which the code does not provide for.
- Duplicates made by the network, apart from the retransmissions of senders.
