# Networking-Framework: TLA+ models, model checking and proofs

This directory holds a verification development of Networking-Framework, a
C++ framework in which network protocols are built by composing "net
accesses": things one can send through and set a receiver on.  The modules
model the framework's own core logic (the receiving queue, the fan-out of
received data, the generation of accesses for packets, the local virtual
network), the protocols, both as filters on a shared medium and as bytes, and
the tools on top of them; the `.cfg` files check them with TLC on small
instances; the `*Proofs` modules prove what matters most with TLAPS for every
value of the constants.  `PROJECT.json` relates definitions to source lines,
properties to hazards, and properties to mutants of the modelled code.

Paths below are relative to the repository (`src/...` and `lib/...` of the
repository are `src/src/...` and `src/lib/...` in `PROJECT.json`).


## 1. The system

### 1.1 Parts, state, operations

| Part | State | Operations | What makes it correct |
|---|---|---|---|
| `circular_queue` (`src/utils/circular_queue.h`) | an array, the index of its first element, a count | push and pop at both ends, front, rear, clear, is_empty, is_full | it is a bounded deque, whatever the position in the array |
| `async_recv_listener` (`src/abstract/receiving/async_recv_listener.h`) | a circular queue, a listener, a stop flag, three mutexes, a condition variable, a worker thread | handle_recv (capture threads), set_recv_listener, remove_listener, the worker's loop, the destructor | accepted data reaches the listener once and in order; a replaced listener is not called; the worker wakes and stops |
| `multi_recv_listener` (`src/abstract/receiving/multi_recv_listener.h`) | a set of listener pointers | add, remove, remove all, handle_recv (calls each of them) | every listener that stays registered is called once; none that left is called |
| `recv_queue` (`src/abstract/receiving/recv_queue.h`) | a circular queue, without a lock | handle_recv (receiving thread); the tool's thread polls, pops and clears | the same, across two threads |
| net accesses (`src/abstract/net_access/`) | a receiving slot, a sending medium | set_recv_access, remove_recv_access, get_send_access; `multi_net_access*` put a `multi_recv_listener` into a slot | what is connected receives, what is disconnected does not |
| `virtual_net` (`lib/linux/virtual_net.*`, the same code under `lib/macos`) | per process: a socket file in a directory, a receiving thread, a receiver; per network: a lock file | connect, disconnect, send_data (broadcast under `flock`), the receiving thread | all see the same order; nothing is lost between nodes that stay; the lock is not left behind; sending ends |
| interfaces (`lib/linux/linux_iface.*`, `lib/macos/macos_iface.*`) | pcap handle, BPF descriptor | capture, raw send | deliver to `async_recv_listener` |
| ptp (`src/protocols/ptp/`) | per packet: a path of actions and a position in it | send along a path, work a path off, reverse it, connect receivers, generate accesses | delivery only at the path's destination; answers travel back |
| ip4, ether2, udp, emp, eap, nsp (`src/protocols/*/`) | filters (source, destination, protocol, each optional) | send, connect_recv, connect_net_access_generator_listener, net_access_single | a packet reaches those it is meant for; an answer the one who asked |
| arp, icmp, dns (`src/protocols/`) and their tools (`src/tools/`) | a request, a timeout, a `recv_queue`; dns: a database (two tries) | request, retry, answer; scan of a subnet | what a tool reports was received; an answer is the database's; a tool ends |
| sniffer, net_analyzer (`src/abstract/sniffer`, `src/tools/net_analyzer`) | handlers on the receiving side | observe, parse, show | what is shown is what was sent |
| firewall (`src/abstract/firewall`) | a rule on a net access | filter | - |
| mains (`src/main/`) | netcat over ether2, ip4 or ptp, dns client and server, ping, arp scanner, ... | set the stacks up | - |
| pure code | - | addresses and their text, subnets, routing tables, headers, checksum, variable-length encoding, dns names, trie | decode after encode, longest prefix, the text shown is the text read |

### 1.2 Interaction

A capture thread (pcap, BPF) or the receiving thread of a `virtual_net` calls
`handle_recv` of what is in the receiving slot.  `async_recv_listener` cuts the
chain of calls once: the capture thread queues, a worker calls on.  From there
on all handlers, filters, generators and application listeners run, nested, in
that one thread, and answers are sent from inside it.  The program's main
thread sets the stack up while the receiving thread is already running, and
sends requests.  Processes meet in the `virtual_net`: a directory with one
socket file for each process, and an `flock`.

### 1.3 What is hard about it

* *Concurrency*: capture threads against worker against destructor
  (`async_recv_listener`), main thread against receiving thread during set-up,
  processes against one another (`virtual_net`).
* *Re-entrancy*: handlers that connect and disconnect receivers in the middle
  of the walk over the receivers that called them (generators).
* *Bounds*: a full queue drops (`async_recv_listener`) or blocks with the
  network's lock held (`virtual_net`).
* *Failure*: a process that ends in the middle of a broadcast, a stale socket
  file, a lock that cannot be had.
* *Time*: replies that are lost, late or doubled, and a queue between two
  threads that no lock protects (the request tools).
* *Bytes*: fields of variable length with an escape byte, lengths that are sent
  and not looked at, padding, byte orders, names that jump, text that is written
  in one form and read in another.
* *Composition*: one receiving slot per access, set by several parties, the
  last one wins.

The repository has no tests.  The hazards are listed in `PROJECT.json`, each at its
line, with the properties that would catch it or the reason there is none.

At this commit several mains (`dns_server`, `dns_client`, the ping main) name a
`net_access_save_send_access` that no header defines; the models read it as
`net_access_override_send`, which has its parameters and whose body fits.


## 2. The modules

Variables and actions carry the source's names.  A definition whose comment
begins with "Mutant:" is not part of a specification: it is the form a
plausible mistake would give the definition that follows, and `PROJECT.json`
says which property notices it.

| Module | Models | Uses |
|---|---|---|
| `BoundedDeque` | what a `circular_queue` promises: a bounded deque | - |
| `CircularQueue` | `circular_queue.h`, every member function | refines `BoundedDeque` |
| `AsyncRecvListener` | `async_recv_listener.h` | its queue is a sequence of at most `BUFF_SZ`, which the refinement justifies |
| `ListenerSet` | the set of a `multi_recv_listener`, ordered by address, and the place of a walk | - |
| `MultiRecvListener` | `multi_recv_listener.h` | `ListenerSet` |
| `PtpGenerator` | ptp's generator of accesses over `multi_net_access_recv_split` | `ListenerSet`, the walk of `MultiRecvListener` |
| `PtpNode` | ptp's paths: work-off, reversal, delivery, answer | a broadcast medium, as `VirtualNet` provides |
| `VirtualNet` | `virtual_net.h`, `virtual_net.cpp` | - |
| `Protocols` | accesses of ether2, ip4, udp, eap, emp and nsp: what each sends, which packets its filter passes, what it generates; routing tables | - |
| `ProtocolStack` | the programs that stack them: netcat, dns client and server, and a generic program for eap, emp and nsp | `Protocols`, a broadcast medium |
| `RequestTools` | arp search and scan, ping, dns_tool, `recv_queue`, at the granularity of shared members | - |
| `Wire` | every header as bytes, checksum, variable-length encoding, subnets | - |
| `Dns` | dns messages, names, database, trie, answering a query | `Wire` |
| `NetAnalyzer` | sniffer and analyzer of frames | `Wire` |
| `AddrText` | addresses and ptp paths as text | - |
| `Exchange` | data down a stack and up another, a dns query and its answer, a scan, the reading of text | `Dns`, `NetAnalyzer`, `AddrText`, `Protocols` |
| `MC*` | the instances for TLC | the module of the same name |
| `WalkProofs` | theorems and proofs about both walks | `MultiRecvListener`, `PtpGenerator` |
| other `*Proofs` | theorems and proofs | the module of the same name |

### CircularQueue and BoundedDeque

`buff`, `base_in` and `count` are the members; `ret` is what the last call
returned, so that the refinement is about results too.  Each member function is
an action.  `Contents` reads the ring off from `base_in`; the refinement mapping
gives it to `BoundedDeque`'s sequence.

### AsyncRecvListener

One action per atomic piece of code between operations on the mutexes and the
condition variable.  `ppc` and `wpc`, of the capture threads and of the worker, are the
positions in the code; `buff_mtx`, `awake_mtx` and `listener_mtx` hold their
owner.  The worker's predicate is two steps (`worker_test_stop`,
`worker_test_queue`) and going to sleep is a third, because the notifying side
does not take the mutex the predicate runs under; a notification that finds no
sleeper does nothing.  `worker_spurious_wakeup` is the library's.  The history
variables (`accepted`, `forwarded`, ...) are what the properties talk about and
no action's outcome depends on them.  The data that is dropped because the queue is full or
there is no listener is dropped in the model where it is in the code.

### MultiRecvListener and PtpGenerator

`handle_recv` makes a copy of the set and then walks over the original.  The
walk is over a tree ordered by address, so that the model orders listeners by
address, and a step of the walk goes to the next larger address *then* in the
set.  The called listener may add, remove or clear.  When it removes itself,
the iterator's element is gone and the continuation is undefined; the model
continues anywhere (`next_from_erased`), and the properties say nothing of walks
in which that happened.

In `PtpGenerator` the walk's listeners are the base filter and the filter of the
last generated access; the generator allocates a filter at any free address,
removes the previous one and adds the new one, inside the walk.  A packet
therefore reaches the new access directly, and the filter of the new access too
when it lies behind the base filter in the set; that the packet is then
delivered twice is visible in `delivered` and is allowed by the properties, as
no comment in the code promises otherwise.  An access that its listener does not
keep is destroyed while its filter stays connected; the use of it is recorded in
`stale`.

### PtpNode

A header is a list of actions and a position.  `StopsAt` is where `handle_packet`
stops working it off at a node, as the least position that does not pass, and
one of the three receiving actions applies: the packet has arrived
(`receive_end`), it is dropped there, because the connection is another node's or
because network switches are not implemented in the code (`receive_drop`), or it
runs past the end of the list, which throws with nothing to catch it
(`receive_throw`: the process ends).  `wire` has a copy of a packet for every node
that has yet to receive it.

### VirtualNet

A node is a process with a main and a receiving thread.  The receiving thread of
an answering node sends its answer before it returns to `recv`, which is what the
servers do.  `todo` is what the `directory_iterator` has still to yield; a file
that appears while it is under way may or may not be yielded.  `sendto` waits
while the receiver's socket queue is full, and its errors (no process behind the
file, own descriptor closed) are skipped.  `disconnect` leaves the receiving
thread detached.  External: `flock`, the socket queue and its length (`QLen`),
and what the kernel does when a process ends (`end_process`).  `owed` is a
history variable: the messages and connected nodes for which a `send_data` is
obliged, as long as both stay.

### Protocols and ProtocolStack

A net access is what it adds to what is sent (`send`, a list of headers, lowest
first) and what it lets through (`recv`, a list of filters); putting a protocol on
top of an access appends to both.  A header here has a source, a destination and a
protocol, each of which a filter may leave open (`Nullopt`).  That makes each
protocol's `connect_recv`, `net_access_single` and generator one definition, and a
program a composition of them, as in the mains.

`ProtocolStack` runs one program at a time on a server and its clients, each of
which dials the server or another client and uses a protocol of its own.  The
server's surface has one slot.  The constructor of `multi_net_access` puts its
`multi_recv_listener` there and `connect_recv` replaces it by the generating
filter; packets may arrive before, between and after.  An access that its listener
keeps joins `multi_recv`, which by then nobody calls: a generated access gets the
packet it was generated for and no other.  (The class comment promises to connect
"a receiver for all ptp packets in which the conditions ... match",
`ip4_protocol.h:26`; for accesses over a `multi_net_access` that is not so.)
`DeliveredOnceAndMeant` shows the other side of it: no packet is delivered twice.
In the dns stack everything goes through a default gateway, a node of its own.

### RequestTools

The ring is the one of `CircularQueue`, with its members read and written one at a
time: `push_back` writes the slot, loads and stores `count`; `pop_front` moves
`base_in`, loads and stores `count`.  The main thread keeps a pointer (`reply`) into
the ring after popping.  A reply is a key, which the tool compares, and a value,
which it is after.  `raced` records that a push overlapped a pop or a clear, and
`filled` that the ring was full or about to be: the properties say what holds
without these, and `FrontWasStored` what does not hold with them.

### Wire, Dns, NetAnalyzer, AddrText

Operators, one per function, on sequences of bytes.  A writer returns the bytes; a
reader returns the header and how many bytes it took.  Byte order is modelled by
what is in the bytes: `htons` gives two of them, and where the code leaves a
conversion out, so does the model.  A text of an address is a sequence of
characters, since the parsers loop over them; everything around it is a word.

### Exchange

A behaviour is one *frame* (a stack of protocols with headers, data and a routing
table: one step per protocol on the way down and up, with the medium between them,
which may pad a short frame), or one *dns* exchange in such frames (the records are
loaded one by one, the server answers, or another server does that compresses
names), or one *scan* of a subnet given as text, or one *text* to be read (with the
options of ping, arp_scanner and dns_client).  What the code does and one might not
expect is in the model and in the properties' statements:

* no protocol looks at a length field; the padding arrives as data;
* the ip4 header loses its flags when it is read, a dns answer half of its ttl;
* a mask that ends inside an octet keeps that octet's low bits instead of the high
  (finding 4);
* an mx answer loses the last character of the domain (`dns_tool.cpp:288`: the value is
  stored without the terminator that `encode_dns_name` takes its last character for),
  although `docs/tools_and_main.md:28-38` describes records as `<type> <key> <value>`
  with MX supported.  `AnswersMatchDatabase` says nothing of that domain;
* emp, nsp and eap put a message together in 4096 bytes on the stack, ptp in 65536,
  and `dns_server` writes its reply into 4096, none with a look at the length.  A longer
  message ends the behaviour in `overrun` (`send_overruns`, `serve_overruns`), as
  nothing can be said of what follows.  (The 65536 bytes of `dns_protocol::send` are
  not reached by a query.)  A receiver of the virtual net takes 4096 bytes of a frame
  and loses the rest; such a frame ends in `cut` (`recv_truncates`);
* `add_word` returns a null pointer for an empty word, through which `add_record` would
  write.  The names are read with `operator>>`, which reads none that is empty, and
  `RecordsAssumption` says so;
* of arp addresses the analyzer reads four and six octets, whatever lengths the header
  gives.  `AnalyzerShowsTheSender` is about arp headers with these lengths;
* the numbers in the start of authority, behind the serial number, are bytes from
  elsewhere on the stack, or the copying throws and ends the server
  (`serve_terminates`);
* numbers above 255 in an ip4 address count modulo 256; of a mac address with both
  separators octets are lost and others read twice;
* an octet below 16 is written with one digit and cannot be read back; addresses of
  eap, ports of emp, ids of nsp and ptp net ids cannot be read at all, since the loop
  does not move past an octet: it stops at a character that is no dot, or where
  memory ends (`MaxOctets`).  All these texts are in the instance, with what they show
  and not with what is read; `TextReadAsShown` is about the others (`InForm`);
* ping's interval and arp_scanner's delay option end the process.


## 3. The runs

The runs take between a second and three minutes.

| Run | Checks | Shows |
|---|---|---|
| `circular_queue` | `TypeOK`, `ImplementsDeque` | every call from every position of a three-slot ring does what a deque does |
| `async_recv` | `TypeOK`, `NothingLostOrReordered`, `CalledListenerIsCurrent`, `WokenForData`, `AtMostOneAfterStop`, `AwakeWorkerDrains`, `HandleRecvReturns`, `WorkerStops` | two capture threads, the worker, two listeners and the destructor, all interleavings; and what does eventually happen in spite of the lost wakeup: a worker that is up drains the queue and stops, and `handle_recv` returns |
| `async_recv_lost_wakeup` | `AcceptedIsForwarded` - **violated** | finding 1 |
| `walk` | `EachCalledOnce`, `RemovedIsNotCalled`, `EndpointIsServed`, `OnlyNewestTwoAreServed`, `TwoFiltersAtMost` | walking the live set is right for all changes but a listener's removal of itself; where the walk generates ptp accesses, every packet that has come to its end gets one, none older than the one before gets it too, and the set stays at two filters |
| `ptp_node` | `DeliveredAtDestination`, `TerminatedByEndlessPath`, `RoundTrip` | packets on proper and improper paths among two clients and a server |
| `virtual_net` | `SameOrder`, `RequestBeforeReply`, `NothingLost`, `ReturnsOrBlocked` | two clients, one of which answers too, and an answering server that join, leave, end, fail to lock; senders come to rest or are blocked as in finding 2, and in no other way |
| `virtual_net_blocked` | `SentToAll` - **violated** | finding 2 |
| `protocol_stack` | `OwnAnswersInOrder`, `DeliveredOnceAndMeant`, `LateIsDelivered`, `AnswerArrives` | six programs, packets arriving during the set-up |
| `request_tools` | `ResultWasReceived`, `QueueKept`, `NothingOverlooked`, `FreshReply`, `ToolFinishes` | four tools, two threads, a lossy network |
| `recv_queue_race` | `FrontWasStored` - **violated** | finding 3 |
| `exchange` | `FrameKept`, `ChecksumVerifies`, `RoutedByLongestPrefix`, `AnalyzerShowsTheSender`, `AnswersMatchDatabase`, `CompressedAnswersRead`, `ScanAsksSubnet`, `ScanEnds`, `TextReadAsShown` | the bytes of every protocol end to end, dns, scans, text |
| `exchange_subnet` | `EverySubnetIsScanned` - **violated** | finding 4 |

`TypeOK` is a checked property where it says something that could go wrong, the
bounds of the rings; in the other modules it documents the variables.

### Findings

1. **A wakeup is lost** (`async_recv_listener.h:80`).  `handle_recv` notifies
   under `buff_mtx`, the worker waits with `awake_mtx`.  A notification between the
   worker's test of the queue and its blocking reaches no one, and the packet lies
   in the queue until another one comes.  Likewise a `notify_all` of the destructor
   can be missed; then the detached worker never ends.  `WorkerStops` is therefore
   stated for a worker that is awake after the flag was set.
2. **The network can block for good** (`lib/linux/virtual_net.h:105`).  `send_data`
   does a blocking `sendto` with the lock held.  If the receiver's queue is full and
   its receiving thread is about to answer, the one waits for room and the other
   for the lock, and everybody else for the lock too.
3. **A reply is stored where nobody looks** (`recv_queue.h:17`).  The receiving thread
   pushes into the tools' queue while the main thread pops, without a lock.  Between
   the two assignments of `pop_front` the end of the ring is one slot too far; a push
   there is lost and `front` later points to a slot in which nothing was stored, from
   which the arp tools then read an address through a null pointer.
4. **A scan asks for other addresses than the subnet's** (`ip4_addr.cpp:111`).  In the
   octet in which a mask ends, `smallest_ip_addr_in_subnet` and `is_inside_subnet` take
   the lowest bits, where a network has the highest (`ip4_addr.h:40`: "the number of bits
   corresponding to the network mask").  A scan of 10.0.7.255/29 asks for 10.0.7.31 and
   ends, while `arp_scanner.cpp:106` says "scan all ip addresses in a subnet" and
   `docs/tools_and_main.md:67` "scan entire subnets".  `ScanAsksSubnet` says the same of
   masks of whole octets, where it holds.

### Bounds, and why they are enough

* `circular_queue`: three slots have a first, an inner and a last position, and
  both wrap-arounds; two values tell positions apart.  The proofs cover all sizes.
* `async_recv`: two capture threads are the least that contend; a queue of two is
  empty, neither, or full; three calls of `handle_recv` fill it and overflow it, and
  a fourth finds what an overflow has left behind.
  The safety part is proved for all values.
* `walk`: four addresses let a listener be added before,
  behind and between those there are; four packets let an access outlive two
  successors.
* `ptp_node`: one-hop paths, a path with two hops, one with a switch, one with two
  ends, one without a start and one without an end; two packets interleave.
* `virtual_net`: two clients contend for the lock, the server for it with both; a
  queue of one is full with the first message.  Every node hears two others, so that
  there are pairs of messages that two nodes hear.  One request each, more take the
  temporal check beyond minutes; but one of the clients answers too, so that a sender
  already meets the full queue of a node that waits for the lock, and `Blocked` is
  reached.  `virtual_net_blocked` needs three requests of one client.
* `protocol_stack`: two packets, which can be two of one client or of two; the cases
  are in the clients (two of the server, one of another protocol, two that dial one
  another) and in the programs.  The safety part is proved for all clients.
* `request_tools`: a ring of three wraps and fills; two rounds of ping let a late reply
  cross into the next; a subnet of two addresses has one that is skipped and one that
  is announced by somebody else as well.  An answer is duplicated once.
* `exchange`: the frames have each protocol, the escape byte first, last and doubled in
  fields of variable length, and empty ones, data of odd and even length, carries
  in the checksum (255s), short frames (`MinFrame`, the 60 bytes of Ethernet) and tables with nested, equal and
  missing prefixes; the record files have names that begin one another and
  duplicates; the subnets have masks of whole octets and others, and the last
  addresses of all; the texts are the programs' own output for addresses of all
  kinds and texts with one thing wrong.  One frame each is the longest that the virtual
  net's receivers take, one byte longer, and one byte too long for emp's buffer; a question
  of 140 names has a reply too long for the server's.  Frames, tables, subnets and record files are
  proved for all values; the dns messages and the texts are not.

`CHECK_DEADLOCK FALSE` is set where the bounded number of calls, packets or
requests ends, after which nothing is left to do.

### Fairness

Weak fairness of the steps of running threads: of the worker and of
`handle_recv` once called (`AsyncRecvListener`), of the threads in `send_data` and
the receiving threads taken together (`VirtualNet`: one weak fairness condition for
all of them, which is less than the scheduler gives and enough as the number of
requests is bounded), of the receiving nodes and the gateway (`PtpNode`,
`ProtocolStack`), of the only thread (`Exchange`).  The code never stops a thread at
these places except for the locks and queues in the model, and the operating system
schedules runnable threads.  `RequestTools` also assumes a fair network, strongly:
a request that is sent again and again is answered, and an answer that is on its
way again and again arrives; without it no tool ends, as the code resends without
limit.  Nothing obliges packets to come, listeners to be set, processes to connect
or to end, spurious wakeups or failures to happen.


## 4. The proofs

| Theorem | For all | Statement |
|---|---|---|
| `CircularQueueProofs!TypeCorrect` | sizes, element types | indices stay in range |
| `CircularQueueProofs!Refinement` | sizes, element types | `Spec => ImplementsDeque` |
| `AsyncRecvListenerProofs!TypeCorrect`, `NoLoss`, `NoStaleCall`, `WokenWithData`, `StopBound` | threads, listeners, capacities, numbers of calls | the five invariants of the run `async_recv`, its temporal properties left out |
| `WalkProofs!WalkTypeCorrect`, `WalkCallsEachOnce`, `OnlyRegisteredAreCalled` | sets of addresses, changes during the walk | `WalkTypeOK`, `EachCalledOnce`, `RemovedIsNotCalled` |
| `PtpNodeProofs!NoMisdelivery`, `EndedByEndlessPath` | addresses, paths, numbers of packets | `DeliveredAtDestination`, `TerminatedByEndlessPath` |
| `PtpNodeProofs!ProperPathsAreSafe` | the same | while all paths run from a start to an end, no process ends |
| `PtpNodeProofs!ReverseTwice`, `ReverseOneHop` | paths, addresses | reversing twice is the identity; the reverse of a one-hop path is the path back |
| `WalkProofs!TypeCorrect`, `NoFilterLeftBehind`, `EndpointsAreServed`, `OlderAreDisconnected` | addresses of the filters, numbers of packets, kept accesses | `TypeOK`, `TwoFiltersAtMost`, `EndpointIsServed`, `OnlyNewestTwoAreServed` |
| `VirtualNetProofs!TypeCorrect`, `NothingIsLost`, `OneOrder`, `RequestComesFirst`, `ReachedOnce` | nodes, who asks and answers, queue lengths, numbers of requests, with and without ending processes and failing locks | `TypeOK`, `NothingLost`, `SameOrder`, `RequestBeforeReply`, and `HeardOnce`: no node hears a message twice, or one of its own |
| `ProtocolStackProofs!TypeCorrect`, `DeliveredOnce`, `OwnAnswers` | clients, whom they dial, protocols, numbers of packets, all six programs | `TypeOK`, `DeliveredOnceAndMeant`, `OwnAnswersInOrder` |
| `RequestToolsProofs!TypeCorrect`, `ResultsWereReceived`, `QueueIsKept`, `RepliesAreFresh`, `NoReplyOverlooked` | sizes of the ring, subnets, rounds, unasked replies, all four tools | `TypeOK`, `ResultWasReceived`, `QueueKept`, `FreshReply`, `NothingOverlooked` |
| `ExchangeProofs!HeadersAndDataArrive` | stacks of the nine protocols, headers, data, routing tables, paddings | `FrameKept`, of what the fixed buffers hold |
| `ExchangeProofs!ChecksumsVerify` | the same | `ChecksumVerifies`, of data that fit a datagram, as those of every frame do |
| `ExchangeProofs!LongestPrefixRouted`, `FindsClosest` | tables, packets; for `FindsClosest` any set of rules that fit | `RoutedByLongestPrefix`; what the loop of `impl_find_route` finds |
| `ExchangeProofs!AnalyzerShowsFrames`, `AnalyzerShowsWhatFits` | as for `HeadersAndDataArrive` | `AnalyzerShowsTheSender`, of frames; and of a dns exchange whose messages fit a datagram |
| `ExchangeProofs!ScanOfSubnet` | texts of addresses and masks of whole octets, addresses to skip | `ScanAsksSubnet` |
| `ExchangeProofs!DatabaseIsLoaded` | files of records | `DatabaseFinds`: a name is found if and only if a record of it is loaded, and what is found is the last of them |

With these every invariant that a run checks is a theorem, except three of
`exchange`: `AnswersMatchDatabase`, `CompressedAnswersRead` and `TextReadAsShown`.

**CircularQueue.**  The only assumption is a positive size.  `TypeOK` is
inductive.  For the refinement, facts about the ring's arithmetic come first
(`WrapOnce`, `RingIndex`, `RingDistinct`: distinct positions are distinct slots;
`RingShift`, `RingBack`: what moving the base by one does), then one lemma for
each operation on the contents (`RingPushBack` ...), and `StepRefines` has one case
for each action.

**AsyncRecvListener.**  The five properties are not inductive.  What makes them so
is `LocksMatchPcs` (a thread holds exactly the mutexes its position in the code
says) and `ReadsAreCurrent` (what the worker read under a mutex still is what it
read, for as long as it holds that mutex): a worker past its test finds data
*because* nobody else pops and it holds the mutex; the listener it calls is the
current one *because* `set_recv_listener` needs the mutex it holds.  `LockStep`
proves that part inductive alone, `InvStep` the rest on top.  `NoLoss` is about
concatenations of sequences: forwarded, in hand, queued.

**MultiRecvListener.**  The addresses of listeners are positive numbers.  The
invariant `WalkInv` says that the walk's calls ascend (`Ascending`), that it stands on
the last one called, which is registered (`StandsOnLast`), that whoever of those
registered all the while is not beyond it has been called (`PassedIsCalled`), and
that these are still registered (`StillRegistered`): all but the last only while no
listener has removed itself.  `SuccessorIsNext` is what the tree's order gives: the next
element has none between it and the last.

**PtpNode.**  `WireStartsAtOne`: every packet on the wire is at the position after
its first action.  Delivery is at the least position that does not pass
(`StopsAtLeast`, by the least-number principle on the naturals), so that everything before it passed, that is,
ended at the node.

For the ended processes, `EndInv` follows the paths: a path on the wire was
started by someone or is the reverse of one that was, so that one which runs past
its end at a node is as `TerminatedByEndlessPath` says.  That a path from a start
to an end does not, nor its reverse, is arithmetic on the last position.

**PtpGenerator.**  Assumed: addresses are positive numbers, for the walk's order.
`GenInv` adds to the three properties that the walk stands on a registered filter
(`WalkOnListener`) and that the access of the filter `curr` is the newest
(`NewestIsCurrent`).  The second is what makes `OnlyNewestTwoAreServed` inductive:
the walk can only reach the base filter or `curr`, so that what is served is the
newest access before or after the packet's own was generated.  For `EndpointIsServed`
the base filter stays registered, and as long as a packet that has come to its end has
no access the walk has not passed it (`ServedOrAhead`): removing the old filter and
adding the new one, on whichever side, never lets the walk jump over the base filter.

**VirtualNet.**  Assumed: `Free` is no thread, `NoMsg` no message, the queues have
room for one.  `NetInv` says that the holder of the `flock` is the one thread that is
sending (`LockInv`), what a thread's message may be (`MsgInv`), that no message is
sent a second time (`UsedInv`: one that somebody has heard is not one that waits for
the lock), and that what is owed is owed between connected nodes (`OwedInv`), from
which `NothingLost` is inductive: an entry leaves `todo` by being sent, or with the
connection.  For the order, `OrderInv` asserts a numbering of the messages in which
every node's sequence ascends; the message being sent has the highest number, and
taking the lock extends the numbering by one.  `SameOrder` follows, since in any set
of messages one has the least number; `RequestBeforeReply`, because an answer is
made of a request that was taken before; `HeardOnce`, because the numbers ascend.

**RequestTools.**  Assumed: a positive ring and number of rounds, and that messages
are pairs.  The threads share the members without a lock, and `ToolInv` says what
still holds: the value one thread is about to store in `count` is on the safe side of
`count` (`RegisterInv`), and the tool reads the slot before `base_in` (`ReadInv`).
Under "no overlap so far", `RingInv` relates the slots stored in to `base_in`,
`count` and the positions of both threads in the code: a push counts from its write
on, a pop from its first assignment on.  `QueueKept` is that at rest.  `FreshInv`
says that since ping's last `clear` only messages of the round were stored, and
`LookInv` that every reply received was looked at or waits, in the ring, in the
receiving thread or in the popped slot.  `ResultWasReceived` needs no absence of
overlaps, only that the ring has not filled up: a slot just popped is overwritten
only by a push that has gone all the way round.

**ProtocolStack.**  Assumed: addresses and protocols differ from `nullopt` and the
server, the gateway and the clients from one another.  First come tables of what the
stacks do, derived from the filters and accesses of `Protocols`: what each client and
the server send (`ClientAccess`, `AccessTable`), which of these come through the
generators (`GeneratesTable`), and who hears them (`HearsTable`).  The invariant
`StackInv` says that every frame in a queue is a packet of a client or an answer to
one, as sent or as the gateway passed it on (`FrameInv`); that the slot leads to the
`multi_recv_listener` only while that is empty (`SlotInv`), which is why a kept access
never gets a second packet; and, for the order, `OrderInv`: the packets of a client
are at six stages, from the gateway to the answers handed to it, and an earlier
packet is at a nearer stage or further in front in the same one.  Three lemmas on
stages in general (`OrderShift`, `OrderMove`, `OrderAdd`) cover dropping, moving the
head of a stage and sending; each action is shown to be an instance of them.  That a
packet is delivered once and answers come in order is read off from the stages.

**Exchange.**  Assumed, with typing predicates on the constants that are no more
than the widths of the C++ types: headers have the fields of their structs, an
`IsStack` has ether2 lowest with the type of what is above it, and arp, icmp and udp
highest, as in every main; a table's rules are those of the protocol that looks them
up, with ip4 masks of at most 32 bits, and a path is at one of its actions
(`FramesAssumption`); what a frame carries fits a datagram (65507 bytes, the most
udp's length field and ip4's `total_len` allow); records are of the two types the
server has databases for, with names that are not empty (`RecordsAssumption`); a subnet's text is numbers
(`SubnetsAssumption`).  TLC evaluates them on the run's instance.  Masks that end
within an octet stay in the model, and `RoutedByLongestPrefix` speaks of tables
without them (`WholeOctets`), `ScanAsksSubnet` of scans without them (`OctetMask`),
because there the code compares the low bits of an octet instead of the high.

The functions of `Wire` follow by recursion over bytes or positions.  The library's
induction theorems cannot be instantiated, so the module derives induction for *sets*
of numbers from well-foundedness of `<` (`Induction`: a set with 0 and every
successor is `Nat`) and states each induction as the set of the numbers at which a
formula holds; `Recursion` and `Determined` give that a recursive function exists
and is the only one, which the `CHOOSE` behind `f[n \in S] == ...` needs.  From
these:

* *bytes*: where a piece is in joined pieces (`At` and its lemmas), and that the
  reader of each header finds each field where the writer put it, whatever follows
  (`Ether2Travels` to `PtpTravels`).  The escaped fields are a run of a
  three-state machine over the bytes (`Decoding`): after an encoded byte it is where
  it was, and only the terminator ends it, so that any bytes, zeros too, are read
  back, and an empty field is empty.  A ptp path is read action by action.
* *sums*: the sum of the 16-bit words of a message (`MaxMessage` bytes at most) folds to a
  word in two turns, and with that word's complement among the words it folds to
  65535 (`PatchedVerifies`): for odd lengths too, and with any number of zeros behind.
  That is where the length of the data comes in, and why a checksum over padding
  verifies although no length was looked at.
* *the journey*: `FrameKept` speaks of its end only.  The inductive invariant
  `TripInv` says that there is a chain `W` of what the upper *j* protocols have made
  of the data (`Chain`), of which the bytes on the way down are the last one made, and
  on the way up the one not yet read, with the padding behind it (`Taken`), while
  every header taken off is the one sent (`Kept`).  With the chain, one lemma for
  each protocol (`Ether2Layer` ...: what it sends, it reads) makes a step up or down
  preserve it, and the routing, the checksums and the analyzer's lines are read off
  from the link of the chain they look at.
* *routing*: `FindsClosest` is the loop's invariant; that a mask fits is a prefix
  is `is_inside_subnet` octet by octet.
* *the scan*: for every mask, `Scanned` says that what was requested are the addresses of the subnet
  below `curr_ip`, and the successor of an address in the subnet is the one
  `generate_next_ip` computes, or the first beyond it (`NextIp`, with its carries).  The
  subnet here is the one the code's comparisons define (`SubnetOf`); that it is the one
  the text shows holds of masks of whole octets (`SubnetAsShown`).
* *the database*: `LoadInv` pairs each word of a trie with the last record loaded
  for it; `WordAdded` says what adding a word to a trie leaves as it was: every
  other word, even where it begins the new one or is begun by it.

On the way the models were made unambiguous in two places: `CASE` arms that
overlapped (TLC takes the first, TLA+ any) are `IF`s, and a table is looked up only
by the protocol whose rules it has.

**Only model-checked**:

* liveness (the provers have neither fairness nor `ENABLED`), that is
  `AwakeWorkerDrains`, `HandleRecvReturns`, `WorkerStops`, `RoundTrip`, `ReturnsOrBlocked`,
  `LateIsDelivered`, `AnswerArrives`, `ToolFinishes` and `ScanEnds`;
* `AnswersMatchDatabase` and `CompressedAnswersRead`: a name is read by following
  jumps, and over arbitrary bytes that recursion is not well-founded (a name may jump
  to itself, as it may in the code), so that the function it defines need not exist
  and nothing follows about what it returns.  TLC evaluates it on messages where it
  ends.  What the answers are looked up in is proved (`DatabaseIsLoaded`);
* `TextReadAsShown`: what a text means is given with the text in the instance, so
  that there is nothing to prove for all texts;
* of `ChecksumVerifies` and `AnalyzerShowsTheSender`, dns messages beyond the length of a
  datagram, which the model does not bound and the code could not send.


## 5. What is not modelled

* Undefined behaviour beyond the erased iterator: the torn read of a
  `shared_ptr` that another thread assigns, the race on the tree of
  `multi_recv_listener`, the use of a destroyed `async_recv_listener` by its
  detached worker.  They are in the list of hazards with this reason.
* Listeners that call back into the `async_recv_listener` that calls them: no
  listener of the repository does.  The descriptor a failed `flock` leaves open.
* Opening interfaces (pcap, BPF, raw sockets), printing, the layout of the
  analyzer's lines, the reading of files and of standard input: input and output.
* Time: a timeout is a step that may happen whenever the queue is empty; a time that
  ping prints has no counterpart.
* Malformed packets: headers that end early are read outside their buffer, a
  compressed name that jumps to itself loops for ever, a name with a character above
  127 indexes the trie outside its children.  The frames and messages of the
  instances are those the programs and a compressing dns server send.
* The byte behind an address: with a mask of /32 the code reads it, masked with 0,
  and `smallest_ip_addr_in_subnet` sets it to 0.  The results do not depend on it,
  what else may be stored there is not modelled.  Scans of /0, which do not end.
* `firewall.h`, `multi_send_medium.h`, `multiplexer.h`, `msg_boundary`, tcp, sessions,
  `src/tools/{vpn,onion_network,proxy,traceroute,bandwidth}`, `src/direct_connections`,
  `src/protocol_stacks`: not built at this commit, and most of them against
  interfaces that no longer exist.  `trie::remove_word` calls a function that does
  not exist.
* `arp_spoofer`.


## 6. Plan

What is left:

1. `VirtualNet` as an implementation of an abstract totally ordered broadcast, which
   `PtpNode` and `ProtocolStack` would then take instead of their own medium; the
   numbering of `OrderInv` is the refinement mapping's history.
2. Action properties: that no step takes back what was delivered or handed over.
3. A reading of names with a bound on the jumps, shown to agree with the code's on
   the messages the server writes, from which `AnswersMatchDatabase` could be proved.
