# A TLA+ model of the Substance Connector

The connector core (`src/core`) is a C library that connects applications of one
machine over TCP or UNIX sockets. It keeps a table of 32 *contexts* (sockets), a
pool of *read threads* that poll them, a pool of *write threads* that send
messages, and a pool of *dispatch threads* that call the application's
*trampolines*. Applications call it from any thread. Processes find each other
through a directory of files named after TCP ports. On top of the core sit a C++
framework (`src/module-cpp`), Qt wrappers (`src/module-qt`) and a Python module
(`src/module-python`), which register applications by message type and exchange
JSON documents. Nearly all of what can go wrong in this system is a matter of
interleaving, so that is what the modules model.

## 1. Inventory

| component (source under `src/core/src`) | state | operations | works with | hard part | what makes it correct |
|---|---|---|---|---|---|
| integer queue (`details/uint_queue.c`) | three indices, array | push, pop, create, destroy | free contexts, available queue | lock-free, index read and slot store are separate | a bounded FIFO; no slot overwritten; spinning ends |
| available queue (`details/available_queue.c`) | one integer queue | push, pop with retries | context table to read threads | a pop may answer empty too early | no context lost |
| locked queue, message queues (`details/locked_queue.c`, `message_queue.c`) | linked list, lock | enqueue, dequeue, clear, init | senders to write threads, readers to dispatchers | dangling end pointer after a clear, init forgets what is on the list | FIFO; a leak or a use of a freed node only if a sender comes after the clear |
| write threads (`details/threadimpl/write_threads.c`) | flag, condition | routine, flag, shutdown | outbound queue | lost signals, broadcast before wait | each message sent or freed once and within its session; join ends |
| dispatch threads (`details/dispatch.c`) | code, condition | routine, flag, init, terminate | inbound queue, trampolines | the same, plus a start-up spin | each message delivered or freed once; start and join end |
| read threads (`details/threadimpl/read*.c`) | contexts per thread, flag | await, acquire, poll, events, clean-up, exit | context table, available queue | a context is owned by one thread and marked by others; the free queue is destroyed under the threads | one owner per context; closes take effect; sockets closed at exit; join ends |
| context table (`details/context_queue.c`) | 32 structs, free queue | open, connect, accept, close, handshake bit, return | everything | plain read-modify-writes of one word by several threads | a live context is not handed out again |
| external API (`external_api.c`, `details/state.c`) | module state | init, shutdown, set_allocators, guarded calls | all subsystems | exchanges with gaps between them | one manager; state tells what is up; a failed init changes nothing more |
| allocators, configuration (`details/memory.c`, `configuration.c`) | two function pointers, a name | set, clear | init, shutdown | blocks outlive the allocator | blocks freed by their allocator |
| trampolines (`details/callbacks.c`) | singly linked list | add, remove, notify | dispatch and read threads | unlocked list | a walk never touches a freed node |
| handshake (`details/internal_messages.c`, `disconnect_message.c`) | names of peers in the contexts | callback, answer, closed notification | dispatch, write and read threads, contexts | messages outlive the connection they came over, contexts are reused | each handshake told once; a close is told, and before the next connection |
| framing (`details/network/readwriteutils.c`, `message.c`) | none | read, send | sockets | partial reads and writes, end of file | messages arrive whole or not at all |
| automatic connection, port directory (`details/network/autoconnect.c`, `openconnectionimpl.c`, `details/system/*.c`, `details/connection*.c`) | port files, ports held by contexts | open, broadcast, connect, remove, close | file system, other processes | files of dead processes, ports that change owner, test before use | every live port has its file and is reached; none twice, none of one's own |
| threads, atomics (`details/thread_*.c`, headers) | - | lock, wait, signal, exchange | all | Windows waits time out after 65 s, POSIX waits do not | - |
| C++ framework (`src/module-cpp`) | startup state, applications, features, callback map | register, init, shutdown, trampoline | core, program threads, dispatch threads | dispatch threads look at no lock and no state | callbacks of this session only; what is announced is what is registered |
| Qt wrappers (`src/module-qt`) | one static instance per class | initialise, shutdown, callbacks | C++ framework | instance loaded twice, objects destroyed while registered | a callback never emits on a destroyed object |
| schemas and features (`src/module-cpp/src/framework/schemas`, `features`, Python `features`) | optional fields | serialise, deserialise, send, receive | the two languages | objects used again, reading that stops half way, names that differ | the answer is about the asset asked for; what is written can be read |
| Python life cycle, bindings, command line client (`src/module-python`, `src/core/bindings`, `src/cli`) | state, applications | wrappers | external API | interpreter lock | - |

### How they interact

A caller of `write_message` enqueues on the outbound queue and signals
`outbound_condition`; a write thread dequeues and writes to the context's socket.
A read thread reads from the sockets of its contexts, enqueues on the inbound
queue and signals `dispatch_condition`; a dispatch thread dequeues and calls the
trampolines, or, for an internal message, the handshake handler, which enqueues
an outbound answer. `open`, `connect` and `accept` take a context from the free
queue and push it on the available queue, from which a read thread takes it; that
thread owns it until a close (by the application or by a hang-up) is noticed in
its clean-up, where the socket is closed, the struct cleared and the identifier
pushed on the free queue. `init` and `shutdown` bring the subsystems up and down.

A read thread that takes a connected context writes a handshake to the peer. The
peer's dispatch thread queues an answer and stores the name of the sender in its
context; the answer, a message like any other, tells the trampolines that the
connection is established; the clean-up tells them that it is closed. The
framework's trampoline looks the message type up in its callback map and calls
the callbacks of the application that is bound, which for Qt kinds emit a signal
on the static instance of the wrapper. The system application answers an
established connection with name and features.

## 2. Modules

| module | models | state and actions |
|---|---|---|
| `Fifo` | what the integer queue promises | a sequence of at most `Capacity` elements and the call each thread is in; `Enqueue`, `Dequeue`, `Refuse`, `Return` |
| `UintQueue` | `uint_queue.c` | the three indices, the array and each thread's locals; one action per shared access of push and pop |
| `LockedQueue` | `locked_queue.c` and the lists' life in `message_queue.c` | the list node by node with `next`, `front`, `end` and the set of allocated nodes; `Enqueue`, `Dequeue`, `ClearBegin/Node/End`, `Reinit`. The lock makes enqueue and dequeue one step each; nothing asks whether the list was cleared, so a late sender enqueues there too |
| `QueueProofs` | - | theorems about `UintQueue` and `LockedQueue` |
| `WriteThreads` | `write_threads.c`, `write_message` and `broadcast` of `external_api.c`, the outbound queue | outbound queue, lock, condition (the set of waiting threads), flag, each writer's point and message; senders, which check the module state one step before they enqueue; the shutdown and the next init, which forgets what a late sender left |
| `WriteThreadsProofs` | - | theorems about `WriteThreads` |
| `Dispatch` | `dispatch.c` and the inbound queue | inbound queue, waiting threads, code, `initialized` flags, each dispatcher's point and message; readers; init and terminate |
| `DispatchProofs` | - | theorems about `Dispatch` |
| `ContextQueue` | `context_queue.c`, application side, and the two integer queues as sequences | configuration word of each context (connection state, SHUTDOWN, HANDSHAKE_SENT), open sockets, free and available queues, which of them exist, the contexts lost with them; `AppCheck`, `Open*`, `Connect*`, `CloseRead`, `CloseStore`, the destruction of each queue |
| `ReadThreads` (extends `ContextQueue`) | `read_threads.c`, `readthreadimpl.c`, `readstructimpl.c`, the reader's side of `context_queue.c` | assigned contexts, loop index, poll results, saved word, lock holder, waiting threads, flag; the peers' events; shutdown, which destroys the free queue before it flags and joins the threads; a pop from the destroyed queue (`PopWithoutQueue`) ends the process |
| `ReadThreadsProofs` | - | theorems about `ReadThreads` and `ContextQueue` |
| `Lifecycle` | `external_api.c`, `state.c`, the allocators and the application name | module state, set of subsystems that are up, each caller's point and stage |
| `LifecycleProofs` | - | theorems about `Lifecycle` |
| `Handshake` | `internal_messages.c`, `disconnect_message.c`, the handshake and clean-up parts of `context_queue.c`, the way of a message through reader, dispatcher and writer | per context its connection, the stored name and the stage of the clean-up; both queues; both directions of every connection; what the trampolines were told. A peer greets, queues an answer, writes it on that or on a later connection or drops it, and hangs up |
| `HandshakeProofs` | - | theorems about `Handshake` |
| `Autoconnect` | `autoconnect.c`, `openconnectionimpl.c`, `connectiondirectory.c`, `fileutils.c`, the socket calls of `connection_unix.c` and `connection.c`, the ports and strings in the context table | several processes, each with an application thread and a read thread; the shared directory, who is bound to which port, backlogs, context tables; opening, listing, filtering, connecting, removing, accepting, closing, hanging up and noticing it; processes crash and start again |
| `AutoconnectProofs` | - | theorems about `Autoconnect` |
| `Framework` | `core.cpp`, `application.cpp`, `system.cpp`, `details/callbacks.cpp` of the C++ framework, the wrappers of `module-qt` | startup state, applications, features, callback map, Qt instances, whether the core is up; threads of the program in register, init, shutdown, initialise and destroy; dispatch threads between lookup, copy, call and emit |
| `Schemas` | `sendmeshschema.cpp`, `sendtoschema.cpp`, `features/sendmesh.cpp` of C++, `features/meshimport.py` of Python | an exporter and an importer, the document on the wire, the objects read into; documents are functions from keys to values. The Python importer reads the request, answers, and takes a parcel (`PySendAsset`) |
| `FrameworkProofs` | - | theorems about `Framework` and `Schemas` |
| `MC*` | - | instances for TLC |

Operators whose name has a suffix after an underscore (`IsFull_NoModulo`) are
plausible wrong versions of the definition before the underscore. Nothing uses
them; each is there to show that some property would notice that mistake.

### Abstractions

* Messages are pairs (sender, number); contents, identifiers and names are left
  out. Sockets are a set of contexts and, per context, what a poll would report.
* The atomic exchanges and the plain accesses of shared words are taken to be
  sequentially consistent. A plain read-modify-write of a word that two threads
  write (`configuration |= ...`) is two steps where the other thread can tell
  (`AcquireHandshake`/`HandshakeMark`, `CloseRead`/`CloseStore`).
* Mutexes are variables where somebody does something visible while holding one
  (`outbound_lock` in `WriteThreads`, `inbound_lock` in `ReadThreads`), and left
  out where each critical section is one step (`dispatch_lock`, the queue locks).
* `ContextQueue` uses the queues as sequences, which is what `FifoSpec` shows of
  `UintQueue`, and assumes that a push is not refused. `UintQueue` shows that a
  push can be refused with room left (section 5).
* In `Handshake` the application names and message contents are the number of the
  connection they came over, which is what the properties compare. The read
  threads are one actor per context: `ReadThreads` shows that a context has one
  owner. A peer runs the same program. Of it the model keeps what reaches this side: a
  greeting per connection, and an answer that its writer sends on the connection then
  in the context (`context_queue.c:334-337`), so on this or on any later one, or drops.
* In `Autoconnect` a file is the port it is named after. A connection is recorded in the
  context of each end with whether the other end is gone; which accepted context belongs
  to which connecting one is not tracked, so a hang-up may reach any of them. Running out
  of contexts is left to `ReadThreads`; the two places where the code runs into undefined
  behaviour (a default UNIX path that is NULL, a file list without a sentinel) end
  the process.
* In `Framework` all message types of a class of applications are one kind, since
  they are bound and unbound together. The core is up or down: what happens inside
  is `Lifecycle`, and that a shut down core has joined its dispatch threads is
  `QuietAfterJoin` of `Dispatch`. An application destroyed while the framework still has
  it is taken to hold in its freed memory what it held.
* In `Schemas` one message is on its way at a time. A value of an enumeration is its
  position in the table of names, and C++ and Python have each their table. The exporter
  is a C++ program; a Python importer that gets a parcel keeps the old one where
  `from_string` raises (`meshimport.py:205`).
* Waits may end spuriously at any time. They end *eventually* only where the
  platform has a time-out: `thread_windows.c` waits 0xffff ms, `thread_unix.c`
  waits without limit. This is the constant `TimedWait` of `WriteThreads` and
  the variable `timed`, fixed by the initial state, of `Dispatch`.

## 3. Runs

Eleven runs pass and one is expected to be violated. More counterexamples have a
configuration of their own (section 5).

| run | instance | shows |
|---|---|---|
| `queue` | 3 threads, request of 2 (array of 4, capacity 3), 4 pushes, symmetry | `UintQueue` implements `Fifo` (`FifoSpec`); no slot overwritten (`NoOverwrite`); what a thread read before a successful exchange is still right (`Tickets`); a spinning push has somebody to wait for (`SpinHasOwner`); full and empty are answered only rightly or from a stale index |
| `list` | 3 nodes, 2 clears | the list is the FIFO of what was enqueued, over clears and new inits, and no node is written after it was freed or leaked unless a sender came after the clear (`ListIsFifo`) |
| `writers` | 2 writers, 1 sender of 2 messages, 1 restart, timed waits, fairness | every accepted message at one place, leaked only if its sender was late (`OnePlace`); taken in order, and eventually; none outlives its session, where its context number means another connection (`SessionKept`); the join ends |
| `dispatch` | 2 dispatchers, 1 reader of 2 messages, 1 restart, both platforms, fairness | every inbound message at one place, nothing left running after the join; start-up and termination end on both platforms, messages are taken where waits time out |
| `contexts` | 2 contexts, 2 read threads of up to 2 contexts each, 1 application thread with 2 opens or connects, 1 close, 2 peer events | each context has one owner, or was lost with the free queue (`OneOwner`); while the available queue exists exactly the contexts on it or with read threads have an open socket (`SocketsServed`); after the join only contexts that no thread took are open (`ExitClosesAll`) |
| `contexts_live` | 2 contexts, 2 read threads, 1 open or connect, 1 close, 1 event, fairness | a close takes effect; the shutdown of the read threads ends; both unless a pop from the destroyed free queue ends the process |
| `lifecycle` | 3 callers, symmetry, shutdown calls one at a time, deadlock checked | init, shutdown and set_allocators exclude each other; the state tells which subsystems are up; threads never outlive queues and trampolines; allocators change only while nothing is up; after a failed init no call changes anything (`FailureIsFinal`) |
| `contexts_exhausted` | 1 context | *violated*: connect takes a context somebody owns |
| `handshake` | 1 context, 2 dispatchers, 1 writer, 2 connections one after the other, 2 closes or hang-ups, fairness | a handshake is announced at most once and after the peer got it, on whichever connection the answer came (`EstablishedOnce`), a name in a context is that of its peer (`NameIsPeers`), closing is told once and before the next establishment (`ClosedFirst`); a marked context is cleaned up and its peer's closing told (`CloseIsTold`); the last three unless the context was cleaned up with messages of it still queued or in hand |
| `autoconnect` | 2 processes, 2 ports, 1 UNIX path, 3 contexts each, 4 calls, hang-ups at any time, 1 crash, a list that overruns at 2 files, symmetry | broadcasts connect to no port twice and never to oneself (`ConnectedOnce`), a port that listens has its file (`ListenerHasFile`), a broadcast ends with a connection, open at both ends, to who listens, unless a connection to it ended (`BroadcastReaches`) |
| `framework` | 3 applications of 2 kinds (one of Qt), 2 program threads, 1 dispatch thread, 3 inits, symmetry | callbacks belong to the session (`SessionCallbacks`), find their instance (`EmitHasInstance`), announce what is registered (`AnnouncesAll`); what dispatch threads read without a lock does not change under them (`FeaturesStable`); all unless a call began in the gap at the end of a shutdown (`core.cpp:200`), the instance also unless the program destroyed an application the framework still had |
| `schemas` | a C++ exporter, C++ and Python importers, empty, partial and full sets of fields, assets with and without an identifier, 2 rounds | the answer is about the asset asked for (`RightAsset`), C++ programs read what C++ programs wrote, `supportedFormats` excepted, which no reader ever fills (`Understood`) |

### Why the bounds are enough

* `queue`: with three threads one can be overtaken by a push and a pop of others
  between any two of its accesses; four pushes into three places fill the queue,
  refuse a push and go round the array once. Indices do not reach `Wrap`.
* `list`: three nodes are the smallest list with a first, a middle and a last
  node; two clears reach the list after a clear and a second init, with a late
  enqueue before and after each.
* `writers`, `dispatch`: two threads race for one message and for a shutdown;
  a second message arrives while the first is handled; the restart shows whether
  flags, codes and queues are as a new session needs them.
* `contexts`: two contexts are a listener with an accepted connection, or two
  connects, on two threads or both on one (where a removal moves the last into
  the place of the first); an identifier that was closed is handed out again;
  the close reaches a context in every state of its life, among them one that
  was closed and reused meanwhile; two events per run are a connection request
  with a hang-up or a message.
* `lifecycle`: every caller is symmetric, two manage and one uses the module;
  the state space is small and finite without a bound.
* `handshake`: the second connection uses the context of the first, so every late
  message, name and notification of the first, the peer's late answer among them,
  meets it; two dispatchers overtake
  each other; either side ends either connection.
* `autoconnect`: two processes can each listen and connect, one port changes owner
  after a close or a crash, the other is there to be reached meanwhile; four calls
  are an open, a broadcast, a close or a hang-up and a second broadcast, or an open, a
  close, a second owner and a broadcast.
* `framework`: two plain applications of one kind compete for the callback map, the
  Qt kind has objects that come and go; dispatch threads share nothing among
  themselves, so one is enough; three inits are two sessions and a refused
  call.
* `schemas`: the second round reads into objects that hold the first one's values.

Runs that end on purpose (the module is down and restarts are used up) switch off
deadlock checking: `writers`, `dispatch`, `contexts*`, `handshake`,
`autoconnect`, `framework`, `schemas`. `queue` and `lifecycle`
check it; a queue that has used its pushes still pops.

### Fairness

Weak fairness on the steps of each thread: the operating system schedules it.
Strong fairness on steps that need `inbound_lock` or `outbound_lock`: a thread
that finds the mutex free again and again gets it. No fairness on calls of the
application, on peers, on failures and on spurious wakeups; a wakeup by time-out
is weakly fair only where `TimedWait`/`timed` holds. `MessageTaken` relies on that
time-out: without it TLC finds the lost signal (section 5).

In `Handshake` (`FairSpec`) only the clean-up of a context is weakly fair: a read thread
looks for marked contexts at every round of its polling, which times out
(`read_threads.c:93`). Nothing else is taken to happen: a dispatcher or a writer may miss
its signal where waits have no time-out, a new context may wait as long as the two read
threads poll other ones (`read_threads.c:91`), a peer may never answer.

## 4. Theorems

Every theorem holds for all values of the constants that satisfy the named
assumption of its module (`QueueAssumption`, `NodeAssumption`, `WriteAssumption`,
`DispatchAssumption`, `ContextAssumption`, `ReaderAssumption`, `HandshakeAssumption`,
`SerialAssumption`, `FrameworkAssumption`, `AutoconnectAssumption`, `SchemasAssumption`).
They ask that bounds are natural numbers, that there is a context and room for one per
read thread, that every application has a kind, that 0 is no port and a port no path,
that assets and parcels have the fields of their classes (a name is a string, never
null), and that `NULL`, `NONE` and `JNULL` are none of the values they stand beside;
nothing is assumed about how many contexts, threads, messages, connections,
applications, processes, ports or restarts there are.
Each invariant is proved in three steps (the initial states have it, every action
keeps it, it implies the property), one step per action; TLC finds each property true
on the instance of the run as well.

### The queues

`QueueProofs`, for every set of threads and values, every size and index width:

* `UintQueueType`: types.
* `UintQueueTickets`: `Tickets` is invariant. It is inductive relative to `TypeOK`
  and says, until the indices wrap (`NotWrapped`): `read_index <= max_index <=
  write_index`, at most `Size - 1` apart; claimed tickets are distinct, lie between
  `max_index` and `write_index`, and each has an owner; a push whose local index is
  still current has room, a pop whose local index is still current has a committed
  element, and the one it read. The last two are what makes the successful
  exchange safe: read indices only grow, so an equal index means nothing happened.
* `UintQueueNoOverwrite` and `UintQueueSpinHasOwner` follow, the first with
  `SlotDistinct`: positions less than a round apart have different slots
  (`ModDistinct`, `ModPeriod`).
* `UintQueueErrors`: full and empty are answered only rightly or from a stale index.
* `UintQueueIsFifo`: the queue implements `Fifo`. The abstract sequence is
  `Committed`, the slots from `read_index` to `max_index`. The exchange on
  `max_index` is the abstract enqueue (`CommitAppends`), the one on `read_index`
  the dequeue (`ClaimTakes`), and every other access a stutter, since a store only
  touches a claimed slot (`StoreKeeps`). Besides `Tickets` it needs `Stored`: what a
  push stored stays in its slot until its commit.

The last two are stated for behaviours with `[]NotWrapped`. That cannot be dropped:
see section 5.

`LockedQueueIsFifo`, in the same module, is about the linked list. Beside `ListIsFifo` its
invariant (`Sound`) says that the `end` of an empty list is at no allocated node: it is NULL
or, in a list that was cleared and not initialised again, points at a freed one. An enqueue there makes the sender
`late`, and only then is a freed node written to or a node forgotten by `init`. The order of
the list is claimed until such a write; after it the freed memory may have become the new
node, which is then its own successor.

### The thread pools

`WriteThreadsProofs`: the invariant says who may hold `outbound_lock` and a message at
which point (`Threads`), that queue, hands, wire, the dropped and the leaked messages share no
message and have together what was sent, with a leak only after a late sender (`Places`),
that behind a message on the queue are all later ones of its sender (`LaterQueued`), and
that what is queued or in hand is of this session, and what is queued while the module is
down came from a late sender (`Sessions`). `WriteThreadsSession`,
`WriteThreadsOrder` and `WriteThreadsOnePlace` follow; the last counts, so it is
derived from `Places` with the cardinality of sets of at most one element.

`DispatchProofs`: the same for `DispatchQuiet` and `DispatchOnePlace`. Here a thread may
keep a message over the loop's head, but only one that saw the termination code,
which is set exactly while threads are joined; without that a thread that exits
could lose one.

`ReadThreadsProofs`: `ReadThreadsType` holds always. The rest is proved where contexts
do not run out (`~Exhaustion`): with it `OneOwner` is false, as the run
`contexts_exhausted` shows. The invariant has the types with the loop variable of
each read thread at each point (`Control`); that free queue, available queue,
application threads, read threads and the contexts lost with a destroyed queue partition
the contexts (`Partition`), removal
from the middle of a thread's list included (`Removed`); that what is not free is not
closed and has a socket once set up, and that a thread on its way out has marked what
it returns (`States`); that the free queue is destroyed first, and the available one after
the last thread has left (`Homes`), so that by the join whatever the threads had is closed. A close that read the word before the context was returned,
and stores after it, may put a mark on a free context; the invariant allows it, and
the theorems hold nevertheless. `ReadThreadsOneOwner`, `ReadThreadsSockets` and
`ReadThreadsExit` follow.

### Module state, handshake, framework

`LifecycleProofs`, for every set of callers:

* `LifecycleType`, `LifecycleHandover`: `Handover` is invariant. It ties the module
  state to the point of the caller that manages the module, and the set of
  subsystems that are up to that caller's stage; without the stage the set would
  not be known to be empty when the state becomes SHUTDOWN.
* `LifecycleOneManager`, `LifecycleSubsystems`, `LifecycleThreads`,
  `LifecycleStableAllocators`, `LifecycleFinal`, `LifecycleSessionName` follow.

All but the types assume `SerialShutdown`: at most one shutdown call at a time.

`HandshakeProofs`, for any number of contexts, threads and connections:

* The answer to the handshake of a connection is at one of seven stages: not asked for,
  asked for (this side's handshake is on its way), owed by the peer, sent by it on this or
  on a later connection, received, in the hands of a dispatcher, told. A message keeps
  the connection it was made for (`of`) beside the one it came on (`from`), and the stages
  follow `of`. `Stages` says that no two hold at once and `Singles` that at each there is
  one of it; every action moves it one stage on or leaves it (`Posted`, `Fetched`,
  `ReaderAnswers`, `OtherAnswers`). `HandshakeOnce` follows: once per handshake. It cannot
  be once per connection (`MCHandshake_stale`).
* `Inner`: a message on the inbound queue or with a dispatcher belongs to the
  connection its context has now, which is not being cleaned up, unless the clean-up
  began over it (`late`). This is what lets a dispatcher store a name without looking:
  `HandshakeNames`.
* `Notice`: what was told of a context is not younger than its connection, and its
  closing was told only if the clean-up is past that; what is inside was read from the
  connection of its context, so an establishment comes before that, whichever handshake it
  answers: `HandshakeClosed`.

`late` cannot be dropped: `MCHandshake_cleared` (section 5) shows a name stored in a
context that was cleared meanwhile.

`FrameworkProofs`: `startupState` is that of the one thread that manages the framework
(`OneManager`), the core is up from the middle of an init to the middle of a shutdown
(`CoreRuns`), and what is bound at each point of the two calls is known (`Stages`), for
a shutdown minus what it has unbound. The objects the framework knows exist
(`KnownAlive`), unless the program destroyed one of them (`early`), and a dispatch thread that is busy handles the kind of a registered one
(`DispatchKnown`). `FrameworkEmits`, `FrameworkCallbacks`, `FrameworkAnnounces` and the
action property `FrameworkStable` follow, like the properties unless a call overlapped
the end of a shutdown (`ClearAlone` is where that enters).

The mesh exchange is in the same module. `RightAsset` speaks of the end of a round, so
the invariant follows the asset over the wire: the request is the serialised asset
(`Asked`); an answer names it (`About`), a Python importer's because the two fields of
the asset come before anything in `__init__` that can fail (`PyAbout`), a C++ importer's
together with the rest of what it filled in (`Answered`). `ExchangeRightAsset` and
`ExchangeUnderstood` then rest on what reading undoes of writing: `RequestAbout` for
requests, `ReadAsset` and `ReadFilled` for configurations, with `NamesDistinct` (no
table of enumeration names has a name twice, or `getKeyFromValue` would find the wrong
one), `ParcelType` for parcels. `supportedFormats` is not among the fields read back: a
reader never has any (`ReadNoFormats`). `ExchangeUnderstood` speaks of C++ on both ends.

### Automatic connection

`AutoconnectProofs`, for any number of processes, ports, paths, contexts and crashes. A
step is one of a process `p`. `Step(p)` says what it may do: of the others nothing, of
the ports bind those nobody has and release its own (`Frame`), no port becomes
committed whose file has not just been written (`Gains`), no file of a committed port
disappears unless it refused somebody (`Loses`). One lemma per action shows that; that
the invariant survives is then shown once (`Stepped`). The invariant:

* `Control`, `Kept`: the free contexts are distinct, none of them is being opened or
  closed or has a peer. `connector_context_connect` returns a context with the port it
  failed on, and `test_tcp_validity` looks at free contexts too: a port kept that way
  has refused a connection.
* `Listeners`: a port bound to a process has one context that listens on it, and that
  context's port is bound to the process until the socket is closed. Between closing
  the socket and clearing the context the port is free or somebody's second use of
  it, and the old context still filters it: that is where `uses[q] = 1` in
  `BroadcastReaches` is needed.
* `Peers`: the connections of broadcasts have different ports, and the port being
  tried has none yet: `ConnectedOnce` (`AutoconnectOnce`). The filter and the connect
  are two steps; in between only the process itself could add one, and its
  application thread is in the broadcast.
* `ListenerHasFile` (`AutoconnectFiles`) is inductive with these: two contexts of one
  port would let the closing of one remove the file of the other.
* `Targets`: what a broadcast has to reach was committed before it began, so it is
  not being opened again while used once, and is still to be tried, being tried, or
  connected. A port that is skipped is one of these since its file is there
  (`SkippedConnected`). A port leaves the targets when its connection is marked or the other
  end goes away (`MarkStep`, `EndsStep`). At the end nothing is to be tried:
  `BroadcastReaches` (`AutoconnectReaches`).

### Only model-checked

Every liveness property: `ShutdownCompletes`, `MessageTaken`, `TerminationCompletes`,
`InitCompletes`, `CloseTakesEffect`, `CloseIsTold`. Fairness and `ENABLED` are out
of the prover's reach. Every invariant, action property and refinement that a passing
run checks has a theorem.

## 5. Disagreements between the code and what it says

Listed in `PROJECT.json`: `contexts_exhausted`.

Each of the following configurations makes TLC print a behaviour of the code that
contradicts the line quoted above the property in the module:

| configuration (module) | property | what happens |
|---|---|---|
| `MCUintQueue_full` (`MCUintQueue`) | `HoldsRequested` | `uint_queue.c:50`: a push reads the two indices at different times and is refused with room left; the callers ignore the answer, and a context is lost |
| `MCLockedQueue_late` (`MCLockedQueue`) | `NoWriteToFreed` | `locked_queue.c:71-74`: a sender past the check of the state (`external_api.c:231`) enqueues on the cleared list (`:239`) and writes through `end`, which points to a freed node |
| `MCWriteThreads_shutdown` (`MCWriteThreads`) | `ShutdownCompletes` | `write_threads.c:61`: where waits have no time-out a write thread goes to sleep after the shutdown broadcast and is never joined |
| `MCReadThreads_close` (`MCReadThreads`) | `CloseIsKept` | `context_queue.c:381`: the handshake bit is written over the mark of a close |
| `MCLifecycle_contexts` (`MCLifecycle`) | `ContextsOutliveThreads` | `external_api.c:139`: the free queue is destroyed while the read threads run |
| `MCHandshake_cleared` (`MCHandshake`) | `ClearedBetweenReuses` | `context_queue.c:534`: a dispatcher stores the name of a peer in a context that was cleared meanwhile; an accept keeps it, and the next close names the wrong peer |
| `MCHandshake_stale` (`MCHandshake`) | `OncePerConnection` | `context_queue.c:334-337`: a peer's answer for an earlier connection goes out on this one, which is announced twice |
| `MCAutoconnect_data` (`MCAutoconnect`) | `FreesOnlyOwned` | `context_queue.c:245`: a context whose connect failed keeps the caller's string, an accept takes the context as it is, and closing it frees the string |
| `MCFramework_name` (`MCFramework`) | `NameOfSession` | `core.cpp:144`: an init that is refused has already replaced the name that is announced |
| `MCFramework_destroyed` (`MCFramework`) | `ClearedAfterShutdown` | `system.cpp:96` of `module-qt`: the wrapper forgets its instance and says that the core is shut down by then, which nothing ensures; a dispatch thread emits on no instance |
| `MCSchemas_own` (`MCSchemas`) | `ReadsItsOwn` | `sendmeshschema.cpp:195`: `supportedFormats = {}` empties the optional, and the next line's `value()` throws for every document that lists formats |

Met while modelling, reproducible by changing one constant or one definition:

* `uint_queue.c:30`: the indices wrap at 2^32 and are reduced modulo 34. With
  `Wrap` below the number of pushes, one thread alone gets a refusal with room.
* `write_threads.c:64`, `dispatch.c:115`: on POSIX (`TimedWait` or `timed` FALSE) a
  signal sent between the look at the queue and the wait is lost; the message stays
  until the next one.
* `locked_queue.c:22`: init sets the pointers of the list to NULL and frees nothing; what
  a late sender enqueued after the clear leaks (`leaked` in `LockedQueue` and
  `WriteThreads`).
* `read_threads.c:91`: a context waits on the available queue as long as all read
  threads poll quiet connections.
* `external_api.c:139`: contexts returned by the leaving read threads are lost with the free
  queue (`lost` in `ContextQueue`); an accept or a call under way pops from the destroyed
  queue and crashes (`PopWithoutQueue` of `ReadThreads`).
* `external_api.c:181`: with overlapping shutdown calls (`SerialShutdown` FALSE)
  the loser completes the winner's exchange, and init runs during a shutdown.
* `configuration.c:68`: the name of the last session is freed by the deallocator of
  the next.
* `external_api.c:231`: the state is checked once; a delayed call works on
  subsystems that are gone.
* `connection_unix.c:151`: opening a UNIX socket answers INVALID for every path it is
  given, and takes the length of a NULL path for the default one
  (`OpenUnix`, `OpenDefaultUnix` of `Autoconnect`).
* `fileutils.c:117`: a file list that has grown has no sentinel once it is as long as
  the first array (`ScanOverrun`).
* `autoconnect.c:72`: the file a broadcast removes after a refusal may by then be that
  of a new owner of the port, which no later broadcast finds (`ListenerHasFile`
  excepts it).
* `autoconnect.c:108`: a context left behind by a failed connect, or one whose peer has
  hung up and that is not cleaned up yet, keeps its port out of every later broadcast
  (`BroadcastReaches` excepts it).
* `core.cpp:200`: `shutdown` gives the state back before it clears the lists; an init
  or a registration in the gap loses its applications (`overlapped` in `Framework`).
* `meshimport.py:189`, `:191`, `:205`: the Python importer reads the key `id` of a parcel
  where C++ writes `uuid`, makes a new identifier, and `from_string` passes four arguments
  to a constructor that takes one and raises (`ReceiveLoadPython` of `Schemas`).
* `sendmeshschema.cpp:177`: a name that is in no table is looked up at the end of the
  table, which is undefined (`ReceiveUndefined` of `Schemas`). The Python table has
  one such name, `NoColorFormat`.

## 6. Not modelled

* Core: allocation failures other than those of `init`; poll errors; the test-only
  `connector_await_dispatch`; the `select` variant of polling (the build uses poll);
  the Windows variants of sockets and paths; weak memory.
* The trampolines' list at pointer level: adding and removing while a dispatch
  thread walks it is unsynchronised, so all a model can say is that it goes wrong.
* Framing: partial reads and writes of a message. A message arrives whole.
* Joining of paths, strings, identifiers: data only.
* Loading the core library at run time (`dynamicload.cpp`); the sbsar and livelink
  features, which repeat the mesh feature with other identifiers.
* The Python side as an exporter of meshes.
* The Python life cycle (`instance.py`, `system.py`) and the native extension, where a
  shutdown that holds the interpreter lock waits for dispatch threads that need it.
* Language bindings (thin wrappers) and the command line client (interactive).

## 7. Plan

1. Done: `Fifo`, `UintQueue`, `LockedQueue`, `WriteThreads`, `Dispatch`,
   `ContextQueue`, `ReadThreads`, `Lifecycle`, and the first proofs.
2. Done: `Handshake`, `Autoconnect`, `Framework`, `Schemas`.
3. Done: proofs of every safety property the runs check of the queues, the thread
   pools, the contexts, the handshake, the module state and the framework, and of the
   refinement of `Fifo`.
4. Done: proofs about `Autoconnect` and `Schemas`.
5. Done: late senders, queues destroyed under running threads, peers whose answers come late,
   hang-ups between processes, the Python importer.
6. The Python life cycle as a second instance of the framework's state machine,
   with the interpreter lock; framing with partial reads.
