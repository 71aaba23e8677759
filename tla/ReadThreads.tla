----------------------------- MODULE ReadThreads ----------------------------
(***************************************************************************)
(* src/core/src/details/threadimpl/read_threads.c, readthreadimpl.c and    *)
(* readstructimpl.c: each read thread takes contexts from the available    *)
(* queue, sends the handshake, polls its contexts, accepts connections,    *)
(* reads messages, and closes contexts that are marked SHUTDOWN or whose   *)
(* peer hung up.  Composed with the application side of ContextQueue.      *)
(*                                                                         *)
(* inbound_lock is held across a wakeup and the attempt to take a context; *)
(* holder is the read thread that holds it.                                *)
(***************************************************************************)
EXTENDS ContextQueue

CONSTANTS
    Readers,       \* read_threads[]: SUBSTANCE_CONNECTOR_INBOUND_COUNT of them
    MaxAssigned,   \* SUBSTANCE_CONNECTOR_READ_CONTEXTS: contexts per thread
    MaxEvents      \* bound of the model: events the peers cause

ASSUME ReaderAssumption ==
    /\ MaxAssigned \in Nat \ {0}
    /\ MaxEvents \in Nat
    /\ NULL \notin Readers

VARIABLES
    rpc,        \* where each read thread is
    assigned,   \* assigned[r]: context_ids, as many as assigned_contexts says
    index,      \* index[r]: the loop variable of a cleanup or an event loop
    revents,    \* revents[r]: what the last poll reported, per index
    saved,      \* saved[r]: the configuration read by |= HANDSHAKE_SENT
    waiting,    \* read threads waiting on inbound_condition
    holder,     \* the read thread that holds inbound_lock, or NULL
    flag,       \* read_thread_shutdown_flag
    mpc,        \* the thread that shuts the read threads down
    pending,    \* pending[c]: what a poll of c's socket would report
    events

readerVars == <<rpc, assigned, index, revents, saved, waiting, holder>>
mainVars == <<flag, mpc>>
peerVars == <<pending, events>>
vars == <<contextVars, readerVars, mainVars, peerVars>>

(* connector_init_read_threads waits for each thread's signal, which it     *)
(* sends with inbound_lock held, just before it waits for a context.       *)
Init ==
    /\ ContextInit
    /\ rpc = [r \in Readers |-> "asleep"]
    /\ assigned = [r \in Readers |-> <<>>]
    /\ index = [r \in Readers |-> 0]
    /\ revents = [r \in Readers |-> <<>>]
    /\ saved = [r \in Readers |-> Cleared]
    /\ waiting = Readers
    /\ holder = NULL
    /\ flag = 0
    /\ mpc = "running"
    /\ pending = [c \in Contexts |-> "none"]
    /\ events = 0

Goto(r, from, to) ==
    /\ rpc[r] = from
    /\ rpc' = [rpc EXCEPT ![r] = to]

Last(r) == Len(assigned[r])

(* A cleanup loop starts at the last context.                              *)
StartCleanup(r) == index' = [index EXCEPT ![r] = Last(r)]

-----------------------------------------------------------------------------
(* connector_read_thread_await_condition                                   *)

(* Lock; with no context and no shutdown, wait (which releases the lock).  *)
ReaderWait(r) ==
    /\ holder = NULL
    /\ assigned[r] = <<>>
    /\ flag = 0
    /\ Goto(r, "await", "asleep")
    /\ waiting' = waiting \cup {r}
    /\ UNCHANGED <<contextVars, assigned, index, revents, saved, holder, mainVars, peerVars>>

ReaderBusy(r) ==
    /\ holder = NULL
    /\ assigned[r] # <<>> \/ flag # 0
    /\ Goto(r, "await", "load")
    /\ UNCHANGED <<contextVars, assigned, index, revents, saved, waiting, holder, mainVars, peerVars>>

ReaderWakeup(r) ==
    /\ r \in waiting
    /\ waiting' = waiting \ {r}
    /\ UNCHANGED <<contextVars, rpc, assigned, index, revents, saved, holder, mainVars, peerVars>>

ReaderRelock(r) ==
    /\ r \notin waiting
    /\ holder = NULL
    /\ Goto(r, "asleep", "woken")
    /\ holder' = r
    /\ UNCHANGED <<contextVars, assigned, index, revents, saved, waiting, mainVars, peerVars>>

ReaderWokenByShutdown(r) ==
    /\ flag # 0
    /\ Goto(r, "woken", "load")
    /\ holder' = NULL
    /\ UNCHANGED <<contextVars, assigned, index, revents, saved, waiting, mainVars, peerVars>>

-----------------------------------------------------------------------------
(* connector_read_thread_try_acquire, from the wait loop (lock held) or    *)
(* from the main loop.                                                     *)

(* Where try_acquire returns to: the wait loop tests assigned_contexts     *)
(* and leaves it, the main loop starts polling.                            *)
AfterAcquire(r) ==
    /\ rpc' = [rpc EXCEPT ![r] = IF holder = r THEN "load" ELSE "cleanup"]
    /\ holder' = IF holder = r THEN NULL ELSE holder
    /\ index' = [index EXCEPT ![r] = IF holder = r THEN @ ELSE Len(assigned'[r])]

CanAcquire(r) ==
    \/ rpc[r] = "woken" /\ flag = 0
    \/ rpc[r] = "load" /\ flag = 0 /\ Last(r) < MaxAssigned

(* Nothing available: wait again, or go on with the contexts it has.       *)
AcquireNothing(r) ==
    /\ CanAcquire(r)
    /\ available = <<>>
    /\ \/ /\ rpc[r] = "woken"
          /\ rpc' = [rpc EXCEPT ![r] = "asleep"]
          /\ waiting' = waiting \cup {r}
          /\ holder' = NULL
          /\ UNCHANGED index
       \/ /\ rpc[r] = "load"
          /\ rpc' = [rpc EXCEPT ![r] = "cleanup"]
          /\ StartCleanup(r)
          /\ UNCHANGED <<waiting, holder>>
    /\ UNCHANGED <<contextVars, assigned, revents, saved, mainVars, peerVars>>

NeedsHandshake(c) == ~conf[c].handshake /\ conf[c].conn = "connected" /\ ~conf[c].shutdown

(* Record the context; connector_context_write_handshake has nothing to    *)
(* do, or its write fails.                                                 *)
AcquireQuiet(r) ==
    /\ CanAcquire(r)
    /\ available # <<>>
    /\ assigned' = [assigned EXCEPT ![r] = Append(@, Head(available))]
    /\ available' = Tail(available)
    /\ AfterAcquire(r)
    /\ UNCHANGED <<conf, free, queues, lost, apc, actx, sock, known, closing, ops, closes, revents, saved, waiting, mainVars, peerVars>>

(* The handshake is written; configuration |= HANDSHAKE_SENT reads the     *)
(* word here and stores it in HandshakeMark.                               *)
AcquireHandshake(r) ==
    /\ CanAcquire(r)
    /\ available # <<>>
    /\ NeedsHandshake(Head(available))
    /\ assigned' = [assigned EXCEPT ![r] = Append(@, Head(available))]
    /\ available' = Tail(available)
    /\ saved' = [saved EXCEPT ![r] = conf[Head(available)]]
    /\ rpc' = [rpc EXCEPT ![r] = "mark"]
    /\ UNCHANGED <<conf, free, queues, lost, apc, actx, sock, known, closing, ops, closes, index, revents, waiting, holder, mainVars, peerVars>>

HandshakeMark(r) ==
    /\ rpc[r] = "mark"
    /\ conf' = [conf EXCEPT ![assigned[r][Last(r)]] = [saved[r] EXCEPT !.handshake = TRUE]]
    /\ saved' = [saved EXCEPT ![r] = Cleared]
    /\ assigned' = assigned
    /\ AfterAcquire(r)
    /\ UNCHANGED <<free, available, queues, lost, apc, actx, sock, known, closing, ops, closes, revents, waiting, mainVars, peerVars>>

(* The flag is set, or the thread has as many contexts as it can hold.     *)
ReaderNoLoad(r) ==
    /\ rpc[r] = "load"
    /\ flag # 0 \/ Last(r) >= MaxAssigned
    /\ rpc' = [rpc EXCEPT ![r] = IF flag # 0 THEN "exit" ELSE "cleanup"]
    /\ StartCleanup(r)
    /\ UNCHANGED <<contextVars, assigned, revents, saved, waiting, holder, mainVars, peerVars>>

-----------------------------------------------------------------------------
(* connector_read_thread_cleanup_connections runs at three places: before  *)
(* every poll, after the events, and when the thread exits.                *)

CleanupPoints == {"cleanup", "recleanup", "excleanup"}

(* connector_read_thread_remove_context: the last one takes its place.     *)
RemoveContext(list, i) ==
    SubSeq([list EXCEPT ![i] = list[Len(list)]], 1, Len(list) - 1)

CleanupContext_NoRemove(r) ==
    LET c == assigned[r][index[r]] IN
    /\ rpc[r] \in CleanupPoints
    /\ index[r] > 0
    /\ conf[c].shutdown
    /\ sock' = sock \ {c}
    /\ conf' = [conf EXCEPT ![c] = Cleared]
    /\ PushFree(c)
    /\ index' = [index EXCEPT ![r] = @ - 1]
    /\ pending' = [pending EXCEPT ![c] = "none"]
    /\ UNCHANGED <<available, queues, apc, actx, known, closing, ops, closes, rpc, assigned, revents, saved,
                   waiting, holder, mainVars, events>>

CleanupContext_NoClose(r) ==
    LET c == assigned[r][index[r]] IN
    /\ rpc[r] \in CleanupPoints
    /\ index[r] > 0
    /\ conf[c].shutdown
    /\ assigned' = [assigned EXCEPT ![r] = RemoveContext(@, index[r])]
    /\ conf' = [conf EXCEPT ![c] = Cleared]
    /\ PushFree(c)
    /\ index' = [index EXCEPT ![r] = @ - 1]
    /\ pending' = [pending EXCEPT ![c] = "none"]
    /\ UNCHANGED <<available, queues, apc, actx, known, closing, ops, closes, rpc, sock, revents, saved,
                   waiting, holder, mainVars, events>>

(* connector_context_shutdown_from_read_thread: close the socket, clear    *)
(* the structure, return the identifier.                                   *)
CleanupContext(r) ==
    LET c == assigned[r][index[r]] IN
    /\ rpc[r] \in CleanupPoints
    /\ index[r] > 0
    /\ conf[c].shutdown
    /\ assigned' = [assigned EXCEPT ![r] = RemoveContext(@, index[r])]
    /\ sock' = sock \ {c}
    /\ conf' = [conf EXCEPT ![c] = Cleared]
    /\ PushFree(c)
    /\ index' = [index EXCEPT ![r] = @ - 1]
    /\ pending' = [pending EXCEPT ![c] = "none"]
    /\ UNCHANGED <<available, queues, apc, actx, known, closing, ops, closes, rpc, revents, saved,
                   waiting, holder, mainVars, events>>

CleanupKeep(r) ==
    /\ rpc[r] \in CleanupPoints
    /\ index[r] > 0
    /\ ~conf[assigned[r][index[r]]].shutdown
    /\ index' = [index EXCEPT ![r] = @ - 1]
    /\ UNCHANGED <<contextVars, rpc, assigned, revents, saved, waiting, holder, mainVars, peerVars>>

CleanupDone_NoFlag(r) ==
    /\ index[r] = 0
    /\ \/ Goto(r, "cleanup", "poll")
       \/ Goto(r, "recleanup", IF flag = 0 THEN "await" ELSE "exit")
       \/ Goto(r, "excleanup", "exited")
    /\ UNCHANGED <<contextVars, assigned, index, revents, saved, waiting, holder, mainVars, peerVars>>

(* Before a poll and at the top of the main loop the flag is tested.       *)
CleanupDone(r) ==
    /\ index[r] = 0
    /\ \/ Goto(r, "cleanup", IF flag = 0 THEN "poll" ELSE "exit")
       \/ Goto(r, "recleanup", IF flag = 0 THEN "await" ELSE "exit")
       \/ Goto(r, "excleanup", "exited")
    /\ UNCHANGED <<contextVars, assigned, index, revents, saved, waiting, holder, mainVars, peerVars>>

-----------------------------------------------------------------------------
(* connector_poll_contexts: events on some contexts; a time-out goes round *)
(* the inner loop; without contexts it fails at once.                      *)

PollEvents(r) ==
    /\ Goto(r, "poll", "events")
    /\ assigned[r] = <<>> \/ \E i \in 1 .. Last(r) : pending[assigned[r][i]] # "none"
    /\ revents' = [revents EXCEPT ![r] = [i \in 1 .. Last(r) |-> pending[assigned[r][i]]]]
    /\ index' = [index EXCEPT ![r] = 1]
    /\ UNCHANGED <<contextVars, assigned, saved, waiting, holder, mainVars, peerVars>>

PollTimeout_NoCleanup(r) ==
    /\ Goto(r, "poll", "poll")
    /\ assigned[r] # <<>>
    /\ \A i \in 1 .. Last(r) : pending[assigned[r][i]] = "none"
    /\ UNCHANGED <<contextVars, assigned, index, revents, saved, waiting, holder, mainVars, peerVars>>

PollTimeout(r) ==
    /\ Goto(r, "poll", "cleanup")
    /\ assigned[r] # <<>>
    /\ \A i \in 1 .. Last(r) : pending[assigned[r][i]] = "none"
    /\ StartCleanup(r)
    /\ UNCHANGED <<contextVars, assigned, revents, saved, waiting, holder, mainVars, peerVars>>

Event(r, what) ==
    /\ rpc[r] = "events"
    /\ index[r] <= Last(r)
    /\ revents[r][index[r]] = what

EventNone(r) ==
    /\ Event(r, "none")
    /\ index' = [index EXCEPT ![r] = @ + 1]
    /\ UNCHANGED <<contextVars, rpc, assigned, revents, saved, waiting, holder, mainVars, peerVars>>

(* POLLERR or POLLHUP: connector_context_close.                            *)
EventHangup(r) ==
    /\ Event(r, "hangup")
    /\ conf' = [conf EXCEPT ![assigned[r][index[r]]] = CloseConf(@)]
    /\ index' = [index EXCEPT ![r] = @ + 1]
    /\ UNCHANGED <<free, available, queues, lost, apc, actx, sock, known, closing, ops, closes, rpc, assigned, revents, saved,
                   waiting, holder, mainVars, peerVars>>

State(c) == IF conf[c].shutdown THEN "shutdown" ELSE conf[c].conn

(* POLLIN on a context in state OPEN: connector_context_accept takes a     *)
(* context without looking at the result of the pop, overwrites its        *)
(* configuration and pushes it.                                            *)
EventAccept(r) ==
    LET c == assigned[r][index[r]] IN
    /\ Event(r, "input")
    /\ State(c) = "open"
    /\ "free" \in queues
    /\ \E new \in Contexts :
        /\ PopFree(new)
        /\ conf' = [conf EXCEPT ![new] = Conf("connected")]
        /\ sock' = sock \cup {new}
        /\ known' = known \cup {new}
        /\ available' = Append(available, new)
        /\ pending' = [pending EXCEPT ![c] = "none", ![new] = "none"]
    /\ rpc' = [rpc EXCEPT ![r] = "flag"]
    /\ UNCHANGED <<queues, lost, apc, actx, closing, ops, closes, assigned, index, revents, saved, waiting, holder,
                   mainVars, events>>

(* connector_accept_connection fails: the peer has given up.               *)
EventAcceptFails(r) ==
    LET c == assigned[r][index[r]] IN
    /\ Event(r, "input")
    /\ State(c) = "open"
    /\ pending' = [pending EXCEPT ![c] = "none"]
    /\ index' = [index EXCEPT ![r] = @ + 1]
    /\ UNCHANGED <<contextVars, rpc, assigned, revents, saved, waiting, holder, mainVars, events>>

(* append_available and connector_read_thread_handle_open both call        *)
(* connector_flag_read_impl.                                               *)
EventFlag(r) ==
    /\ rpc[r] = "flag"
    /\ holder = NULL
    /\ waiting' = {}
    /\ rpc' = [rpc EXCEPT ![r] = "events"]
    /\ index' = [index EXCEPT ![r] = @ + 1]
    /\ UNCHANGED <<contextVars, assigned, revents, saved, holder, mainVars, peerVars>>

(* POLLIN on a context in state CONNECTED: a message is read and handed to *)
(* the dispatch threads, or the read fails and the input stays; in any     *)
(* other state nothing is read.                                            *)
EventInput(r) ==
    LET c == assigned[r][index[r]] IN
    /\ Event(r, "input")
    /\ State(c) # "open"
    /\ \/ State(c) = "connected" /\ pending' = [pending EXCEPT ![c] = "none"]
       \/ UNCHANGED pending
    /\ index' = [index EXCEPT ![r] = @ + 1]
    /\ UNCHANGED <<contextVars, rpc, assigned, revents, saved, waiting, holder, mainVars, events>>

EventsDone(r) ==
    /\ Goto(r, "events", "recleanup")
    /\ index[r] > Last(r)
    /\ revents' = [revents EXCEPT ![r] = <<>>]
    /\ StartCleanup(r)
    /\ UNCHANGED <<contextVars, assigned, saved, waiting, holder, mainVars, peerVars>>

ReaderExit_NoClose(r) ==
    /\ Goto(r, "exit", "excleanup")
    /\ StartCleanup(r)
    /\ UNCHANGED <<contextVars, assigned, revents, saved, waiting, holder, mainVars, peerVars>>

(* thread_exit: close every context of the thread, then clean up.          *)
ReaderExit(r) ==
    /\ Goto(r, "exit", "excleanup")
    /\ conf' = [c \in Contexts |->
                  IF \E i \in 1 .. Last(r) : assigned[r][i] = c THEN CloseConf(conf[c]) ELSE conf[c]]
    /\ StartCleanup(r)
    /\ UNCHANGED <<free, available, queues, lost, apc, actx, sock, known, closing, ops, closes, assigned, revents, saved,
                   waiting, holder, mainVars, peerVars>>

-----------------------------------------------------------------------------
(* The application threads: connector_flag_read after a push on the        *)
(* available queue broadcasts the condition.                               *)

AppFlag(a) ==
    /\ apc[a] = "flag"
    /\ holder = NULL
    /\ waiting' = {}
    /\ apc' = [apc EXCEPT ![a] = "idle"]
    /\ UNCHANGED <<conf, free, available, queues, lost, actx, sock, known, closing, ops, closes,
                   rpc, assigned, index, revents, saved, holder, mainVars, peerVars>>

App(a) ==
    \/ mpc = "running" /\ AppCheck(a) /\ UNCHANGED <<readerVars, mainVars, peerVars>>
    \/ AppStep(a) /\ UNCHANGED <<readerVars, mainVars, peerVars>>
    \/ AppFlag(a)

(* connector_uint_queue_pop does not test its queue: an application thread *)
(* whose call has passed the test of the state, or a read thread that      *)
(* accepts, reads through free_contexts, NULL by then, and the process     *)
(* ends.                                                                   *)
PopWithoutQueue ==
    /\ "free" \notin queues
    /\ \/ \E a \in Apps : apc[a] = "called"
       \/ \E r \in Readers : Event(r, "input") /\ State(assigned[r][index[r]]) = "open"
    /\ mpc' = "crashed"
    /\ UNCHANGED <<contextVars, readerVars, flag, peerVars>>

Close ==
    /\ CloseStore \/ \E c \in Contexts : CloseRead(c)
    /\ UNCHANGED <<readerVars, mainVars, peerVars>>

(* The peers: a connection request or a message arrives, or they hang up.  *)
PeerEvent(c, what) ==
    /\ events < MaxEvents
    /\ pending[c] # what /\ pending[c] # "hangup"
    /\ \/ what = "input" /\ conf[c].conn # "closed"
       \/ what = "hangup" /\ conf[c].conn = "connected"
    /\ \A a \in Apps : ~(apc[a] \in {"opening", "connecting"} /\ actx[a] = c)
    /\ pending' = [pending EXCEPT ![c] = what]
    /\ events' = events + 1
    /\ UNCHANGED <<contextVars, readerVars, mainVars>>

(* substance_connector_shutdown stores the state that later calls test and *)
(* destroys the queue of free contexts before anything else; application   *)
(* threads in the middle of a call go on with it.                          *)
ShutdownContexts ==
    /\ mpc = "running"
    /\ DestroyFree
    /\ mpc' = "destroyed"
    /\ UNCHANGED <<readerVars, flag, peerVars>>

(* connector_shutdown_read_threads *)
ShutdownFlag ==
    /\ mpc = "destroyed"
    /\ flag' = 1
    /\ mpc' = "broadcast"
    /\ UNCHANGED <<contextVars, readerVars, peerVars>>

ShutdownBroadcast ==
    /\ mpc = "broadcast"
    /\ holder = NULL
    /\ waiting' = {}
    /\ mpc' = "join"
    /\ UNCHANGED <<contextVars, rpc, assigned, index, revents, saved, holder, flag, peerVars>>

ShutdownJoin ==
    /\ mpc = "join"
    /\ \A r \in Readers : rpc[r] = "exited"
    /\ flag' = 0
    /\ mpc' = "joined"
    /\ UNCHANGED <<contextVars, readerVars, peerVars>>

(* connector_shutdown_comm_subsystem: the sockets of contexts that are     *)
(* still on the queue stay open.                                           *)
ShutdownAvailable ==
    /\ mpc = "joined"
    /\ DestroyAvailable
    /\ mpc' = "down"
    /\ UNCHANGED <<readerVars, flag, peerVars>>

-----------------------------------------------------------------------------
ReaderLock(r) == ReaderWait(r) \/ ReaderBusy(r) \/ ReaderRelock(r) \/ EventFlag(r)

ReaderRun(r) ==
    \/ ReaderWokenByShutdown(r)
    \/ AcquireNothing(r) \/ AcquireQuiet(r) \/ AcquireHandshake(r) \/ HandshakeMark(r)
    \/ ReaderNoLoad(r)
    \/ CleanupContext(r) \/ CleanupKeep(r) \/ CleanupDone(r)
    \/ PollEvents(r) \/ PollTimeout(r)
    \/ EventNone(r) \/ EventHangup(r) \/ EventAccept(r) \/ EventAcceptFails(r)
    \/ EventInput(r) \/ EventsDone(r)
    \/ ReaderExit(r)

Next ==
    /\ mpc # "crashed"
    /\ \/ \E r \in Readers : ReaderRun(r) \/ ReaderLock(r) \/ ReaderWakeup(r)
       \/ \E a \in Apps : App(a)
       \/ Close
       \/ \E c \in Contexts : PeerEvent(c, "input") \/ PeerEvent(c, "hangup")
       \/ PopWithoutQueue
       \/ ShutdownContexts \/ ShutdownFlag \/ ShutdownBroadcast \/ ShutdownJoin
       \/ ShutdownAvailable

Spec == Init /\ [][Next]_vars

(* Unless the process ends, read threads run, and get inbound_lock if it   *)
(* is free again and again, like the other threads that want it.           *)
FairSpec ==
    /\ Spec
    /\ \A r \in Readers : /\ WF_vars(mpc # "crashed" /\ ReaderRun(r))
                          /\ SF_vars(mpc # "crashed" /\ ReaderLock(r))
    /\ \A a \in Apps : SF_vars(mpc # "crashed" /\ AppFlag(a))
    /\ SF_vars(mpc # "crashed" /\ ShutdownBroadcast)
    /\ WF_vars(mpc # "crashed" /\ ShutdownJoin)

-----------------------------------------------------------------------------
(* Properties *)

ReaderPoints == {"await", "asleep", "woken", "load", "mark", "poll", "events", "flag",
                 "exit", "exited"} \cup CleanupPoints
Confs == [conn : {"closed", "open", "connected"}, shutdown : BOOLEAN, handshake : BOOLEAN]

\* Types of the state; a waiting thread is asleep, lists fit their arrays.
TypeOK ==
    /\ conf \in [Contexts -> Confs]
    /\ free \in Seq(Contexts) /\ available \in Seq(Contexts)
    /\ queues \subseteq {"free", "available"} /\ lost \subseteq Contexts
    /\ apc \in [Apps -> {"idle", "called", "opening", "connecting", "flag"}]
    /\ actx \in [Apps -> Contexts]
    /\ sock \subseteq Contexts /\ known \subseteq Contexts
    /\ closing \in [ctx : Contexts, conf : Confs] \cup {NULL}
    /\ ops \in 0 .. MaxOps /\ closes \in 0 .. MaxCloses
    /\ rpc \in [Readers -> ReaderPoints]
    /\ \A r \in Readers :
        /\ assigned[r] \in Seq(Contexts) /\ Last(r) <= MaxAssigned
        /\ index[r] \in 0 .. MaxAssigned + 1
    /\ saved \in [Readers -> Confs]
    /\ waiting \subseteq {r \in Readers : rpc[r] = "asleep"}
    /\ holder \in Readers \cup {NULL}
    /\ flag \in {0, 1}
    /\ mpc \in {"running", "destroyed", "broadcast", "join", "joined", "down", "crashed"}
    /\ pending \in [Contexts -> {"none", "input", "hangup"}]
    /\ events \in 0 .. MaxEvents

Occurrences(list, c) == Cardinality({i \in 1 .. Len(list) : list[i] = c})

Working(c) == {a \in Apps : apc[a] \in {"opening", "connecting"} /\ actx[a] = c}

(* How many owners a context has.                                          *)
Owners(c) ==
    Occurrences(free, c) + Occurrences(available, c) + Cardinality(Working(c))
      + Cardinality({p \in Readers \X (1 .. MaxAssigned) :
                        p[2] <= Last(p[1]) /\ assigned[p[1]][p[2]] = c})

\* A context has exactly one owner at any time: it is free, or an application
\* thread sets it up, or it waits for a read thread, or one read thread has
\* it.  None is handed out twice (context_queue.c, all pops and pushes;
\* connector.h: connect "will bind a new context"), and none is lost before
\* shutdown has destroyed the queue of free ones (external_api.c:139).
OneOwner ==
    /\ TypeOK
    /\ \A c \in Contexts : Owners(c) + (IF c \in lost THEN 1 ELSE 0) = 1
    /\ "free" \in queues => lost = {}

\* connector.h:107: a connect "On success, it will bind a new context": a
\* context that is handed out has no other owner.
NewContextIsNew == \A c \in Contexts : Owners(c) <= 1

(* Contexts that wait for a read thread or that one has.                   *)
Served == {c \in Contexts : Occurrences(available, c) > 0 \/
                              \E r \in Readers : Occurrences(assigned[r], c) > 0}

\* As long as the queue of available contexts exists, the open sockets are
\* those of the contexts that read threads have or will get: a context whose
\* socket is open is never handed out again, and no socket is left behind
\* without a thread that closes it, during the shutdown of the read threads
\* too (context_queue.c:494-516, readstructimpl.c:93-105).
SocketsServed == "available" \in queues => sock = Served

\* When the read threads are joined, every socket that a read thread had is
\* closed, although no context can be returned any more: what is still open
\* was never taken from the available queue, and stays open
\* (read_threads.c:143-149, available_queue.c:35-45).
ExitClosesAll ==
    mpc = "joined" => \A c \in sock : Occurrences(available, c) = 1

\* A context marked SHUTDOWN that a read thread has, and whose handshake bit
\* is not being written, is closed and cleared (read_threads.c:93-108 looks
\* at the mark at every round of polling), unless the process ends first.
CloseTakesEffect ==
    \A c \in Contexts :
        (conf[c].shutdown /\ \E r \in Readers, i \in 1 .. MaxAssigned :
                                i <= Last(r) /\ assigned[r][i] = c /\ rpc[r] # "mark")
            ~> (conf[c].conn = "closed" \/ mpc = "crashed")

\* connector.h: close_context "closes the context and shuts down all
\* communication through it": the mark is only removed by closing.
CloseIsKept ==
    [][\A c \in Contexts : conf[c].shutdown => conf'[c].shutdown \/ conf'[c].conn = "closed"]_vars

\* The shutdown of the read threads ends, wherever they are
\* (read_threads.c:189-202), unless one of them accepts a connection, or an
\* application thread takes a context, after the queue of free contexts is
\* gone.
ShutdownCompletes == (mpc = "broadcast") ~> (mpc \in {"joined", "crashed"})

=============================================================================
