------------------------------ MODULE Dispatch ------------------------------
(***************************************************************************)
(* src/core/src/details/dispatch.c: the dispatch threads take inbound      *)
(* messages and call the trampolines or the internal handlers.  Read       *)
(* threads enqueue the messages and signal dispatch_condition; the main    *)
(* thread starts the dispatch threads and terminates them.                 *)
(*                                                                         *)
(* No thread does anything visible between locking dispatch_lock and       *)
(* unlocking it or waiting, so every such section is one step and the lock *)
(* itself is not a variable.                                               *)
(***************************************************************************)
EXTENDS Integers, Sequences, FiniteSets

CONSTANTS
    Dispatchers,  \* dispatch_threads[]: SUBSTANCE_CONNECTOR_DISPATCH_COUNT
    Readers,      \* read threads that hand over inbound messages
    PerReader,    \* bound of the model: messages each reader hands over
    MaxRestarts,  \* bound of the model: initialisations after a shutdown
    NULL

ASSUME DispatchAssumption ==
    /\ PerReader \in Nat /\ MaxRestarts \in Nat
    /\ NULL \notin Dispatchers /\ NULL \notin Readers \X (1 .. PerReader)

VARIABLES
    timed,        \* the platform: TRUE if waits end after 65 s (thread_windows.c),
                  \* FALSE if only a signal ends them (thread_unix.c)
    inbound,      \* inbound_queue
    waiting,      \* dispatch threads waiting on dispatch_condition
    code,         \* dispatch_shutdown_code
    pc, held,     \* where each dispatch thread is, the message it has
    initialized,  \* dispatch_threads[i].initialized
    rpc, passed,  \* where each reader is, how many messages it enqueued
    mpc, restarts,
    delivered,    \* the messages whose callbacks were called, in order
    dropped       \* messages freed without a callback

vars == <<timed, inbound, waiting, code, pc, held, initialized, rpc, passed,
          mpc, restarts, delivered, dropped>>
readerVars == <<rpc, passed>>
mainVars == <<code, mpc, restarts, timed>>

Messages == Readers \X (1 .. PerReader)

(* connector_init_dispatch_subsystem has created the threads and spins.    *)
Init ==
    /\ timed \in BOOLEAN
    /\ inbound = <<>>
    /\ waiting = {}
    /\ code = 0
    /\ pc = [d \in Dispatchers |-> "loop"]
    /\ held = [d \in Dispatchers |-> NULL]
    /\ initialized = [d \in Dispatchers |-> FALSE]
    /\ rpc = [r \in Readers |-> "ready"]
    /\ passed = [r \in Readers |-> 0]
    /\ mpc = "starting"
    /\ restarts = 0
    /\ delivered = <<>>
    /\ dropped = {}

-----------------------------------------------------------------------------
(* dispatch_routine *)

Goto(d, from, to) ==
    /\ pc[d] = from
    /\ pc' = [pc EXCEPT ![d] = to]

(* while (dispatch_shutdown_code == 0u); a thread that leaves frees the    *)
(* message it still has (thread_exit).                                     *)
Exit(d) ==
    /\ held' = [held EXCEPT ![d] = NULL]
    /\ dropped' = dropped \cup ({held[d]} \ {NULL})

DispatchLoop(d) ==
    /\ code = 0
    /\ Goto(d, "loop", "first")
    /\ UNCHANGED <<inbound, waiting, held, initialized, readerVars, mainVars, delivered, dropped>>

DispatchExit(d) ==
    /\ code # 0
    /\ Goto(d, "loop", "exited")
    /\ Exit(d)
    /\ UNCHANGED <<inbound, waiting, initialized, readerVars, mainVars, delivered>>

(* connector_acquire_inbound_message: the oldest message or NULL.          *)
Acquire(d) ==
    /\ held' = [held EXCEPT ![d] = IF inbound = <<>> THEN NULL ELSE Head(inbound)]
    /\ inbound' = IF inbound = <<>> THEN inbound ELSE Tail(inbound)

(* The queue is read before dispatch_lock is taken, at the top of the loop *)
(* and after every wakeup.                                                 *)
DispatchAcquire(d) ==
    /\ \/ Goto(d, "first", "lock")
       \/ Goto(d, "again", "lock")
    /\ Acquire(d)
    /\ UNCHANGED <<waiting, initialized, readerVars, mainVars, delivered, dropped>>

(* Lock; with no message and no shutdown, wait.                            *)
DispatchWait(d) ==
    /\ held[d] = NULL
    /\ code = 0
    /\ Goto(d, "lock", "asleep")
    /\ initialized' = [initialized EXCEPT ![d] = TRUE]
    /\ waiting' = waiting \cup {d}
    /\ UNCHANGED <<inbound, held, readerVars, mainVars, delivered, dropped>>

DispatchGo(d) ==
    /\ held[d] # NULL \/ code # 0
    /\ Goto(d, "lock", "process")
    /\ UNCHANGED <<inbound, waiting, held, initialized, readerVars, mainVars, delivered, dropped>>

(* A wait may end by itself: spuriously, or by the time-out on Windows.    *)
DispatchWakeup(d) ==
    /\ d \in waiting
    /\ waiting' = waiting \ {d}
    /\ UNCHANGED <<inbound, pc, held, initialized, readerVars, mainVars, delivered, dropped>>

DispatchWoken_NoAcquire(d) ==
    /\ d \notin waiting
    /\ Goto(d, "asleep", IF code = 0 THEN "lock" ELSE "exited")
    /\ UNCHANGED <<inbound, waiting, held, initialized, readerVars, mainVars, delivered, dropped>>

(* Reacquire and release the lock, then look at the shutdown code.         *)
DispatchWoken(d) ==
    /\ d \notin waiting
    /\ Goto(d, "asleep", IF code = 0 THEN "again" ELSE "exited")
    /\ UNCHANGED <<inbound, waiting, held, initialized, readerVars, mainVars, delivered, dropped>>

(* while (message != NULL && dispatch_shutdown_code == 0u)                 *)
DispatchProcess(d) ==
    /\ Goto(d, "process", IF held[d] # NULL /\ code = 0 THEN "call" ELSE "loop")
    /\ UNCHANGED <<inbound, waiting, held, initialized, readerVars, mainVars, delivered, dropped>>

DispatchCall_KeepMessage(d) ==
    /\ Goto(d, "call", "next")
    /\ delivered' = Append(delivered, held[d])
    /\ UNCHANGED <<inbound, waiting, held, initialized, readerVars, mainVars, dropped>>

(* connector_call_internal_message or connector_notify_trampolines, then   *)
(* the message is freed.                                                   *)
DispatchCall(d) ==
    /\ Goto(d, "call", "next")
    /\ delivered' = Append(delivered, held[d])
    /\ held' = [held EXCEPT ![d] = NULL]
    /\ UNCHANGED <<inbound, waiting, initialized, readerVars, mainVars, dropped>>

DispatchNext(d) ==
    /\ Goto(d, "next", "process")
    /\ Acquire(d)
    /\ UNCHANGED <<waiting, initialized, readerVars, mainVars, delivered, dropped>>

-----------------------------------------------------------------------------
(* The read threads (connector_read_thread_handle_connected): enqueue the  *)
(* message, then connector_flag_dispatch signals one waiting thread.       *)

ReaderEnqueue(r) ==
    /\ rpc[r] = "ready"
    /\ mpc = "running"
    /\ passed[r] < PerReader
    /\ passed' = [passed EXCEPT ![r] = @ + 1]
    /\ inbound' = Append(inbound, <<r, passed[r] + 1>>)
    /\ rpc' = [rpc EXCEPT ![r] = "flag"]
    /\ UNCHANGED <<waiting, pc, held, initialized, mainVars, delivered, dropped>>

ReaderFlag(r) ==
    /\ rpc[r] = "flag"
    /\ rpc' = [rpc EXCEPT ![r] = "ready"]
    /\ \/ waiting = {} /\ UNCHANGED waiting
       \/ \E d \in waiting : waiting' = waiting \ {d}
    /\ UNCHANGED <<inbound, pc, held, initialized, passed, mainVars, delivered, dropped>>

-----------------------------------------------------------------------------
(* The main thread *)

(* connector_init_dispatch_subsystem returns once every thread has waited. *)
InitDone ==
    /\ mpc = "starting"
    /\ \A d \in Dispatchers : initialized[d]
    /\ mpc' = "running"
    /\ UNCHANGED <<timed, inbound, waiting, pc, held, initialized, readerVars, code, restarts, delivered, dropped>>

Terminate_NoBroadcast ==
    /\ mpc = "running"
    /\ \A r \in Readers : rpc[r] = "ready"
    /\ code' = 1
    /\ mpc' = "join"
    /\ \/ waiting = {} /\ UNCHANGED waiting
       \/ \E d \in waiting : waiting' = waiting \ {d}
    /\ UNCHANGED <<timed, inbound, pc, held, initialized, readerVars, restarts, delivered, dropped>>

(* terminate_dispatch, after the communication subsystem has joined the    *)
(* read threads: the code is set and broadcast under the lock.             *)
Terminate ==
    /\ mpc = "running"
    /\ \A r \in Readers : rpc[r] = "ready"
    /\ code' = 1
    /\ mpc' = "join"
    /\ waiting' = {}
    /\ UNCHANGED <<timed, inbound, pc, held, initialized, readerVars, restarts, delivered, dropped>>

TerminateJoin_First ==
    /\ mpc = "join"
    /\ \E d \in Dispatchers : pc[d] = "exited"
    /\ code' = 0
    /\ mpc' = "joined"
    /\ UNCHANGED <<timed, inbound, waiting, pc, held, initialized, readerVars, restarts, delivered, dropped>>

TerminateJoin_NoReset ==
    /\ mpc = "join"
    /\ \A d \in Dispatchers : pc[d] = "exited"
    /\ mpc' = "joined"
    /\ UNCHANGED <<timed, inbound, waiting, code, pc, held, initialized, readerVars, restarts, delivered, dropped>>

TerminateJoin ==
    /\ mpc = "join"
    /\ \A d \in Dispatchers : pc[d] = "exited"
    /\ code' = 0
    /\ mpc' = "joined"
    /\ UNCHANGED <<timed, inbound, waiting, pc, held, initialized, readerVars, restarts, delivered, dropped>>

(* connector_shutdown_message_queue_subsystem frees what is left.          *)
ShutdownQueue ==
    /\ mpc = "joined"
    /\ mpc' = "down"
    /\ inbound' = <<>>
    /\ dropped' = dropped \cup {inbound[i] : i \in 1 .. Len(inbound)}
    /\ UNCHANGED <<timed, waiting, code, pc, held, initialized, readerVars, restarts, delivered>>

Restart ==
    /\ mpc = "down"
    /\ restarts < MaxRestarts
    /\ restarts' = restarts + 1
    /\ mpc' = "starting"
    /\ pc' = [d \in Dispatchers |-> "loop"]
    /\ initialized' = [d \in Dispatchers |-> FALSE]
    /\ UNCHANGED <<timed, inbound, waiting, code, held, readerVars, delivered, dropped>>

-----------------------------------------------------------------------------
DispatchStep(d) ==
    \/ DispatchLoop(d) \/ DispatchExit(d) \/ DispatchAcquire(d) \/ DispatchWait(d)
    \/ DispatchGo(d) \/ DispatchWoken(d) \/ DispatchProcess(d) \/ DispatchCall(d)
    \/ DispatchNext(d)

Next ==
    \/ \E d \in Dispatchers : DispatchStep(d) \/ DispatchWakeup(d)
    \/ \E r \in Readers : ReaderEnqueue(r) \/ ReaderFlag(r)
    \/ InitDone \/ Terminate \/ TerminateJoin \/ ShutdownQueue \/ Restart

Spec == Init /\ [][Next]_vars

(* The threads are scheduled; a wait ends by itself only where the         *)
(* platform has a time-out.                                                *)
FairSpec ==
    /\ Spec
    /\ \A d \in Dispatchers :
        WF_vars(DispatchStep(d)) /\ WF_vars(timed /\ DispatchWakeup(d))
    /\ \A r \in Readers : WF_vars(ReaderFlag(r))
    /\ WF_vars(InitDone) /\ WF_vars(TerminateJoin) /\ WF_vars(ShutdownQueue)

-----------------------------------------------------------------------------
(* Properties *)

DispatchPoints == {"loop", "first", "lock", "asleep", "again", "process", "call", "next", "exited"}

\* Types of the state; a waiting thread is asleep.
TypeOK ==
    /\ timed \in BOOLEAN
    /\ inbound \in Seq(Messages)
    /\ waiting \subseteq {d \in Dispatchers : pc[d] = "asleep"}
    /\ code \in {0, 1}
    /\ pc \in [Dispatchers -> DispatchPoints]
    /\ held \in [Dispatchers -> Messages \cup {NULL}]
    /\ initialized \in [Dispatchers -> BOOLEAN]
    /\ rpc \in [Readers -> {"ready", "flag"}]
    /\ passed \in [Readers -> 0 .. PerReader]
    /\ mpc \in {"starting", "running", "join", "joined", "down"}
    /\ restarts \in 0 .. MaxRestarts
    /\ delivered \in Seq(Messages)
    /\ dropped \subseteq Messages

Positions(q, m) == {i \in 1 .. Len(q) : q[i] = m}

\* An inbound message is at exactly one place: queued, in the hands of one
\* thread, delivered once, or freed.  No callback runs twice or without a
\* message, and nothing leaks over termination (dispatch.c:93-169).
OnePlace ==
    TypeOK /\ \A r \in Readers, n \in 1 .. PerReader :
        LET m == <<r, n>> IN
          Cardinality(Positions(inbound, m))
            + Cardinality({d \in Dispatchers : held[d] = m})
            + Cardinality(Positions(delivered, m))
            + (IF m \in dropped THEN 1 ELSE 0)
          = (IF n <= passed[r] THEN 1 ELSE 0)

\* Once the threads are joined none of them waits, runs or has a message:
\* dispatch_lock and the trampolines can be destroyed (dispatch.c:285).
QuietAfterJoin ==
    mpc \in {"joined", "down"} =>
        /\ waiting = {}
        /\ \A d \in Dispatchers : pc[d] = "exited" /\ held[d] = NULL

\* dispatch.h: the shutdown "will block and wait with a join call on each
\* thread"; it ends on both platforms, because the code is set under the lock the threads test
\* it under (dispatch.c:97 and :182).
TerminationCompletes == (mpc = "join") ~> (mpc = "joined")

\* The start-up spin (dispatch.c:259) ends.
InitCompletes == (mpc = "starting") ~> (mpc = "running")

\* dispatch.h:25: connector_flag_dispatch "Tells the dispatch threads to
\* consume any processes they need to": a message handed over is taken off
\* the queue some time, where a wait that missed the signal times out.
MessageTaken ==
    timed => \A r \in Readers, n \in 1 .. PerReader :
        (passed[r] >= n) ~> (\A i \in 1 .. Len(inbound) : inbound[i] # <<r, n>>)
=============================================================================
