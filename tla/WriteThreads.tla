---------------------------- MODULE WriteThreads ----------------------------
(***************************************************************************)
(* src/core/src/details/threadimpl/write_threads.c with the part of the    *)
(* external API that feeds it: application threads put messages on the     *)
(* outbound queue and signal a condition, write threads sleep on the       *)
(* condition, take messages and write them to their context, and a main    *)
(* thread shuts the write threads down and may start them again.           *)
(*                                                                         *)
(* outbound_lock and outbound_condition are modelled by the holder of the  *)
(* lock and the set of waiting threads.  Steps that a thread does while it *)
(* holds the lock and that nobody can observe are merged.  A late sender,  *)
(* past its test of the module state when the shutdown begins, still       *)
(* enqueues and signals: what its enqueue does to the memory of a cleared  *)
(* list is in LockedQueue, and its use of a destroyed lock and condition   *)
(* (write_threads.c:151-152, :164) has no effect here.                     *)
(***************************************************************************)
EXTENDS Integers, Sequences, FiniteSets

CONSTANTS
    Writers,      \* write_threads[]: SUBSTANCE_CONNECTOR_OUTBOUND_COUNT of them
    Senders,      \* application threads in substance_connector_write_message
    PerSender,    \* bound of the model: messages each sender sends
    MaxRestarts,  \* bound of the model: initialisations after a shutdown
    TimedWait,    \* TRUE: waits end after 65 s (thread_windows.c); FALSE:
                  \* they end when signalled (thread_unix.c)
    NULL

ASSUME WriteAssumption ==
    /\ PerSender \in Nat /\ MaxRestarts \in Nat
    /\ TimedWait \in BOOLEAN
    /\ NULL \notin Writers /\ NULL \notin Senders \X (1 .. PerSender)

VARIABLES
    outbound,    \* outbound_queue
    holder,      \* the write thread that holds outbound_lock, or NULL
    waiting,     \* write threads waiting on outbound_condition
    flag,        \* write_thread_shutdown_flag
    pc, held,    \* where each write thread is and the message it has taken
    spc, sent,   \* where each sender is and how many messages it enqueued
    mpc,         \* where the main thread is
    restarts,
    connected,   \* the context is CONNECTED
    wire,        \* the messages written to the context, in order
    dropped,     \* messages freed without being written
    leaked,      \* messages on the queue when an initialisation forgot it
    late,        \* history: messages enqueued after the shutdown cleared the queue
    session      \* history: session[m] is the value of restarts when m was enqueued

vars == <<outbound, holder, waiting, flag, pc, held, spc, sent, mpc, restarts,
          connected, wire, dropped, leaked, late, session>>
writerVars == <<holder, waiting, pc, held>>
senderVars == <<spc, sent>>
mainVars == <<flag, mpc, restarts>>
history == <<leaked, late, session>>

(* The n-th message of a sender; all of them go to one context.            *)
Messages == Senders \X (1 .. PerSender)

Init ==
    /\ outbound = <<>>
    /\ holder = NULL
    /\ waiting = {}
    /\ flag = 0
    /\ pc = [w \in Writers |-> "check"]
    /\ held = [w \in Writers |-> NULL]
    /\ spc = [s \in Senders |-> "ready"]
    /\ sent = [s \in Senders |-> 0]
    /\ mpc = "running"
    /\ restarts = 0
    /\ connected = TRUE
    /\ wire = <<>>
    /\ dropped = {}
    /\ leaked = {}
    /\ late = {}
    /\ session = [m \in Messages |-> 0]

-----------------------------------------------------------------------------
(* write_thread_routine *)

Goto(w, from, to) ==
    /\ pc[w] = from
    /\ pc' = [pc EXCEPT ![w] = to]

(* while (write_thread_shutdown_flag == 0u)                                *)
WriterLoop(w) ==
    /\ Goto(w, "check", IF flag = 0 THEN "lock" ELSE "exited")
    /\ UNCHANGED <<outbound, holder, waiting, held, senderVars, mainVars, connected, wire, dropped, history>>

(* Lock, find message == NULL, wait: the wait releases the lock.           *)
WriterWait(w) ==
    /\ Goto(w, "lock", "asleep")
    /\ holder = NULL
    /\ waiting' = waiting \cup {w}
    /\ UNCHANGED <<outbound, holder, held, senderVars, mainVars, connected, wire, dropped, history>>

(* A wait may end by itself: spuriously, or by the time-out on Windows.    *)
WriterWakeup(w) ==
    /\ w \in waiting
    /\ waiting' = waiting \ {w}
    /\ UNCHANGED <<outbound, holder, pc, held, senderVars, mainVars, connected, wire, dropped, history>>

WriterRelock(w) ==
    /\ w \notin waiting
    /\ holder = NULL
    /\ Goto(w, "asleep", "awake")
    /\ holder' = w
    /\ UNCHANGED <<outbound, waiting, held, senderVars, mainVars, connected, wire, dropped, history>>

WriterAwake_NoFlag(w) ==
    /\ Goto(w, "awake", "acquire")
    /\ UNCHANGED <<outbound, holder, waiting, held, senderVars, mainVars, connected, wire, dropped, history>>

(* The shutdown flag is read under the lock: leave, or look at the queue.  *)
WriterAwake(w) ==
    /\ Goto(w, "awake", IF flag = 0 THEN "acquire" ELSE "exited")
    /\ holder' = IF flag = 0 THEN holder ELSE NULL
    /\ UNCHANGED <<outbound, waiting, held, senderVars, mainVars, connected, wire, dropped, history>>

Acquire_Peek(w) ==
    /\ outbound # <<>>
    /\ held' = [held EXCEPT ![w] = Head(outbound)]
    /\ outbound' = IF Len(outbound) = 1 THEN <<>> ELSE outbound

Acquire_Last(w) ==
    /\ outbound # <<>>
    /\ held' = [held EXCEPT ![w] = outbound[Len(outbound)]]
    /\ outbound' = SubSeq(outbound, 1, Len(outbound) - 1)

(* connector_acquire_outbound_message                                      *)
Acquire(w) ==
    /\ outbound # <<>>
    /\ held' = [held EXCEPT ![w] = Head(outbound)]
    /\ outbound' = Tail(outbound)

WriterAcquire(w) ==
    /\ Acquire(w)
    /\ Goto(w, "acquire", "write")
    /\ holder' = NULL
    /\ UNCHANGED <<waiting, senderVars, mainVars, connected, wire, dropped, history>>

WriterWaitAgain_Leave(w) ==
    /\ outbound = <<>>
    /\ Goto(w, "acquire", "exited")
    /\ holder' = NULL
    /\ UNCHANGED <<outbound, waiting, held, senderVars, mainVars, connected, wire, dropped, history>>

WriterWaitAgain(w) ==
    /\ outbound = <<>>
    /\ Goto(w, "acquire", "asleep")
    /\ waiting' = waiting \cup {w}
    /\ holder' = NULL
    /\ UNCHANGED <<outbound, held, senderVars, mainVars, connected, wire, dropped, history>>

(* connector_context_write refuses a context that is not CONNECTED; the    *)
(* message is freed either way.                                            *)
WriterWrite(w) ==
    /\ Goto(w, "write", "next")
    /\ wire' = IF connected THEN Append(wire, held[w]) ELSE wire
    /\ dropped' = IF connected THEN dropped ELSE dropped \cup {held[w]}
    /\ held' = [held EXCEPT ![w] = NULL]
    /\ UNCHANGED <<outbound, holder, waiting, senderVars, mainVars, connected, history>>

(* Drain the queue without looking at the shutdown flag.                   *)
WriterNext(w) ==
    /\ Acquire(w)
    /\ Goto(w, "next", "write")
    /\ UNCHANGED <<holder, waiting, senderVars, mainVars, connected, wire, dropped, history>>

WriterDrained(w) ==
    /\ outbound = <<>>
    /\ Goto(w, "next", "check")
    /\ UNCHANGED <<outbound, holder, waiting, held, senderVars, mainVars, connected, wire, dropped, history>>

-----------------------------------------------------------------------------
(* substance_connector_write_message *)

SendCheck(s) ==
    /\ spc[s] = "ready"
    /\ sent[s] < PerSender
    /\ mpc = "running"
    /\ spc' = [spc EXCEPT ![s] = "enqueue"]
    /\ UNCHANGED <<outbound, writerVars, sent, mainVars, connected, wire, dropped, history>>

SendEnqueue(s) ==
    /\ spc[s] = "enqueue"
    /\ sent' = [sent EXCEPT ![s] = @ + 1]
    /\ outbound' = Append(outbound, <<s, sent[s] + 1>>)
    /\ spc' = [spc EXCEPT ![s] = "flag"]
    /\ session' = [session EXCEPT ![<<s, sent[s] + 1>>] = restarts]
    /\ late' = IF mpc = "down" THEN late \cup {<<s, sent[s] + 1>>} ELSE late
    /\ UNCHANGED <<writerVars, mainVars, connected, wire, dropped, leaked>>

(* connector_flag_write_impl: lock, signal one waiting thread, unlock.     *)
SendFlag(s) ==
    /\ spc[s] = "flag"
    /\ holder = NULL
    /\ spc' = [spc EXCEPT ![s] = "ready"]
    /\ \/ waiting = {} /\ UNCHANGED waiting
       \/ \E w \in waiting : waiting' = waiting \ {w}
    /\ UNCHANGED <<outbound, holder, pc, held, sent, mainVars, connected, wire, dropped, history>>

-----------------------------------------------------------------------------
(* connector_shutdown_write_threads, the rest of the shutdown that touches *)
(* the outbound queue, and the next initialisation.                        *)

ShutdownFlag ==
    /\ mpc = "running"
    /\ flag = 0
    /\ flag' = 1
    /\ mpc' = "broadcast"
    /\ UNCHANGED <<outbound, writerVars, senderVars, restarts, connected, wire, dropped, history>>

ShutdownBroadcast ==
    /\ mpc = "broadcast"
    /\ holder = NULL
    /\ waiting' = {}
    /\ mpc' = "join"
    /\ UNCHANGED <<outbound, holder, pc, held, senderVars, flag, restarts, connected, wire, dropped, history>>

(* Every thread is joined, then the flag is cleared.                       *)
ShutdownJoin ==
    /\ mpc = "join"
    /\ \A w \in Writers : pc[w] = "exited"
    /\ flag' = 0
    /\ mpc' = "joined"
    /\ UNCHANGED <<outbound, writerVars, senderVars, restarts, connected, wire, dropped, history>>

(* connector_locked_queue_clear frees what is left on the queue.           *)
ShutdownQueue ==
    /\ mpc = "joined"
    /\ mpc' = "down"
    /\ outbound' = <<>>
    /\ dropped' = dropped \cup {outbound[i] : i \in 1 .. Len(outbound)}
    /\ UNCHANGED <<writerVars, senderVars, flag, restarts, connected, wire, history>>

Restart_Keep ==
    /\ mpc = "down"
    /\ restarts < MaxRestarts
    /\ restarts' = restarts + 1
    /\ mpc' = "running"
    /\ pc' = [w \in Writers |-> "check"]
    /\ connected' = TRUE
    /\ UNCHANGED <<outbound, dropped, leaked, holder, waiting, held, senderVars, flag, wire, late, session>>

(* connector_locked_queue_init sets the pointers to NULL and frees nothing *)
(* that a late sender left on the queue; the threads are created, and      *)
(* nobody waits for them to run.                                           *)
Restart ==
    /\ mpc = "down"
    /\ restarts < MaxRestarts
    /\ restarts' = restarts + 1
    /\ mpc' = "running"
    /\ outbound' = <<>>
    /\ leaked' = leaked \cup {outbound[i] : i \in 1 .. Len(outbound)}
    /\ pc' = [w \in Writers |-> "check"]
    /\ connected' = TRUE
    /\ UNCHANGED <<holder, waiting, held, senderVars, flag, wire, dropped, late, session>>

(* The peer goes away and the read thread takes the context down.          *)
Disconnect ==
    /\ connected
    /\ connected' = FALSE
    /\ UNCHANGED <<outbound, writerVars, senderVars, mainVars, wire, dropped, history>>

-----------------------------------------------------------------------------
WriterRun(w) ==
    \/ WriterLoop(w) \/ WriterAwake(w) \/ WriterAcquire(w) \/ WriterWaitAgain(w)
    \/ WriterWrite(w) \/ WriterNext(w) \/ WriterDrained(w)

MainStep == ShutdownBroadcast \/ ShutdownJoin \/ ShutdownQueue

Next ==
    \/ \E w \in Writers :
        WriterRun(w) \/ WriterWait(w) \/ WriterRelock(w) \/ WriterWakeup(w)
    \/ \E s \in Senders : SendCheck(s) \/ SendEnqueue(s) \/ SendFlag(s)
    \/ ShutdownFlag \/ MainStep \/ Restart \/ Disconnect

Spec == Init /\ [][Next]_vars

(* Threads are scheduled, and one that wants outbound_lock gets it some    *)
(* time if it is free again and again (it is held for a few instructions). *)
(* A wait ends by itself only where the platform has a time-out.           *)
FairSpec ==
    /\ Spec
    /\ \A w \in Writers :
        /\ WF_vars(WriterRun(w))
        /\ SF_vars(WriterWait(w))
        /\ SF_vars(WriterRelock(w))
        /\ TimedWait => WF_vars(WriterWakeup(w))
    /\ \A s \in Senders : WF_vars(SendEnqueue(s)) /\ SF_vars(SendFlag(s))
    /\ WF_vars(ShutdownJoin) /\ SF_vars(ShutdownBroadcast) /\ WF_vars(ShutdownQueue)

-----------------------------------------------------------------------------
(* Properties *)

WriterPoints == {"check", "lock", "asleep", "awake", "acquire", "write", "next", "exited"}

\* Types of the state; a waiting thread is asleep, a lock holder is awake.
TypeOK ==
    /\ outbound \in Seq(Messages)
    /\ holder \in Writers \cup {NULL}
    /\ waiting \subseteq {w \in Writers : pc[w] = "asleep"}
    /\ flag \in {0, 1}
    /\ pc \in [Writers -> WriterPoints]
    /\ held \in [Writers -> Messages \cup {NULL}]
    /\ spc \in [Senders -> {"ready", "enqueue", "flag"}]
    /\ sent \in [Senders -> 0 .. PerSender]
    /\ mpc \in {"running", "broadcast", "join", "joined", "down"}
    /\ restarts \in 0 .. MaxRestarts
    /\ connected \in BOOLEAN
    /\ wire \in Seq(Messages)
    /\ dropped \subseteq Messages
    /\ leaked \subseteq Messages
    /\ late \subseteq Messages
    /\ session \in [Messages -> 0 .. MaxRestarts]

Positions(q, m) == {i \in 1 .. Len(q) : q[i] = m}

\* A message that was enqueued is at exactly one place: on the queue, in the
\* hands of one write thread, on the wire once, freed, or leaked.  Nothing is
\* lost or written twice over shutdown and restart (write_threads.c:61-103), and
\* only a message that a late sender enqueued on the cleared queue is leaked:
\* one enqueued before, by whatever thread and however late, is written or
\* freed (locked_queue.c:45-51, :22-23).
OnePlace ==
    /\ TypeOK
    /\ leaked \subseteq late
    /\ \A s \in Senders, n \in 1 .. PerSender :
        LET m == <<s, n>> IN
          Cardinality(Positions(outbound, m))
            + Cardinality({w \in Writers : held[w] = m})
            + Cardinality(Positions(wire, m))
            + (IF m \in dropped THEN 1 ELSE 0)
            + (IF m \in leaked THEN 1 ELSE 0)
          = (IF n <= sent[s] THEN 1 ELSE 0)

\* A message that is on the queue or in the hands of a write thread was
\* enqueued in this session.  It names its context by number, and the next
\* session gives the same numbers to other connections, so a message that
\* outlived its session would be written to a stranger: the threads are joined
\* before the queue is cleared (external_api.c:143-155), and what a late sender
\* adds after that is forgotten by the next init (locked_queue.c:22-23).
SessionKept ==
    \A m \in Messages :
        Positions(outbound, m) # {} \/ (\E w \in Writers : held[w] = m) => session[m] = restarts

\* The messages of a sender are taken off the queue in the order in which
\* they were sent, whoever takes them (write_threads.c:73 and :91); after
\* that two threads may overtake each other.
TakenInOrder ==
    \A s \in Senders, n \in 1 .. PerSender : \A k \in 1 .. n :
        Positions(outbound, <<s, k>>) # {} /\ n <= sent[s] => Positions(outbound, <<s, n>>) # {}

\* communication.h:28: the shutdown will "block until they all finish and
\* shut down": it comes to an end.
ShutdownCompletes == (mpc = "broadcast") ~> (mpc = "joined")

\* A message accepted by substance_connector_write_message is taken off the
\* queue some time, unless the module is down by then (connector.h: "Write a
\* message to the given context.").
MessageTaken ==
    \A s \in Senders, n \in 1 .. PerSender :
        (sent[s] >= n) ~> (mpc = "down" \/ \A i \in 1 .. Len(outbound) : outbound[i] # <<s, n>>)
=============================================================================
