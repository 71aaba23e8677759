---------------------------- MODULE ContextQueue ----------------------------
(***************************************************************************)
(* src/core/src/details/context_queue.c: the table of contexts, the queue  *)
(* of free ones, and the queue of contexts that wait for a read thread     *)
(* (available_queue.c).  The operations of application threads on them     *)
(* are actions here; ReadThreads adds the read threads, which own the      *)
(* contexts from then on.                                                  *)
(*                                                                         *)
(* Both queues are the Fifo of module Fifo, which uint_queue.c implements: *)
(* each push and pop is one step, and a push is only refused once shutdown *)
(* has destroyed the queue.  An application thread owns the context it     *)
(* popped until it pushes it somewhere, and what it does to it between two *)
(* visible points is merged.                                               *)
(***************************************************************************)
EXTENDS Integers, Sequences, FiniteSets, Functions

CONSTANTS
    ContextCount,  \* SUBSTANCE_CONNECTOR_CONTEXT_COUNT: 32 in the code
    Apps,          \* application threads that open, connect and close
    MaxOps,        \* bound of the model: opens and connects that are started
    MaxCloses,     \* bound of the model: calls of close_context
    Exhaustion,    \* TRUE: contexts may run out; FALSE: only histories in
                   \* which a free context is left whenever one is taken
    NULL

ASSUME ContextAssumption ==
    /\ ContextCount \in Nat \ {0}
    /\ MaxOps \in Nat /\ MaxCloses \in Nat
    /\ Exhaustion \in BOOLEAN

Contexts == 0 .. ContextCount - 1

VARIABLES
    conf,       \* conf[c]: connection state and handshake bits of context_list[c]
    free,       \* free_contexts
    available,  \* connection_queue of available_queue.c
    queues,     \* which of the two queues exist
    lost,       \* history: contexts that were on a queue when it was destroyed
                \* or whose push came after that
    apc, actx,  \* where each application thread is and the context it works on
    sock,       \* the contexts whose fd is an open socket
    known,      \* identifiers handed to the application
    closing,    \* the context and the configuration read by a close_context
                \* that has not stored it yet, or NULL
    ops, closes

contextVars == <<conf, free, available, queues, lost, apc, actx, sock, known, closing, ops, closes>>

(* SUBSTANCE_CONNECTOR_CONN_OPEN / _CONNECTED / _SHUTDOWN, _HANDSHAKE_SENT  *)
Conf(conn) == [conn |-> conn, shutdown |-> FALSE, handshake |-> FALSE]
Cleared == Conf("closed")

(* connector_init_context_subsystem *)
ContextInit ==
    /\ conf = [c \in Contexts |-> Cleared]
    /\ free = [i \in 1 .. ContextCount |-> i - 1]
    /\ available = <<>>
    /\ queues = {"free", "available"}
    /\ lost = {}
    /\ apc = [a \in Apps |-> "idle"]
    /\ actx = [a \in Apps |-> 0]
    /\ sock = {}
    /\ known = {}
    /\ closing = NULL
    /\ ops = 0
    /\ closes = 0

(* connector_uint_queue_pop with the result stored in c, which stays 0     *)
(* when the queue is empty.                                                *)
PopFree(c) ==
    \/ free # <<>> /\ c = Head(free) /\ free' = Tail(free)
    \/ free = <<>> /\ Exhaustion /\ c = 0 /\ free' = free

(* connector_return_context and the other pushes onto free_contexts, whose *)
(* result is never looked at.                                              *)
PushFree(c) ==
    IF "free" \in queues
    THEN free' = Append(free, c) /\ UNCHANGED lost
    ELSE lost' = lost \cup {c} /\ UNCHANGED free

(* append_available: connector_flag_read follows a push that succeeded.    *)
AppendAvailable(a, c) ==
    IF "available" \in queues
    THEN /\ available' = Append(available, c)
         /\ apc' = [apc EXCEPT ![a] = "flag"]
         /\ UNCHANGED lost
    ELSE /\ lost' = lost \cup {c}
         /\ apc' = [apc EXCEPT ![a] = "idle"]
         /\ UNCHANGED available

-----------------------------------------------------------------------------
(* substance_connector_open_tcp and the like look at the module's state    *)
(* once, before anything else.                                             *)
AppCheck(a) ==
    /\ apc[a] = "idle"
    /\ ops < MaxOps
    /\ apc' = [apc EXCEPT ![a] = "called"]
    /\ ops' = ops + 1
    /\ UNCHANGED <<conf, free, available, queues, lost, actx, sock, known, closing, closes>>

(* connector_context_open: a free context is required.                     *)
OpenRefused(a) ==
    /\ apc[a] = "called"
    /\ "free" \in queues /\ free = <<>>
    /\ apc' = [apc EXCEPT ![a] = "idle"]
    /\ UNCHANGED <<conf, free, available, queues, lost, actx, sock, known, closing, ops, closes>>

OpenBegin(a) ==
    /\ apc[a] = "called"
    /\ "free" \in queues /\ free # <<>>
    /\ \E c \in Contexts :
        /\ PopFree(c)
        /\ conf' = [conf EXCEPT ![c] = Conf("open")]
        /\ actx' = [actx EXCEPT ![a] = c]
    /\ apc' = [apc EXCEPT ![a] = "opening"]
    /\ UNCHANGED <<available, queues, lost, sock, known, closing, ops, closes>>

OpenFail(a) ==
    /\ apc[a] = "opening"
    /\ conf' = [conf EXCEPT ![actx[a]] = Cleared]
    /\ PushFree(actx[a])
    /\ apc' = [apc EXCEPT ![a] = "idle"]
    /\ actx' = [actx EXCEPT ![a] = 0]
    /\ UNCHANGED <<available, queues, sock, known, closing, ops, closes>>

(* The socket listens; append_available pushes the context.                *)
OpenSucceed(a) ==
    /\ apc[a] = "opening"
    /\ sock' = sock \cup {actx[a]}
    /\ known' = known \cup {actx[a]}
    /\ AppendAvailable(a, actx[a])
    /\ actx' = [actx EXCEPT ![a] = 0]
    /\ UNCHANGED <<conf, free, queues, closing, ops, closes>>

(* connector_context_connect: the result of the pop is not looked at.      *)
ConnectBegin(a) ==
    /\ apc[a] = "called"
    /\ "free" \in queues
    /\ \E c \in Contexts :
        /\ PopFree(c)
        /\ conf' = [conf EXCEPT ![c] = Conf("open")]
        /\ actx' = [actx EXCEPT ![a] = c]
    /\ apc' = [apc EXCEPT ![a] = "connecting"]
    /\ UNCHANGED <<available, queues, lost, sock, known, closing, ops, closes>>

ConnectFail(a) ==
    /\ apc[a] = "connecting"
    /\ PushFree(actx[a])
    /\ apc' = [apc EXCEPT ![a] = "idle"]
    /\ actx' = [actx EXCEPT ![a] = 0]
    /\ UNCHANGED <<conf, available, queues, sock, known, closing, ops, closes>>

(* The connection state bits are replaced, a SHUTDOWN bit set meanwhile    *)
(* included.                                                               *)
ConnectSucceed(a) ==
    /\ apc[a] = "connecting"
    /\ conf' = [conf EXCEPT ![actx[a]].conn = "connected", ![actx[a]].shutdown = FALSE]
    /\ sock' = sock \cup {actx[a]}
    /\ known' = known \cup {actx[a]}
    /\ AppendAvailable(a, actx[a])
    /\ actx' = [actx EXCEPT ![a] = 0]
    /\ UNCHANGED <<free, queues, closing, ops, closes>>

(* connector_context_close of a context that nobody else writes to.        *)
CloseConf(cf) == [cf EXCEPT !.shutdown = @ \/ cf.conn # "closed"]

(* substance_connector_close_context of an identifier the application got  *)
(* some time, in any state but closed, in which it does nothing.  The      *)
(* plain configuration |= CONN_SHUTDOWN reads the word here and stores it  *)
(* in CloseStore, on what may be another connection's context by then.     *)
CloseRead(c) ==
    /\ c \in known
    /\ closing = NULL
    /\ closes < MaxCloses
    /\ conf[c].conn # "closed"
    /\ closes' = closes + 1
    /\ closing' = [ctx |-> c, conf |-> CloseConf(conf[c])]
    /\ UNCHANGED <<conf, free, available, queues, lost, apc, actx, sock, known, ops>>

CloseStore ==
    /\ closing # NULL
    /\ conf' = [conf EXCEPT ![closing.ctx] = closing.conf]
    /\ closing' = NULL
    /\ UNCHANGED <<free, available, queues, lost, apc, actx, sock, known, ops, closes>>

AppStep(a) ==
    \/ OpenRefused(a) \/ OpenBegin(a) \/ OpenFail(a) \/ OpenSucceed(a)
    \/ ConnectBegin(a) \/ ConnectFail(a) \/ ConnectSucceed(a)

(* connector_shutdown_context_subsystem and                                *)
(* connector_available_queue_shutdown: uint_queue_destroy frees the array  *)
(* with whatever is on it.                                                 *)
DestroyFree ==
    /\ queues' = queues \ {"free"}
    /\ lost' = lost \cup Range(free)
    /\ free' = <<>>
    /\ UNCHANGED <<conf, available, apc, actx, sock, known, closing, ops, closes>>

DestroyAvailable ==
    /\ queues' = queues \ {"available"}
    /\ lost' = lost \cup Range(available)
    /\ available' = <<>>
    /\ UNCHANGED <<conf, free, apc, actx, sock, known, closing, ops, closes>>
=============================================================================
