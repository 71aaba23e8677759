----------------------------- MODULE Autoconnect -----------------------------
(***************************************************************************)
(* How processes find each other: network/autoconnect.c,                   *)
(* network/openconnectionimpl.c, system/connectiondirectory.c and          *)
(* fileutils.c, connection_unix.c, and the context table behind them       *)
(* (context_queue.c).  A process that listens on a port keeps a file named *)
(* after the port in a directory all processes share; a broadcast lists    *)
(* the directory, connects to every port it does not know, and removes the *)
(* file of a port that refuses.  Processes crash without removing theirs.  *)
(*                                                                         *)
(* Each process has one application thread (pc) and one read thread (rpc), *)
(* which accepts and closes.  A crashed process starts again at once.      *)
(* Left out: contexts running out (ReadThreads has it), and failures of    *)
(* socket() and accept().                                                  *)
(***************************************************************************)
EXTENDS Naturals, FiniteSets, Sequences

CONSTANTS
    Procs,         \* processes that use the library
    Ports,         \* TCP ports of the loopback interface
    Paths,         \* what lies in the UNIX directory; {} stands for Windows
    ContextCount,  \* SUBSTANCE_CONNECTOR_CONTEXT_COUNT
    ListSize,      \* CONNECTOR_DEFAULT_FILE_LIST_SIZE
    MaxOps,        \* bound of the model: calls of the applications
    MaxCrashes,    \* bound of the model: processes that die
    NULL

ASSUME AutoconnectAssumption ==
    /\ ContextCount \in Nat \ {0} /\ ListSize \in Nat \ {0}
    /\ MaxOps \in Nat /\ MaxCrashes \in Nat
    /\ NULL \notin Procs \cup Ports \cup Paths \cup 1 .. ContextCount
    /\ Ports \cap Paths = {} /\ 0 \notin Ports

VARIABLES
    files,      \* port files in the shared directory
    paths,      \* entries of the UNIX directory
    bound,      \* bound[q]: the process whose socket is bound to q, or NULL
    listening,  \* ports whose socket accepts connections
    backlog,    \* backlog[q]: connections nobody has accepted yet
    table,      \* table[p]: context_list
    free,       \* free[p]: free_contexts
    pc, rpc,    \* where the application thread and the read thread are
    cur,        \* cur[p]: the context being opened, or the element tried
    todo,       \* todo[p]: elements of the list the broadcast has not seen
    listed,     \* listed[p]: length of that list
    closing,    \* closing[p]: the context the read thread closes
    ops, crashes,
    uses,       \* history: how often each port was bound
    refused,    \* history: ports that refused a connection
    targets     \* history: ports a broadcast has to reach

osVars == <<files, paths, bound, listening, backlog>>
appVars == <<pc, cur, todo, listed, ops, targets>>
readVars == <<rpc, closing>>
histVars == <<crashes, uses, refused>>
vars == <<osVars, table, free, appVars, readVars, histVars>>

Slots == 1 .. ContextCount

(* connector_context_t; a port of 0 is none.  hung is of the socket: the   *)
(* other end has closed.  peer is history: the process a broadcast reached *)
(* through this context.                                                   *)
Context(type, state, port, data) ==
    [type |-> type, state |-> state, shutdown |-> FALSE, hung |-> FALSE, port |-> port,
     data |-> data, peer |-> NULL]
Cleared == Context("none", "closed", 0, "null")

Init ==
    /\ files = {} /\ paths = Paths
    /\ bound = [q \in Ports |-> NULL]
    /\ listening = {}
    /\ backlog = [q \in Ports |-> 0]
    /\ table = [p \in Procs |-> [s \in Slots |-> Cleared]]
    /\ free = [p \in Procs |-> [s \in Slots |-> s]]
    /\ pc = [p \in Procs |-> "idle"] /\ rpc = [p \in Procs |-> "poll"]
    /\ cur = [p \in Procs |-> NULL]
    /\ todo = [p \in Procs |-> {}] /\ listed = [p \in Procs |-> 0]
    /\ closing = [p \in Procs |-> NULL]
    /\ ops = 0 /\ crashes = 0
    /\ uses = [q \in Ports |-> 0] /\ refused = {}
    /\ targets = [p \in Procs |-> {}]

Goto(p, from, to) == pc[p] = from /\ pc' = [pc EXCEPT ![p] = to]

Call ==
    /\ ops < MaxOps
    /\ ops' = ops + 1

Set(p, s, context) == table' = [table EXCEPT ![p][s] = context]

(* A context that was taken and is put back at once.                       *)
Rotate(p) == free' = [free EXCEPT ![p] = Append(Tail(@), Head(@))]

IsFree(p, s) == \E i \in 1 .. Len(free[p]) : free[p][i] = s

(* Contexts that were handed to the read thread and are not being closed.  *)
Served(p, s) ==
    /\ ~IsFree(p, s)
    /\ ~(pc[p] \in {"bound", "listening"} /\ cur[p] = s)
    /\ closing[p] # s

-----------------------------------------------------------------------------
(* connector_context_open_tcp and connector_open_tcp_impl                  *)

(* bind to the port asked for, or to any (0) that nobody has.              *)
Open(p) ==
    /\ Goto(p, "idle", "bound")
    /\ Call
    /\ free[p] # <<>>
    /\ \E q \in Ports :
        /\ bound[q] = NULL
        /\ bound' = [bound EXCEPT ![q] = p]
        /\ uses' = [uses EXCEPT ![q] = @ + 1]
        /\ Set(p, Head(free[p]), Context("tcp", "open", q, "null"))
    /\ cur' = [cur EXCEPT ![p] = Head(free[p])]
    /\ free' = [free EXCEPT ![p] = Tail(@)]
    /\ UNCHANGED <<files, paths, listening, backlog, todo, listed, targets, readVars, crashes, refused>>

(* The context is cleared and goes back.                                   *)
OpenFails(p) ==
    /\ pc[p] = "idle" /\ Call
    /\ free[p] # <<>>
    /\ Set(p, Head(free[p]), Cleared)
    /\ Rotate(p)
    /\ UNCHANGED <<osVars, pc, cur, todo, listed, targets, readVars, histVars>>

OpenInUse(p) == (\E q \in Ports : bound[q] # NULL) /\ OpenFails(p)

(* connector_open_unix answers INVALID for every path it is given (and is  *)
(* not supported on Windows).                                              *)
OpenUnix(p) == OpenFails(p)

(* The port whose file is written, in create_tcp_filepath.                 *)
Port(p) == table[p][cur[p]].port

OpenListen(p) ==
    /\ Goto(p, "bound", "listening")
    /\ listening' = listening \cup {Port(p)}
    /\ UNCHANGED <<files, paths, bound, backlog, table, free, cur, todo, listed, ops, targets, readVars, histVars>>

OpenListenFails(p) ==
    /\ Goto(p, "bound", "idle")
    /\ bound' = [bound EXCEPT ![Port(p)] = NULL]
    /\ Set(p, cur[p], Cleared)
    /\ free' = [free EXCEPT ![p] = Append(@, cur[p])]
    /\ cur' = [cur EXCEPT ![p] = NULL]
    /\ UNCHANGED <<files, paths, listening, backlog, todo, listed, ops, targets, readVars, histVars>>

(* connector_commit_open_tcp_port, then the context goes to the read       *)
(* threads.                                                                *)
OpenCommit(p) ==
    /\ Goto(p, "listening", "idle")
    /\ files' = files \cup {Port(p)}
    /\ cur' = [cur EXCEPT ![p] = NULL]
    /\ UNCHANGED <<paths, bound, listening, backlog, table, free, todo, listed, ops, targets, readVars, histVars>>

-----------------------------------------------------------------------------
(* broadcast_connect_impl: list the directory, then one element at a time  *)

(* Ports that other processes listen on, whose file is committed.          *)
Committed(q) == \E p \in Procs, s \in Slots :
    /\ bound[q] = p /\ q \in listening
    /\ Served(p, s) /\ table[p][s].state = "open" /\ table[p][s].port = q

(* A connection that one of its ends has closed.                           *)
Ended(c) == c.shutdown \/ c.hung

MustReach(p) ==
    {q \in Ports :
        /\ Committed(q) /\ bound[q] # p /\ uses[q] = 1
        /\ \A s \in Slots : table[p][s].port = q => ~Ended(table[p][s])}

Broadcast(p, directory) ==
    /\ Goto(p, "idle", "scan")
    /\ Call
    /\ directory # {}
    /\ todo' = [todo EXCEPT ![p] = directory]
    /\ listed' = [listed EXCEPT ![p] = Cardinality(directory)]
    /\ targets' = [targets EXCEPT ![p] = IF directory \subseteq Paths THEN {} ELSE MustReach(p)]
    /\ UNCHANGED <<osVars, table, free, cur, readVars, histVars>>

BroadcastTcp(p) == Broadcast(p, files)
BroadcastUnix(p) == Broadcast(p, paths)

Filtered_OwnOnly(p, q) ==
    \E s \in Slots : table[p][s].state = "open" /\ table[p][s].type = "tcp" /\ table[p][s].port = q

Filtered_AnyConnected(p, q) ==
    \E s \in Slots : table[p][s].state # "closed" /\ table[p][s].type = "tcp"

(* test_tcp_validity: a context of this process, in any state but CLOSED,  *)
(* has the port.                                                           *)
Filtered(p, q) ==
    \E s \in Slots : table[p][s].state # "closed" /\ table[p][s].type = "tcp" /\ table[p][s].port = q

(* connector_is_file, connector_is_unix_socket: both accept either kind.   *)
Exists(e) == e \in files \cup paths

(* Ports are filtered before the connect, paths are not.                   *)
Valid(p, e) == Exists(e) /\ (e \in Ports => ~Filtered(p, e))

ScanSkip(p) ==
    /\ pc[p] = "scan"
    /\ \E e \in todo[p] : ~Valid(p, e) /\ todo' = [todo EXCEPT ![p] = @ \ {e}]
    /\ UNCHANGED <<osVars, table, free, pc, cur, listed, ops, targets, readVars, histVars>>

ScanTry(p) ==
    /\ Goto(p, "scan", "connect")
    /\ \E e \in todo[p] :
        /\ Valid(p, e)
        /\ cur' = [cur EXCEPT ![p] = e]
        /\ todo' = [todo EXCEPT ![p] = @ \ {e}]
    /\ UNCHANGED <<osVars, table, free, listed, ops, targets, readVars, histVars>>

(* substance_connector_connect_tcp: the application names a port of        *)
(* another process.                                                        *)
ConnectCall(p) ==
    /\ Goto(p, "idle", "appconnect")
    /\ Call
    /\ \E q \in Ports : bound[q] # p /\ cur' = [cur EXCEPT ![p] = q]
    /\ UNCHANGED <<osVars, table, free, todo, listed, targets, readVars, histVars>>

(* connector_context_connect: what the context holds during the call.      *)
Connecting(e, state) ==
    IF e \in Ports THEN Context("tcp", state, e, "null")
                   ELSE Context("unix", state, 0, IF state = "open" THEN "caller" ELSE "null")

(* Somebody listens; for a path it may be any program.                     *)
ConnectSucceeds(p) ==
    /\ pc[p] \in {"connect", "appconnect"}
    /\ free[p] # <<>>
    /\ cur[p] \in listening \cup paths
    /\ Set(p, Head(free[p]),
           [Connecting(cur[p], "connected") EXCEPT
                !.peer = IF pc[p] = "connect" /\ cur[p] \in Ports THEN bound[cur[p]] ELSE NULL])
    /\ free' = [free EXCEPT ![p] = Tail(@)]
    /\ backlog' = IF cur[p] \in Ports THEN [backlog EXCEPT ![cur[p]] = @ + 1] ELSE backlog
    /\ pc' = [pc EXCEPT ![p] = IF @ = "connect" THEN "scan" ELSE "idle"]
    /\ cur' = [cur EXCEPT ![p] = NULL]
    /\ UNCHANGED <<files, paths, bound, listening, todo, listed, ops, targets, readVars, histVars>>

(* The context goes back as it is, with the port and the caller's string.  *)
ConnectFails(p) ==
    /\ pc[p] \in {"connect", "appconnect"}
    /\ free[p] # <<>>
    /\ cur[p] \notin listening
    /\ Set(p, Head(free[p]), Connecting(cur[p], "open"))
    /\ Rotate(p)
    /\ refused' = refused \cup ({cur[p]} \cap Ports)
    /\ pc' = [pc EXCEPT ![p] = IF @ = "connect" THEN "remove" ELSE "idle"]
    /\ cur' = IF pc[p] = "connect" THEN cur ELSE [cur EXCEPT ![p] = NULL]
    /\ UNCHANGED <<osVars, todo, listed, ops, targets, readVars, crashes, uses>>

(* connector_remove_file                                                   *)
Remove(p) ==
    /\ Goto(p, "remove", "scan")
    /\ files' = files \ {cur[p]}
    /\ paths' = paths \ {cur[p]}
    /\ cur' = [cur EXCEPT ![p] = NULL]
    /\ UNCHANGED <<bound, listening, backlog, table, free, todo, listed, ops, targets, readVars, histVars>>

ScanEnd(p) ==
    /\ todo[p] = {}
    /\ Goto(p, "scan", "idle")
    /\ targets' = [targets EXCEPT ![p] = {}]
    /\ listed' = [listed EXCEPT ![p] = 0]
    /\ UNCHANGED <<osVars, table, free, cur, todo, ops, readVars, histVars>>

-----------------------------------------------------------------------------
(* The read thread                                                         *)

(* connector_context_accept does not clear the context it takes.           *)
Accept(p) ==
    /\ rpc[p] = "poll"
    /\ free[p] # <<>>
    /\ \E l \in Slots :
        /\ Served(p, l) /\ table[p][l].state = "open" /\ ~table[p][l].shutdown
        /\ backlog[table[p][l].port] > 0
        /\ backlog' = [backlog EXCEPT ![table[p][l].port] = @ - 1]
        /\ Set(p, Head(free[p]),
               [table[p][Head(free[p])] EXCEPT !.type = table[p][l].type, !.state = "connected",
                                               !.shutdown = FALSE, !.hung = FALSE])
    /\ free' = [free EXCEPT ![p] = Tail(@)]
    /\ UNCHANGED <<files, paths, bound, listening, appVars, readVars, histVars>>

(* One end of the connection of context s closes; a broadcast that is      *)
(* going on need not reach its port any more.                              *)
End(p, s, context) ==
    /\ Set(p, s, context)
    /\ targets' = [targets EXCEPT ![p] = @ \ {table[p][s].port}]

(* connector_context_close: any thread of the application may call it, at  *)
(* any time, for a context it was given.                                   *)
CloseContext(p) ==
    /\ Call
    /\ \E s \in Slots :
        /\ Served(p, s) /\ ~table[p][s].shutdown
        /\ End(p, s, [table[p][s] EXCEPT !.shutdown = TRUE])
    /\ UNCHANGED <<osVars, free, pc, cur, todo, listed, readVars, histVars>>

(* The other end of a connection closes: the process that accepted it (or  *)
(* died, or closed its listening socket before it accepted), or the one    *)
(* that made it.  Which end belongs to which is not tracked: it may happen *)
(* to any connection at any time.                                          *)
HangUp(p) ==
    /\ \E s \in Slots :
        /\ Served(p, s) /\ table[p][s].state = "connected" /\ ~table[p][s].hung
        /\ End(p, s, [table[p][s] EXCEPT !.hung = TRUE])
    /\ UNCHANGED <<osVars, free, pc, cur, todo, listed, ops, readVars, histVars>>

(* POLLHUP or POLLERR: the read thread marks the context itself.           *)
SeeHangup(p) ==
    /\ rpc[p] = "poll"
    /\ \E s \in Slots :
        /\ Served(p, s) /\ table[p][s].hung /\ ~table[p][s].shutdown
        /\ Set(p, s, [table[p][s] EXCEPT !.shutdown = TRUE])
    /\ UNCHANGED <<osVars, free, appVars, readVars, histVars>>

CleanFile_AnyState(p) ==
    /\ rpc[p] = "poll"
    /\ \E s \in Slots :
        /\ Served(p, s) /\ table[p][s].shutdown
        /\ closing' = [closing EXCEPT ![p] = s]
        /\ files' = files \ {table[p][s].port}
    /\ rpc' = [rpc EXCEPT ![p] = "close"]
    /\ UNCHANGED <<paths, bound, listening, backlog, table, free, appVars, histVars>>

(* connector_close_connection: what to do depends on the type, and an open *)
(* TCP context owns a port file.                                           *)
OwnsFile(c) == c.type = "tcp" /\ c.state = "open"

CleanFile(p) ==
    /\ rpc[p] = "poll"
    /\ \E s \in Slots :
        /\ Served(p, s) /\ table[p][s].shutdown
        /\ closing' = [closing EXCEPT ![p] = s]
        /\ files' = IF OwnsFile(table[p][s]) THEN files \ {table[p][s].port} ELSE files
    /\ rpc' = [rpc EXCEPT ![p] = "close"]
    /\ UNCHANGED <<paths, bound, listening, backlog, table, free, appVars, histVars>>

Release(ports) ==
    /\ bound' = [q \in Ports |-> IF q \in ports THEN NULL ELSE bound[q]]
    /\ listening' = listening \ ports
    /\ backlog' = [q \in Ports |-> IF q \in ports THEN 0 ELSE backlog[q]]

CleanSocket(p) ==
    LET c == table[p][closing[p]] IN
    /\ rpc[p] = "close"
    /\ Release(IF OwnsFile(c) THEN {c.port} ELSE {})
    /\ rpc' = [rpc EXCEPT ![p] = "clear"]
    /\ UNCHANGED <<files, paths, table, free, appVars, closing, histVars>>

(* clear_context_struct frees connection_data; the identifier goes back.   *)
CleanClear(p) ==
    /\ rpc[p] = "clear"
    /\ Set(p, closing[p], Cleared)
    /\ free' = [free EXCEPT ![p] = Append(@, closing[p])]
    /\ rpc' = [rpc EXCEPT ![p] = "poll"]
    /\ closing' = [closing EXCEPT ![p] = NULL]
    /\ UNCHANGED <<osVars, appVars, histVars>>

-----------------------------------------------------------------------------
(* A process dies: its sockets close, its files stay; it starts again.     *)
Die(p) ==
    /\ crashes < MaxCrashes
    /\ crashes' = crashes + 1
    /\ Release({q \in Ports : bound[q] = p})
    /\ table' = [table EXCEPT ![p] = [s \in Slots |-> Cleared]]
    /\ free' = [free EXCEPT ![p] = [s \in Slots |-> s]]
    /\ pc' = [pc EXCEPT ![p] = "idle"] /\ rpc' = [rpc EXCEPT ![p] = "poll"]
    /\ cur' = [cur EXCEPT ![p] = NULL] /\ closing' = [closing EXCEPT ![p] = NULL]
    /\ todo' = [todo EXCEPT ![p] = {}] /\ listed' = [listed EXCEPT ![p] = 0]
    /\ targets' = [targets EXCEPT ![p] = {}]
    /\ UNCHANGED <<files, paths, ops, uses, refused>>

(* connector_open_default_unix on a POSIX system: the default path is NULL *)
(* and its length is taken.                                                *)
OpenDefaultUnix(p) == pc[p] = "idle" /\ free[p] # <<>> /\ Paths # {} /\ Die(p)

(* append_file_list zeroes only the first half of a grown array: a list    *)
(* of ListSize elements or more has no sentinel, and the walk leaves it.   *)
ScanOverrun(p) == pc[p] = "scan" /\ todo[p] = {} /\ listed[p] >= ListSize /\ Die(p)

-----------------------------------------------------------------------------
Next ==
    \E p \in Procs :
        \/ Open(p) \/ OpenInUse(p) \/ OpenUnix(p)
        \/ OpenListen(p) \/ OpenListenFails(p) \/ OpenCommit(p)
        \/ BroadcastTcp(p) \/ BroadcastUnix(p)
        \/ ScanSkip(p) \/ ScanTry(p) \/ ScanEnd(p)
        \/ ConnectCall(p) \/ ConnectSucceeds(p) \/ ConnectFails(p) \/ Remove(p)
        \/ Accept(p) \/ CloseContext(p) \/ HangUp(p) \/ SeeHangup(p)
        \/ CleanFile(p) \/ CleanSocket(p) \/ CleanClear(p)
        \/ Die(p) \/ OpenDefaultUnix(p) \/ ScanOverrun(p)

Spec == Init /\ [][Next]_vars

-----------------------------------------------------------------------------
(* Properties *)

\* Broadcasts never connect a process to itself, although its own port file
\* is in the directory, and give it at most one connection per port, however
\* often it broadcasts (autoconnect.c:144: "Test whether that port has already
\* been connected to").
ConnectedOnce ==
    \A p \in Procs : \A s, t \in Slots :
        /\ table[p][s].peer # p
        /\ (table[p][s].peer # NULL /\ table[p][t].peer # NULL /\ table[p][s].port = table[p][t].port)
              => s = t

\* A port that accepts connections has its file in the directory, whatever
\* other owners of the port did before, unless somebody was refused there: a
\* broadcast removes the file it was refused at, which may by then belong to
\* a new owner of the port (autoconnect.c:72-78, connection_unix.c:114-128,
\* openconnectionimpl.c:99-112).
ListenerHasFile == \A q \in Ports : Committed(q) /\ q \notin refused => q \in files

\* At its end a broadcast has a connection, open at both ends, to every port
\* that was listened on at its beginning and still is, if the port is used for
\* the first time, has refused nobody, and no connection to it ended: neither
\* during the broadcast nor before it with the context not cleaned up yet.  A
\* port is filtered out by any context that has it (autoconnect.c:108-120),
\* also by one whose connection the other end has closed.
BroadcastReaches ==
    \A p \in Procs : pc[p] = "scan" /\ todo[p] = {} =>
        \A q \in targets[p] : Committed(q) /\ uses[q] = 1 /\ q \notin refused =>
            \E s \in Slots :
                table[p][s].state = "connected" /\ table[p][s].port = q /\ ~Ended(table[p][s])

\* context_queue.c:211: "The description does not retain ownership of the
\* filepath pointer": closing a context does not free a caller's string.
FreesOnlyOwned ==
    \A p \in Procs : rpc[p] = "clear" => table[p][closing[p]].data # "caller"

=============================================================================
