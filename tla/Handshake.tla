------------------------------ MODULE Handshake ------------------------------
(***************************************************************************)
(* The handshake: internal_messages.c, the handshake and the clean-up in   *)
(* context_queue.c, and the way of a message through reader, dispatcher    *)
(* and writer.  A read thread that takes a connected context writes an     *)
(* internal handshake (kind "I").  A dispatch thread that gets one queues  *)
(* an ordinary answer (kind "R") and stores the peer's name in the         *)
(* context.  A received answer goes to the trampolines: the connection is  *)
(* established.  The clean-up tells the trampolines that the connection of *)
(* the stored name is closed.                                              *)
(*                                                                         *)
(* One process is modelled with its contexts; every connection n has a     *)
(* peer, which runs the same program and may hang up.  The name of the     *)
(* peer of connection n is n, and 0 is NULL.  Contexts are found by their  *)
(* number everywhere, so a message outlives the connection it belongs to:  *)
(* an answer may go out on the next connection of its context, here and at *)
(* the peer, and each message records the connection it was made for.  A   *)
(* message arrives whole (readwriteutils.c).                               *)
(***************************************************************************)
EXTENDS Naturals, Sequences

CONSTANTS
    Contexts,     \* context identifiers
    Dispatchers,  \* dispatch threads
    Writers,      \* write threads
    MaxConns,     \* bound of the model: connections made
    MaxCloses,    \* bound of the model: closes and hang-ups
    NULL

ASSUME HandshakeAssumption ==
    /\ MaxConns \in Nat \ {0} /\ MaxCloses \in Nat
    /\ NULL \notin Contexts

VARIABLES
    conf,    \* conf[c]: connection state of the configuration word
    conn,    \* conn[c]: connection whose socket is in the context, 0 if none
    name,    \* name[c]: application_name
    taken,   \* contexts a read thread has taken from the available queue
    cpc,     \* cpc[c]: how far the clean-up of the context is
    inq,     \* inbound queue: records [ctx, kind, from, of]; from is the
             \* connection it came on, of the one it was made for
    outq,    \* outbound queue: contexts to answer
    dmsg,    \* dmsg[d]: the message a dispatcher handles, or NULL
    wmsg,    \* wmsg[w]: the context a writer answers, or NULL
    toUs,    \* toUs[n], toPeer[n]: messages on the two ways of connection n
    toPeer,
    hung,    \* connections that one side has closed
    greeted, \* connections on which the peer has sent its handshake
    owed,    \* connections whose peer has an answer that is not written yet
    pgot,    \* pgot[n]: what the peer has received
    log,     \* history: what the trampolines were told
    made, closes,
    late     \* history: contexts cleaned up with messages of theirs inside

ctxVars == <<conf, conn, name, taken, cpc>>
queueVars == <<inq, outq, dmsg, wmsg>>
peerVars == <<toUs, toPeer, hung, greeted, owed, pgot>>
histVars == <<log, made, closes, late>>
vars == <<ctxVars, queueVars, peerVars, histVars>>

Conns == 1 .. MaxConns

Mail(kind, n) == [kind |-> kind, of |-> n]

Init ==
    /\ conf = [c \in Contexts |-> "closed"]
    /\ conn = [c \in Contexts |-> 0]
    /\ name = [c \in Contexts |-> 0]
    /\ taken = {}
    /\ cpc = [c \in Contexts |-> "none"]
    /\ inq = <<>> /\ outq = <<>>
    /\ dmsg = [d \in Dispatchers |-> NULL] /\ wmsg = [w \in Writers |-> NULL]
    /\ toUs = [n \in Conns |-> <<>>] /\ toPeer = [n \in Conns |-> <<>>]
    /\ hung = {} /\ greeted = {} /\ owed = {}
    /\ pgot = [n \in Conns |-> {}]
    /\ log = <<>> /\ made = 0 /\ closes = 0 /\ late = {}

Tell(what, c, n, m) ==
    log' = Append(log, [what |-> what, ctx |-> c, conn |-> n, of |-> m])

-----------------------------------------------------------------------------
(* A connection is made: by connect, which zeroes the context, or by       *)
(* accept, which leaves in it what it finds.                               *)
Attach(c, newName) ==
    /\ conf[c] = "closed" /\ cpc[c] = "none"
    /\ made < MaxConns
    /\ made' = made + 1
    /\ conf' = [conf EXCEPT ![c] = "connected"]
    /\ conn' = [conn EXCEPT ![c] = made + 1]
    /\ name' = [name EXCEPT ![c] = newName]
    /\ UNCHANGED <<taken, cpc, queueVars, peerVars, log, closes, late>>

Connect(c) == Attach(c, 0)
Accept(c) == Attach(c, name[c])

(* Bytes for a peer that hung up are lost.                                 *)
Send(n, kind) ==
    toPeer' = IF n \in hung THEN toPeer ELSE [toPeer EXCEPT ![n] = Append(@, kind)]

(* connector_read_thread_try_acquire, connector_context_write_handshake    *)
Acquire(c) ==
    /\ conf[c] # "closed" /\ c \notin taken /\ cpc[c] = "none"
    /\ taken' = taken \cup {c}
    /\ IF conf[c] = "connected" THEN Send(conn[c], "I") ELSE UNCHANGED toPeer
    /\ UNCHANGED <<conf, conn, name, cpc, queueVars, toUs, hung, greeted, owed, pgot, histVars>>

(* POLLIN: connector_read_thread_handle_connected.  What arrived before    *)
(* the peer hung up may be read afterwards; POLLHUP is looked at first, so *)
(* it may also never be read.                                              *)
Read(c) ==
    /\ c \in taken /\ conf[c] = "connected" /\ cpc[c] = "none"
    /\ toUs[conn[c]] # <<>>
    /\ inq' = Append(inq, [ctx |-> c, kind |-> Head(toUs[conn[c]]).kind, from |-> conn[c],
                           of |-> Head(toUs[conn[c]]).of])
    /\ toUs' = [toUs EXCEPT ![conn[c]] = Tail(@)]
    /\ UNCHANGED <<ctxVars, outq, dmsg, wmsg, toPeer, hung, greeted, owed, pgot, histVars>>

SeeHangup_Notify(c) ==
    /\ c \in taken /\ conf[c] = "connected" /\ conn[c] \in hung
    /\ conf' = [conf EXCEPT ![c] = "shutdown"]
    /\ IF name[c] # 0 THEN Tell("closed", c, name[c], name[c]) ELSE UNCHANGED log
    /\ UNCHANGED <<conn, name, taken, cpc, queueVars, peerVars, made, closes, late>>

(* POLLHUP or POLLERR: connector_handle_error_disconnect only copies the   *)
(* name; connector_context_close marks the context.                        *)
SeeHangup(c) ==
    /\ c \in taken /\ conf[c] = "connected" /\ conn[c] \in hung
    /\ conf' = [conf EXCEPT ![c] = "shutdown"]
    /\ UNCHANGED <<conn, name, taken, cpc, queueVars, peerVars, histVars>>

(* The application closes the context.                                     *)
Close(c) ==
    /\ conf[c] = "connected"
    /\ closes < MaxCloses /\ closes' = closes + 1
    /\ conf' = [conf EXCEPT ![c] = "shutdown"]
    /\ UNCHANGED <<conn, name, taken, cpc, queueVars, peerVars, log, made, late>>

-----------------------------------------------------------------------------
(* connector_context_shutdown_from_read_thread                             *)

Inside(c) ==
    \/ \E i \in 1 .. Len(inq) : inq[i].ctx = c
    \/ \E d \in Dispatchers : dmsg[d] # NULL /\ dmsg[d].ctx = c

CleanClose_ClearName(c) ==
    /\ c \in taken /\ conf[c] = "shutdown" /\ cpc[c] = "none"
    /\ cpc' = [cpc EXCEPT ![c] = "notify"]
    /\ name' = [name EXCEPT ![c] = 0]
    /\ hung' = hung \cup {conn[c]}
    /\ late' = IF Inside(c) THEN late \cup {c} ELSE late
    /\ UNCHANGED <<conf, conn, taken, queueVars, toUs, toPeer, greeted, owed, pgot, log, made, closes>>

(* Close the socket.                                                       *)
CleanClose(c) ==
    /\ c \in taken /\ conf[c] = "shutdown" /\ cpc[c] = "none"
    /\ cpc' = [cpc EXCEPT ![c] = "notify"]
    /\ hung' = hung \cup {conn[c]}
    /\ late' = IF Inside(c) THEN late \cup {c} ELSE late
    /\ UNCHANGED <<conf, conn, name, taken, queueVars, toUs, toPeer, greeted, owed, pgot, log,
                   made, closes>>

(* Tell the trampolines, if the name of the peer is known.                 *)
CleanNotify(c) ==
    /\ cpc[c] = "notify"
    /\ cpc' = [cpc EXCEPT ![c] = "clear"]
    /\ IF name[c] # 0 THEN Tell("closed", c, name[c], name[c]) ELSE UNCHANGED log
    /\ UNCHANGED <<conf, conn, name, taken, queueVars, peerVars, made, closes, late>>

CleanClear_KeepName(c) ==
    /\ cpc[c] = "clear"
    /\ cpc' = [cpc EXCEPT ![c] = "none"]
    /\ conf' = [conf EXCEPT ![c] = "closed"]
    /\ conn' = [conn EXCEPT ![c] = 0]
    /\ taken' = taken \ {c}
    /\ UNCHANGED <<name, queueVars, peerVars, histVars>>

(* Clear the struct and return the identifier.                             *)
CleanClear(c) ==
    /\ cpc[c] = "clear"
    /\ cpc' = [cpc EXCEPT ![c] = "none"]
    /\ conf' = [conf EXCEPT ![c] = "closed"]
    /\ conn' = [conn EXCEPT ![c] = 0]
    /\ name' = [name EXCEPT ![c] = 0]
    /\ taken' = taken \ {c}
    /\ UNCHANGED <<queueVars, peerVars, histVars>>

-----------------------------------------------------------------------------
(* Dispatch threads                                                        *)

DispatchTake(d) ==
    /\ dmsg[d] = NULL /\ inq # <<>>
    /\ dmsg' = [dmsg EXCEPT ![d] = Head(inq)]
    /\ inq' = Tail(inq)
    /\ UNCHANGED <<ctxVars, outq, wmsg, peerVars, histVars>>

(* An answer is not internal: connector_notify_trampolines.                *)
Established(d) ==
    /\ dmsg[d] # NULL /\ dmsg[d].kind = "R"
    /\ Tell("established", dmsg[d].ctx, dmsg[d].from, dmsg[d].of)
    /\ dmsg' = [dmsg EXCEPT ![d] = NULL]
    /\ UNCHANGED <<ctxVars, inq, outq, wmsg, peerVars, made, closes, late>>

HandshakeAnswer_Notify(d) ==
    /\ dmsg[d] # NULL /\ dmsg[d].kind = "I"
    /\ outq' = Append(outq, dmsg[d].ctx)
    /\ dmsg' = [dmsg EXCEPT ![d].kind = "name"]
    /\ Tell("established", dmsg[d].ctx, dmsg[d].from, dmsg[d].of)
    /\ UNCHANGED <<ctxVars, inq, wmsg, peerVars, made, closes, late>>

(* internal_handshake_callback: queue the answer and wake the writers.     *)
HandshakeAnswer(d) ==
    /\ dmsg[d] # NULL /\ dmsg[d].kind = "I"
    /\ outq' = Append(outq, dmsg[d].ctx)
    /\ dmsg' = [dmsg EXCEPT ![d].kind = "name"]
    /\ UNCHANGED <<ctxVars, inq, wmsg, peerVars, histVars>>

(* ... then connector_context_set_application_name, whatever has become of *)
(* the context meanwhile.                                                  *)
HandshakeName(d) ==
    /\ dmsg[d] # NULL /\ dmsg[d].kind = "name"
    /\ name' = [name EXCEPT ![dmsg[d].ctx] = dmsg[d].from]
    /\ dmsg' = [dmsg EXCEPT ![d] = NULL]
    /\ UNCHANGED <<conf, conn, taken, cpc, inq, outq, wmsg, peerVars, histVars>>

-----------------------------------------------------------------------------
(* Write threads: the context is looked up when the answer is written, and *)
(* the message dropped unless its state is exactly CONNECTED.              *)

WriteTake(w) ==
    /\ wmsg[w] = NULL /\ outq # <<>>
    /\ wmsg' = [wmsg EXCEPT ![w] = Head(outq)]
    /\ outq' = Tail(outq)
    /\ UNCHANGED <<ctxVars, inq, dmsg, peerVars, histVars>>

Write(w) ==
    /\ wmsg[w] # NULL
    /\ IF conf[wmsg[w]] = "connected" THEN Send(conn[wmsg[w]], "R") ELSE UNCHANGED toPeer
    /\ wmsg' = [wmsg EXCEPT ![w] = NULL]
    /\ UNCHANGED <<ctxVars, inq, outq, dmsg, toUs, hung, greeted, owed, pgot, histVars>>

-----------------------------------------------------------------------------
(* The peers: what they read may have been sent before either side closed, *)
(* and their threads are further steps.                                    *)

(* Its read thread takes the connection and writes its handshake.          *)
PeerGreet(n) ==
    /\ n <= made /\ n \notin greeted \cup hung
    /\ greeted' = greeted \cup {n}
    /\ toUs' = [toUs EXCEPT ![n] = Append(@, Mail("I", n))]
    /\ UNCHANGED <<ctxVars, queueVars, toPeer, hung, owed, pgot, histVars>>

(* Its dispatch thread queues an answer to our handshake.                  *)
PeerRead(n) ==
    /\ toPeer[n] # <<>>
    /\ pgot' = [pgot EXCEPT ![n] = @ \cup {Head(toPeer[n])}]
    /\ toPeer' = [toPeer EXCEPT ![n] = Tail(@)]
    /\ owed' = IF Head(toPeer[n]) = "I" THEN owed \cup {n} ELSE owed
    /\ UNCHANGED <<ctxVars, queueVars, toUs, hung, greeted, histVars>>

(* Its write thread looks up the context when it writes: the answer made   *)
(* for connection m goes out on m, or, once m is closed, on a later        *)
(* connection n of the same context, or is dropped.                        *)
PeerWrite(m, n) ==
    /\ m \in owed
    /\ n <= made /\ n \notin hung
    /\ n = m \/ (n > m /\ m \in hung)
    /\ owed' = owed \ {m}
    /\ toUs' = [toUs EXCEPT ![n] = Append(@, Mail("R", m))]
    /\ UNCHANGED <<ctxVars, queueVars, toPeer, hung, greeted, pgot, histVars>>

PeerDrop(m) ==
    /\ m \in owed \cap hung
    /\ owed' = owed \ {m}
    /\ UNCHANGED <<ctxVars, queueVars, toUs, toPeer, hung, greeted, pgot, histVars>>

PeerHangup(n) ==
    /\ n <= made /\ n \notin hung
    /\ closes < MaxCloses /\ closes' = closes + 1
    /\ hung' = hung \cup {n}
    /\ UNCHANGED <<ctxVars, queueVars, toUs, toPeer, greeted, owed, pgot, log, made, late>>

Peer(n) ==
    \/ PeerGreet(n) \/ PeerRead(n) \/ PeerDrop(n) \/ PeerHangup(n)
    \/ \E m \in Conns : PeerWrite(m, n)

-----------------------------------------------------------------------------
Cleaner(c) == CleanClose(c) \/ CleanNotify(c) \/ CleanClear(c)

Reader(c) == Acquire(c) \/ Read(c) \/ SeeHangup(c) \/ Cleaner(c)

Dispatcher(d) == DispatchTake(d) \/ Established(d) \/ HandshakeAnswer(d) \/ HandshakeName(d)

Writer(w) == WriteTake(w) \/ Write(w)

Next ==
    \/ \E c \in Contexts : Connect(c) \/ Accept(c) \/ Close(c) \/ Reader(c)
    \/ \E d \in Dispatchers : Dispatcher(d)
    \/ \E w \in Writers : Writer(w)
    \/ \E n \in Conns : Peer(n)

Spec == Init /\ [][Next]_vars

(* A read thread looks for contexts that are marked at every round of its  *)
(* polling, which times out.  Nothing else is taken to make progress:      *)
(* signals to dispatchers and writers may be lost, a context may wait for  *)
(* a read thread, and a peer's close may never be reported as POLLHUP.     *)
FairSpec == Spec /\ \A c \in Contexts : WF_vars(Cleaner(c))

-----------------------------------------------------------------------------
(* Properties *)

(* The places of the log where something is told.                          *)
Told(what) == {i \in 1 .. Len(log) : log[i].what = what}

\* A handshake of this side is told to the application as established at
\* most once, and only after its peer got it (internal_messages.c:60-94: the
\* answer is an ordinary message and is not answered again), whatever
\* connection the answer came on.
EstablishedOnce ==
    \A i \in Told("established") :
        /\ "I" \in pgot[log[i].of]
        /\ \A j \in Told("established") : log[i].of = log[j].of => i = j

\* A connection is told as established once.  Not so: the peer's answer for
\* an earlier connection may go out on this one (context_queue.c:334-337).
OncePerConnection ==
    \A i, j \in Told("established") : log[i].conn = log[j].conn => i = j

\* A context that is handed out holds no name of an earlier peer, and one in
\* use none but that of its own peer, unless it was once cleaned up while
\* messages of it were still inside (context_queue.c:510-513).
NameIsPeers ==
    \A c \in Contexts \ late :
        name[c] = 0 \/ (name[c] = conn[c] /\ conf[c] # "closed")

\* context_queue.c:499-502: on a context the closing of one connection is told
\* before the establishment of the next, and of one connection closing is
\* told once and last; again unless messages were inside.
ClosedFirst ==
    \A i, j \in 1 .. Len(log) :
        (i < j /\ log[i].ctx = log[j].ctx /\ log[i].ctx \notin late) =>
            \/ log[i].conn < log[j].conn
            \/ log[i].conn = log[j].conn /\ log[i].what = "established"

\* context_queue.c:510: "Clear the context structure. This must be done to
\* ensure that state is completely cleared between reuses of the context".
ClearedBetweenReuses == \A c \in Contexts : conf[c] = "closed" => name[c] = 0

\* A context that a read thread has and that is marked is cleaned up, and the
\* application is told that the connection to its peer is closed, if the
\* peer's name is known and no message of an earlier connection can replace
\* it before (context_queue.c:494-516).
CloseIsTold ==
    \A c \in Contexts, n \in Conns :
        (c \in taken \ late /\ conf[c] = "shutdown" /\ conn[c] = n /\ name[c] = n)
            ~> (\E i \in Told("closed") : log[i].ctx = c /\ log[i].conn = n)

=============================================================================
