--------------------------- MODULE HandshakeProofs ---------------------------
(***************************************************************************)
(* Proofs about Handshake for any number of contexts, dispatch threads,    *)
(* write threads and connections.                                          *)
(***************************************************************************)
EXTENDS Handshake, SequenceTheorems, TLAPS

(* Some element of q is in S; no more than one is.                         *)
Has(q, S) == \E i \in 1 .. Len(q) : q[i] \in S
Once(q, S) == \A i, j \in 1 .. Len(q) : q[i] \in S /\ q[j] \in S => i = j

Letters == [kind : {"I", "R"}, of : Conns]
Messages == [ctx : Contexts, kind : {"I", "R"}, from : Conns, of : Conns]
Handled == [ctx : Contexts, kind : {"I", "R", "name"}, from : Conns, of : Conns]
Notices == [what : {"established", "closed"}, ctx : Contexts, conn : Conns, of : Conns]

Queues ==
    /\ inq \in Seq(Messages)
    /\ outq \in Seq(Contexts)
    /\ dmsg \in [Dispatchers -> Handled \cup {NULL}]
    /\ wmsg \in [Writers -> Contexts \cup {NULL}]
    /\ toUs \in [Conns -> Seq(Letters)]
    /\ toPeer \in [Conns -> Seq({"I", "R"})]
    /\ pgot \in [Conns -> SUBSET {"I", "R"}]
    /\ log \in Seq(Notices)

(* Nobody has heard of a connection that is not made yet.                  *)
Past ==
    /\ made \in 0 .. MaxConns
    /\ conn \in [Contexts -> 0 .. made] /\ name \in [Contexts -> 0 .. made]
    /\ \A i \in 1 .. Len(inq) : inq[i].from <= made
    /\ \A d \in Dispatchers : dmsg[d] # NULL => dmsg[d].from <= made
    /\ \A i \in 1 .. Len(log) : log[i].conn <= made

(* A context in use has a connection of its own; the clean-up works on     *)
(* what is shut down.                                                      *)
Uses(c) ==
    /\ conf[c] = "closed" <=> conn[c] = 0
    /\ conf[c] = "closed" => c \notin taken
    /\ cpc[c] # "none" => conf[c] = "shutdown" /\ c \in taken
    /\ \A e \in Contexts : conn[c] = conn[e] /\ conn[c] # 0 => c = e

Table ==
    /\ conf \in [Contexts -> {"closed", "connected", "shutdown"}]
    /\ cpc \in [Contexts -> {"none", "notify", "clear"}]
    /\ taken \subseteq Contexts /\ late \subseteq Contexts
    /\ \A c \in Contexts : Uses(c)

Control == Queues /\ Past /\ Table

-----------------------------------------------------------------------------
(* The one answer to the handshake of connection n, on its way: not asked  *)
(* for yet, asked for, made by the peer, sent on whatever connection,      *)
(* received, handled, told.                                                *)
Letter(n) == {Mail("R", n)}
Answers(n) == {m \in Messages : m.kind = "R" /\ m.of = n}
Tellings(n) == {e \in Notices : e.what = "established" /\ e.of = n}

Fresh(n) == n > made \/ \E c \in Contexts : conn[c] = n /\ c \notin taken
Asked(n) == Has(toPeer[n], {"I"})
Owed(n) == n \in owed
Sent(n) == \E k \in Conns : Has(toUs[k], Letter(n))
Received(n) == Has(inq, Answers(n))
Handling(n) == \E d \in Dispatchers : dmsg[d] # NULL /\ dmsg[d].kind = "R" /\ dmsg[d].of = n
Heard(n) == Has(log, Tellings(n))

Carried(n) ==
    /\ \A k \in Conns : Once(toUs[k], Letter(n))
    /\ \A k, l \in Conns : Has(toUs[k], Letter(n)) /\ Has(toUs[l], Letter(n)) => k = l

Singles(n) ==
    /\ Once(toPeer[n], {"I"})
    /\ Carried(n)
    /\ Once(inq, Answers(n))
    /\ \A d, e \in Dispatchers :
        /\ dmsg[d] # NULL /\ dmsg[d].kind = "R" /\ dmsg[d].of = n
        /\ dmsg[e] # NULL /\ dmsg[e].kind = "R" /\ dmsg[e].of = n
        => d = e
    /\ Once(log, Tellings(n))

Stages(n) ==
    /\ Fresh(n) => ~(Asked(n) \/ Owed(n) \/ Sent(n) \/ Received(n) \/ Handling(n) \/ Heard(n))
    /\ Asked(n) => ~(Owed(n) \/ Sent(n) \/ Received(n) \/ Handling(n) \/ Heard(n))
    /\ Owed(n) => ~(Sent(n) \/ Received(n) \/ Handling(n) \/ Heard(n))
    /\ Sent(n) => ~(Received(n) \/ Handling(n) \/ Heard(n))
    /\ Received(n) => ~(Handling(n) \/ Heard(n))
    /\ Handling(n) => ~Heard(n)
    /\ Owed(n) \/ Sent(n) \/ Received(n) \/ Handling(n) \/ Heard(n) => "I" \in pgot[n]

Answered == \A n \in Conns : Singles(n) /\ Stages(n)

(* Messages inside belong to the connection of their context, unless the   *)
(* context was cleaned up over their heads.                                *)
Current(m) == m.ctx \notin late => m.from = conn[m.ctx] /\ cpc[m.ctx] = "none"

Inner ==
    /\ \A i \in 1 .. Len(inq) : Current(inq[i])
    /\ \A d \in Dispatchers : dmsg[d] # NULL => Current(dmsg[d])

Names == \A c \in Contexts \ late : name[c] = 0 \/ name[c] = conn[c]

(* What was told of a context is no later than its connection, whose       *)
(* closing is told last.                                                   *)
Notice(i) ==
    log[i].ctx \notin late /\ conn[log[i].ctx] # 0 =>
        /\ log[i].conn <= conn[log[i].ctx]
        /\ log[i].conn = conn[log[i].ctx] /\ log[i].what = "closed" => cpc[log[i].ctx] = "clear"

Inv ==
    /\ Control /\ Answered /\ Inner /\ Names
    /\ \A i \in 1 .. Len(log) : Notice(i)
    /\ ClosedFirst

-----------------------------------------------------------------------------
(* What an append and a removal do to the elements of a queue.             *)
LEMMA Appended ==
    ASSUME NEW X, NEW q \in Seq(X), NEW e \in X
    PROVE  /\ Append(q, e) \in Seq(X) /\ Len(Append(q, e)) = Len(q) + 1
           /\ \A i \in 1 .. Len(q) + 1 : Append(q, e)[i] = IF i <= Len(q) THEN q[i] ELSE e
           /\ Len(q) \in Nat
  BY AppendProperties, LenProperties

LEMMA AppendHas ==
    ASSUME NEW X, NEW q \in Seq(X), NEW e \in X, NEW S
    PROVE  /\ Has(Append(q, e), S) <=> Has(q, S) \/ e \in S
           /\ Once(q, S) /\ ~(Has(q, S) /\ e \in S) => Once(Append(q, e), S)
  <1>1. /\ Len(Append(q, e)) = Len(q) + 1 /\ Len(q) \in Nat
        /\ \A i \in 1 .. Len(q) + 1 : Append(q, e)[i] = IF i <= Len(q) THEN q[i] ELSE e
    BY Appended
  <1>2. Has(Append(q, e), S) => Has(q, S) \/ e \in S
    BY <1>1 DEF Has
  <1>3. Has(q, S) => Has(Append(q, e), S)
    BY <1>1 DEF Has
  <1>4. e \in S => Has(Append(q, e), S)
    <2>1. Len(q) + 1 \in 1 .. Len(Append(q, e)) /\ Append(q, e)[Len(q) + 1] = e
      BY <1>1
    <2> QED
      BY <2>1 DEF Has
  <1>5. Once(q, S) /\ ~(Has(q, S) /\ e \in S) => Once(Append(q, e), S)
    BY <1>1 DEF Has, Once
  <1> QED
    BY <1>2, <1>3, <1>4, <1>5

LEMMA Removed ==
    ASSUME NEW X, NEW q \in Seq(X), q # <<>>
    PROVE  /\ Head(q) \in X /\ Tail(q) \in Seq(X) /\ Len(q) \in Nat \ {0}
           /\ Len(Tail(q)) = Len(q) - 1 /\ Head(q) = q[1] /\ 1 \in 1 .. Len(q)
           /\ \A i \in 1 .. Len(Tail(q)) : i + 1 \in 1 .. Len(q) /\ Tail(q)[i] = q[i + 1]
  <1>1. Len(q) \in Nat \ {0} /\ Head(q) = q[1] /\ Head(q) \in X
    BY EmptySeq, HeadTailProperties
  <1>2. Tail(q) \in Seq(X) /\ Len(Tail(q)) = Len(q) - 1 /\ \A i \in 1 .. Len(Tail(q)) : Tail(q)[i] = q[i + 1]
    BY HeadTailProperties
  <1>3. \A i \in 1 .. Len(q) - 1 : i + 1 \in 1 .. Len(q)
    BY <1>1
  <1> QED
    BY <1>1, <1>2, <1>3

LEMMA TailHas ==
    ASSUME NEW X, NEW q \in Seq(X), q # <<>>, NEW S
    PROVE  /\ Has(Tail(q), S) => Has(q, S)
           /\ Head(q) \in S => Has(q, S)
           /\ Once(q, S) => Once(Tail(q), S)
           /\ Once(q, S) /\ Head(q) \in S => ~Has(Tail(q), S)
  <1>1. /\ Len(Tail(q)) \in Nat /\ Head(q) = q[1] /\ 1 \in 1 .. Len(q)
        /\ \A i \in 1 .. Len(Tail(q)) : i + 1 \in 1 .. Len(q) /\ Tail(q)[i] = q[i + 1]
    BY Removed
  <1>2. Has(Tail(q), S) => Has(q, S)
    BY <1>1 DEF Has
  <1>3. Head(q) \in S => Has(q, S)
    BY <1>1 DEF Has
  <1>4. ASSUME Once(q, S), NEW i \in 1 .. Len(Tail(q)), NEW j \in 1 .. Len(Tail(q)),
               Tail(q)[i] \in S, Tail(q)[j] \in S
        PROVE  i = j
    <2>1. i + 1 = j + 1
      BY <1>1, <1>4 DEF Once
    <2> QED
      BY <1>1, <2>1
  <1>5. ASSUME Once(q, S), Head(q) \in S, NEW i \in 1 .. Len(Tail(q)), Tail(q)[i] \in S
        PROVE  FALSE
    <2>1. i + 1 = 1
      BY <1>1, <1>5 DEF Once
    <2> QED
      BY <1>1, <2>1
  <1> QED
    BY <1>2, <1>3, <1>4, <1>5 DEF Has, Once

-----------------------------------------------------------------------------
(* The context a step is about, when it is in use.                         *)
LEMMA InUse ==
    ASSUME Control, NEW c \in Contexts, conf[c] # "closed"
    PROVE  conn[c] \in Conns /\ conn[c] <= made
  BY HandshakeAssumption DEF Control, Past, Table, Uses, Conns

(* Connection n gets a message, or it is lost.                             *)
LEMMA Sends ==
    ASSUME Queues, NEW n \in Conns, NEW k \in {"I", "R"}, Send(n, k)
    PROVE  /\ toPeer' \in [Conns -> Seq({"I", "R"})]
           /\ \A m \in Conns : m # n => toPeer'[m] = toPeer[m]
           /\ toPeer'[n] = toPeer[n] \/ toPeer'[n] = Append(toPeer[n], k)
  <1>1. toPeer[n] \in Seq({"I", "R"})
    BY DEF Queues
  <1>2. Append(toPeer[n], k) \in Seq({"I", "R"})
    BY <1>1, AppendProperties
  <1> QED
    BY <1>2 DEF Send, Queues

LEMMA QueuesStep ==
    ASSUME Control, Next
    PROVE  Queues'
  <1>q. Queues
    BY DEF Control
  <1>1. ASSUME NEW c \in Contexts, Connect(c) \/ Accept(c)
        PROVE  Queues'
    BY <1>1, <1>q DEF Connect, Accept, Attach, Queues, queueVars, peerVars
  <1>2. ASSUME NEW c \in Contexts, Acquire(c)
        PROVE  Queues'
    <2>1. PICK n \in Conns : n = conn[c]
      BY <1>2, InUse DEF Acquire
    <2>2. Send(n, "I") \/ toPeer' = toPeer
      BY <1>2, <2>1 DEF Acquire, Send
    <2>3. toPeer' \in [Conns -> Seq({"I", "R"})]
      BY <1>q, <2>2, Sends DEF Queues
    <2> QED
      BY <1>2, <1>q, <2>3 DEF Acquire, Queues, queueVars, histVars
  <1>3. ASSUME NEW c \in Contexts, Read(c)
        PROVE  Queues'
    <2>1. conn[c] \in Conns
      BY <1>3, InUse DEF Read
    <2>2. toUs[conn[c]] \in Seq(Letters) /\ toUs[conn[c]] # <<>>
      BY <1>3, <1>q, <2>1 DEF Read, Queues
    <2>3. Head(toUs[conn[c]]) \in Letters /\ Tail(toUs[conn[c]]) \in Seq(Letters)
      BY <2>2, Removed
    <2>4. [ctx |-> c, kind |-> Head(toUs[conn[c]]).kind, from |-> conn[c],
           of |-> Head(toUs[conn[c]]).of] \in Messages
      BY <2>1, <2>3 DEF Messages, Letters
    <2>5. inq' \in Seq(Messages)
      BY <1>3, <1>q, <2>4, AppendProperties DEF Read, Queues
    <2>6. toUs' \in [Conns -> Seq(Letters)]
      BY <1>3, <1>q, <2>3 DEF Read, Queues
    <2> QED
      BY <1>3, <1>q, <2>5, <2>6 DEF Read, Queues, histVars
  <1>4. ASSUME NEW c \in Contexts, Close(c) \/ SeeHangup(c) \/ CleanClose(c) \/ CleanClear(c)
        PROVE  Queues'
    BY <1>4, <1>q DEF Close, SeeHangup, CleanClose, CleanClear, Queues, queueVars, peerVars, histVars
  <1>5. ASSUME NEW c \in Contexts, CleanNotify(c)
        PROVE  Queues'
    <2>1. name[c] # 0 => [what |-> "closed", ctx |-> c, conn |-> name[c], of |-> name[c]] \in Notices
      BY HandshakeAssumption DEF Control, Past, Notices, Conns
    <2>2. log' \in Seq(Notices)
      <3>1. CASE name[c] = 0
        BY <1>5, <1>q, <3>1 DEF CleanNotify, Queues
      <3>2. CASE name[c] # 0
        <4>1. log' = Append(log, [what |-> "closed", ctx |-> c, conn |-> name[c], of |-> name[c]])
          BY <1>5, <3>2 DEF CleanNotify, Tell
        <4> QED
          BY <1>q, <2>1, <3>2, <4>1, AppendProperties DEF Queues
      <3> QED
        BY <3>1, <3>2
    <2> QED
      BY <1>5, <1>q, <2>2 DEF CleanNotify, Queues, queueVars, peerVars
  <1>6. ASSUME NEW d \in Dispatchers, DispatchTake(d)
        PROVE  Queues'
    <2>1. Head(inq) \in Messages /\ Tail(inq) \in Seq(Messages)
      BY <1>6, <1>q, Removed DEF DispatchTake, Queues
    <2>2. Head(inq) \in Handled
      BY <2>1 DEF Messages, Handled
    <2> QED
      BY <1>6, <1>q, <2>1, <2>2 DEF DispatchTake, Queues, peerVars, histVars
  <1>7. ASSUME NEW d \in Dispatchers, Established(d)
        PROVE  Queues'
    <2>1. dmsg[d] \in Handled
      BY <1>7, <1>q DEF Established, Queues
    <2>2. [what |-> "established", ctx |-> dmsg[d].ctx, conn |-> dmsg[d].from,
                  of |-> dmsg[d].of] \in Notices
      BY <2>1 DEF Handled, Notices
    <2>3. log' \in Seq(Notices)
      BY <1>7, <1>q, <2>2, AppendProperties DEF Established, Tell, Queues
    <2> QED
      BY <1>7, <1>q, <2>3 DEF Established, Queues, peerVars
  <1>8. ASSUME NEW d \in Dispatchers, HandshakeAnswer(d)
        PROVE  Queues'
    <2>1. dmsg[d] \in Handled
      BY <1>8, <1>q DEF HandshakeAnswer, Queues
    <2>2. dmsg[d].ctx \in Contexts /\ [dmsg[d] EXCEPT !.kind = "name"] \in Handled
      BY <2>1 DEF Handled
    <2>3. dmsg' \in [Dispatchers -> Handled \cup {NULL}]
      BY <1>8, <1>q, <2>2 DEF HandshakeAnswer, Queues
    <2>4. outq' \in Seq(Contexts)
      BY <1>8, <1>q, <2>2, AppendProperties DEF HandshakeAnswer, Queues
    <2> QED
      BY <1>8, <1>q, <2>3, <2>4 DEF HandshakeAnswer, Queues, peerVars, histVars
  <1>9. ASSUME NEW d \in Dispatchers, HandshakeName(d)
        PROVE  Queues'
    BY <1>9, <1>q DEF HandshakeName, Queues, peerVars, histVars
  <1>10. ASSUME NEW w \in Writers, WriteTake(w)
         PROVE  Queues'
    <2>1. Head(outq) \in Contexts /\ Tail(outq) \in Seq(Contexts)
      BY <1>10, <1>q, Removed DEF WriteTake, Queues
    <2> QED
      BY <1>10, <1>q, <2>1 DEF WriteTake, Queues, peerVars, histVars
  <1>11. ASSUME NEW w \in Writers, Write(w)
         PROVE  Queues'
    <2>1. toPeer' = toPeer \/ \E n \in Conns : Send(n, "R")
      <3>1. wmsg[w] \in Contexts
        BY <1>11, <1>q DEF Write, Queues
      <3>2. CASE conf[wmsg[w]] = "connected"
        <4>1. PICK n \in Conns : n = conn[wmsg[w]]
          BY <3>1, <3>2, InUse
        <4> QED
          BY <1>11, <3>2, <4>1 DEF Write, Send
      <3> QED
        BY <1>11, <3>2 DEF Write
    <2>2. toPeer' \in [Conns -> Seq({"I", "R"})]
      BY <1>q, <2>1, Sends DEF Queues
    <2> QED
      BY <1>11, <1>q, <2>2 DEF Write, Queues, histVars
  <1>12. ASSUME NEW n \in Conns, PeerRead(n)
         PROVE  Queues'
    <2>1. Head(toPeer[n]) \in {"I", "R"} /\ Tail(toPeer[n]) \in Seq({"I", "R"})
      BY <1>12, <1>q, Removed DEF PeerRead, Queues
    <2>2. toPeer' \in [Conns -> Seq({"I", "R"})] /\ pgot' \in [Conns -> SUBSET {"I", "R"}]
      BY <1>12, <1>q, <2>1 DEF PeerRead, Queues
    <2> QED
      BY <1>12, <1>q, <2>2 DEF PeerRead, Queues, queueVars, histVars
  <1>13. ASSUME NEW n \in Conns, PeerHangup(n) \/ PeerDrop(n)
         PROVE  Queues'
    BY <1>13, <1>q DEF PeerHangup, PeerDrop, Queues, queueVars, histVars
  <1>14. ASSUME NEW n \in Conns, NEW m \in Conns, PeerGreet(n) \/ PeerWrite(m, n)
         PROVE  Queues'
    <2>1. PICK k \in Letters : toUs' = [toUs EXCEPT ![n] = Append(@, k)]
      BY <1>14 DEF PeerGreet, PeerWrite, Mail, Letters
    <2>2. Append(toUs[n], k) \in Seq(Letters)
      BY <1>q, AppendProperties DEF Queues
    <2>3. toUs' \in [Conns -> Seq(Letters)]
      BY <1>q, <2>1, <2>2 DEF Queues
    <2> QED
      BY <1>14, <1>q, <2>3 DEF PeerGreet, PeerWrite, Queues, queueVars, histVars
  <1> QED
    BY <1>1, <1>2, <1>3, <1>4, <1>5, <1>6, <1>7, <1>8, <1>9, <1>10, <1>11, <1>12, <1>13, <1>14
    DEF Next, Reader, Cleaner, Dispatcher, Writer, Peer

(* A notice is told of a context and a connection.                         *)
LEMMA Tells ==
    ASSUME Queues, Queues', NEW e \in Notices, log' = Append(log, e)
    PROVE  /\ Len(log) \in Nat /\ Len(log') = Len(log) + 1
           /\ \A i \in 1 .. Len(log) : log'[i] = log[i]
           /\ log'[Len(log) + 1] = e
  BY Appended DEF Queues

LEMMA PastStep ==
    ASSUME Control, Next, Queues'
    PROVE  Past'
  <1>p. Past /\ Queues /\ MaxConns \in Nat
    BY HandshakeAssumption DEF Control
  <1>l. Len(inq) \in Nat /\ Len(log) \in Nat
    BY <1>p, LenProperties DEF Queues
  <1>0. ASSUME UNCHANGED <<made, conn, name>>,
               \A i \in 1 .. Len(inq') : inq'[i].from <= made,
               \A d \in Dispatchers : dmsg'[d] # NULL => dmsg'[d].from <= made,
               \A i \in 1 .. Len(log') : log'[i].conn <= made
        PROVE  Past'
    BY <1>0, <1>p DEF Past
  <1>1. ASSUME NEW c \in Contexts, Connect(c) \/ Accept(c)
        PROVE  Past'
    <2>1. made' = made + 1 /\ made' \in 0 .. MaxConns /\ UNCHANGED <<inq, dmsg, log>>
      BY <1>1, <1>p DEF Connect, Accept, Attach, Past, queueVars
    <2>2. conn' \in [Contexts -> 0 .. made'] /\ name' \in [Contexts -> 0 .. made']
      <3>1. made \in Nat /\ made + 1 \in 0 .. made' /\ 0 .. made \subseteq 0 .. made'
        BY <1>p, <2>1 DEF Past
      <3>2. conn' = [conn EXCEPT ![c] = made + 1]
        BY <1>1 DEF Connect, Accept, Attach
      <3>3. PICK v \in 0 .. made : name' = [name EXCEPT ![c] = v]
        BY <1>1, <1>p, <3>1 DEF Connect, Accept, Attach, Past
      <3>4. conn' \in [Contexts -> 0 .. made']
        BY <1>p, <3>1, <3>2 DEF Past
      <3>5. name' \in [Contexts -> 0 .. made']
        BY <1>p, <3>1, <3>3 DEF Past
      <3> QED
        BY <3>4, <3>5
    <2>3. ASSUME NEW i \in 1 .. Len(inq)
          PROVE  inq[i].from \in Nat
      <3>1. inq[i] \in Messages
        BY <1>p, ElementOfSeq DEF Queues
      <3> QED
        BY <3>1 DEF Messages, Conns
    <2>4. ASSUME NEW i \in 1 .. Len(log)
          PROVE  log[i].conn \in Nat
      <3>1. log[i] \in Notices
        BY <1>p, ElementOfSeq DEF Queues
      <3> QED
        BY <3>1 DEF Notices, Conns
    <2>5. \A d \in Dispatchers : dmsg[d] # NULL => dmsg[d].from \in Nat
      BY <1>p DEF Queues, Handled, Conns
    <2> QED
      BY <1>p, <2>1, <2>2, <2>3, <2>4, <2>5 DEF Past
  <1>2. ASSUME NEW c \in Contexts, Read(c)
        PROVE  Past'
    <2>1. conn[c] \in Conns /\ conn[c] <= made
      BY <1>2, InUse DEF Read
    <2>2. [ctx |-> c, kind |-> Head(toUs[conn[c]]).kind, from |-> conn[c],
           of |-> Head(toUs[conn[c]]).of] \in Messages
      <3>1. toUs[conn[c]] \in Seq(Letters) /\ toUs[conn[c]] # <<>>
        BY <1>2, <1>p, <2>1 DEF Read, Queues
      <3>2. Head(toUs[conn[c]]) \in Letters
        BY <3>1, Removed
      <3> QED
        BY <2>1, <3>2 DEF Messages, Letters
    <2>3. \A i \in 1 .. Len(inq') : inq'[i].from <= made
      <3>1. PICK m \in Messages : m.from <= made /\ inq' = Append(inq, m)
        BY <1>2, <2>1, <2>2 DEF Read
      <3>2. /\ Len(inq') = Len(inq) + 1
            /\ \A i \in 1 .. Len(inq) + 1 : inq'[i] = IF i <= Len(inq) THEN inq[i] ELSE m
        <4>1. inq \in Seq(Messages)
          BY <1>p DEF Queues
        <4> QED
          BY <3>1, <4>1, Appended
      <3> QED
        BY <1>l, <1>p, <3>1, <3>2 DEF Past
    <2> QED
      BY <1>0, <1>2, <1>p, <2>3 DEF Read, Past, ctxVars, histVars
  <1>3. ASSUME NEW c \in Contexts, CleanNotify(c)
        PROVE  Past'
    <2>1. CASE log' = log
      BY <1>0, <1>3, <1>p, <2>1 DEF CleanNotify, Past, queueVars
    <2>2. CASE name[c] # 0 /\ log' = Append(log, [what |-> "closed", ctx |-> c, conn |-> name[c], of |-> name[c]])
      <3>1. [what |-> "closed", ctx |-> c, conn |-> name[c], of |-> name[c]] \in Notices /\ name[c] <= made
        BY <1>p, <2>2 DEF Past, Notices, Conns
      <3>2. \A i \in 1 .. Len(log') : log'[i].conn <= made
        BY <1>p, <2>2, <3>1, Tells DEF Past
      <3> QED
        BY <1>0, <1>3, <1>p, <3>2 DEF CleanNotify, Past, queueVars
    <2> QED
      BY <1>3, <2>1, <2>2 DEF CleanNotify, Tell
  <1>4. ASSUME NEW c \in Contexts, CleanClear(c)
        PROVE  Past'
    <2>1. conn' \in [Contexts -> 0 .. made] /\ name' \in [Contexts -> 0 .. made]
      BY <1>4, <1>p DEF CleanClear, Past
    <2> QED
      BY <1>4, <1>p, <2>1 DEF CleanClear, Past, queueVars, histVars
  <1>5. ASSUME NEW d \in Dispatchers, DispatchTake(d)
        PROVE  Past'
    <2>1. /\ Head(inq) = inq[1] /\ 1 \in 1 .. Len(inq)
          /\ \A i \in 1 .. Len(Tail(inq)) : i + 1 \in 1 .. Len(inq) /\ Tail(inq)[i] = inq[i + 1]
      BY <1>5, <1>p, Removed DEF DispatchTake, Queues
    <2>2. \A i \in 1 .. Len(inq') : inq'[i].from <= made
      BY <1>5, <1>p, <2>1 DEF DispatchTake, Past
    <2>3. \A e \in Dispatchers : dmsg'[e] # NULL => dmsg'[e].from <= made
      BY <1>5, <1>p, <2>1 DEF DispatchTake, Past, Queues
    <2> QED
      BY <1>0, <1>5, <1>p, <2>2, <2>3 DEF DispatchTake, Past, ctxVars, histVars
  <1>6. ASSUME NEW d \in Dispatchers, Established(d)
        PROVE  Past'
    <2>1. dmsg[d] \in Handled /\ dmsg[d].from <= made
      BY <1>6, <1>p DEF Established, Queues, Past
    <2>2. PICK e : e = [what |-> "established", ctx |-> dmsg[d].ctx, conn |-> dmsg[d].from,
                  of |-> dmsg[d].of]
      OBVIOUS
    <2>3. e \in Notices /\ e.conn <= made /\ log' = Append(log, e)
      BY <1>6, <2>1, <2>2 DEF Established, Tell, Handled, Notices
    <2>4. \A i \in 1 .. Len(log') : log'[i].conn <= made
      BY <1>p, <2>3, Tells DEF Past
    <2>5. \A f \in Dispatchers : dmsg'[f] # NULL => dmsg'[f] = dmsg[f]
      BY <1>6, <1>p DEF Established, Queues
    <2> QED
      BY <1>0, <1>6, <1>p, <2>4, <2>5 DEF Established, Past, ctxVars
  <1>7. ASSUME NEW d \in Dispatchers, HandshakeAnswer(d)
        PROVE  Past'
    <2>1. dmsg[d] \in Handled /\ dmsg[d].from <= made
      BY <1>7, <1>p DEF HandshakeAnswer, Queues, Past
    <2>2. dmsg' = [dmsg EXCEPT ![d] = [dmsg[d] EXCEPT !.kind = "name"]]
      BY <1>7, <1>p DEF HandshakeAnswer, Queues
    <2>3. [dmsg[d] EXCEPT !.kind = "name"].from = dmsg[d].from
      BY <2>1 DEF Handled
    <2>4. \A e \in Dispatchers : dmsg'[e] # NULL => dmsg'[e].from <= made
      BY <1>p, <2>1, <2>2, <2>3 DEF Queues, Past
    <2> QED
      BY <1>0, <1>7, <1>p, <2>4 DEF HandshakeAnswer, Past, ctxVars, histVars
  <1>8. ASSUME NEW d \in Dispatchers, HandshakeName(d)
        PROVE  Past'
    <2>1. dmsg[d] \in Handled /\ dmsg[d].from \in 0 .. made
      BY <1>8, <1>p DEF HandshakeName, Queues, Past, Handled, Conns
    <2>2. name' \in [Contexts -> 0 .. made]
      BY <1>8, <1>p, <2>1 DEF HandshakeName, Past
    <2>3. \A f \in Dispatchers : dmsg'[f] # NULL => dmsg'[f] = dmsg[f]
      BY <1>8, <1>p DEF HandshakeName, Queues
    <2> QED
      BY <1>8, <1>p, <2>2, <2>3 DEF HandshakeName, Past, histVars
  <1>9. ASSUME UNCHANGED <<made, conn, name, inq, dmsg, log>>
        PROVE  Past'
    BY <1>0, <1>9, <1>p DEF Past
  <1>10. ASSUME NEW c \in Contexts, Acquire(c) \/ Close(c) \/ SeeHangup(c) \/ CleanClose(c)
         PROVE  UNCHANGED <<made, conn, name, inq, dmsg, log>>
    BY <1>10 DEF Acquire, Close, SeeHangup, CleanClose, queueVars, histVars
  <1>11. ASSUME NEW w \in Writers, WriteTake(w) \/ Write(w)
         PROVE  UNCHANGED <<made, conn, name, inq, dmsg, log>>
    BY <1>11 DEF WriteTake, Write, ctxVars, histVars
  <1>12. ASSUME NEW n \in Conns, Peer(n)
         PROVE  UNCHANGED <<made, conn, name, inq, dmsg, log>>
    BY <1>12 DEF Peer, PeerGreet, PeerRead, PeerWrite, PeerDrop, PeerHangup, ctxVars, queueVars, histVars
  <1> QED
    BY <1>1, <1>2, <1>3, <1>4, <1>5, <1>6, <1>7, <1>8, <1>9, <1>10, <1>11, <1>12
    DEF Next, Reader, Cleaner, Dispatcher, Writer

LEMMA TableStep ==
    ASSUME Control, Next
    PROVE  Table'
  <1>p. Past /\ Table /\ MaxConns \in Nat
    BY HandshakeAssumption DEF Control
  <1>1. ASSUME NEW c \in Contexts, Connect(c) \/ Accept(c)
        PROVE  Table'
    <2>1. /\ conf[c] = "closed" /\ cpc[c] = "none" /\ c \notin taken
          /\ conf' = [conf EXCEPT ![c] = "connected"]
          /\ conn' = [conn EXCEPT ![c] = made + 1] /\ UNCHANGED <<cpc, taken, late>>
      BY <1>1, <1>p DEF Connect, Accept, Attach, Table, Uses
    <2>2. \A e \in Contexts : conn[e] # made + 1 /\ made + 1 # 0
      BY <1>p DEF Past
    <2>3. ASSUME NEW e \in Contexts
          PROVE  Uses(e)'
      BY <1>p, <2>1, <2>2 DEF Table, Uses, Past
    <2> QED
      BY <1>p, <2>1, <2>3 DEF Table
  <1>2. ASSUME NEW c \in Contexts, Acquire(c)
        PROVE  Table'
    BY <1>2, <1>p DEF Acquire, Table, Uses, histVars
  <1>3. ASSUME NEW c \in Contexts, Close(c) \/ SeeHangup(c)
        PROVE  Table'
    <2>1. /\ conf[c] = "connected" /\ conf' = [conf EXCEPT ![c] = "shutdown"]
          /\ UNCHANGED <<conn, cpc, taken, late>>
      BY <1>3 DEF Close, SeeHangup, histVars
    <2>2. ASSUME NEW e \in Contexts
          PROVE  Uses(e)'
      BY <1>p, <2>1 DEF Table, Uses
    <2> QED
      BY <1>p, <2>1, <2>2 DEF Table
  <1>4. ASSUME NEW c \in Contexts, CleanClose(c) \/ CleanNotify(c)
        PROVE  Table'
    <2>1. /\ conf[c] = "shutdown" /\ c \in taken /\ UNCHANGED <<conn, conf, taken>>
          /\ late' \in {late, late \cup {c}}
          /\ \E to \in {"notify", "clear"} : cpc' = [cpc EXCEPT ![c] = to]
      BY <1>4, <1>p DEF CleanClose, CleanNotify, Table, Uses
    <2>2. ASSUME NEW e \in Contexts
          PROVE  Uses(e)'
      BY <1>p, <2>1 DEF Table, Uses
    <2> QED
      BY <1>p, <2>1, <2>2 DEF Table
  <1>5. ASSUME NEW c \in Contexts, CleanClear(c)
        PROVE  Table'
    <2>1. /\ cpc' = [cpc EXCEPT ![c] = "none"] /\ conf' = [conf EXCEPT ![c] = "closed"]
          /\ conn' = [conn EXCEPT ![c] = 0] /\ taken' = taken \ {c} /\ UNCHANGED late
      BY <1>5 DEF CleanClear, histVars
    <2>2. ASSUME NEW e \in Contexts
          PROVE  Uses(e)'
      BY <1>p, <2>1 DEF Table, Uses, Past
    <2> QED
      BY <1>p, <2>1, <2>2 DEF Table
  <1>6. ASSUME UNCHANGED <<conf, conn, cpc, taken, late>>
        PROVE  Table'
    BY <1>6, <1>p DEF Table, Uses
  <1>7. ASSUME NEW c \in Contexts, Read(c)
        PROVE  UNCHANGED <<conf, conn, cpc, taken, late>>
    BY <1>7 DEF Read, ctxVars, histVars
  <1>8. ASSUME NEW d \in Dispatchers, Dispatcher(d)
        PROVE  UNCHANGED <<conf, conn, cpc, taken, late>>
    BY <1>8 DEF Dispatcher, DispatchTake, Established, HandshakeAnswer, HandshakeName, ctxVars, histVars
  <1>9. ASSUME NEW w \in Writers, Writer(w)
        PROVE  UNCHANGED <<conf, conn, cpc, taken, late>>
    BY <1>9 DEF Writer, WriteTake, Write, ctxVars, histVars
  <1>10. ASSUME NEW n \in Conns, Peer(n)
         PROVE  UNCHANGED <<conf, conn, cpc, taken, late>>
    BY <1>10 DEF Peer, PeerGreet, PeerRead, PeerWrite, PeerDrop, PeerHangup, ctxVars, histVars
  <1> QED
    BY <1>1, <1>2, <1>3, <1>4, <1>5, <1>6, <1>7, <1>8, <1>9, <1>10 DEF Next, Reader, Cleaner

LEMMA ControlStep ==
    ASSUME Control, Next
    PROVE  Control'
  BY QueuesStep, PastStep, TableStep DEF Control

-----------------------------------------------------------------------------
(* The answer to each handshake goes from stage to stage.                  *)
LEMMA KeepStages ==
    ASSUME NEW n \in Conns, Stages(n), pgot[n] \subseteq pgot'[n],
           Fresh(n)' => Fresh(n), Asked(n)' => Asked(n), Owed(n)' => Owed(n), Sent(n)' => Sent(n),
           Received(n)' => Received(n), Handling(n)' => Handling(n), Heard(n)' => Heard(n)
    PROVE  Stages(n)'
  BY DEF Stages

(* A message is put on connection k, or taken from it.                     *)
LEMMA Posted ==
    ASSUME Queues, NEW k \in Conns, NEW l \in Letters, NEW n \in Conns,
           toUs' = [toUs EXCEPT ![k] = Append(@, l)], Carried(n)
    PROVE  /\ l # Mail("R", n) => Carried(n)' /\ (Sent(n)' <=> Sent(n))
           /\ l = Mail("R", n) /\ ~Sent(n) => Carried(n)'
  <1>1. \A m \in Conns : toUs'[m] = IF m = k THEN Append(toUs[k], l) ELSE toUs[m]
    BY DEF Queues
  <1>2. /\ Has(Append(toUs[k], l), Letter(n)) <=> Has(toUs[k], Letter(n)) \/ l \in Letter(n)
        /\ Once(toUs[k], Letter(n)) /\ ~(Has(toUs[k], Letter(n)) /\ l \in Letter(n))
           => Once(Append(toUs[k], l), Letter(n))
    <2>1. toUs[k] \in Seq(Letters)
      BY DEF Queues
    <2> QED
      BY <2>1, AppendHas
  <1>3. l \in Letter(n) <=> l = Mail("R", n)
    BY DEF Letter
  <1>4. ASSUME l # Mail("R", n)
        PROVE  Carried(n)' /\ (Sent(n)' <=> Sent(n))
    <2>1. \A m \in Conns : (Has(toUs[m], Letter(n))' <=> Has(toUs[m], Letter(n)))
      BY <1>1, <1>2, <1>3, <1>4 DEF Has, Letter
    <2>2. \A m \in Conns : Once(toUs'[m], Letter(n))
      BY <1>1, <1>2, <1>3, <1>4 DEF Carried
    <2> QED
      BY <2>1, <2>2 DEF Carried, Sent, Letter
  <1>5. ASSUME l = Mail("R", n), ~Sent(n)
        PROVE  Carried(n)'
    <2>1. \A m \in Conns : ~Has(toUs[m], Letter(n))
      BY <1>5 DEF Sent
    <2>2. \A m \in Conns : Has(toUs'[m], Letter(n)) => m = k
      BY <1>1, <2>1
    <2>3. \A m \in Conns : Once(toUs'[m], Letter(n))
      BY <1>1, <1>2, <2>1 DEF Carried
    <2> QED
      BY <2>2, <2>3 DEF Carried, Letter
  <1> QED
    BY <1>4, <1>5

LEMMA Fetched ==
    ASSUME Queues, NEW k \in Conns, toUs[k] # <<>>, NEW n \in Conns,
           toUs' = [toUs EXCEPT ![k] = Tail(@)], Carried(n)
    PROVE  /\ Carried(n)' /\ (Sent(n)' => Sent(n))
           /\ Head(toUs[k]) \in Letter(n) => Sent(n) /\ ~Sent(n)'
  <1>1. \A m \in Conns : toUs'[m] = IF m = k THEN Tail(toUs[k]) ELSE toUs[m]
    BY DEF Queues
  <1>2. /\ Has(Tail(toUs[k]), Letter(n)) => Has(toUs[k], Letter(n))
        /\ Head(toUs[k]) \in Letter(n) => Has(toUs[k], Letter(n)) /\ ~Has(Tail(toUs[k]), Letter(n))
        /\ Once(Tail(toUs[k]), Letter(n))
    <2>1. toUs[k] \in Seq(Letters) /\ Once(toUs[k], Letter(n))
      BY DEF Queues, Carried
    <2> QED
      BY <2>1, TailHas
  <1>3. \A m \in Conns : Has(toUs'[m], Letter(n)) => Has(toUs[m], Letter(n))
    BY <1>1, <1>2
  <1>4. \A m \in Conns : Once(toUs'[m], Letter(n))
    BY <1>1, <1>2 DEF Carried
  <1>5. Carried(n)' /\ (Sent(n)' => Sent(n))
    BY <1>3, <1>4 DEF Carried, Sent, Letter
  <1>6. ASSUME Head(toUs[k]) \in Letter(n)
        PROVE  Sent(n) /\ \A m \in Conns : ~Has(toUs'[m], Letter(n))
    <2>1. Has(toUs[k], Letter(n))
      BY <1>2, <1>6
    <2>2. \A m \in Conns : m # k => ~Has(toUs[m], Letter(n))
      BY <2>1 DEF Carried
    <2> QED
      BY <1>1, <1>2, <1>6, <2>1, <2>2 DEF Sent
  <1> QED
    BY <1>5, <1>6 DEF Sent, Letter

(* Steps of read threads.                                                  *)
LEMMA ReaderAnswers ==
    ASSUME Inv, NEW c \in Contexts,
           Connect(c) \/ Accept(c) \/ Close(c) \/ Reader(c)
    PROVE  Answered'
  <1>t. Control /\ Queues /\ Past /\ Table /\ MaxConns \in Nat
    BY HandshakeAssumption DEF Inv, Control
  <1> SUFFICES ASSUME NEW n \in Conns PROVE Singles(n)' /\ Stages(n)'
    BY DEF Answered
  <1>i. Singles(n) /\ Stages(n)
    BY DEF Inv, Answered
  <1>n. n \in Nat \ {0} /\ made \in Nat
    BY <1>t DEF Conns, Past
  <1>q. toPeer[n] \in Seq({"I", "R"})
    BY <1>t DEF Queues
  <1>1. ASSUME Connect(c) \/ Accept(c)
        PROVE  Singles(n)' /\ Stages(n)'
    <2>1. /\ made' = made + 1 /\ conn' = [conn EXCEPT ![c] = made + 1]
          /\ UNCHANGED <<taken, toUs, toPeer, inq, dmsg, log, pgot, owed>>
      BY <1>1 DEF Connect, Accept, Attach, queueVars, peerVars
    <2>2. Fresh(n)' => Fresh(n)
      BY <1>n, <1>t, <2>1 DEF Fresh, Past
    <2>3. /\ (Asked(n)' <=> Asked(n)) /\ (Owed(n)' <=> Owed(n)) /\ (Sent(n)' <=> Sent(n))
          /\ (Received(n)' <=> Received(n)) /\ (Handling(n)' <=> Handling(n)) /\ (Heard(n)' <=> Heard(n))
      BY <2>1 DEF Asked, Owed, Sent, Letter, Received, Handling, Heard
    <2>4. Stages(n)'
      BY <1>i, <2>1, <2>2, <2>3, KeepStages
    <2> QED
      BY <1>i, <2>1, <2>4 DEF Singles, Carried, Letter
  <1>2. ASSUME Acquire(c)
        PROVE  Singles(n)' /\ Stages(n)'
    <2>1. /\ c \notin taken /\ taken' = taken \cup {c}
          /\ UNCHANGED <<made, conn, toUs, inq, dmsg, log, pgot, owed>>
      BY <1>2 DEF Acquire, queueVars, histVars
    <2>2. conn[c] \in Conns /\ conn[c] <= made
      BY <1>2, <1>t, InUse DEF Acquire
    <2>3. /\ (Owed(n)' <=> Owed(n)) /\ (Sent(n)' <=> Sent(n)) /\ (Received(n)' <=> Received(n))
          /\ (Handling(n)' <=> Handling(n)) /\ (Heard(n)' <=> Heard(n))
      BY <2>1 DEF Owed, Sent, Letter, Received, Handling, Heard
    <2>4. Fresh(n)' => Fresh(n)
      BY <2>1 DEF Fresh
    <2>5. ASSUME toPeer'[n] = toPeer[n]
          PROVE  Singles(n)' /\ Stages(n)'
      <3>1. (Asked(n)' <=> Asked(n))
        BY <2>5 DEF Asked
      <3>2. Stages(n)'
        BY <1>i, <2>1, <2>3, <2>4, <3>1, KeepStages
      <3> QED
        BY <1>i, <2>1, <2>5, <3>2 DEF Singles, Carried, Letter
    <2>6. ASSUME n = conn[c], toPeer'[n] = Append(toPeer[n], "I")
          PROVE  Singles(n)' /\ Stages(n)'
      <3>1. Fresh(n) /\ ~Fresh(n)'
        BY <1>n, <1>t, <2>1, <2>2, <2>6 DEF Fresh, Table, Uses
      <3>2. ~Asked(n)
        BY <1>i, <3>1 DEF Stages
      <3>3. Once(toPeer'[n], {"I"})
        BY <1>i, <1>q, <2>6, <3>2, AppendHas DEF Asked, Singles
      <3>4. Stages(n)'
        BY <1>i, <2>1, <2>3, <3>1 DEF Stages
      <3> QED
        BY <1>i, <2>1, <3>3, <3>4 DEF Singles, Carried, Letter
    <2>7. PICK m \in Conns : m = conn[c]
      BY <2>2
    <2>8. toPeer' = toPeer \/ Send(m, "I")
      BY <1>2, <2>7 DEF Acquire, Send
    <2>9. toPeer'[n] = toPeer[n] \/ (n = m /\ toPeer'[n] = Append(toPeer[n], "I"))
      <3>1. ASSUME Send(m, "I")
            PROVE  /\ \A x \in Conns : x # m => toPeer'[x] = toPeer[x]
                   /\ toPeer'[m] = toPeer[m] \/ toPeer'[m] = Append(toPeer[m], "I")
        BY <1>t, <3>1, Sends
      <3>2. CASE Send(m, "I")
        BY <3>1, <3>2
      <3>3. CASE toPeer' = toPeer
        BY <3>3
      <3> QED
        BY <2>8, <3>2, <3>3
    <2> QED
      BY <2>5, <2>6, <2>7, <2>9
  <1>3. ASSUME Read(c)
        PROVE  Singles(n)' /\ Stages(n)'
    <2>1. PICK m \in Conns : m = conn[c]
      BY <1>3, <1>t, InUse DEF Read
    <2>2. toUs[m] \in Seq(Letters) /\ toUs[m] # <<>>
      BY <1>3, <1>t, <2>1 DEF Read, Queues
    <2>3. PICK k \in Letters : k = Head(toUs[m])
      BY <2>2, Removed
    <2>4. PICK g \in Messages : g = [ctx |-> c, kind |-> k.kind, from |-> m, of |-> k.of]
      BY <2>1, <2>3 DEF Messages, Letters
    <2>5. inq' = Append(inq, g) /\ toUs' = [toUs EXCEPT ![m] = Tail(@)]
      BY <1>3, <2>1, <2>3, <2>4 DEF Read
    <2>6. UNCHANGED <<taken, made, conn, toPeer, dmsg, log, pgot, owed>>
      BY <1>3 DEF Read, ctxVars, histVars
    <2>7. g \in Answers(n) <=> k \in Letter(n)
      <3>1. g \in Answers(n) <=> k.kind = "R" /\ k.of = n
        BY <2>4 DEF Answers
      <3>2. k \in Letter(n) <=> k.kind = "R" /\ k.of = n
        BY DEF Letter, Mail, Letters
      <3> QED
        BY <3>1, <3>2
    <2>8. /\ (Fresh(n)' <=> Fresh(n)) /\ (Asked(n)' <=> Asked(n)) /\ (Owed(n)' <=> Owed(n))
          /\ (Handling(n)' <=> Handling(n)) /\ (Heard(n)' <=> Heard(n))
      BY <2>6 DEF Fresh, Asked, Owed, Handling, Heard
    <2>9. Received(n)' <=> Received(n) \/ k \in Letter(n)
      BY <1>t, <2>5, <2>7, AppendHas DEF Received, Queues, Answers
    <2>10. /\ Carried(n)' /\ (Sent(n)' => Sent(n))
           /\ k \in Letter(n) => Sent(n) /\ ~Sent(n)'
      BY <1>i, <1>t, <2>2, <2>3, <2>5, Fetched DEF Singles
    <2>11. Once(inq', Answers(n))
      <3>1. k \in Letter(n) => ~Received(n)
        BY <1>i, <2>10 DEF Stages
      <3> QED
        BY <1>i, <1>t, <2>5, <2>7, <3>1, AppendHas DEF Received, Singles, Queues
    <2>12. Stages(n)'
      BY <1>i, <2>6, <2>8, <2>9, <2>10 DEF Stages
    <2> QED
      BY <1>i, <2>6, <2>10, <2>11, <2>12 DEF Singles
  <1>4. ASSUME CleanClear(c)
        PROVE  Singles(n)' /\ Stages(n)'
    <2>1. /\ conn' = [conn EXCEPT ![c] = 0] /\ taken' = taken \ {c}
          /\ UNCHANGED <<made, toUs, toPeer, inq, dmsg, log, pgot, owed>>
      BY <1>4 DEF CleanClear, queueVars, peerVars, histVars
    <2>2. Fresh(n)' => Fresh(n)
      BY <1>n, <1>t, <2>1 DEF Fresh, Past
    <2>3. /\ (Asked(n)' <=> Asked(n)) /\ (Owed(n)' <=> Owed(n)) /\ (Sent(n)' <=> Sent(n))
          /\ (Received(n)' <=> Received(n)) /\ (Handling(n)' <=> Handling(n)) /\ (Heard(n)' <=> Heard(n))
      BY <2>1 DEF Asked, Owed, Sent, Letter, Received, Handling, Heard
    <2>4. Stages(n)'
      BY <1>i, <2>1, <2>2, <2>3, KeepStages
    <2> QED
      BY <1>i, <2>1, <2>4 DEF Singles, Carried, Letter
  <1>5. ASSUME Close(c) \/ SeeHangup(c) \/ CleanClose(c) \/ CleanNotify(c)
        PROVE  Singles(n)' /\ Stages(n)'
    <2>1. UNCHANGED <<conn, taken, made, toUs, toPeer, inq, dmsg, pgot, owed>>
      BY <1>5 DEF Close, SeeHangup, CleanClose, CleanNotify, queueVars, peerVars, histVars
    <2>2. (Heard(n)' <=> Heard(n)) /\ Once(log', Tellings(n))
      <3>1. CASE log' = log
        BY <1>i, <3>1 DEF Heard, Singles
      <3>2. CASE log' # log
        <4>1. name[c] # 0 /\ log' = Append(log, [what |-> "closed", ctx |-> c, conn |-> name[c], of |-> name[c]])
          BY <1>5, <3>2 DEF Close, SeeHangup, CleanClose, CleanNotify, Tell, histVars
        <4>2. PICK e \in Notices : e = [what |-> "closed", ctx |-> c, conn |-> name[c], of |-> name[c]]
          BY <1>t, <4>1 DEF Notices, Past, Conns
        <4>3. e \notin Tellings(n)
          BY <4>2 DEF Tellings
        <4> QED
          BY <1>i, <1>t, <4>1, <4>2, <4>3, AppendHas DEF Heard, Singles, Queues
      <3> QED
        BY <3>1, <3>2
    <2>3. /\ (Asked(n)' <=> Asked(n)) /\ (Owed(n)' <=> Owed(n)) /\ (Sent(n)' <=> Sent(n))
          /\ (Received(n)' <=> Received(n)) /\ (Handling(n)' <=> Handling(n)) /\ (Fresh(n)' <=> Fresh(n))
      BY <2>1 DEF Asked, Owed, Sent, Letter, Received, Handling, Fresh
    <2>4. Stages(n)'
      BY <1>i, <2>1, <2>2, <2>3, KeepStages
    <2> QED
      BY <1>i, <2>1, <2>2, <2>4 DEF Singles, Carried, Letter
  <1> QED
    BY <1>1, <1>2, <1>3, <1>4, <1>5 DEF Reader, Cleaner

(* Steps of dispatch threads, write threads and peers.                     *)
LEMMA OtherAnswers ==
    ASSUME Inv,
           \/ \E d \in Dispatchers : Dispatcher(d)
           \/ \E w \in Writers : Writer(w)
           \/ \E n \in Conns : Peer(n)
    PROVE  Answered'
  <1>t. Control /\ Queues /\ Past /\ Table /\ MaxConns \in Nat
    BY HandshakeAssumption DEF Inv, Control
  <1> SUFFICES ASSUME NEW n \in Conns PROVE Singles(n)' /\ Stages(n)'
    BY DEF Answered
  <1>i. Singles(n) /\ Stages(n)
    BY DEF Inv, Answered
  <1>q. toPeer[n] \in Seq({"I", "R"}) /\ inq \in Seq(Messages)
    BY <1>t DEF Queues
  <1>1. ASSUME NEW d \in Dispatchers, DispatchTake(d)
        PROVE  Singles(n)' /\ Stages(n)'
    <2>1. /\ dmsg[d] = NULL /\ inq # <<>> /\ inq' = Tail(inq)
          /\ UNCHANGED <<taken, made, conn, toUs, toPeer, log, pgot, owed>>
      BY <1>1 DEF DispatchTake, ctxVars, peerVars, histVars
    <2>2. PICK g \in Messages : g = Head(inq)
      BY <1>q, <2>1, Removed
    <2>3. dmsg' = [dmsg EXCEPT ![d] = g]
      BY <1>1, <2>2 DEF DispatchTake
    <2>4. g \in Answers(n) <=> g.kind = "R" /\ g.of = n
      BY <2>2 DEF Answers
    <2>5. /\ Has(inq', Answers(n)) => Has(inq, Answers(n))
          /\ g \in Answers(n) => Has(inq, Answers(n)) /\ ~Has(inq', Answers(n))
          /\ Once(inq', Answers(n))
      BY <1>i, <1>q, <2>1, <2>2, TailHas DEF Singles, Carried, Letter
    <2>6. \A e \in Dispatchers : dmsg'[e] = IF e = d THEN g ELSE dmsg[e]
      BY <1>t, <2>3 DEF Queues
    <2>7. Handling(n)' => Handling(n) \/ g \in Answers(n)
      BY <2>4, <2>6 DEF Handling
    <2>8. g \in Answers(n) => ~Handling(n)
      BY <1>i, <2>5 DEF Stages, Received
    <2>9. \A e, f \in Dispatchers :
            /\ dmsg'[e] # NULL /\ dmsg'[e].kind = "R" /\ dmsg'[e].of = n
            /\ dmsg'[f] # NULL /\ dmsg'[f].kind = "R" /\ dmsg'[f].of = n
            => e = f
      BY <1>i, <2>4, <2>6, <2>8 DEF Singles, Handling
    <2>10. /\ (Fresh(n)' <=> Fresh(n)) /\ (Asked(n)' <=> Asked(n))
           /\ (Owed(n)' <=> Owed(n)) /\ (Sent(n)' <=> Sent(n)) /\ (Heard(n)' <=> Heard(n))
      BY <2>1 DEF Fresh, Asked, Owed, Sent, Letter, Heard
    <2>11. (Received(n)' => Received(n)) /\ (g \in Answers(n) => Received(n) /\ ~Received(n)')
      BY <2>5 DEF Received
    <2>12. Stages(n)'
      BY <1>i, <2>1, <2>7, <2>10, <2>11 DEF Stages
    <2> QED
      BY <1>i, <2>1, <2>5, <2>9, <2>12 DEF Singles, Carried, Letter
  <1>2. ASSUME NEW d \in Dispatchers, Established(d)
        PROVE  Singles(n)' /\ Stages(n)'
    <2>1. /\ dmsg[d] # NULL /\ dmsg[d].kind = "R" /\ dmsg' = [dmsg EXCEPT ![d] = NULL]
          /\ UNCHANGED <<taken, made, conn, toUs, toPeer, inq, pgot, owed>>
      BY <1>2 DEF Established, ctxVars, peerVars
    <2>2. PICK e \in Notices : e = [what |-> "established", ctx |-> dmsg[d].ctx, conn |-> dmsg[d].from,
                  of |-> dmsg[d].of]
      BY <1>t, <2>1 DEF Queues, Handled, Notices
    <2>3. log' = Append(log, e) /\ log \in Seq(Notices)
      BY <1>2, <1>t, <2>2 DEF Established, Tell, Queues
    <2>4. e \in Tellings(n) <=> dmsg[d].of = n
      BY <2>2 DEF Tellings
    <2>5. \A f \in Dispatchers : dmsg'[f] = IF f = d THEN NULL ELSE dmsg[f]
      BY <1>t, <2>1 DEF Queues
    <2>6. Handling(n)' => Handling(n)
      BY <2>5 DEF Handling
    <2>7. e \in Tellings(n) => Handling(n) /\ ~Handling(n)'
      BY <1>i, <2>1, <2>4, <2>5 DEF Handling, Singles
    <2>8. Heard(n)' <=> Heard(n) \/ e \in Tellings(n)
      BY <2>3, AppendHas DEF Heard
    <2>9. e \in Tellings(n) => ~Heard(n)
      BY <1>i, <2>7 DEF Stages
    <2>10. Once(log', Tellings(n))
      BY <1>i, <2>3, <2>9, AppendHas DEF Singles, Heard
    <2>11. /\ (Fresh(n)' <=> Fresh(n)) /\ (Asked(n)' <=> Asked(n))
           /\ (Owed(n)' <=> Owed(n)) /\ (Sent(n)' <=> Sent(n)) /\ (Received(n)' <=> Received(n))
      BY <2>1 DEF Fresh, Asked, Owed, Sent, Letter, Received
    <2>12. Stages(n)'
      BY <1>i, <2>1, <2>6, <2>7, <2>8, <2>11 DEF Stages
    <2>13. \A f \in Dispatchers : dmsg'[f] # NULL => dmsg'[f] = dmsg[f]
      BY <2>5
    <2> QED
      BY <1>i, <2>1, <2>10, <2>12, <2>13 DEF Singles, Carried, Letter
  <1>3. ASSUME NEW d \in Dispatchers, HandshakeAnswer(d) \/ HandshakeName(d)
        PROVE  Singles(n)' /\ Stages(n)'
    <2>1. UNCHANGED <<taken, made, conn, toUs, toPeer, inq, log, pgot, owed>>
      BY <1>3 DEF HandshakeAnswer, HandshakeName, ctxVars, peerVars, histVars
    <2>2. \A f \in Dispatchers : f # d => dmsg'[f] = dmsg[f]
      BY <1>3, <1>t DEF HandshakeAnswer, HandshakeName, Queues
    <2>3. dmsg'[d] = NULL \/ dmsg'[d].kind = "name"
      <3>1. CASE HandshakeName(d)
        BY <1>t, <3>1 DEF HandshakeName, Queues
      <3>2. CASE HandshakeAnswer(d)
        <4>1. dmsg[d] \in Handled /\ dmsg'[d] = [dmsg[d] EXCEPT !.kind = "name"]
          BY <1>t, <3>2 DEF HandshakeAnswer, Queues
        <4> QED
          BY <4>1 DEF Handled
      <3> QED
        BY <1>3, <3>1, <3>2
    <2>4. \A f \in Dispatchers : dmsg'[f] # NULL /\ dmsg'[f].kind = "R" => dmsg'[f] = dmsg[f]
      BY <2>2, <2>3
    <2>5. Handling(n)' => Handling(n)
      BY <2>4 DEF Handling
    <2>6. /\ (Fresh(n)' <=> Fresh(n)) /\ (Asked(n)' <=> Asked(n)) /\ (Owed(n)' <=> Owed(n))
          /\ (Sent(n)' <=> Sent(n)) /\ (Received(n)' <=> Received(n)) /\ (Heard(n)' <=> Heard(n))
      BY <2>1 DEF Fresh, Asked, Owed, Sent, Letter, Received, Heard
    <2>7. Stages(n)'
      BY <1>i, <2>1, <2>5, <2>6, KeepStages
    <2> QED
      BY <1>i, <2>1, <2>4, <2>7 DEF Singles, Carried, Letter
  <1>4. ASSUME NEW w \in Writers, Writer(w)
        PROVE  Singles(n)' /\ Stages(n)'
    <2>1. UNCHANGED <<taken, made, conn, toUs, inq, dmsg, log, pgot, owed>>
      BY <1>4 DEF Writer, WriteTake, Write, ctxVars, peerVars, histVars
    <2>2. toPeer'[n] = toPeer[n] \/ toPeer'[n] = Append(toPeer[n], "R")
      <3>1. CASE WriteTake(w)
        BY <3>1 DEF WriteTake, peerVars
      <3>2. CASE Write(w)
        <4>1. wmsg[w] \in Contexts
          BY <1>t, <3>2 DEF Write, Queues
        <4>2. CASE conf[wmsg[w]] = "connected"
          <5>1. PICK m \in Conns : m = conn[wmsg[w]]
            BY <1>t, <4>1, <4>2, InUse
          <5>2. Send(m, "R")
            BY <3>2, <4>2, <5>1 DEF Write, Send
          <5>3. /\ \A x \in Conns : x # m => toPeer'[x] = toPeer[x]
                /\ toPeer'[m] = toPeer[m] \/ toPeer'[m] = Append(toPeer[m], "R")
            BY <1>t, <5>2, Sends
          <5> QED
            BY <5>3
        <4>3. CASE conf[wmsg[w]] # "connected"
          BY <3>2, <4>3 DEF Write
        <4> QED
          BY <4>2, <4>3
      <3> QED
        BY <1>4, <3>1, <3>2 DEF Writer
    <2>3. (Asked(n)' => Asked(n)) /\ Once(toPeer'[n], {"I"})
      <3>1. /\ Has(Append(toPeer[n], "R"), {"I"}) <=> Has(toPeer[n], {"I"})
            /\ Once(toPeer[n], {"I"}) => Once(Append(toPeer[n], "R"), {"I"})
        BY <1>q, AppendHas
      <3> QED
        BY <1>i, <2>2, <3>1 DEF Asked, Singles
    <2>4. /\ (Fresh(n)' <=> Fresh(n)) /\ (Owed(n)' <=> Owed(n)) /\ (Sent(n)' <=> Sent(n))
          /\ (Received(n)' <=> Received(n)) /\ (Handling(n)' <=> Handling(n)) /\ (Heard(n)' <=> Heard(n))
      BY <2>1 DEF Fresh, Owed, Sent, Letter, Received, Handling, Heard
    <2>5. Stages(n)'
      BY <1>i, <2>1, <2>3, <2>4, KeepStages
    <2> QED
      BY <1>i, <2>1, <2>3, <2>5 DEF Singles, Carried, Letter
  <1>5. ASSUME NEW m \in Conns, PeerRead(m)
        PROVE  Singles(n)' /\ Stages(n)'
    <2>1. /\ UNCHANGED <<taken, made, conn, toUs, inq, dmsg, log>> /\ toPeer[m] # <<>>
          /\ toPeer' = [toPeer EXCEPT ![m] = Tail(@)]
      BY <1>5 DEF PeerRead, ctxVars, queueVars, histVars
    <2>2. PICK k \in {"I", "R"} : k = Head(toPeer[m])
      BY <1>t, <2>1, Removed DEF Queues
    <2>3. /\ pgot' = [pgot EXCEPT ![m] = @ \cup {k}]
          /\ owed' = IF k = "I" THEN owed \cup {m} ELSE owed
      BY <1>5, <2>2 DEF PeerRead
    <2>4. /\ (Fresh(n)' <=> Fresh(n)) /\ (Sent(n)' <=> Sent(n)) /\ (Received(n)' <=> Received(n))
          /\ (Handling(n)' <=> Handling(n)) /\ (Heard(n)' <=> Heard(n))
      BY <2>1 DEF Fresh, Sent, Letter, Received, Handling, Heard
    <2>5. CASE m # n
      <3>1. toPeer'[n] = toPeer[n] /\ pgot'[n] = pgot[n]
        BY <1>t, <2>1, <2>3, <2>5 DEF Queues
      <3>2. (Asked(n)' <=> Asked(n)) /\ (Owed(n)' <=> Owed(n))
        BY <2>3, <2>5, <3>1 DEF Asked, Owed
      <3>3. Stages(n)'
        BY <1>i, <2>4, <3>1, <3>2, KeepStages
      <3> QED
        BY <1>i, <2>1, <3>1, <3>3 DEF Singles, Carried, Letter
    <2>6. CASE m = n
      <3>1. toPeer'[n] = Tail(toPeer[n]) /\ pgot'[n] = pgot[n] \cup {k}
        BY <1>t, <2>1, <2>3, <2>6 DEF Queues
      <3>2. /\ Asked(n)' => Asked(n)
            /\ k = "I" => Asked(n) /\ ~Asked(n)'
            /\ Once(toPeer'[n], {"I"})
        BY <1>i, <1>q, <2>1, <2>2, <2>6, <3>1, TailHas DEF Asked, Singles
      <3>3. Owed(n)' <=> Owed(n) \/ k = "I"
        BY <2>3, <2>6 DEF Owed
      <3>4. Stages(n)'
        BY <1>i, <2>4, <3>1, <3>2, <3>3 DEF Stages
      <3> QED
        BY <1>i, <2>1, <3>2, <3>4 DEF Singles, Carried, Letter
    <2> QED
      BY <2>5, <2>6
  <1>6. ASSUME NEW m \in Conns, PeerHangup(m) \/ PeerDrop(m)
        PROVE  Singles(n)' /\ Stages(n)'
    <2>1. UNCHANGED <<taken, made, conn, toUs, toPeer, inq, dmsg, log, pgot>> /\ owed' \subseteq owed
      BY <1>6 DEF PeerHangup, PeerDrop, ctxVars, queueVars, histVars
    <2>2. /\ (Fresh(n)' <=> Fresh(n)) /\ (Asked(n)' <=> Asked(n)) /\ (Owed(n)' => Owed(n))
          /\ (Sent(n)' <=> Sent(n)) /\ (Received(n)' <=> Received(n))
          /\ (Handling(n)' <=> Handling(n)) /\ (Heard(n)' <=> Heard(n))
      BY <2>1 DEF Fresh, Asked, Owed, Sent, Letter, Received, Handling, Heard
    <2>3. Stages(n)'
      BY <1>i, <2>1, <2>2, KeepStages
    <2> QED
      BY <1>i, <2>1, <2>3 DEF Singles, Carried, Letter
  <1>7. ASSUME NEW k \in Conns, PeerGreet(k)
        PROVE  Singles(n)' /\ Stages(n)'
    <2>1. UNCHANGED <<taken, made, conn, toPeer, inq, dmsg, log, pgot, owed>>
      BY <1>7 DEF PeerGreet, ctxVars, queueVars, histVars
    <2>2. PICK l \in Letters : l # Mail("R", n) /\ toUs' = [toUs EXCEPT ![k] = Append(@, l)]
      BY <1>7 DEF PeerGreet, Mail, Letters
    <2>3. Carried(n)' /\ (Sent(n)' <=> Sent(n))
      BY <1>i, <1>t, <2>2, Posted DEF Singles
    <2>4. /\ (Fresh(n)' <=> Fresh(n)) /\ (Asked(n)' <=> Asked(n)) /\ (Owed(n)' <=> Owed(n))
          /\ (Received(n)' <=> Received(n)) /\ (Handling(n)' <=> Handling(n)) /\ (Heard(n)' <=> Heard(n))
      BY <2>1 DEF Fresh, Asked, Owed, Received, Handling, Heard
    <2>5. Stages(n)'
      BY <1>i, <2>1, <2>3, <2>4, KeepStages
    <2> QED
      BY <1>i, <2>1, <2>3, <2>5 DEF Singles
  <1>8. ASSUME NEW m \in Conns, NEW k \in Conns, PeerWrite(m, k)
        PROVE  Singles(n)' /\ Stages(n)'
    <2>1. /\ UNCHANGED <<taken, made, conn, toPeer, inq, dmsg, log, pgot>>
          /\ m \in owed /\ owed' = owed \ {m}
      BY <1>8 DEF PeerWrite, ctxVars, queueVars, histVars
    <2>2. PICK l \in Letters : l = Mail("R", m) /\ toUs' = [toUs EXCEPT ![k] = Append(@, l)]
      BY <1>8 DEF PeerWrite, Mail, Letters
    <2>3. l = Mail("R", n) <=> m = n
      BY <2>2 DEF Mail
    <2>4. /\ (Fresh(n)' <=> Fresh(n)) /\ (Asked(n)' <=> Asked(n))
          /\ (Received(n)' <=> Received(n)) /\ (Handling(n)' <=> Handling(n)) /\ (Heard(n)' <=> Heard(n))
      BY <2>1 DEF Fresh, Asked, Received, Handling, Heard
    <2>5. CASE m # n
      <3>1. Carried(n)' /\ (Sent(n)' <=> Sent(n))
        BY <1>i, <1>t, <2>2, <2>3, <2>5, Posted DEF Singles
      <3>2. Owed(n)' => Owed(n)
        BY <2>1 DEF Owed
      <3>3. Stages(n)'
        BY <1>i, <2>1, <2>4, <3>1, <3>2, KeepStages
      <3> QED
        BY <1>i, <2>1, <3>1, <3>3 DEF Singles
    <2>6. CASE m = n
      <3>1. Owed(n) /\ ~Owed(n)'
        BY <2>1, <2>6 DEF Owed
      <3>2. ~Sent(n)
        BY <1>i, <3>1 DEF Stages
      <3>3. Carried(n)'
        BY <1>i, <1>t, <2>2, <2>3, <2>6, <3>2, Posted DEF Singles
      <3>4. Stages(n)'
        BY <1>i, <2>1, <2>4, <3>1 DEF Stages
      <3> QED
        BY <1>i, <2>1, <3>3, <3>4 DEF Singles
    <2> QED
      BY <2>5, <2>6
  <1> QED
    BY <1>1, <1>2, <1>3, <1>4, <1>5, <1>6, <1>7, <1>8 DEF Dispatcher, Peer

-----------------------------------------------------------------------------
(* The steps that change the connection or the clean-up of a context.      *)
LEMMA Turns ==
    ASSUME Inv, Next
    PROVE  /\ late \subseteq late'
           /\ \/ UNCHANGED <<conn, cpc, late>>
              \/ \E c \in Contexts :
                    Connect(c) \/ Accept(c) \/ CleanClose(c) \/ CleanNotify(c) \/ CleanClear(c)
  <1>1. ASSUME NEW c \in Contexts, Acquire(c) \/ Read(c) \/ SeeHangup(c) \/ Close(c)
        PROVE  UNCHANGED <<conn, cpc, late>>
    BY <1>1 DEF Acquire, Read, SeeHangup, Close, ctxVars, histVars
  <1>2. ASSUME NEW d \in Dispatchers, Dispatcher(d)
        PROVE  UNCHANGED <<conn, cpc, late>>
    BY <1>2 DEF Dispatcher, DispatchTake, Established, HandshakeAnswer, HandshakeName, ctxVars, histVars
  <1>3. ASSUME NEW w \in Writers, Writer(w)
        PROVE  UNCHANGED <<conn, cpc, late>>
    BY <1>3 DEF Writer, WriteTake, Write, ctxVars, histVars
  <1>4. ASSUME NEW n \in Conns, Peer(n)
        PROVE  UNCHANGED <<conn, cpc, late>>
    BY <1>4 DEF Peer, PeerGreet, PeerRead, PeerWrite, PeerDrop, PeerHangup, ctxVars, histVars
  <1>5. ASSUME NEW c \in Contexts, Connect(c) \/ Accept(c) \/ CleanClose(c) \/ CleanNotify(c) \/ CleanClear(c)
        PROVE  late \subseteq late'
    BY <1>5 DEF Connect, Accept, Attach, CleanClose, CleanNotify, CleanClear, histVars
  <1> QED
    BY <1>1, <1>2, <1>3, <1>4, <1>5 DEF Next, Reader, Cleaner

(* A message inside stays current, or its context becomes late.            *)
LEMMA Stays ==
    ASSUME Inv, Next, NEW m \in Handled, Current(m),
           \/ \E i \in 1 .. Len(inq) : inq[i] = m
           \/ \E d \in Dispatchers : dmsg[d] # NULL /\ dmsg[d] = m
    PROVE  Current(m)'
  <1>t. Past /\ Table /\ m.ctx \in Contexts /\ m.from \in Conns
    BY DEF Inv, Control, Handled
  <1>n. m.from # 0
    BY <1>t DEF Conns
  <1>1. ASSUME NEW c \in Contexts, Connect(c) \/ Accept(c)
        PROVE  Current(m)'
    <2>1. /\ conf[c] = "closed" /\ UNCHANGED <<cpc, late>>
          /\ conn' = [conn EXCEPT ![c] = made + 1]
      BY <1>1 DEF Connect, Accept, Attach
    <2>2. m.ctx = c => m.ctx \in late
      BY <1>n, <1>t, <2>1 DEF Current, Table, Uses
    <2> QED
      BY <1>t, <2>1, <2>2 DEF Current, Past
  <1>2. ASSUME NEW c \in Contexts, CleanClose(c)
        PROVE  Current(m)'
    <2>1. m.ctx = c => Inside(c)
      BY DEF Inside
    <2>2. /\ cpc' = [cpc EXCEPT ![c] = "notify"] /\ UNCHANGED conn
          /\ late' = IF Inside(c) THEN late \cup {c} ELSE late
      BY <1>2 DEF CleanClose
    <2> QED
      BY <1>t, <2>1, <2>2 DEF Current, Table
  <1>3. ASSUME NEW c \in Contexts, CleanNotify(c) \/ CleanClear(c)
        PROVE  Current(m)'
    <2>1. /\ cpc[c] # "none" /\ UNCHANGED late
          /\ \A e \in Contexts : e # c => cpc'[e] = cpc[e] /\ conn'[e] = conn[e]
      BY <1>3, <1>t DEF CleanNotify, CleanClear, histVars, Table, Past
    <2>2. m.ctx = c => m.ctx \in late
      BY <2>1 DEF Current
    <2> QED
      BY <1>t, <2>1, <2>2 DEF Current
  <1>4. ASSUME UNCHANGED <<conn, cpc, late>>
        PROVE  Current(m)'
    BY <1>4 DEF Current
  <1> QED
    BY <1>1, <1>2, <1>3, <1>4, Turns

LEMMA InnerStep ==
    ASSUME Inv, Next
    PROVE  Inner'
  <1>t. Queues /\ Inner /\ Len(inq) \in Nat
    BY LenProperties DEF Inv, Control, Queues
  <1>k. Messages \subseteq Handled
    BY DEF Messages, Handled
  <1>1. ASSUME NEW m \in Handled, \E i \in 1 .. Len(inq) : inq[i] = m
        PROVE  Current(m)'
    BY <1>1, <1>t, Stays DEF Inner
  <1>2. ASSUME NEW m \in Handled, \E d \in Dispatchers : dmsg[d] # NULL /\ dmsg[d] = m
        PROVE  Current(m)'
    BY <1>2, <1>t, Stays DEF Inner
  <1>3. ASSUME NEW i \in 1 .. Len(inq)
        PROVE  inq[i] \in Handled
    BY <1>k, <1>t DEF Queues
  <1>4. \A i \in 1 .. Len(inq') : Current(inq[i])'
    <2>1. CASE inq' = inq
      <3> SUFFICES ASSUME NEW i \in 1 .. Len(inq) PROVE Current(inq[i])'
        BY <2>1
      <3>1. PICK m \in Handled : m = inq[i]
        BY <1>3
      <3>2. Current(m)'
        BY <1>1, <3>1
      <3> QED
        BY <2>1, <3>1, <3>2 DEF Current
    <2>2. ASSUME NEW c \in Contexts, Read(c)
          PROVE  \A i \in 1 .. Len(inq') : Current(inq[i])'
      <3>1. /\ UNCHANGED <<conn, cpc, late>> /\ cpc[c] = "none"
            /\ conn[c] \in Conns
        BY <2>2, InUse DEF Read, ctxVars, histVars, Inv
      <3>2. PICK k \in Letters : k = Head(toUs[conn[c]])
        <4>1. toUs[conn[c]] \in Seq(Letters) /\ toUs[conn[c]] # <<>>
          BY <1>t, <2>2, <3>1 DEF Read, Queues
        <4> QED
          BY <4>1, Removed
      <3>3. PICK g \in Messages : g = [ctx |-> c, kind |-> k.kind, from |-> conn[c], of |-> k.of]
        BY <3>1 DEF Messages, Letters
      <3>4. g.ctx = c /\ g.from = conn[c]
        BY <3>3
      <3>5. inq' = Append(inq, g) /\ inq \in Seq(Messages)
        BY <1>t, <2>2, <3>2, <3>3 DEF Read, Queues
      <3>6. /\ Len(inq') = Len(inq) + 1
            /\ \A i \in 1 .. Len(inq) + 1 : inq'[i] = IF i <= Len(inq) THEN inq[i] ELSE g
        BY <3>5, Appended
      <3>7. ASSUME NEW i \in 1 .. Len(inq')
            PROVE  Current(inq[i])'
        <4>1. CASE i <= Len(inq)
          <5>1. inq'[i] = inq[i] /\ Current(inq[i])
            BY <1>t, <3>6, <4>1 DEF Inner
          <5> QED
            BY <3>1, <5>1 DEF Current
        <4>2. CASE ~(i <= Len(inq))
          <5>1. inq'[i] = g
            BY <3>6, <4>2
          <5> QED
            BY <3>1, <3>4, <5>1 DEF Current
        <4> QED
          BY <4>1, <4>2
      <3> QED
        BY <3>7
    <2>3. ASSUME NEW d \in Dispatchers, DispatchTake(d)
          PROVE  \A i \in 1 .. Len(inq') : Current(inq[i])'
      <3>1. inq' = Tail(inq) /\ inq # <<>> /\ inq \in Seq(Messages) /\ UNCHANGED <<conn, cpc, late>>
        BY <1>t, <2>3 DEF DispatchTake, Queues, ctxVars, histVars
      <3>2. \A i \in 1 .. Len(inq') : i + 1 \in 1 .. Len(inq) /\ inq'[i] = inq[i + 1]
        BY <3>1, Removed
      <3> QED
        BY <1>t, <3>1, <3>2 DEF Inner, Current
    <2>4. inq' = inq \/ (\E c \in Contexts : Read(c)) \/ (\E d \in Dispatchers : DispatchTake(d))
      BY DEF Next, Reader, Cleaner, Dispatcher, Writer, Connect, Accept, Attach, Close, Acquire, SeeHangup,
             CleanClose, CleanNotify, CleanClear, Established, HandshakeAnswer, HandshakeName,
             WriteTake, Write,
             Peer, PeerGreet, PeerRead, PeerWrite, PeerDrop, PeerHangup, queueVars
    <2> QED
      BY <2>1, <2>2, <2>3, <2>4
  <1>5. \A d \in Dispatchers : dmsg'[d] # NULL => Current(dmsg[d])'
    <2>1. CASE dmsg' = dmsg
      <3> SUFFICES ASSUME NEW d \in Dispatchers, dmsg[d] # NULL PROVE Current(dmsg[d])'
        BY <2>1
      <3>1. PICK m \in Handled : m = dmsg[d]
        BY <1>t DEF Queues
      <3>2. Current(m)'
        BY <1>2, <3>1
      <3> QED
        BY <2>1, <3>1, <3>2 DEF Current
    <2>2. ASSUME NEW d \in Dispatchers, DispatchTake(d)
          PROVE  \A e \in Dispatchers : dmsg'[e] # NULL => Current(dmsg[e])'
      <3>1. /\ inq # <<>> /\ inq \in Seq(Messages) /\ UNCHANGED <<conn, cpc, late>>
            /\ dmsg' = [dmsg EXCEPT ![d] = Head(inq)]
        BY <1>t, <2>2 DEF DispatchTake, Queues, ctxVars, histVars
      <3>2. Head(inq) = inq[1] /\ 1 \in 1 .. Len(inq)
        BY <3>1, Removed
      <3>3. Current(Head(inq))
        BY <1>t, <3>2 DEF Inner
      <3>4. \A e \in Dispatchers : dmsg'[e] = IF e = d THEN Head(inq) ELSE dmsg[e]
        BY <1>t, <3>1 DEF Queues
      <3> QED
        BY <1>t, <3>1, <3>3, <3>4 DEF Inner, Current
    <2>3. ASSUME NEW d \in Dispatchers, Established(d) \/ HandshakeName(d)
          PROVE  \A e \in Dispatchers : dmsg'[e] # NULL => Current(dmsg[e])'
      <3>1. UNCHANGED <<conn, cpc, late>> /\ \A e \in Dispatchers : dmsg'[e] = IF e = d THEN NULL ELSE dmsg[e]
        BY <1>t, <2>3 DEF Established, HandshakeName, Queues, ctxVars, histVars
      <3> QED
        BY <1>t, <3>1 DEF Inner, Current
    <2>4. ASSUME NEW d \in Dispatchers, HandshakeAnswer(d)
          PROVE  \A e \in Dispatchers : dmsg'[e] # NULL => Current(dmsg[e])'
      <3>1. /\ UNCHANGED <<conn, cpc, late>> /\ dmsg[d] # NULL /\ dmsg[d] \in Handled
            /\ \A e \in Dispatchers : dmsg'[e] = IF e = d THEN [dmsg[d] EXCEPT !.kind = "name"] ELSE dmsg[e]
        BY <1>t, <2>4 DEF HandshakeAnswer, Queues, ctxVars, histVars
      <3>2. /\ [dmsg[d] EXCEPT !.kind = "name"].ctx = dmsg[d].ctx
            /\ [dmsg[d] EXCEPT !.kind = "name"].from = dmsg[d].from
        BY <3>1 DEF Handled
      <3>3. ASSUME NEW e \in Dispatchers, dmsg'[e] # NULL
            PROVE  dmsg[e] # NULL /\ dmsg'[e].ctx = dmsg[e].ctx /\ dmsg'[e].from = dmsg[e].from
        BY <3>1, <3>2, <3>3
      <3> QED
        BY <1>t, <3>1, <3>3 DEF Inner, Current
    <2>5. dmsg' = dmsg \/ \E d \in Dispatchers : Dispatcher(d)
      BY DEF Next, Reader, Cleaner, Writer, Connect, Accept, Attach, Close, Acquire, Read, SeeHangup,
             CleanClose, CleanNotify, CleanClear, WriteTake, Write,
             Peer, PeerGreet, PeerRead, PeerWrite, PeerDrop, PeerHangup, queueVars
    <2> QED
      BY <2>1, <2>2, <2>3, <2>4, <2>5 DEF Dispatcher
  <1> QED
    BY <1>4, <1>5 DEF Inner

LEMMA NamesStep ==
    ASSUME Inv, Next
    PROVE  Names'
  <1>t. Queues /\ Past /\ Table /\ Inner /\ Names
    BY DEF Inv, Control
  <1>1. ASSUME NEW c \in Contexts, Connect(c) \/ Accept(c)
        PROVE  Names'
    <2>1. /\ conf[c] = "closed" /\ UNCHANGED late
          /\ conn' = [conn EXCEPT ![c] = made + 1]
          /\ name' = [name EXCEPT ![c] = 0] \/ name' = [name EXCEPT ![c] = name[c]]
      BY <1>1 DEF Connect, Accept, Attach
    <2>2. conn[c] = 0
      BY <1>t, <2>1 DEF Table, Uses
    <2> QED
      BY <1>t, <2>1, <2>2 DEF Names, Past
  <1>2. ASSUME NEW c \in Contexts, CleanClear(c)
        PROVE  Names'
    BY <1>2, <1>t DEF CleanClear, Names, Past, histVars
  <1>3. ASSUME NEW d \in Dispatchers, HandshakeName(d)
        PROVE  Names'
    <2>1. dmsg[d] \in Handled /\ Current(dmsg[d])
      BY <1>3, <1>t DEF HandshakeName, Queues, Inner
    <2>2. /\ name' = [name EXCEPT ![dmsg[d].ctx] = dmsg[d].from]
          /\ UNCHANGED <<conn, late>>
      BY <1>3 DEF HandshakeName, histVars
    <2> QED
      BY <1>t, <2>1, <2>2 DEF Current, Handled, Names, Past
  <1>4. ASSUME UNCHANGED <<name, conn>>, late \subseteq late'
        PROVE  Names'
    BY <1>4, <1>t DEF Names
  <1>5. late \subseteq late'
    BY Turns
  <1>6. \/ UNCHANGED <<name, conn>>
        \/ \E c \in Contexts : Connect(c) \/ Accept(c) \/ CleanClear(c)
        \/ \E d \in Dispatchers : HandshakeName(d)
    BY DEF Next, Reader, Cleaner, Dispatcher, Writer, Close, Acquire, Read, SeeHangup, CleanClose, CleanNotify,
           DispatchTake, Established, HandshakeAnswer, WriteTake, Write,
             Peer, PeerGreet, PeerRead, PeerWrite, PeerDrop, PeerHangup, ctxVars
  <1> QED
    BY <1>1, <1>2, <1>3, <1>4, <1>5, <1>6

-----------------------------------------------------------------------------
(* What the trampolines are told.                                          *)

(* A step that tells nothing.                                              *)
LEMMA Silence ==
    ASSUME Inv, Next, log' = log
    PROVE  (\A i \in 1 .. Len(log') : Notice(i)') /\ ClosedFirst'
  <1>t. Queues /\ Past /\ Table /\ ClosedFirst
    BY DEF Inv, Control
  <1>l. late \subseteq late'
    BY Turns
  <1>c. ClosedFirst'
    BY <1>l, <1>t DEF ClosedFirst
  <1> SUFFICES ASSUME NEW i \in 1 .. Len(log) PROVE Notice(i)'
    BY <1>c
  <1>e. PICK e \in Notices : e = log[i]
    BY <1>t DEF Queues
  <1>x. PICK x \in Contexts : x = log[i].ctx
    BY <1>e DEF Notices
  <1>y. PICK y \in Conns : y = log[i].conn
    BY <1>e DEF Notices
  <1>i. Notice(i) /\ y <= made
    BY <1>t, <1>y DEF Inv, Past
  <1>g. ASSUME x \notin late', conn'[x] # 0 =>
                  /\ y <= conn'[x]
                  /\ y = conn'[x] /\ log[i].what = "closed" => cpc'[x] = "clear"
        PROVE  Notice(i)'
    BY <1>g, <1>x, <1>y DEF Notice
  <1>h. ASSUME x \in late'
        PROVE  Notice(i)'
    BY <1>h, <1>x DEF Notice
  <1>o. ASSUME x \notin late', conn[x] # 0
        PROVE  y <= conn[x] /\ (y = conn[x] /\ log[i].what = "closed" => cpc[x] = "clear")
    BY <1>o, <1>i, <1>l, <1>x, <1>y DEF Notice
  <1>1. ASSUME NEW c \in Contexts, Connect(c) \/ Accept(c), x \notin late'
        PROVE  Notice(i)'
    <2>1. conn' = [conn EXCEPT ![c] = made + 1] /\ UNCHANGED cpc
      BY <1>1 DEF Connect, Accept, Attach
    <2>2. y <= made + 1 /\ y # made + 1
      BY <1>i, <1>t DEF Past, Conns
    <2>3. CASE x = c
      <3>1. conn'[x] = made + 1
        BY <1>t, <2>1, <2>3 DEF Past
      <3>2. y <= conn'[x] /\ y # conn'[x]
        BY <2>2, <3>1
      <3> QED
        BY <1>1, <1>g, <3>2
    <2>4. CASE x # c
      <3>1. conn'[x] = conn[x] /\ cpc'[x] = cpc[x]
        BY <1>t, <2>1, <2>4 DEF Past
      <3> QED
        BY <1>1, <1>g, <1>o, <3>1
    <2> QED
      BY <2>3, <2>4
  <1>2. ASSUME NEW c \in Contexts, CleanClose(c) \/ CleanNotify(c), x \notin late'
        PROVE  Notice(i)'
    <2>1. UNCHANGED conn /\ (cpc[x] = "clear" => cpc'[x] = "clear")
      BY <1>2, <1>t DEF CleanClose, CleanNotify, Table
    <2> QED
      BY <1>2, <1>g, <1>o, <2>1
  <1>3. ASSUME NEW c \in Contexts, CleanClear(c), x \notin late'
        PROVE  Notice(i)'
    <2>1. conn' = [conn EXCEPT ![c] = 0] /\ cpc' = [cpc EXCEPT ![c] = "none"]
      BY <1>3 DEF CleanClear
    <2>2. CASE x = c
      <3>1. conn'[x] = 0
        BY <1>t, <2>1, <2>2 DEF Past
      <3> QED
        BY <1>3, <1>g, <3>1
    <2>3. CASE x # c
      <3>1. conn'[x] = conn[x] /\ cpc'[x] = cpc[x]
        BY <1>t, <2>1, <2>3 DEF Past, Table
      <3> QED
        BY <1>3, <1>g, <1>o, <3>1
    <2> QED
      BY <2>2, <2>3
  <1>4. ASSUME UNCHANGED <<conn, cpc, late>>, x \notin late'
        PROVE  Notice(i)'
    BY <1>4, <1>g, <1>o
  <1> QED
    BY <1>h, <1>1, <1>2, <1>3, <1>4, Turns

(* A step that tells of connection e.conn of a context that is not late:   *)
(* it is the context's own, and nothing that must follow was told before.  *)
LEMMA Speech ==
    ASSUME Inv, Queues', NEW e \in Notices, log' = Append(log, e), UNCHANGED <<conn, late>>,
           \A x \in Contexts : cpc[x] = "clear" => cpc'[x] = "clear",
           e.ctx \notin late => e.conn = conn[e.ctx],
           e.ctx \notin late /\ e.what = "closed" => cpc'[e.ctx] = "clear",
           \A i \in 1 .. Len(log) :
                e.ctx \notin late /\ log[i].ctx = e.ctx /\ log[i].conn = e.conn =>
                    log[i].what = "established"
    PROVE  (\A i \in 1 .. Len(log') : Notice(i)') /\ ClosedFirst'
  <1>t. Queues /\ Past /\ ClosedFirst /\ e.ctx \in Contexts /\ e.conn \in Nat \ {0}
    BY DEF Inv, Control, Notices, Conns
  <1>1. /\ Len(log) \in Nat /\ Len(log') = Len(log) + 1
        /\ \A i \in 1 .. Len(log) : log'[i] = log[i]
        /\ log'[Len(log) + 1] = e
    BY <1>t, Tells
  <1>2. ASSUME NEW i \in 1 .. Len(log)
        PROVE  /\ log[i] \in Notices /\ log[i].ctx \in Contexts /\ log[i].conn \in Nat
               /\ Notice(i)
    <2>1. log[i] \in Notices
      BY <1>t DEF Queues
    <2> QED
      BY <2>1 DEF Notices, Conns, Inv
  <1>3. ASSUME NEW i \in 1 .. Len(log')
        PROVE  Notice(i)'
    <2>1. CASE i <= Len(log)
      <3>1. i \in 1 .. Len(log) /\ log'[i] = log[i]
        BY <1>1, <2>1
      <3> QED
        BY <1>2, <3>1 DEF Notice
    <2>2. CASE ~(i <= Len(log))
      <3>1. log'[i] = e
        BY <1>1, <2>2
      <3> QED
        BY <1>t, <3>1 DEF Notice, Past
    <2> QED
      BY <2>1, <2>2
  <1>4. ASSUME NEW i \in 1 .. Len(log), log[i].ctx = e.ctx, e.ctx \notin late
        PROVE  \/ log[i].conn < e.conn
               \/ log[i].conn = e.conn /\ log[i].what = "established"
    <2>1. log[i].conn <= e.conn
      BY <1>2, <1>4, <1>t DEF Notice
    <2>2. log[i].conn = e.conn => log[i].what = "established"
      BY <1>4
    <2> QED
      BY <1>2, <1>t, <2>1, <2>2
  <1>5. ASSUME NEW i \in 1 .. Len(log'), NEW j \in 1 .. Len(log'),
               i < j, log'[i].ctx = log'[j].ctx, log'[i].ctx \notin late'
        PROVE  \/ log'[i].conn < log'[j].conn
               \/ log'[i].conn = log'[j].conn /\ log'[i].what = "established"
    <2>1. i \in 1 .. Len(log) /\ log'[i] = log[i]
      BY <1>1, <1>5
    <2>2. CASE j <= Len(log)
      <3>1. j \in 1 .. Len(log) /\ log'[j] = log[j]
        BY <1>1, <2>2
      <3> QED
        BY <1>5, <1>t, <2>1, <3>1 DEF ClosedFirst
    <2>3. CASE ~(j <= Len(log))
      <3>1. log'[j] = e
        BY <1>1, <2>3
      <3> QED
        BY <1>4, <1>5, <2>1, <3>1
    <2> QED
      BY <2>2, <2>3
  <1> QED
    BY <1>3, <1>5 DEF ClosedFirst

LEMMA NoticeStep ==
    ASSUME Inv, Next, Queues'
    PROVE  (\A i \in 1 .. Len(log') : Notice(i)') /\ ClosedFirst'
  <1>t. Queues /\ Past /\ Table /\ Names /\ Inner
    BY DEF Inv, Control
  <1>1. ASSUME NEW c \in Contexts, CleanNotify(c), log' # log
        PROVE  (\A i \in 1 .. Len(log') : Notice(i)') /\ ClosedFirst'
    <2>1. PICK y \in Conns : y = name[c] /\ y # 0
      BY <1>1, <1>t, HandshakeAssumption DEF CleanNotify, Past, Conns
    <2>2. PICK e \in Notices : e = [what |-> "closed", ctx |-> c, conn |-> y, of |-> y]
      BY DEF Notices
    <2>3. e.what = "closed" /\ e.ctx = c /\ e.conn = y
      BY <2>2
    <2>4. /\ log' = Append(log, e) /\ UNCHANGED <<conn, late>> /\ cpc[c] = "notify"
          /\ cpc' = [cpc EXCEPT ![c] = "clear"]
      BY <1>1, <2>1, <2>2 DEF CleanNotify, Tell
    <2>5. (\A x \in Contexts : cpc[x] = "clear" => cpc'[x] = "clear") /\ cpc'[c] = "clear"
      BY <1>t, <2>4 DEF Table
    <2>6. c \notin late => y = conn[c]
      BY <1>t, <2>1 DEF Names
    <2>7. ASSUME NEW i \in 1 .. Len(log), c \notin late, log[i].ctx = c, log[i].conn = y
          PROVE  log[i].what = "established"
      <3>1. log[i].what # "closed"
        BY <2>1, <2>4, <2>6, <2>7 DEF Inv, Notice
      <3>2. log[i] \in Notices
        BY <1>t DEF Queues
      <3> QED
        BY <3>1, <3>2 DEF Notices
    <2> QED
      BY <2>3, <2>4, <2>5, <2>6, <2>7, Speech
  <1>2. ASSUME NEW d \in Dispatchers, Established(d)
        PROVE  (\A i \in 1 .. Len(log') : Notice(i)') /\ ClosedFirst'
    <2>1. dmsg[d] # NULL /\ dmsg[d].kind = "R" /\ dmsg[d] \in Handled /\ Current(dmsg[d])
      BY <1>2, <1>t DEF Established, Queues, Inner
    <2>2. PICK c \in Contexts : c = dmsg[d].ctx
      BY <2>1 DEF Handled
    <2>3. PICK y \in Conns : y = dmsg[d].from
      BY <2>1 DEF Handled
    <2>4. PICK e \in Notices : e = [what |-> "established", ctx |-> c, conn |-> y, of |-> dmsg[d].of]
      BY <2>1 DEF Handled, Notices
    <2>5. e.what = "established" /\ e.ctx = c /\ e.conn = y
      BY <2>4
    <2>6. log' = Append(log, e) /\ UNCHANGED <<conn, late, cpc>>
      BY <1>2, <2>2, <2>3, <2>4 DEF Established, Tell, ctxVars
    <2>7. c \notin late => y = conn[c] /\ cpc[c] = "none"
      BY <2>1, <2>2, <2>3 DEF Current
    <2>8. ASSUME NEW i \in 1 .. Len(log), c \notin late, log[i].ctx = c, log[i].conn = y
          PROVE  log[i].what = "established"
      <3>1. log[i] \in Notices
        BY <1>t DEF Queues
      <3>2. CASE log[i].what = "closed"
        <4>1. conn[c] # 0
          BY <2>7, <2>8 DEF Conns
        <4> QED
          BY <2>7, <2>8, <3>2, <4>1 DEF Inv, Notice
      <3> QED
        BY <3>1, <3>2 DEF Notices
    <2> QED
      BY <2>5, <2>6, <2>7, <2>8, Speech
  <1>3. \/ log' = log
        \/ \E c \in Contexts : CleanNotify(c)
        \/ \E d \in Dispatchers : Established(d)
    BY DEF Next, Reader, Cleaner, Dispatcher, Writer, Connect, Accept, Attach, Close, Acquire, Read, SeeHangup,
           CleanClose, CleanClear, DispatchTake, HandshakeAnswer, HandshakeName,
           WriteTake, Write,
             Peer, PeerGreet, PeerRead, PeerWrite, PeerDrop, PeerHangup, histVars
  <1> QED
    BY <1>1, <1>2, <1>3, Silence

-----------------------------------------------------------------------------
LEMMA InvInit ==
    ASSUME Init
    PROVE  Inv
  <1>1. Queues /\ Past /\ Table
    BY HandshakeAssumption DEF Init, Queues, Past, Table, Uses, Conns
  <1>2. Answered
    BY HandshakeAssumption
    DEF Init, Answered, Singles, Carried, Stages, Fresh, Asked, Owed, Sent, Received, Handling, Heard, Has, Once,
        Conns
  <1>3. Inner /\ Names /\ (\A i \in 1 .. Len(log) : Notice(i)) /\ ClosedFirst
    BY DEF Init, Inner, Names, ClosedFirst
  <1> QED
    BY <1>1, <1>2, <1>3 DEF Inv, Control

LEMMA InvStutter ==
    ASSUME Inv, UNCHANGED vars
    PROVE  Inv'
  <1>1. UNCHANGED <<conf, conn, name, taken, cpc, inq, outq, dmsg, wmsg, toUs, toPeer, hung, greeted, owed, pgot, log,
                    made, closes, late>>
    BY DEF vars, ctxVars, queueVars, peerVars, histVars
  <1>2. Control'
    BY <1>1 DEF Inv, Control, Queues, Past, Table, Uses
  <1>3. Answered'
    BY <1>1 DEF Inv, Answered, Singles, Carried, Letter, Stages, Fresh, Asked, Owed, Sent, Received, Handling, Heard
  <1>4. Inner' /\ Names' /\ ClosedFirst'
    BY <1>1 DEF Inv, Inner, Current, Names, ClosedFirst
  <1>5. \A i \in 1 .. Len(log') : Notice(i)'
    BY <1>1 DEF Inv, Notice
  <1> QED
    BY <1>2, <1>3, <1>4, <1>5 DEF Inv

LEMMA InvStep ==
    ASSUME Inv, [Next]_vars
    PROVE  Inv'
  <1>1. CASE Next
    <2>1. Control'
      BY <1>1, ControlStep DEF Inv
    <2>2. Answered'
      BY <1>1, ReaderAnswers, OtherAnswers DEF Next
    <2>3. Inner' /\ Names'
      BY <1>1, InnerStep, NamesStep
    <2>4. (\A i \in 1 .. Len(log') : Notice(i)') /\ ClosedFirst'
      BY <1>1, <2>1, NoticeStep DEF Control
    <2> QED
      BY <2>1, <2>2, <2>3, <2>4 DEF Inv
  <1>2. CASE UNCHANGED vars
    BY <1>2, InvStutter
  <1> QED
    BY <1>1, <1>2

(* The invariant: where the one answer to every handshake is, here or at   *)
(* the peer and on whatever connection it was sent, that what is           *)
(* inside came on the connection of its context, and what was told.        *)
THEOREM HandshakeInv == Spec => []Inv
  <1>1. Init => Inv
    BY InvInit
  <1>2. Inv /\ [Next]_vars => Inv'
    BY InvStep
  <1> QED
    BY <1>1, <1>2, PTL DEF Spec

(* internal_messages.c:60-94: however the contexts, queues and threads     *)
(* interleave, and whatever connection the peer's answer goes out on, the  *)
(* application hears of each handshake once, after the peer got it.        *)
THEOREM HandshakeOnce == Spec => []EstablishedOnce
  <1>1. Inv => EstablishedOnce
    <2> SUFFICES ASSUME Inv, NEW i \in Told("established")
                 PROVE  /\ "I" \in pgot[log[i].of]
                        /\ \A j \in Told("established") : log[i].of = log[j].of => i = j
      BY DEF EstablishedOnce
    <2>1. \A j \in Told("established") : j \in 1 .. Len(log) /\ log[j] \in Notices
      BY DEF Told, Inv, Control, Queues
    <2>2. PICK n \in Conns : n = log[i].of
      BY <2>1 DEF Notices
    <2>3. Singles(n) /\ Stages(n)
      BY DEF Inv, Answered
    <2>4. \A j \in Told("established") : log[j].of = n => log[j] \in Tellings(n)
      BY <2>1 DEF Told, Tellings
    <2>5. Heard(n)
      BY <2>1, <2>2, <2>4 DEF Heard, Has
    <2> QED
      BY <2>1, <2>2, <2>3, <2>4, <2>5 DEF Singles, Once, Stages
  <1> QED
    BY <1>1, HandshakeInv, PTL

(* context_queue.c:510-513: a context that was never cleaned up with       *)
(* messages of its connection inside names its own peer or nobody.         *)
THEOREM HandshakeNames == Spec => []NameIsPeers
  <1>1. Inv => NameIsPeers
    BY DEF Inv, Names, NameIsPeers, Control, Table, Uses
  <1> QED
    BY <1>1, HandshakeInv, PTL

(* context_queue.c:499-502: on such a context the closing of a connection  *)
(* is told once, last of what is told of it and before anything of the     *)
(* next, whatever answers arrive on it.                                    *)
THEOREM HandshakeClosed == Spec => []ClosedFirst
  <1>1. Inv => ClosedFirst
    BY DEF Inv
  <1> QED
    BY <1>1, HandshakeInv, PTL

=============================================================================
