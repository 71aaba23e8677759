-------------------------- MODULE ReadThreadsProofs -------------------------
(***************************************************************************)
(* Proofs about ReadThreads for any number of contexts, read threads and   *)
(* application threads, in histories in which a free context is left       *)
(* whenever one is taken (without Exhaustion).                             *)
(***************************************************************************)
EXTENDS ReadThreads, SequenceTheorems, FiniteSetTheorems, TLAPS

Elements(q) == {q[i] : i \in 1 .. Len(q)}

Distinct(q) == \A i, j \in 1 .. Len(q) : q[i] = q[j] => i = j

(* Configurations.  A close that has read one stores a mark, and a read    *)
(* thread the handshake bit, of a context that is not closed.              *)
Configs ==
    /\ conf \in [Contexts -> Confs]
    /\ saved \in [Readers -> Confs]
    /\ closing \in [ctx : Contexts, conf : Confs] \cup {NULL}
    /\ closing # NULL => closing.conf.shutdown /\ closing.conf.conn # "closed"
    /\ \A r \in Readers : rpc[r] = "mark" => saved[r].conn # "closed"

Queues ==
    /\ free \in Seq(Contexts) /\ available \in Seq(Contexts)
    /\ queues \subseteq {"free", "available"} /\ lost \subseteq Contexts
    /\ apc \in [Apps -> {"idle", "called", "opening", "connecting", "flag"}]
    /\ actx \in [Apps -> Contexts]
    /\ sock \subseteq Contexts /\ known \subseteq Contexts
    /\ pending \in [Contexts -> {"none", "input", "hangup"}]
    /\ ops \in 0 .. MaxOps /\ closes \in 0 .. MaxCloses /\ events \in 0 .. MaxEvents

(* Where the loop variable of a read thread and its list are at each point.*)
Point(r) ==
    /\ rpc[r] \in {"asleep", "woken"} => assigned[r] = <<>>
    /\ rpc[r] = "mark" => Last(r) >= 1
    /\ rpc[r] \in CleanupPoints => index[r] <= Last(r)
    /\ rpc[r] \in {"events", "flag"} => index[r] >= 1 /\ index[r] <= Last(r) + 1
    /\ rpc[r] = "flag" => index[r] <= Last(r)

Threads ==
    /\ rpc \in [Readers -> ReaderPoints]
    /\ assigned \in [Readers -> Seq(Contexts)]
    /\ index \in [Readers -> 0 .. MaxAssigned + 1]
    /\ \A r \in Readers : Point(r) /\ Last(r) <= MaxAssigned
    /\ waiting \subseteq {r \in Readers : rpc[r] = "asleep"}
    /\ holder \in Readers \cup {NULL}
    /\ flag \in {0, 1}
    /\ mpc \in {"running", "destroyed", "broadcast", "join", "joined", "down", "crashed"}

Control == Configs /\ Queues /\ Threads

(* The contexts that application threads set up, and those of read threads.*)
Works(a) == apc[a] \in {"opening", "connecting"}
Work == {actx[a] : a \in {b \in Apps : Works(b)}}
Mine(r) == Elements(assigned[r])
Read == UNION {Mine(r) : r \in Readers}

(* Every context is in one place, once.                                    *)
Partition ==
    /\ Distinct(free) /\ Distinct(available)
    /\ \A r \in Readers : Distinct(assigned[r])
    /\ \A r, q \in Readers : r # q => Mine(r) \cap Mine(q) = {}
    /\ \A a, b \in Apps : Works(a) /\ Works(b) /\ actx[a] = actx[b] => a = b
    /\ Elements(free) \cap (Elements(available) \cup Work \cup Read) = {}
    /\ Elements(available) \cap (Work \cup Read) = {}
    /\ Work \cap Read = {}
    /\ lost \cap (Elements(free) \cup Elements(available) \cup Work \cup Read) = {}
    /\ Contexts \subseteq Elements(free) \cup Elements(available) \cup Work \cup Read \cup lost

(* What is not free is open or connected, and has a socket once it is set  *)
(* up.                                                                     *)
NotClosed == \A c \in Elements(available) \cup Work \cup Read : conf[c].conn # "closed"
Sockets == "available" \in queues => sock = Elements(available) \cup Read

(* A thread that exits has marked all of its contexts and returns them.    *)
Leaves(r) ==
    /\ rpc[r] = "excleanup" => index[r] = Last(r) /\ \A c \in Mine(r) : conf[c].shutdown
    /\ rpc[r] = "exited" => assigned[r] = <<>>

States == NotClosed /\ Sockets /\ \A r \in Readers : Leaves(r)

(* The queue of free contexts is destroyed first, that of available ones   *)
(* last, when the read threads have been joined.                           *)
Homes ==
    /\ "free" \in queues => lost = {} /\ mpc = "running"
    /\ "available" \notin queues => mpc \in {"down", "crashed"}
    /\ mpc = "joined" => \A r \in Readers : rpc[r] = "exited"

Inv == Control /\ Partition /\ States /\ Homes

-----------------------------------------------------------------------------
(* Configurations: what each operation makes of one.                       *)
LEMMA ConfTypes ==
    /\ Cleared \in Confs
    /\ Conf("open") \in Confs /\ Conf("open").conn = "open"
    /\ Conf("connected") \in Confs /\ Conf("connected").conn = "connected"
  BY DEF Confs, Cleared, Conf

LEMMA CloseConfs ==
    ASSUME NEW cf \in Confs
    PROVE  /\ CloseConf(cf) \in Confs
           /\ CloseConf(cf).conn = cf.conn
           /\ cf.conn # "closed" => CloseConf(cf).shutdown
           /\ [cf EXCEPT !.handshake = TRUE] \in Confs
           /\ [cf EXCEPT !.handshake = TRUE].conn = cf.conn
           /\ [cf EXCEPT !.conn = "connected", !.shutdown = FALSE] \in Confs
           /\ [cf EXCEPT !.conn = "connected", !.shutdown = FALSE].conn = "connected"
  <1>1. CloseConf(cf) \in Confs
    BY DEF Confs, CloseConf
  <1>2. CloseConf(cf).conn = cf.conn /\ (cf.conn # "closed" => CloseConf(cf).shutdown)
    BY DEF Confs, CloseConf
  <1>3. [cf EXCEPT !.handshake = TRUE] \in Confs
    BY DEF Confs
  <1>4. [cf EXCEPT !.handshake = TRUE].conn = cf.conn
    BY DEF Confs
  <1>5. [cf EXCEPT !.conn = "connected", !.shutdown = FALSE] \in Confs
    BY DEF Confs
  <1>6. [cf EXCEPT !.conn = "connected", !.shutdown = FALSE].conn = "connected"
    BY DEF Confs
  <1> QED
    BY <1>1, <1>2, <1>3, <1>4, <1>5, <1>6

(* What is on a queue after a push and after a pop.                        *)
LEMMA QueueAppend ==
    ASSUME NEW S, NEW q \in Seq(S), NEW e \in S
    PROVE  /\ Append(q, e) \in Seq(S) /\ Len(Append(q, e)) = Len(q) + 1
           /\ Elements(Append(q, e)) = Elements(q) \cup {e}
           /\ Distinct(q) /\ e \notin Elements(q) => Distinct(Append(q, e))
  BY AppendProperties, LenProperties DEF Elements, Distinct

LEMMA QueueTail ==
    ASSUME NEW S, NEW q \in Seq(S), q # <<>>
    PROVE  /\ Head(q) \in Elements(q) /\ Head(q) \in S /\ Tail(q) \in Seq(S)
           /\ Distinct(q) => Elements(Tail(q)) = Elements(q) \ {Head(q)} /\ Distinct(Tail(q))
  <1>1. Len(q) \in Nat \ {0} /\ Len(Tail(q)) = Len(q) - 1 /\ Head(q) = q[1] /\ Head(q) \in S
        /\ Tail(q) \in Seq(S) /\ \A i \in 1 .. Len(q) - 1 : Tail(q)[i] = q[i + 1]
    BY EmptySeq, HeadTailProperties, LenProperties
  <1>2. ASSUME NEW i \in 1 .. Len(q), q[i] # Head(q)
        PROVE  q[i] \in Elements(Tail(q))
    <2>1. i - 1 \in 1 .. Len(Tail(q)) /\ Tail(q)[i - 1] = q[(i - 1) + 1]
      BY <1>1, <1>2
    <2> QED
      BY <2>1 DEF Elements
  <1>3. ASSUME Distinct(q), NEW i \in 1 .. Len(Tail(q))
        PROVE  Tail(q)[i] \in Elements(q) \ {Head(q)}
    <2>1. i + 1 \in 1 .. Len(q) /\ i + 1 # 1 /\ 1 \in 1 .. Len(q) /\ Tail(q)[i] = q[i + 1]
      BY <1>1
    <2> QED
      BY <1>1, <1>3, <2>1 DEF Elements, Distinct
  <1>4. Distinct(q) => Distinct(Tail(q))
    BY <1>1 DEF Distinct
  <1>5. Head(q) \in Elements(q)
    BY <1>1 DEF Elements
  <1>6. Distinct(q) => Elements(Tail(q)) = Elements(q) \ {Head(q)}
    <2>1. Elements(q) \ {Head(q)} \subseteq Elements(Tail(q))
      BY <1>2 DEF Elements
    <2>2. Distinct(q) => Elements(Tail(q)) \subseteq Elements(q) \ {Head(q)}
      BY <1>3 DEF Elements
    <2> QED
      BY <2>1, <2>2
  <1> QED
    BY <1>1, <1>4, <1>5, <1>6

(* connector_read_thread_remove_context takes out one context and keeps    *)
(* all the others.                                                         *)
LEMMA Removed ==
    ASSUME NEW S, NEW q \in Seq(S), NEW i \in 1 .. Len(q)
    PROVE  /\ RemoveContext(q, i) \in Seq(S) /\ Len(RemoveContext(q, i)) = Len(q) - 1
           /\ Distinct(q) => /\ Distinct(RemoveContext(q, i))
                             /\ Elements(RemoveContext(q, i)) = Elements(q) \ {q[i]}
  <1> DEFINE L == Len(q)
             R == RemoveContext(q, i)
  <1>1. L \in Nat /\ L >= 1 /\ q \in [1 .. L -> S]
    BY LenProperties
  <1>2. /\ R \in Seq(S) /\ Len(R) = L - 1
        /\ \A j \in 1 .. L - 1 : R[j] = IF j = i THEN q[L] ELSE q[j]
    <2> DEFINE p == [q EXCEPT ![i] = q[L]]
    <2>1. \A j \in 1 .. L : p[j] = (IF j = i THEN q[L] ELSE q[j]) /\ p[j] \in S
      BY <1>1
    <2>2. \A j \in 1 .. L - 1 : p[j] \in S
      BY <1>1, <2>1
    <2> HIDE DEF p
    <2>3. /\ SubSeq(p, 1, L - 1) \in Seq(S)
          /\ Len(SubSeq(p, 1, L - 1)) = IF 1 <= L - 1 THEN (L - 1) - 1 + 1 ELSE 0
          /\ \A j \in 1 .. (L - 1) - 1 + 1 : SubSeq(p, 1, L - 1)[j] = p[1 + j - 1]
      BY <1>1, <2>2, SubSeqProperties
    <2>4. R = SubSeq(p, 1, L - 1)
      BY DEF RemoveContext, p
    <2>5. Len(R) = L - 1
      BY <1>1, <2>3, <2>4
    <2>6. ASSUME NEW j \in 1 .. L - 1
          PROVE  R[j] = p[j]
      BY <1>1, <2>3, <2>4
    <2> QED
      BY <1>1, <2>1, <2>3, <2>4, <2>5, <2>6
  <1> HIDE DEF R
  <1>3. ASSUME Distinct(q)
        PROVE  Distinct(R)
    BY <1>1, <1>2, <1>3 DEF Distinct
  <1>4. ASSUME Distinct(q), NEW j \in 1 .. L - 1
        PROVE  R[j] \in Elements(q) \ {q[i]}
    BY <1>1, <1>2, <1>4 DEF Distinct, Elements
  <1>5. ASSUME NEW j \in 1 .. L, q[j] # q[i]
        PROVE  \E k \in 1 .. L - 1 : R[k] = q[j]
    <2>1. CASE j = L
      <3>1. i \in 1 .. L - 1 /\ R[i] = q[L]
        BY <1>1, <1>2, <1>5, <2>1
      <3> QED
        BY <2>1, <3>1
    <2>2. CASE j # L
      <3>1. j \in 1 .. L - 1
        <4>1. L \in Nat
          BY <1>1
        <4> HIDE DEF L
        <4> QED
          BY <2>2, <4>1
      <3>2. R[j] = q[j]
        BY <1>2, <1>5, <3>1
      <3> QED
        BY <3>1, <3>2
    <2> QED
      BY <2>1, <2>2
  <1>6. Distinct(q) => Elements(R) = Elements(q) \ {q[i]}
    <2>1. Elements(R) = {R[j] : j \in 1 .. L - 1}
      BY <1>2 DEF Elements
    <2>2. ASSUME NEW x \in Elements(q) \ {q[i]}
          PROVE  x \in Elements(R)
      <3>1. PICK j \in 1 .. L : x = q[j]
        BY DEF Elements
      <3> QED
        BY <1>5, <2>1, <3>1
    <2> QED
      BY <1>4, <2>1, <2>2
  <1> QED
    BY <1>2, <1>3, <1>6 DEF R

(* What is on a queue is its range.                                        *)
LEMMA Ranges ==
    ASSUME NEW S, NEW q \in Seq(S)
    PROVE  Range(q) = Elements(q) /\ Elements(q) \subseteq S
  BY LenProperties, ElementOfSeq DEF Range, Elements

LEMMA PopType ==
    ASSUME NEW c \in Contexts, PopFree(c), free \in Seq(Contexts)
    PROVE  free' \in Seq(Contexts)
  BY HeadTailProperties DEF PopFree

(* A push on the free queue, which may be gone.                            *)
LEMMA PushCases ==
    ASSUME NEW c, PushFree(c)
    PROVE  \/ free' = Append(free, c) /\ lost' = lost
           \/ free' = free /\ lost' = lost \cup {c}
  <1>1. CASE "free" \in queues
    BY <1>1 DEF PushFree
  <1>2. CASE "free" \notin queues
    BY <1>2 DEF PushFree
  <1> QED
    BY <1>1, <1>2

LEMMA PushType ==
    ASSUME NEW c \in Contexts, PushFree(c), free \in Seq(Contexts), lost \subseteq Contexts
    PROVE  free' \in Seq(Contexts) /\ lost' \subseteq Contexts
  <1>1. Append(free, c) \in Seq(Contexts)
    BY AppendProperties
  <1> QED
    BY <1>1, PushCases

-----------------------------------------------------------------------------
(* A thread in an event or cleanup loop looks at one of its contexts.      *)
LEMMA Indexed ==
    ASSUME Threads, NEW r \in Readers, index[r] >= 1, index[r] <= Last(r)
    PROVE  /\ Last(r) \in 1 .. MaxAssigned /\ index[r] \in 1 .. Last(r)
           /\ assigned[r][index[r]] \in Contexts
           /\ assigned[r][index[r]] \in Mine(r)
  <1>1. assigned[r] \in Seq(Contexts) /\ index[r] \in Nat
    BY ReaderAssumption DEF Threads
  <1>2. Last(r) \in Nat /\ index[r] \in 1 .. Last(r)
    BY <1>1, LenProperties DEF Last
  <1> QED
    BY <1>1, <1>2, ElementOfSeq, ReaderAssumption DEF Threads, Last, Mine, Elements

LEMMA Lasts ==
    ASSUME Threads, NEW r \in Readers
    PROVE  Last(r) \in 0 .. MaxAssigned /\ (assigned[r] = <<>> <=> Last(r) = 0)
  BY LenProperties, EmptySeq, ReaderAssumption DEF Threads, Last

(* A configuration is replaced by one, and a read thread marks only what   *)
(* it has read.                                                            *)
LEMMA ConfigsStep == Control /\ [Next]_vars => Configs'
  <1> SUFFICES ASSUME Control, [Next]_vars PROVE Configs'
    OBVIOUS
  <1>c. conf \in [Contexts -> Confs] /\ saved \in [Readers -> Confs] /\ rpc \in [Readers -> ReaderPoints]
    BY DEF Control, Configs, Threads
  <1>m. \A r \in Readers : rpc[r] = "mark" => saved[r].conn # "closed"
    BY DEF Control, Configs
  <1>1. ASSUME NEW r \in Readers, AcquireHandshake(r)
        PROVE  Configs'
    <2>1. Head(available) \in Contexts /\ conf[Head(available)].conn # "closed"
      BY <1>1, HeadTailProperties DEF AcquireHandshake, NeedsHandshake, Control, Queues
    <2>2. saved' \in [Readers -> Confs] /\ saved' = [saved EXCEPT ![r] = conf[Head(available)]]
      BY <1>1, <1>c, <2>1 DEF AcquireHandshake
    <2>3. \A q \in Readers : rpc'[q] = "mark" => saved'[q].conn # "closed"
      BY <1>1, <1>c, <1>m, <2>1, <2>2 DEF AcquireHandshake
    <2> QED
      BY <1>1, <2>2, <2>3 DEF AcquireHandshake, Control, Configs
  <1>2. ASSUME NEW r \in Readers, HandshakeMark(r)
        PROVE  Configs'
    <2>1. [saved[r] EXCEPT !.handshake = TRUE] \in Confs
      BY <1>c, CloseConfs
    <2>2. conf' \in [Contexts -> Confs]
      BY <1>2, <1>c, <2>1 DEF HandshakeMark
    <2>3. saved' \in [Readers -> Confs] /\ saved' = [saved EXCEPT ![r] = Cleared]
      BY <1>2, <1>c, ConfTypes DEF HandshakeMark
    <2>4. \A q \in Readers : rpc'[q] = "mark" => saved'[q].conn # "closed"
      BY <1>2, <1>c, <1>m, <2>3 DEF HandshakeMark, AfterAcquire
    <2> QED
      BY <1>2, <2>2, <2>3, <2>4 DEF HandshakeMark, Control, Configs
  <1>3. ASSUME NEW r \in Readers, CleanupContext(r)
        PROVE  Configs'
    BY <1>3, <1>c, <1>m, ConfTypes DEF CleanupContext, Control, Configs
  <1>4. ASSUME NEW r \in Readers, EventHangup(r)
        PROVE  Configs'
    <2>1. assigned[r][index[r]] \in Contexts
      BY <1>4, Indexed DEF EventHangup, Event, Control, Threads, Point
    <2>2. CloseConf(conf[assigned[r][index[r]]]) \in Confs
      BY <1>c, <2>1, CloseConfs
    <2> QED
      BY <1>4, <1>c, <1>m, <2>2 DEF EventHangup, Control, Configs
  <1>5. ASSUME NEW r \in Readers, EventAccept(r)
        PROVE  Configs'
    <2>1. PICK new \in Contexts : conf' = [conf EXCEPT ![new] = Conf("connected")]
      BY <1>5 DEF EventAccept
    <2>2. conf' \in [Contexts -> Confs]
      BY <1>c, <2>1, ConfTypes
    <2> QED
      BY <1>5, <1>c, <1>m, <2>2 DEF EventAccept, Control, Configs
  <1>6. ASSUME NEW r \in Readers, ReaderExit(r)
        PROVE  Configs'
    <2>1. \A c \in Contexts : CloseConf(conf[c]) \in Confs /\ conf[c] \in Confs
      BY <1>c, CloseConfs
    <2>2. conf' \in [Contexts -> Confs]
      BY <1>6, <2>1 DEF ReaderExit
    <2> QED
      BY <1>6, <1>c, <1>m, <2>2 DEF ReaderExit, Goto, Control, Configs
  <1>7. ASSUME NEW a \in Apps, OpenBegin(a) \/ ConnectBegin(a), UNCHANGED readerVars
        PROVE  Configs'
    <2>1. PICK c \in Contexts : conf' = [conf EXCEPT ![c] = Conf("open")]
      BY <1>7 DEF OpenBegin, ConnectBegin
    <2>2. conf' \in [Contexts -> Confs]
      BY <1>c, <2>1, ConfTypes
    <2> QED
      BY <1>7, <1>m, <2>2 DEF OpenBegin, ConnectBegin, Control, Configs, readerVars
  <1>8. ASSUME NEW a \in Apps, OpenFail(a), UNCHANGED readerVars
        PROVE  Configs'
    BY <1>8, <1>c, <1>m, ConfTypes DEF OpenFail, Control, Configs, readerVars
  <1>9. ASSUME NEW a \in Apps, ConnectSucceed(a), UNCHANGED readerVars
        PROVE  Configs'
    <2>1. actx[a] \in Contexts
      BY DEF Control, Queues
    <2>2. conf' = [conf EXCEPT ![actx[a]] = [conf[actx[a]] EXCEPT !.conn = "connected", !.shutdown = FALSE]]
      BY <1>9, <1>c, <2>1 DEF ConnectSucceed
    <2>3. [conf[actx[a]] EXCEPT !.conn = "connected", !.shutdown = FALSE] \in Confs
      BY <1>c, <2>1, CloseConfs
    <2>4. conf' \in [Contexts -> Confs]
      BY <1>c, <2>2, <2>3
    <2> QED
      BY <1>9, <1>m, <2>4 DEF ConnectSucceed, Control, Configs, readerVars
  <1>10. ASSUME CloseStore, UNCHANGED readerVars
         PROVE  Configs'
    <2>1. closing.conf \in Confs
      BY <1>10 DEF CloseStore, Control, Configs
    <2> QED
      BY <1>10, <1>c, <1>m, <2>1 DEF CloseStore, Control, Configs, readerVars
  <1>11. ASSUME NEW c \in Contexts, CloseRead(c), UNCHANGED readerVars
         PROVE  Configs'
    <2>1. conf[c] \in Confs /\ conf[c].conn # "closed" /\ closing' = [ctx |-> c, conf |-> CloseConf(conf[c])]
      BY <1>11, <1>c DEF CloseRead
    <2>2. CloseConf(conf[c]) \in Confs /\ CloseConf(conf[c]).shutdown /\ CloseConf(conf[c]).conn # "closed"
      BY <2>1, CloseConfs
    <2>3. closing' \in [ctx : Contexts, conf : Confs] /\ closing'.conf = CloseConf(conf[c])
      BY <2>1, <2>2
    <2>4. closing'.conf.shutdown /\ closing'.conf.conn # "closed"
      BY <2>2, <2>3
    <2> QED
      BY <1>11, <1>c, <1>m, <2>3, <2>4 DEF CloseRead, Configs, readerVars
  <1>12. ASSUME UNCHANGED <<conf, saved, closing>>, \A r \in Readers : rpc'[r] = "mark" => rpc[r] = "mark"
         PROVE  Configs'
    BY <1>12 DEF Control, Configs
  <1>13. ASSUME NEW r \in Readers, ReaderWait(r) \/ ReaderBusy(r) \/ ReaderWakeup(r) \/ ReaderRelock(r)
                  \/ ReaderWokenByShutdown(r) \/ AcquireNothing(r) \/ AcquireQuiet(r) \/ ReaderNoLoad(r)
                  \/ CleanupKeep(r) \/ CleanupDone(r) \/ PollEvents(r) \/ PollTimeout(r) \/ EventNone(r)
                  \/ EventAcceptFails(r) \/ EventFlag(r) \/ EventInput(r) \/ EventsDone(r)
         PROVE  UNCHANGED <<conf, saved, closing>> /\ \A q \in Readers : rpc'[q] = "mark" => rpc[q] = "mark"
    BY <1>13, <1>c DEF ReaderWait, ReaderBusy, ReaderWakeup, ReaderRelock, ReaderWokenByShutdown,
      AcquireNothing, AcquireQuiet, AfterAcquire, ReaderNoLoad, CleanupKeep, CleanupDone, PollEvents,
      PollTimeout, EventNone, EventAcceptFails, EventFlag, EventInput, EventsDone, Goto, contextVars
  <1>14. ASSUME NEW a \in Apps, OpenSucceed(a) \/ ConnectFail(a) \/ AppCheck(a) \/ OpenRefused(a),
                UNCHANGED readerVars
         PROVE  UNCHANGED <<conf, saved, closing, rpc>>
    BY <1>14 DEF OpenSucceed, ConnectFail, AppCheck, OpenRefused, readerVars
  <1>15. ASSUME \/ \E a \in Apps : AppFlag(a)
                \/ \E c \in Contexts : PeerEvent(c, "input") \/ PeerEvent(c, "hangup")
                \/ ShutdownContexts \/ ShutdownFlag \/ ShutdownBroadcast \/ ShutdownJoin
                \/ ShutdownAvailable \/ PopWithoutQueue \/ UNCHANGED vars
         PROVE  UNCHANGED <<conf, saved, closing, rpc>>
    BY <1>15 DEF AppFlag, PeerEvent, ShutdownContexts, ShutdownFlag, ShutdownBroadcast, ShutdownJoin,
      ShutdownAvailable, PopWithoutQueue, DestroyFree, DestroyAvailable, vars, contextVars, readerVars
  <1> QED
    BY <1>1, <1>2, <1>3, <1>4, <1>5, <1>6, <1>7, <1>8, <1>9, <1>10, <1>11, <1>12, <1>13, <1>14, <1>15
    DEF Next, ReaderRun, ReaderLock, App, AppStep, Close

(* The queues have contexts and the bounds of the model hold.              *)
LEMMA QueuesStep == Control /\ [Next]_vars => Queues'
  <1> SUFFICES ASSUME Control, [Next]_vars PROVE Queues'
    OBVIOUS
  <1>a. 0 \in Contexts /\ MaxEvents \in Nat /\ MaxOps \in Nat /\ MaxCloses \in Nat
    BY ContextAssumption, ReaderAssumption DEF Contexts
  <1>1. ASSUME NEW r \in Readers, AcquireQuiet(r) \/ AcquireHandshake(r)
        PROVE  Queues'
    <2>1. /\ available # <<>> /\ available' = Tail(available)
          /\ UNCHANGED <<free, queues, lost, apc, actx, sock, known, ops, closes, pending, events>>
      BY <1>1 DEF AcquireQuiet, AcquireHandshake, peerVars
    <2> QED
      BY <2>1, HeadTailProperties DEF Control, Queues
  <1>2. ASSUME NEW r \in Readers, CleanupContext(r)
        PROVE  Queues'
    <2>1. assigned[r][index[r]] \in Contexts
      BY <1>2, Indexed DEF CleanupContext, Control, Threads, Point
    <2>2. PushFree(assigned[r][index[r]])
      BY <1>2 DEF CleanupContext
    <2>3. free' \in Seq(Contexts) /\ lost' \subseteq Contexts
      BY <2>1, <2>2, PushType DEF Control, Queues
    <2> QED
      BY <1>2, <2>1, <2>3 DEF CleanupContext, Control, Queues
  <1>3. ASSUME NEW r \in Readers, EventAccept(r)
        PROVE  Queues'
    <2>1. PICK new \in Contexts :
            /\ PopFree(new)
            /\ sock' = sock \cup {new}
            /\ known' = known \cup {new}
            /\ available' = Append(available, new)
            /\ pending' = [pending EXCEPT ![assigned[r][index[r]]] = "none", ![new] = "none"]
      BY <1>3 DEF EventAccept
    <2>2. free' \in Seq(Contexts) /\ available' \in Seq(Contexts)
      BY <2>1, PopType, AppendProperties DEF Control, Queues
    <2>3. pending' \in [Contexts -> {"none", "input", "hangup"}]
      BY <2>1 DEF Control, Queues
    <2> QED
      BY <1>3, <2>1, <2>2, <2>3 DEF EventAccept, Control, Queues
  <1>4. ASSUME NEW r \in Readers, EventAcceptFails(r) \/ EventInput(r)
        PROVE  Queues'
    <2>1. pending' \in [Contexts -> {"none", "input", "hangup"}]
      BY <1>4 DEF EventAcceptFails, EventInput, Control, Queues
    <2> QED
      BY <1>4, <2>1 DEF EventAcceptFails, EventInput, Control, Queues, contextVars
  <1>5. ASSUME NEW a \in Apps, OpenBegin(a) \/ ConnectBegin(a), UNCHANGED peerVars
        PROVE  Queues'
    <2>1. PICK c \in Contexts : PopFree(c) /\ actx' = [actx EXCEPT ![a] = c]
      BY <1>5 DEF OpenBegin, ConnectBegin
    <2>2. free' \in Seq(Contexts)
      BY <2>1, PopType DEF Control, Queues
    <2> QED
      BY <1>5, <1>a, <2>1, <2>2 DEF OpenBegin, ConnectBegin, Control, Queues, peerVars
  <1>6. ASSUME NEW a \in Apps, OpenFail(a) \/ ConnectFail(a), UNCHANGED peerVars
        PROVE  Queues'
    <2>1. /\ PushFree(actx[a]) /\ apc' = [apc EXCEPT ![a] = "idle"]
          /\ actx' = [actx EXCEPT ![a] = 0]
          /\ UNCHANGED <<available, queues, sock, known, ops, closes, pending, events>>
      BY <1>6 DEF OpenFail, ConnectFail, peerVars
    <2>2. free' \in Seq(Contexts) /\ lost' \subseteq Contexts
      BY <2>1, PushType DEF Control, Queues
    <2> QED
      BY <1>a, <2>1, <2>2 DEF Control, Queues
  <1>7. ASSUME NEW a \in Apps, OpenSucceed(a) \/ ConnectSucceed(a), UNCHANGED peerVars
        PROVE  Queues'
    <2>1. /\ AppendAvailable(a, actx[a])
          /\ actx' = [actx EXCEPT ![a] = 0]
          /\ sock' = sock \cup {actx[a]} /\ known' = known \cup {actx[a]}
          /\ UNCHANGED <<free, queues, ops, closes, pending, events>>
      BY <1>7 DEF OpenSucceed, ConnectSucceed, peerVars
    <2>2. /\ available' \in Seq(Contexts) /\ lost' \subseteq Contexts
          /\ apc' \in [Apps -> {"idle", "called", "opening", "connecting", "flag"}]
      <3>1. actx[a] \in Contexts /\ Append(available, actx[a]) \in Seq(Contexts)
        BY AppendProperties DEF Control, Queues
      <3>2. CASE "available" \in queues
        BY <2>1, <3>1, <3>2 DEF AppendAvailable, Control, Queues
      <3>3. CASE "available" \notin queues
        BY <2>1, <3>1, <3>3 DEF AppendAvailable, Control, Queues
      <3> QED
        BY <3>2, <3>3
    <2> QED
      BY <1>a, <2>1, <2>2 DEF Control, Queues
  <1>8. ASSUME NEW a \in Apps,
               AppFlag(a) \/ ((AppCheck(a) \/ OpenRefused(a)) /\ UNCHANGED peerVars)
        PROVE  Queues'
    <2>1. CASE AppFlag(a)
      BY <2>1 DEF AppFlag, Control, Queues, peerVars
    <2>2. CASE AppCheck(a) /\ UNCHANGED peerVars
      BY <1>a, <2>2 DEF AppCheck, Control, Queues, peerVars
    <2>3. CASE OpenRefused(a) /\ UNCHANGED peerVars
      BY <2>3 DEF OpenRefused, Control, Queues, peerVars
    <2> QED
      BY <1>8, <2>1, <2>2, <2>3
  <1>9. ASSUME NEW c \in Contexts, CloseRead(c), UNCHANGED peerVars
        PROVE  Queues'
    BY <1>9, <1>a DEF CloseRead, Control, Queues, peerVars
  <1>10. ASSUME NEW c \in Contexts, PeerEvent(c, "input") \/ PeerEvent(c, "hangup")
         PROVE  Queues'
    <2>1. PICK what \in {"input", "hangup"} : PeerEvent(c, what)
      BY <1>10
    <2> QED
      BY <1>a, <2>1 DEF PeerEvent, Control, Queues, contextVars
  <1>11. ASSUME UNCHANGED <<free, available, queues, lost, apc, actx, sock, known, pending, ops, closes, events>>
         PROVE  Queues'
    BY <1>11 DEF Control, Queues
  <1>12. ASSUME NEW r \in Readers, ReaderWait(r) \/ ReaderBusy(r) \/ ReaderWakeup(r) \/ ReaderRelock(r)
                  \/ ReaderWokenByShutdown(r) \/ AcquireNothing(r) \/ HandshakeMark(r) \/ ReaderNoLoad(r)
                  \/ CleanupKeep(r) \/ CleanupDone(r) \/ PollEvents(r) \/ PollTimeout(r) \/ EventNone(r)
                  \/ EventHangup(r) \/ EventFlag(r) \/ EventsDone(r) \/ ReaderExit(r)
         PROVE  UNCHANGED <<free, available, queues, lost, apc, actx, sock, known, pending, ops, closes, events>>
    BY <1>12 DEF ReaderWait, ReaderBusy, ReaderWakeup, ReaderRelock, ReaderWokenByShutdown,
      AcquireNothing, HandshakeMark, ReaderNoLoad, CleanupKeep, CleanupDone, PollEvents,
      PollTimeout, EventNone, EventHangup, EventFlag, EventsDone, ReaderExit, contextVars, peerVars
  <1>13. ASSUME \/ CloseStore /\ UNCHANGED peerVars
                \/ ShutdownFlag \/ ShutdownBroadcast \/ ShutdownJoin \/ PopWithoutQueue \/ UNCHANGED vars
         PROVE  UNCHANGED <<free, available, queues, lost, apc, actx, sock, known, pending, ops, closes, events>>
    BY <1>13 DEF CloseStore, ShutdownFlag, ShutdownBroadcast, ShutdownJoin, PopWithoutQueue, vars,
      contextVars, peerVars
  <1>14. ASSUME ShutdownContexts \/ ShutdownAvailable
         PROVE  Queues'
    <2>1. \A q \in Seq(Contexts) : Range(q) \subseteq Contexts
      BY Ranges DEF Elements
    <2>2. CASE ShutdownContexts
      BY <2>1, <2>2, EmptySeq DEF ShutdownContexts, DestroyFree, Control, Queues, peerVars
    <2>3. CASE ShutdownAvailable
      BY <2>1, <2>3, EmptySeq DEF ShutdownAvailable, DestroyAvailable, Control, Queues, peerVars
    <2> QED
      BY <1>14, <2>2, <2>3
  <1> QED
    BY <1>1, <1>2, <1>3, <1>4, <1>5, <1>6, <1>7, <1>8, <1>9, <1>10, <1>11, <1>12, <1>13, <1>14
    DEF Next, ReaderRun, ReaderLock, App, AppStep, Close

(* The read threads stay within their lists.                               *)
LEMMA ThreadsStep == Control /\ [Next]_vars => Threads'
  <1> SUFFICES ASSUME Control, [Next]_vars PROVE Threads'
    OBVIOUS
  <1>a. NULL \notin Readers /\ MaxAssigned \in Nat \ {0}
    BY ReaderAssumption
  <1>b. Threads /\ \A r \in Readers : Last(r) \in 0 .. MaxAssigned /\ (assigned[r] = <<>> <=> Last(r) = 0)
    BY Lasts DEF Control
  <1> USE <1>a, <1>b
  <1>1. ASSUME NEW r \in Readers, ReaderWait(r)
        PROVE  Threads'
    BY <1>1 DEF ReaderWait, Goto, Threads, Point, ReaderPoints, CleanupPoints, Last, mainVars
  <1>2. ASSUME NEW r \in Readers, ReaderBusy(r)
        PROVE  Threads'
    BY <1>2 DEF ReaderBusy, Goto, Threads, Point, ReaderPoints, CleanupPoints, Last, mainVars
  <1>3. ASSUME NEW r \in Readers, ReaderRelock(r)
        PROVE  Threads'
    BY <1>3 DEF ReaderRelock, Goto, Threads, Point, ReaderPoints, CleanupPoints, Last,
      mainVars
  <1>4. ASSUME NEW r \in Readers, EventFlag(r)
        PROVE  Threads'
    BY <1>4 DEF EventFlag, Threads, Point, ReaderPoints, CleanupPoints, Last, mainVars
  <1>5. ASSUME NEW r \in Readers, ReaderWakeup(r)
        PROVE  Threads'
    BY <1>5 DEF ReaderWakeup, Threads, Point, ReaderPoints, CleanupPoints, Last, mainVars
  <1>6. ASSUME NEW r \in Readers, ReaderWokenByShutdown(r)
        PROVE  Threads'
    BY <1>6 DEF ReaderWokenByShutdown, Goto, Threads, Point, ReaderPoints, CleanupPoints,
      Last, mainVars
  <1>7. ASSUME NEW r \in Readers, AcquireNothing(r)
        PROVE  Threads'
    <2>1. CASE rpc[r] = "woken"
      <3>1. /\ rpc' = [rpc EXCEPT ![r] = "asleep"] /\ waiting' = waiting \cup {r} /\ holder' = NULL
            /\ UNCHANGED <<assigned, index, flag, mpc>>
        BY <1>7, <2>1 DEF AcquireNothing, mainVars
      <3> QED
        BY <2>1, <3>1 DEF Threads, Point, ReaderPoints, CleanupPoints, Last
    <2>2. CASE rpc[r] = "load"
      <3>1. /\ rpc' = [rpc EXCEPT ![r] = "cleanup"] /\ index' = [index EXCEPT ![r] = Last(r)]
            /\ UNCHANGED <<assigned, waiting, holder, flag, mpc>>
        BY <1>7, <2>2 DEF AcquireNothing, StartCleanup, mainVars
      <3> QED
        BY <2>2, <3>1 DEF Threads, Point, ReaderPoints, CleanupPoints, Last
    <2> QED
      BY <1>7, <2>1, <2>2 DEF AcquireNothing
  <1>8. ASSUME NEW r \in Readers, AcquireQuiet(r)
        PROVE  Threads'
    <2>1. Head(available) \in Contexts
      BY <1>8, HeadTailProperties DEF AcquireQuiet, Control, Queues
    <2>2. Last(r) < MaxAssigned /\ rpc[r] \in {"woken", "load"}
      BY <1>8 DEF AcquireQuiet, CanAcquire, Threads, Point
    <2>3. /\ assigned' \in [Readers -> Seq(Contexts)] /\ Len(assigned'[r]) = Last(r) + 1
          /\ \A q \in Readers : q # r => assigned'[q] = assigned[q]
      BY <1>8, <2>1, AppendProperties DEF AcquireQuiet, Threads, Last
    <2>4. CASE holder = r
      BY <1>8, <2>2, <2>3, <2>4 DEF AcquireQuiet, AfterAcquire, Threads, Point, ReaderPoints,
        CleanupPoints, Last, mainVars
    <2>5. CASE holder # r
      BY <1>8, <2>2, <2>3, <2>5 DEF AcquireQuiet, AfterAcquire, Threads, Point, ReaderPoints,
        CleanupPoints, Last, mainVars
    <2> QED
      BY <2>4, <2>5
  <1>9. ASSUME NEW r \in Readers, AcquireHandshake(r)
        PROVE  Threads'
    <2>1. Head(available) \in Contexts
      BY <1>9, HeadTailProperties DEF AcquireHandshake, Control, Queues
    <2>2. Last(r) < MaxAssigned /\ rpc[r] \in {"woken", "load"}
      BY <1>9 DEF AcquireHandshake, CanAcquire, Threads, Point
    <2>3. /\ assigned' \in [Readers -> Seq(Contexts)] /\ Len(assigned'[r]) = Last(r) + 1
          /\ \A q \in Readers : q # r => assigned'[q] = assigned[q]
      BY <1>9, <2>1, AppendProperties DEF AcquireHandshake, Threads, Last
    <2> QED
      BY <1>9, <2>2, <2>3 DEF AcquireHandshake, Threads, Point, ReaderPoints, CleanupPoints, Last, mainVars
  <1>10. ASSUME NEW r \in Readers, HandshakeMark(r)
        PROVE  Threads'
    BY <1>10 DEF HandshakeMark, AfterAcquire, Threads, Point, ReaderPoints, CleanupPoints,
      Last, mainVars
  <1>11. ASSUME NEW r \in Readers, ReaderNoLoad(r)
        PROVE  Threads'
    BY <1>11 DEF ReaderNoLoad, StartCleanup, Threads, Point, ReaderPoints, CleanupPoints,
      Last, mainVars
  <1>12. ASSUME NEW r \in Readers, CleanupContext(r)
        PROVE  Threads'
    <2>1. index[r] \in 1 .. Last(r)
      BY <1>12, Indexed DEF CleanupContext, Threads, Point
    <2>2. /\ RemoveContext(assigned[r], index[r]) \in Seq(Contexts)
          /\ Len(RemoveContext(assigned[r], index[r])) = Last(r) - 1
      BY <2>1, Removed DEF Threads, Last
    <2>3. /\ assigned' \in [Readers -> Seq(Contexts)] /\ Len(assigned'[r]) = Last(r) - 1
          /\ \A q \in Readers : q # r => assigned'[q] = assigned[q]
      BY <1>12, <2>2 DEF CleanupContext, Threads
    <2>4. /\ index' \in [Readers -> 0 .. MaxAssigned + 1] /\ index'[r] <= Len(assigned'[r])
          /\ \A q \in Readers : q # r => index'[q] = index[q]
      BY <1>12, <2>1, <2>3 DEF CleanupContext, Threads
    <2>5. ASSUME NEW q \in Readers
          PROVE  (Point(q) /\ Last(q) <= MaxAssigned)'
      BY <1>12, <2>3, <2>4 DEF CleanupContext, Threads, Point, CleanupPoints, Last
    <2> QED
      BY <1>12, <2>3, <2>4, <2>5 DEF CleanupContext, Threads, mainVars
  <1>13. ASSUME NEW r \in Readers, CleanupKeep(r)
        PROVE  Threads'
    BY <1>13 DEF CleanupKeep, Threads, Point, ReaderPoints, CleanupPoints, Last, mainVars
  <1>14. ASSUME NEW r \in Readers, CleanupDone(r)
        PROVE  Threads'
    <2>1. PICK to \in {"poll", "await", "exit", "exited"} : rpc' = [rpc EXCEPT ![r] = to]
      BY <1>14 DEF CleanupDone, Goto
    <2>2. rpc[r] # "asleep"
      BY <1>14 DEF CleanupDone, Goto
    <2> QED
      BY <1>14, <2>1, <2>2 DEF CleanupDone, Threads, Point, ReaderPoints, CleanupPoints, Last, mainVars
  <1>15. ASSUME NEW r \in Readers, PollEvents(r)
        PROVE  Threads'
    BY <1>15 DEF PollEvents, Goto, Threads, Point, ReaderPoints, CleanupPoints, Last, mainVars
  <1>16. ASSUME NEW r \in Readers, PollTimeout(r)
        PROVE  Threads'
    BY <1>16 DEF PollTimeout, Goto, StartCleanup, Threads, Point, ReaderPoints,
      CleanupPoints, Last, mainVars
  <1>17. ASSUME NEW r \in Readers, EventNone(r)
        PROVE  Threads'
    BY <1>17 DEF EventNone, Event, Threads, Point, ReaderPoints, CleanupPoints, Last, mainVars
  <1>18. ASSUME NEW r \in Readers, EventHangup(r)
        PROVE  Threads'
    BY <1>18 DEF EventHangup, Event, Threads, Point, ReaderPoints, CleanupPoints, Last,
      mainVars
  <1>19. ASSUME NEW r \in Readers, EventAccept(r)
        PROVE  Threads'
    BY <1>19 DEF EventAccept, Event, Threads, Point, ReaderPoints, CleanupPoints, Last,
      mainVars
  <1>20. ASSUME NEW r \in Readers, EventAcceptFails(r)
        PROVE  Threads'
    BY <1>20 DEF EventAcceptFails, Event, Threads, Point, ReaderPoints, CleanupPoints, Last,
      mainVars
  <1>21. ASSUME NEW r \in Readers, EventInput(r)
        PROVE  Threads'
    BY <1>21 DEF EventInput, Event, Threads, Point, ReaderPoints, CleanupPoints, Last,
      mainVars
  <1>22. ASSUME NEW r \in Readers, EventsDone(r)
        PROVE  Threads'
    BY <1>22 DEF EventsDone, Goto, StartCleanup, Threads, Point, ReaderPoints, CleanupPoints,
      Last, mainVars
  <1>23. ASSUME NEW r \in Readers, ReaderExit(r)
        PROVE  Threads'
    BY <1>23 DEF ReaderExit, Goto, StartCleanup, Threads, Point, ReaderPoints, CleanupPoints,
      Last, mainVars
  <1>24. ASSUME NEW a \in Apps, AppFlag(a)
        PROVE  Threads'
    BY <1>24 DEF AppFlag, Threads, Point, ReaderPoints, CleanupPoints, Last, mainVars
  <1>25. ASSUME ShutdownFlag
        PROVE  Threads'
    BY <1>25 DEF ShutdownFlag, readerVars, Threads, Point, ReaderPoints, CleanupPoints, Last,
      mainVars
  <1>26. ASSUME ShutdownBroadcast
        PROVE  Threads'
    BY <1>26 DEF ShutdownBroadcast, Threads, Point, ReaderPoints, CleanupPoints, Last,
      mainVars
  <1>27. ASSUME ShutdownJoin
        PROVE  Threads'
    BY <1>27 DEF ShutdownJoin, readerVars, Threads, Point, ReaderPoints, CleanupPoints, Last,
      mainVars
  <1>30. ASSUME ShutdownContexts \/ ShutdownAvailable \/ PopWithoutQueue
        PROVE  Threads'
    BY <1>30 DEF ShutdownContexts, ShutdownAvailable, PopWithoutQueue, readerVars, Threads, Point,
      ReaderPoints, CleanupPoints, Last, mainVars
  <1>28. ASSUME UNCHANGED <<readerVars, mainVars>>
        PROVE  Threads'
    BY <1>28 DEF Threads, Point, Last, readerVars, mainVars
  <1>29. ASSUME \/ \E c \in Contexts : PeerEvent(c, "input") \/ PeerEvent(c, "hangup")
                \/ UNCHANGED vars
         PROVE  UNCHANGED <<readerVars, mainVars>>
    BY <1>29 DEF PeerEvent, vars
  <1> QED
    BY <1>1, <1>2, <1>3, <1>4, <1>5, <1>6, <1>7, <1>8, <1>9, <1>10, <1>11, <1>12, <1>13,
       <1>14, <1>15, <1>16, <1>17, <1>18, <1>19, <1>20, <1>21, <1>22, <1>23, <1>24, <1>25,
       <1>26, <1>27, <1>28, <1>29, <1>30
    DEF Next, ReaderRun, ReaderLock, App, Close

LEMMA ControlStep == Control /\ [Next]_vars => Control'
  BY ConfigsStep, QueuesStep, ThreadsStep DEF Control

-----------------------------------------------------------------------------
(* Each operation moves one context from one place to another.             *)

(* An application thread takes the oldest free context.                    *)
LEMMA BeginMove ==
    ASSUME Inv, ~Exhaustion, NEW a \in Apps, ~Works(a), NEW c \in Contexts, PopFree(c),
           actx' = [actx EXCEPT ![a] = c], apc'[a] \in {"opening", "connecting"},
           \A b \in Apps : b # a => apc'[b] = apc[b], UNCHANGED <<available, assigned, lost>>
    PROVE  /\ Partition'
           /\ c \in Elements(free) /\ Work' = Work \cup {c} /\ Read' = Read
  <1>1. free # <<>> /\ c = Head(free) /\ free' = Tail(free)
    BY DEF PopFree
  <1>2. free \in Seq(Contexts) /\ Distinct(free) /\ actx \in [Apps -> Contexts]
    BY DEF Inv, Control, Queues, Partition
  <1>3. c \in Elements(free) /\ Elements(free') = Elements(free) \ {c} /\ Distinct(free')
    BY <1>1, <1>2, QueueTail
  <1>4. /\ \A b \in Apps : b # a => actx'[b] = actx[b] /\ (Works(b)' <=> Works(b))
        /\ actx'[a] = c /\ Works(a)'
    BY <1>2 DEF Works
  <1>5. Work' = Work \cup {c}
    BY <1>4 DEF Work
  <1>6. Elements(available') = Elements(available) /\ Distinct(available')
    BY DEF Inv, Partition
  <1>7. Read' = Read /\ \A r \in Readers : Mine(r)' = Mine(r) /\ Distinct(assigned'[r])
    BY DEF Inv, Partition, Read, Mine
  <1>8. \A b, d \in Apps : Works(b)' /\ Works(d)' /\ actx'[b] = actx'[d] => b = d
    <2>1. c \notin Work
      BY <1>3 DEF Inv, Partition
    <2> QED
      BY <1>4, <2>1 DEF Inv, Partition, Work
  <1> QED
    BY <1>3, <1>5, <1>6, <1>7, <1>8 DEF Inv, Partition

(* It gives the context up, to the free ones or to the read threads.       *)
LEMMA EndMove ==
    ASSUME Inv, NEW a \in Apps, Works(a), apc'[a] \in {"idle", "flag"},
           \A b \in Apps : b # a => apc'[b] = apc[b] /\ actx'[b] = actx[b],
           UNCHANGED assigned,
           \/ free' = Append(free, actx[a]) /\ UNCHANGED <<available, lost>>
           \/ available' = Append(available, actx[a]) /\ UNCHANGED <<free, lost>>
           \/ lost' = lost \cup {actx[a]} /\ UNCHANGED <<free, available>>
    PROVE  /\ Partition'
           /\ actx[a] \in Work /\ Work' = Work \ {actx[a]} /\ Read' = Read
           /\ Elements(available') \subseteq Elements(available) \cup {actx[a]}
           /\ available' = Append(available, actx[a]) =>
                Elements(available') = Elements(available) \cup {actx[a]}
  <1> DEFINE c == actx[a]
  <1>1. c \in Work /\ c \in Contexts
    BY DEF Work, Inv, Control, Queues
  <1>2. c \notin Elements(free) \cup Elements(available) \cup Read \cup lost
    BY <1>1 DEF Inv, Partition
  <1>0. Elements(Append(available, c)) = Elements(available) \cup {c}
    BY <1>1, QueueAppend DEF Inv, Control, Queues
  <1>3. ~Works(a)' /\ \A b \in Apps : b # a => actx'[b] = actx[b] /\ (Works(b)' <=> Works(b))
    BY DEF Works
  <1>4. Work' = Work \ {c}
    BY <1>3 DEF Work, Inv, Partition
  <1>5. \A b, d \in Apps : Works(b)' /\ Works(d)' /\ actx'[b] = actx'[d] => b = d
    BY <1>3 DEF Inv, Partition
  <1>6. Read' = Read /\ \A r \in Readers : Mine(r)' = Mine(r) /\ Distinct(assigned'[r])
    BY DEF Inv, Partition, Read, Mine
  <1>7. free \in Seq(Contexts) /\ available \in Seq(Contexts) /\ Distinct(free) /\ Distinct(available)
    BY DEF Inv, Control, Queues, Partition
  <1> HIDE DEF c
  <1>8. CASE free' = Append(free, c) /\ UNCHANGED <<available, lost>>
    <2>1. Elements(free') = Elements(free) \cup {c} /\ Distinct(free')
      BY <1>1, <1>2, <1>7, <1>8, QueueAppend
    <2>2. Elements(available') = Elements(available) /\ Distinct(available')
      BY <1>7, <1>8
    <2> QED
      BY <1>0, <1>1, <1>2, <1>4, <1>5, <1>6, <1>8, <2>1, <2>2 DEF Inv, Partition, c
  <1>9. CASE available' = Append(available, c) /\ UNCHANGED <<free, lost>>
    <2>1. Elements(available') = Elements(available) \cup {c} /\ Distinct(available')
      BY <1>1, <1>2, <1>7, <1>9, QueueAppend
    <2>2. Elements(free') = Elements(free) /\ Distinct(free')
      BY <1>7, <1>9
    <2> QED
      BY <1>1, <1>2, <1>4, <1>5, <1>6, <1>9, <2>1, <2>2 DEF Inv, Partition, c
  <1>10. CASE lost' = lost \cup {c} /\ UNCHANGED <<free, available>>
    <2>1. /\ Elements(free') = Elements(free) /\ Distinct(free')
          /\ Elements(available') = Elements(available) /\ Distinct(available')
      BY <1>7, <1>10
    <2> QED
      BY <1>0, <1>1, <1>2, <1>4, <1>5, <1>6, <1>10, <2>1 DEF Inv, Partition, c
  <1> QED
    BY <1>8, <1>9, <1>10 DEF c

(* A read thread takes the oldest available context.                       *)
LEMMA AcquireMove ==
    ASSUME Inv, NEW r \in Readers, available # <<>>, available' = Tail(available),
           assigned' = [assigned EXCEPT ![r] = Append(@, Head(available))],
           UNCHANGED <<free, lost, apc, actx>>
    PROVE  /\ Partition'
           /\ Head(available) \in Elements(available)
           /\ Elements(available') = Elements(available) \ {Head(available)}
           /\ Work' = Work /\ Read' = Read \cup {Head(available)}
           /\ \A q \in Readers : q # r => Mine(q)' = Mine(q)
           /\ Mine(r)' = Mine(r) \cup {Head(available)}
  <1> DEFINE h == Head(available)
  <1>1. /\ available \in Seq(Contexts) /\ Distinct(available)
        /\ assigned \in [Readers -> Seq(Contexts)]
    BY DEF Inv, Control, Queues, Threads, Partition
  <1>2. /\ h \in Contexts /\ h \in Elements(available)
        /\ Elements(available') = Elements(available) \ {h} /\ Distinct(available')
    BY <1>1, QueueTail
  <1>3. h \notin Read /\ h \notin Mine(r)
    BY <1>2 DEF Inv, Partition, Read
  <1>4. assigned'[r] = Append(assigned[r], h) /\ \A q \in Readers : q # r => assigned'[q] = assigned[q]
    BY <1>1
  <1>5. Mine(r)' = Mine(r) \cup {h} /\ Distinct(assigned'[r])
    <2> HIDE DEF h
    <2>1. Elements(Append(assigned[r], h)) = Elements(assigned[r]) \cup {h} /\ Distinct(Append(assigned[r], h))
      BY <1>1, <1>2, <1>3, QueueAppend DEF Mine, Inv, Partition
    <2> QED
      BY <1>4, <2>1 DEF Mine
  <1>6. \A q \in Readers : q # r => Mine(q)' = Mine(q) /\ Distinct(assigned'[q])
    BY <1>4 DEF Mine, Inv, Partition
  <1>7. Read' = Read \cup {h}
    BY <1>5, <1>6 DEF Read
  <1>8. Work' = Work /\ (\A a \in Apps : Works(a)' <=> Works(a)) /\ Elements(free') = Elements(free) /\ Distinct(free')
    BY DEF Work, Works, Inv, Partition
  <1>9. \A p, q \in Readers : p # q => Mine(p)' \cap Mine(q)' = {}
    BY <1>3, <1>5, <1>6 DEF Inv, Partition, Read
  <1> HIDE DEF h
  <1>10. Partition'
    BY <1>2, <1>3, <1>5, <1>6, <1>7, <1>8, <1>9 DEF Inv, Partition
  <1> QED
    BY <1>2, <1>5, <1>6, <1>7, <1>8, <1>10 DEF h

(* A read thread returns one of its contexts.                              *)
LEMMA ReturnMove ==
    ASSUME Inv, NEW r \in Readers, NEW i \in 1 .. Last(r),
           assigned' = [assigned EXCEPT ![r] = RemoveContext(@, i)],
           PushFree(assigned[r][i]), UNCHANGED <<available, apc, actx>>
    PROVE  /\ Partition'
           /\ assigned[r][i] \in Read
           /\ assigned[r][i] \notin Elements(available) \cup Work
           /\ Work' = Work /\ Read' = Read \ {assigned[r][i]}
           /\ \A q \in Readers : q # r => Mine(q)' = Mine(q) /\ assigned[r][i] \notin Mine(q)
           /\ Mine(r)' = Mine(r) \ {assigned[r][i]}
  <1> DEFINE c == assigned[r][i]
  <1>1. /\ free \in Seq(Contexts) /\ Distinct(free)
        /\ assigned \in [Readers -> Seq(Contexts)] /\ Distinct(assigned[r])
    BY DEF Inv, Control, Queues, Threads, Partition
  <1>2. c \in Mine(r) /\ c \in Read /\ c \in Contexts
    BY <1>1, ElementOfSeq DEF Last, Mine, Elements, Read
  <1>3. /\ c \notin Elements(free) /\ c \notin Elements(available) \cup Work /\ c \notin lost
        /\ \A q \in Readers : q # r => c \notin Mine(q)
    BY <1>2 DEF Inv, Partition
  <1>4. /\ assigned'[r] = RemoveContext(assigned[r], i)
        /\ \A q \in Readers : q # r => assigned'[q] = assigned[q]
    BY <1>1
  <1>5. Mine(r)' = Mine(r) \ {c} /\ Distinct(assigned'[r])
    <2>1. Elements(RemoveContext(assigned[r], i)) = Elements(assigned[r]) \ {c}
          /\ Distinct(RemoveContext(assigned[r], i))
      BY <1>1, Removed DEF Last
    <2> QED
      BY <1>4, <2>1 DEF Mine
  <1>6. \A q \in Readers : q # r => Mine(q)' = Mine(q) /\ Distinct(assigned'[q])
    BY <1>4 DEF Mine, Inv, Partition
  <1>7. Read' = Read \ {c}
    BY <1>3, <1>5, <1>6 DEF Read
  <1>8. /\ Distinct(free')
        /\ \/ Elements(free') = Elements(free) \cup {c} /\ lost' = lost
           \/ Elements(free') = Elements(free) /\ lost' = lost \cup {c}
    <2> HIDE DEF c
    <2>1. Elements(Append(free, c)) = Elements(free) \cup {c} /\ Distinct(Append(free, c))
      BY <1>1, <1>2, <1>3, QueueAppend
    <2>2. PushFree(c)
      BY DEF c
    <2> QED
      BY <1>1, <2>1, <2>2, PushCases
  <1>9. /\ Work' = Work /\ \A a \in Apps : Works(a)' <=> Works(a)
        /\ Elements(available') = Elements(available) /\ Distinct(available')
    BY DEF Work, Works, Inv, Partition
  <1>10. \A p, q \in Readers : p # q => Mine(p)' \cap Mine(q)' = {}
    BY <1>5, <1>6 DEF Inv, Partition
  <1> HIDE DEF c
  <1>11. Partition'
    BY <1>2, <1>3, <1>5, <1>6, <1>7, <1>8, <1>9, <1>10 DEF Inv, Partition
  <1> QED
    BY <1>2, <1>3, <1>5, <1>6, <1>7, <1>9, <1>11 DEF c

(* A read thread that accepts a connection makes a free context available. *)
LEMMA AcceptMove ==
    ASSUME Inv, ~Exhaustion, NEW c \in Contexts, PopFree(c), available' = Append(available, c),
           UNCHANGED <<assigned, apc, actx, lost>>
    PROVE  /\ Partition'
           /\ c \in Elements(free) /\ Elements(available') = Elements(available) \cup {c}
           /\ Work' = Work /\ Read' = Read /\ \A r \in Readers : Mine(r)' = Mine(r)
  <1>1. free # <<>> /\ c = Head(free) /\ free' = Tail(free)
    BY DEF PopFree
  <1>2. /\ free \in Seq(Contexts) /\ Distinct(free)
        /\ available \in Seq(Contexts) /\ Distinct(available)
    BY DEF Inv, Control, Queues, Partition
  <1>3. c \in Elements(free) /\ Elements(free') = Elements(free) \ {c} /\ Distinct(free')
    BY <1>1, <1>2, QueueTail
  <1>4. c \notin Elements(available) \cup Work \cup Read
    BY <1>3 DEF Inv, Partition
  <1>5. Elements(available') = Elements(available) \cup {c} /\ Distinct(available')
    BY <1>2, <1>4, QueueAppend
  <1>6. /\ Work' = Work /\ Read' = Read /\ \A a \in Apps : Works(a)' <=> Works(a)
        /\ \A r \in Readers : Mine(r)' = Mine(r) /\ Distinct(assigned'[r])
    BY DEF Work, Works, Read, Mine, Inv, Partition
  <1> QED
    BY <1>3, <1>4, <1>5, <1>6 DEF Inv, Partition

(* The other operations leave every context where it is.                   *)
LEMMA KeepMove ==
    ASSUME Inv, UNCHANGED <<free, available, lost, assigned>>,
           \A a \in Apps : (Works(a)' <=> Works(a)) /\ (Works(a) => actx'[a] = actx[a])
    PROVE  /\ Partition' /\ Elements(available') = Elements(available)
           /\ Work' = Work /\ Read' = Read /\ \A r \in Readers : Mine(r)' = Mine(r)
  <1>1. Read' = Read /\ \A r \in Readers : Mine(r)' = Mine(r)
    BY DEF Read, Mine
  <1>2. Work' = Work
    BY DEF Work
  <1>3. \A a, b \in Apps : Works(a)' /\ Works(b)' /\ actx'[a] = actx'[b] => a = b
    BY DEF Inv, Partition
  <1> QED
    BY <1>1, <1>2, <1>3 DEF Inv, Partition

(* A queue is destroyed, and what is on it is lost.                        *)
LEMMA DestroyMove ==
    ASSUME Inv, UNCHANGED <<assigned, apc, actx>>,
           \/ free' = <<>> /\ lost' = lost \cup Elements(free) /\ UNCHANGED available
           \/ available' = <<>> /\ lost' = lost \cup Elements(available) /\ UNCHANGED free
    PROVE  /\ Partition' /\ Elements(available') \subseteq Elements(available)
           /\ Work' = Work /\ Read' = Read /\ \A r \in Readers : Mine(r)' = Mine(r)
  <1>1. Read' = Read /\ \A r \in Readers : Mine(r)' = Mine(r) /\ Distinct(assigned'[r])
    BY DEF Read, Mine, Inv, Partition
  <1>2. Work' = Work /\ \A a \in Apps : Works(a)' <=> Works(a)
    BY DEF Work, Works
  <1>3. Elements(<<>>) = {} /\ Distinct(<<>>)
    BY DEF Elements, Distinct
  <1>4. CASE free' = <<>> /\ lost' = lost \cup Elements(free) /\ UNCHANGED available
    BY <1>1, <1>2, <1>3, <1>4 DEF Inv, Partition
  <1>5. CASE available' = <<>> /\ lost' = lost \cup Elements(available) /\ UNCHANGED free
    BY <1>1, <1>2, <1>3, <1>5 DEF Inv, Partition
  <1> QED
    BY <1>4, <1>5

LEMMA Places ==
    ASSUME Inv
    PROVE  Elements(available) \cup Work \cup Read \subseteq Contexts
  <1>1. Elements(available) \subseteq Contexts
    BY ElementOfSeq DEF Inv, Control, Queues, Elements
  <1>2. Work \subseteq Contexts
    BY DEF Inv, Control, Queues, Work
  <1>3. ASSUME NEW r \in Readers
        PROVE  Mine(r) \subseteq Contexts
    BY ElementOfSeq DEF Inv, Control, Threads, Mine, Elements
  <1> QED
    BY <1>1, <1>2, <1>3 DEF Read

(* A step after which every reader is as it was, and the configurations of *)
(* its contexts are, leaves what is known of threads that exit.            *)
LEMMA LeavesSame ==
    ASSUME Inv, NEW q \in Readers, Leaves(q), UNCHANGED <<rpc[q], index[q], assigned[q]>>,
           \A c \in Mine(q) : conf[c].shutdown => conf'[c].shutdown
    PROVE  Leaves(q)'
  BY DEF Leaves, Mine, Last

(* A thread that does not come to these points is not concerned.           *)
LEMMA LeavesElse ==
    ASSUME NEW q \in Readers, rpc'[q] \notin {"excleanup", "exited"}
    PROVE  Leaves(q)'
  BY DEF Leaves

(* Application threads.                                                    *)
LEMMA AppInv ==
    ASSUME Inv, ~Exhaustion, NEW a \in Apps, App(a)
    PROVE  Partition' /\ States'
  <1>t. conf \in [Contexts -> Confs] /\ apc \in [Apps -> {"idle", "called", "opening", "connecting", "flag"}]
        /\ actx \in [Apps -> Contexts]
    BY DEF Inv, Control, Configs, Queues
  <1>i. /\ NotClosed /\ Sockets /\ \A r \in Readers : Leaves(r)
        /\ Elements(free) \cap (Elements(available) \cup Work \cup Read) = {}
        /\ Work \cap Read = {}
        /\ \A r \in Readers : Mine(r) \subseteq Read
    BY DEF Inv, States, Partition, Read
  <1>1. ASSUME OpenBegin(a) \/ ConnectBegin(a), UNCHANGED readerVars
        PROVE  Partition' /\ States'
    <2>1. PICK c \in Contexts : /\ PopFree(c) /\ conf' = [conf EXCEPT ![c] = Conf("open")]
                                /\ actx' = [actx EXCEPT ![a] = c]
      BY <1>1 DEF OpenBegin, ConnectBegin
    <2>2. /\ ~Works(a) /\ apc'[a] \in {"opening", "connecting"}
          /\ \A b \in Apps : b # a => apc'[b] = apc[b]
          /\ UNCHANGED <<available, assigned, sock, queues, lost>>
      BY <1>1, <1>t DEF OpenBegin, ConnectBegin, Works, readerVars
    <2>3. Partition' /\ c \in Elements(free) /\ Work' = Work \cup {c} /\ Read' = Read
      BY <2>1, <2>2, BeginMove
    <2>4. conf'[c].conn # "closed" /\ \A d \in Contexts : d # c => conf'[d] = conf[d]
      BY <1>t, <2>1, ConfTypes
    <2>5. Elements(available) \cup Work \cup Read \subseteq Contexts
      BY Places
    <2>6. NotClosed' /\ Sockets'
      BY <1>i, <2>2, <2>3, <2>4, <2>5 DEF NotClosed, Sockets
    <2>7. ASSUME NEW q \in Readers
          PROVE  Leaves(q)'
      BY <1>1, <1>i, <2>3, <2>4, <2>5, LeavesSame DEF readerVars
    <2> QED
      BY <2>3, <2>6, <2>7 DEF States
  <1>2. ASSUME OpenFail(a) \/ ConnectFail(a), UNCHANGED readerVars
        PROVE  Partition' /\ States'
    <2>1. /\ Works(a) /\ apc'[a] \in {"idle", "flag"}
          /\ \A b \in Apps : b # a => apc'[b] = apc[b] /\ actx'[b] = actx[b]
          /\ UNCHANGED <<available, assigned, sock, queues>>
          /\ \/ free' = Append(free, actx[a]) /\ UNCHANGED lost
             \/ lost' = lost \cup {actx[a]} /\ UNCHANGED free
      BY <1>2, <1>t DEF OpenFail, ConnectFail, PushFree, Works, readerVars
    <2>2. Partition' /\ actx[a] \in Work /\ Work' = Work \ {actx[a]} /\ Read' = Read
      BY <2>1, EndMove
    <2>3. \A d \in Contexts : d # actx[a] => conf'[d] = conf[d]
      BY <1>2, <1>t DEF OpenFail, ConnectFail
    <2>4. Elements(available) \cup Work \cup Read \subseteq Contexts /\ actx[a] \notin Elements(available)
      BY <2>2, Places DEF Inv, Partition
    <2>5. NotClosed' /\ Sockets'
      BY <1>i, <2>1, <2>2, <2>3, <2>4 DEF NotClosed, Sockets
    <2>6. ASSUME NEW q \in Readers
          PROVE  Leaves(q)'
      BY <1>2, <1>i, <2>2, <2>3, <2>4, LeavesSame DEF readerVars
    <2> QED
      BY <2>2, <2>5, <2>6 DEF States
  <1>3. ASSUME OpenSucceed(a) \/ ConnectSucceed(a), UNCHANGED readerVars
        PROVE  Partition' /\ States'
    <2>1. /\ Works(a) /\ apc'[a] \in {"idle", "flag"} /\ sock' = sock \cup {actx[a]}
          /\ \A b \in Apps : b # a => apc'[b] = apc[b] /\ actx'[b] = actx[b]
          /\ UNCHANGED <<free, assigned, queues>>
          /\ \/ available' = Append(available, actx[a]) /\ UNCHANGED lost
             \/ "available" \notin queues /\ lost' = lost \cup {actx[a]} /\ UNCHANGED available
      BY <1>3, <1>t DEF OpenSucceed, ConnectSucceed, AppendAvailable, Works, readerVars
    <2>2. /\ Partition' /\ actx[a] \in Work /\ Work' = Work \ {actx[a]} /\ Read' = Read
          /\ Elements(available') \subseteq Elements(available) \cup {actx[a]}
          /\ "available" \in queues => Elements(available') = Elements(available) \cup {actx[a]}
      BY <2>1, EndMove
    <2>3. /\ \A d \in Contexts : d # actx[a] => conf'[d] = conf[d]
          /\ conf[actx[a]].conn # "closed" => conf'[actx[a]].conn # "closed"
      <3>1. CASE OpenSucceed(a)
        BY <3>1 DEF OpenSucceed
      <3>2. CASE ConnectSucceed(a)
        <4>1. conf' = [conf EXCEPT ![actx[a]] = [conf[actx[a]] EXCEPT !.conn = "connected", !.shutdown = FALSE]]
          BY <1>t, <3>2 DEF ConnectSucceed
        <4>2. conf[actx[a]] \in Confs
          BY <1>t
        <4> QED
          BY <1>t, <4>1, <4>2, CloseConfs
      <3> QED
        BY <1>3, <3>1, <3>2
    <2>4. Elements(available) \cup Work \cup Read \subseteq Contexts
      BY Places
    <2>5. NotClosed' /\ Sockets'
      BY <1>i, <2>1, <2>2, <2>3, <2>4 DEF NotClosed, Sockets
    <2>6. ASSUME NEW q \in Readers
          PROVE  Leaves(q)'
      BY <1>3, <1>i, <2>2, <2>3, <2>4, LeavesSame DEF readerVars
    <2> QED
      BY <2>2, <2>5, <2>6 DEF States
  <1>4. ASSUME AppFlag(a) \/ ((AppCheck(a) \/ OpenRefused(a)) /\ UNCHANGED readerVars)
        PROVE  Partition' /\ States'
    <2>1. /\ UNCHANGED <<free, available, queues, lost, assigned, sock, conf, rpc, index, actx>>
          /\ \A b \in Apps : Works(b)' <=> Works(b)
      BY <1>4, <1>t DEF AppFlag, AppCheck, OpenRefused, Works, readerVars
    <2>2. /\ Partition' /\ Elements(available') = Elements(available)
          /\ Work' = Work /\ Read' = Read
      BY <2>1, KeepMove
    <2>3. ASSUME NEW q \in Readers
          PROVE  Leaves(q)'
      BY <1>i, <2>1, LeavesSame
    <2> QED
      BY <1>i, <2>1, <2>2, <2>3 DEF States, NotClosed, Sockets
  <1> QED
    BY <1>1, <1>2, <1>3, <1>4 DEF App, AppStep

(* Read threads.                                                           *)
LEMMA ReaderInv ==
    ASSUME Inv, ~Exhaustion, NEW r \in Readers, ReaderRun(r) \/ ReaderLock(r) \/ ReaderWakeup(r)
    PROVE  Partition' /\ States'
  <1>t. /\ conf \in [Contexts -> Confs] /\ saved \in [Readers -> Confs]
        /\ rpc \in [Readers -> ReaderPoints] /\ index \in [Readers -> 0 .. MaxAssigned + 1]
        /\ assigned \in [Readers -> Seq(Contexts)] /\ Threads
    BY DEF Inv, Control, Configs, Threads
  <1>i. /\ NotClosed /\ Sockets /\ \A q \in Readers : Leaves(q)
        /\ Elements(free) \cap (Elements(available) \cup Work \cup Read) = {}
        /\ Elements(available) \cap (Work \cup Read) = {} /\ Work \cap Read = {}
        /\ \A p, q \in Readers : p # q => Mine(p) \cap Mine(q) = {}
        /\ \A q \in Readers : Mine(q) \subseteq Read
    BY DEF Inv, States, Partition, Read
  <1>p. Elements(available) \cup Work \cup Read \subseteq Contexts
    BY Places
  <1>1. ASSUME AcquireQuiet(r) \/ AcquireHandshake(r)
        PROVE  Partition' /\ States'
    <2>1. /\ available # <<>> /\ available' = Tail(available)
          /\ assigned' = [assigned EXCEPT ![r] = Append(@, Head(available))]
          /\ UNCHANGED <<free, queues, lost, apc, actx, conf, sock>>
      BY <1>1 DEF AcquireQuiet, AcquireHandshake
    <2>2. /\ Partition' /\ Head(available) \in Elements(available)
          /\ Elements(available') = Elements(available) \ {Head(available)}
          /\ Work' = Work /\ Read' = Read \cup {Head(available)}
      BY <2>1, AcquireMove
    <2>3. NotClosed' /\ Sockets'
      BY <1>i, <2>1, <2>2 DEF NotClosed, Sockets
    <2>4. /\ rpc'[r] \in {"load", "cleanup", "mark"}
          /\ \A q \in Readers : q # r => UNCHANGED <<rpc[q], index[q], assigned[q]>>
      BY <1>1, <1>t DEF AcquireQuiet, AcquireHandshake, AfterAcquire
    <2>5. ASSUME NEW q \in Readers
          PROVE  Leaves(q)'
      BY <1>i, <2>1, <2>4, LeavesSame, LeavesElse
    <2> QED
      BY <2>2, <2>3, <2>5 DEF States
  <1>2. ASSUME HandshakeMark(r)
        PROVE  Partition' /\ States'
    <2> DEFINE c == assigned[r][Last(r)]
    <2>1. c \in Mine(r) /\ c \in Contexts
      <3>1. Last(r) \in 1 .. Len(assigned[r])
        BY <1>2, <1>t, Lasts DEF HandshakeMark, Threads, Point, Last
      <3>2. c \in Mine(r)
        BY <3>1 DEF Mine, Elements
      <3> QED
        BY <1>i, <1>p, <3>2
    <2>2. [saved[r] EXCEPT !.handshake = TRUE].conn # "closed"
      BY <1>2, <1>t, CloseConfs DEF HandshakeMark, Inv, Control, Configs
    <2>3. conf'[c].conn # "closed" /\ \A d \in Contexts : d # c => conf'[d] = conf[d]
      BY <1>2, <1>t, <2>1, <2>2 DEF HandshakeMark
    <2>4. UNCHANGED <<free, available, queues, lost, assigned, apc, actx, sock>>
      BY <1>2 DEF HandshakeMark
    <2>5. /\ Partition' /\ Elements(available') = Elements(available)
          /\ Work' = Work /\ Read' = Read
      BY <2>4, KeepMove DEF Works
    <2> HIDE DEF c
    <2>6. NotClosed' /\ Sockets'
      BY <1>i, <1>p, <2>3, <2>4, <2>5 DEF NotClosed, Sockets
    <2>7. /\ rpc'[r] \in {"load", "cleanup"}
          /\ \A q \in Readers : q # r => UNCHANGED <<rpc[q], index[q], assigned[q]>>
      BY <1>2, <1>t DEF HandshakeMark, AfterAcquire
    <2>8. ASSUME NEW q \in Readers, q # r
          PROVE  \A d \in Mine(q) : conf'[d] = conf[d]
      BY <1>i, <1>p, <2>1, <2>3, <2>8
    <2>9. ASSUME NEW q \in Readers
          PROVE  Leaves(q)'
      BY <1>i, <2>7, <2>8, LeavesSame, LeavesElse
    <2> QED
      BY <2>5, <2>6, <2>9 DEF States
  <1>3. ASSUME CleanupContext(r)
        PROVE  Partition' /\ States'
    <2> DEFINE c == assigned[r][index[r]]
    <2>1. index[r] \in 1 .. Last(r) /\ c \in Contexts
      BY <1>3, <1>t, Indexed DEF CleanupContext, Threads, Point
    <2>2. /\ assigned' = [assigned EXCEPT ![r] = RemoveContext(@, index[r])]
          /\ PushFree(c) /\ UNCHANGED <<available, queues, apc, actx, rpc>>
          /\ sock' = sock \ {c} /\ conf' = [conf EXCEPT ![c] = Cleared]
          /\ index' = [index EXCEPT ![r] = @ - 1]
      BY <1>3 DEF CleanupContext
    <2>3. /\ Partition' /\ c \in Read /\ c \notin Elements(available) \cup Work
          /\ Work' = Work /\ Read' = Read \ {c}
          /\ \A q \in Readers : q # r => c \notin Mine(q)
          /\ Mine(r)' = Mine(r) \ {c}
      BY <2>1, <2>2, ReturnMove
    <2>4. \A d \in Contexts : d # c => conf'[d] = conf[d]
      BY <1>t, <2>2
    <2>5. Len(assigned'[r]) = Last(r) - 1 /\ rpc'[r] # "exited"
      <3>1. Len(RemoveContext(assigned[r], index[r])) = Last(r) - 1
        BY <1>t, <2>1, Removed DEF Last
      <3>2. rpc[r] # "exited" /\ rpc'[r] = rpc[r]
        BY <1>3, <2>2 DEF CleanupContext, CleanupPoints
      <3> QED
        BY <1>t, <2>2, <3>1, <3>2
    <2>6. index'[r] = index[r] - 1 /\ \A q \in Readers : q # r => UNCHANGED <<rpc[q], index[q], assigned[q]>>
      BY <1>t, <2>2
    <2>7. rpc'[r] = rpc[r] /\ UNCHANGED <<available, queues>>
      BY <2>2
    <2>8. sock' = sock \ {c}
      BY <2>2
    <2> HIDE DEF c
    <2>9. NotClosed' /\ Sockets'
      BY <1>i, <1>p, <2>3, <2>4, <2>7, <2>8 DEF NotClosed, Sockets
    <2>10. Leaves(r)'
      <3>1. Leaves(r) /\ \A d \in Mine(r)' : d \in Mine(r) /\ conf'[d] = conf[d]
        BY <1>i, <1>p, <2>3, <2>4
      <3>2. Last(r)' = Last(r) - 1
        BY <2>5 DEF Last
      <3> QED
        BY <2>5, <2>6, <2>7, <3>1, <3>2 DEF Leaves
    <2>11. ASSUME NEW q \in Readers, q # r
           PROVE  Leaves(q)'
      <3>1. \A d \in Mine(q) : conf'[d] = conf[d]
        BY <1>i, <1>p, <2>3, <2>4, <2>11
      <3> QED
        BY <1>i, <2>6, <2>11, <3>1, LeavesSame
    <2> QED
      BY <2>3, <2>9, <2>10, <2>11 DEF States
  <1>4. ASSUME EventAccept(r)
        PROVE  Partition' /\ States'
    <2>1. PICK c \in Contexts :
            /\ PopFree(c) /\ conf' = [conf EXCEPT ![c] = Conf("connected")]
            /\ sock' = sock \cup {c} /\ available' = Append(available, c)
      BY <1>4 DEF EventAccept
    <2>2. UNCHANGED <<assigned, apc, actx, index, queues, lost>>
      BY <1>4 DEF EventAccept
    <2>3. /\ Partition' /\ c \in Elements(free)
          /\ Elements(available') = Elements(available) \cup {c}
          /\ Work' = Work /\ Read' = Read
      BY <2>1, <2>2, AcceptMove
    <2>4. conf'[c].conn # "closed" /\ \A d \in Contexts : d # c => conf'[d] = conf[d]
      BY <1>t, <2>1, ConfTypes
    <2>5. NotClosed' /\ Sockets'
      BY <1>i, <1>p, <2>1, <2>2, <2>3, <2>4 DEF NotClosed, Sockets
    <2>6. rpc'[r] = "flag" /\ \A q \in Readers : q # r => rpc'[q] = rpc[q]
      BY <1>4, <1>t DEF EventAccept
    <2>7. ASSUME NEW q \in Readers
          PROVE  \A d \in Mine(q) : conf'[d] = conf[d]
      BY <1>i, <1>p, <2>3, <2>4
    <2>8. ASSUME NEW q \in Readers
          PROVE  Leaves(q)'
      BY <1>i, <2>2, <2>6, <2>7, LeavesSame, LeavesElse
    <2> QED
      BY <2>3, <2>5, <2>8 DEF States
  <1>5. ASSUME EventHangup(r)
        PROVE  Partition' /\ States'
    <2> DEFINE c == assigned[r][index[r]]
    <2>1. c \in Contexts
      BY <1>5, <1>t, Indexed DEF EventHangup, Event, Threads, Point
    <2>2. conf'[c] = CloseConf(conf[c]) /\ \A d \in Contexts : d # c => conf'[d] = conf[d]
      BY <1>5, <1>t, <2>1 DEF EventHangup
    <2>3. /\ UNCHANGED <<free, available, queues, lost, assigned, apc, actx, sock, rpc>>
          /\ rpc[r] = "events" /\ \A q \in Readers : q # r => index'[q] = index[q]
      BY <1>5, <1>t DEF EventHangup, Event
    <2>4. /\ Partition' /\ Elements(available') = Elements(available)
          /\ Work' = Work /\ Read' = Read
      BY <2>3, KeepMove DEF Works
    <2> HIDE DEF c
    <2>5. \A d \in Contexts : conf'[d].conn = conf[d].conn /\
                                (conf[d].conn # "closed" /\ conf[d].shutdown => conf'[d].shutdown)
      <3>1. conf[c] \in Confs
        BY <1>t, <2>1
      <3>2. conf'[c].conn = conf[c].conn /\ (conf[c].conn # "closed" => conf'[c].shutdown)
        BY <2>2, <3>1, CloseConfs
      <3> QED
        BY <2>2, <3>2
    <2>6. NotClosed' /\ Sockets'
      BY <1>i, <1>p, <2>3, <2>4, <2>5 DEF NotClosed, Sockets
    <2>7. ASSUME NEW q \in Readers
          PROVE  \A d \in Mine(q) : conf[d].shutdown => conf'[d].shutdown
      BY <1>i, <1>p, <2>5 DEF NotClosed
    <2>8. ASSUME NEW q \in Readers
          PROVE  Leaves(q)'
      BY <1>i, <2>3, <2>7, LeavesSame, LeavesElse
    <2> QED
      BY <2>4, <2>6, <2>8 DEF States
  <1>6. ASSUME ReaderExit(r)
        PROVE  Partition' /\ States'
    <2>1. \A d \in Contexts : conf'[d] = IF d \in Mine(r) THEN CloseConf(conf[d]) ELSE conf[d]
      BY <1>6 DEF ReaderExit, Mine, Elements, Last
    <2>2. /\ UNCHANGED <<free, available, queues, lost, assigned, apc, actx, sock>>
          /\ rpc'[r] = "excleanup" /\ index'[r] = Last(r)
          /\ \A q \in Readers : q # r => UNCHANGED <<rpc[q], index[q], assigned[q]>>
      BY <1>6, <1>t DEF ReaderExit, Goto, StartCleanup
    <2>3. /\ Partition' /\ Elements(available') = Elements(available)
          /\ Work' = Work /\ Read' = Read /\ Mine(r)' = Mine(r)
      BY <2>2, KeepMove DEF Works
    <2>4. \A d \in Contexts : conf'[d].conn = conf[d].conn /\
                  (conf[d].conn # "closed" /\ (d \in Mine(r) \/ conf[d].shutdown) => conf'[d].shutdown)
      BY <1>t, <2>1, CloseConfs
    <2>5. NotClosed' /\ Sockets'
      BY <1>i, <1>p, <2>2, <2>3, <2>4 DEF NotClosed, Sockets
    <2>6. Leaves(r)'
      <3>1. \A d \in Mine(r)' : conf'[d].shutdown
        BY <1>i, <1>p, <2>3, <2>4 DEF NotClosed
      <3> QED
        BY <2>2, <3>1 DEF Leaves, Last
    <2>7. ASSUME NEW q \in Readers, q # r
          PROVE  Leaves(q)'
      <3>1. \A d \in Mine(q) : conf[d].shutdown => conf'[d].shutdown
        BY <1>i, <1>p, <2>4 DEF NotClosed
      <3> QED
        BY <1>i, <2>2, <2>7, <3>1, LeavesSame
    <2> QED
      BY <2>3, <2>5, <2>6, <2>7 DEF States
  <1>7. ASSUME UNCHANGED <<free, available, queues, lost, assigned, apc, actx, sock, conf>>,
               \A q \in Readers : q # r => UNCHANGED <<rpc[q], index[q]>>, Leaves(r)'
        PROVE  Partition' /\ States'
    <2>1. /\ Partition' /\ Elements(available') = Elements(available)
          /\ Work' = Work /\ Read' = Read
      BY <1>7, KeepMove DEF Works
    <2>2. ASSUME NEW q \in Readers
          PROVE  Leaves(q)'
      BY <1>i, <1>7, LeavesSame
    <2> QED
      BY <1>i, <1>7, <2>1, <2>2 DEF States, NotClosed, Sockets
  <1>8. ASSUME CleanupKeep(r)
        PROVE  Partition' /\ States'
    <2>1. assigned[r][index[r]] \in Mine(r)
      BY <1>8, <1>t, Indexed DEF CleanupKeep, Threads, Point
    <2>2. rpc'[r] \notin {"excleanup", "exited"}
      BY <1>8, <1>i, <2>1 DEF CleanupKeep, Leaves, CleanupPoints
    <2>3. /\ UNCHANGED <<free, available, queues, lost, assigned, apc, actx, sock, conf, rpc>>
          /\ \A q \in Readers : q # r => index'[q] = index[q]
      BY <1>8, <1>t DEF CleanupKeep, contextVars
    <2> QED
      BY <1>7, <2>2, <2>3, LeavesElse
  <1>9. ASSUME CleanupDone(r)
        PROVE  Partition' /\ States'
    <2>1. /\ UNCHANGED <<free, available, queues, lost, assigned, apc, actx, sock, conf, index>>
          /\ \A q \in Readers : q # r => rpc'[q] = rpc[q]
      BY <1>9, <1>t DEF CleanupDone, Goto, contextVars
    <2>2. \/ rpc'[r] \in {"poll", "await", "exit"}
          \/ rpc[r] = "excleanup" /\ rpc'[r] = "exited" /\ index[r] = 0
      BY <1>9, <1>t DEF CleanupDone, Goto
    <2>3. rpc[r] = "excleanup" /\ index[r] = 0 => assigned[r] = <<>>
      BY <1>i, <1>t, Lasts DEF Leaves
    <2>4. Leaves(r)'
      BY <2>1, <2>2, <2>3 DEF Leaves
    <2> QED
      BY <1>7, <2>1, <2>4
  <1>10. ASSUME \/ ReaderWait(r) \/ ReaderBusy(r) \/ ReaderRelock(r) \/ EventFlag(r)
                \/ ReaderWokenByShutdown(r) \/ AcquireNothing(r) \/ ReaderNoLoad(r)
                \/ PollEvents(r) \/ PollTimeout(r) \/ EventNone(r) \/ EventAcceptFails(r)
                \/ EventInput(r) \/ EventsDone(r)
         PROVE  /\ UNCHANGED <<free, available, queues, lost, assigned, apc, actx, sock, conf>>
                /\ \A q \in Readers : q # r => UNCHANGED <<rpc[q], index[q]>>
                /\ rpc'[r] \notin {"excleanup", "exited"}
    BY <1>10, <1>t DEF ReaderWait, ReaderBusy, ReaderRelock, EventFlag, ReaderWokenByShutdown,
      AcquireNothing, ReaderNoLoad, PollEvents, PollTimeout, EventNone, EventAcceptFails,
      EventInput, EventsDone, Event, Goto, StartCleanup, contextVars
  <1>11. ASSUME ReaderWakeup(r)
         PROVE  Partition' /\ States'
    <2>1. UNCHANGED <<free, available, queues, lost, assigned, apc, actx, sock, conf, rpc, index>>
      BY <1>11 DEF ReaderWakeup, contextVars
    <2>2. Leaves(r)'
      BY <1>i, <2>1, LeavesSame
    <2> QED
      BY <1>7, <2>1, <2>2
  <1>12. ASSUME \/ ReaderWait(r) \/ ReaderBusy(r) \/ ReaderRelock(r) \/ EventFlag(r)
                \/ ReaderWokenByShutdown(r) \/ AcquireNothing(r) \/ ReaderNoLoad(r)
                \/ PollEvents(r) \/ PollTimeout(r) \/ EventNone(r) \/ EventAcceptFails(r)
                \/ EventInput(r) \/ EventsDone(r)
         PROVE  Partition' /\ States'
    BY <1>7, <1>10, <1>12, LeavesElse
  <1> QED
    BY <1>1, <1>2, <1>3, <1>4, <1>5, <1>6, <1>8, <1>9, <1>11, <1>12 DEF ReaderRun, ReaderLock

(* Closes, peers and the thread that shuts the read threads down.          *)
LEMMA OtherInv ==
    ASSUME Inv,
           \/ Close \/ ShutdownFlag \/ ShutdownBroadcast \/ ShutdownJoin \/ PopWithoutQueue
           \/ UNCHANGED vars
           \/ \E c \in Contexts : PeerEvent(c, "input") \/ PeerEvent(c, "hangup")
    PROVE  Partition' /\ States'
  <1>i. /\ NotClosed /\ Sockets /\ \A q \in Readers : Leaves(q)
        /\ \A q \in Readers : Mine(q) \subseteq Read
        /\ conf \in [Contexts -> Confs]
    BY DEF Inv, States, Read, Control, Configs
  <1>p. Elements(available) \cup Work \cup Read \subseteq Contexts
    BY Places
  <1>1. UNCHANGED <<free, available, queues, lost, assigned, apc, actx, sock, rpc, index>>
    BY DEF Close, CloseStore, CloseRead, ShutdownFlag, ShutdownBroadcast, ShutdownJoin, PopWithoutQueue,
      PeerEvent, vars, contextVars, readerVars
  <1>2. \A c \in Contexts : \/ conf'[c] = conf[c]
                            \/ conf'[c].conn # "closed" /\ conf'[c].shutdown
    <2>1. CASE CloseStore
      <3>1. closing # NULL /\ conf' = [conf EXCEPT ![closing.ctx] = closing.conf]
        BY <2>1 DEF CloseStore
      <3>2. closing.conf.shutdown /\ closing.conf.conn # "closed"
        BY <3>1 DEF Inv, Control, Configs
      <3> QED
        BY <1>i, <3>1, <3>2
    <2>2. CASE ~CloseStore
      <3>1. conf' = conf
        BY <2>2 DEF Close, CloseRead, ShutdownFlag, ShutdownBroadcast, ShutdownJoin, PopWithoutQueue,
          PeerEvent, vars, contextVars
      <3> QED
        BY <3>1
    <2> QED
      BY <2>1, <2>2
  <1>3. Partition' /\ Elements(available') = Elements(available) /\ Work' = Work /\ Read' = Read
    BY <1>1, KeepMove DEF Works
  <1>4. NotClosed' /\ Sockets'
    BY <1>i, <1>p, <1>1, <1>2, <1>3 DEF NotClosed, Sockets
  <1>5. ASSUME NEW q \in Readers
        PROVE  Leaves(q)'
    BY <1>i, <1>p, <1>1, <1>2, LeavesSame
  <1> QED
    BY <1>3, <1>4, <1>5 DEF States

LEMMA DestroyInv ==
    ASSUME Inv, ShutdownContexts \/ ShutdownAvailable
    PROVE  Partition' /\ States'
  <1>i. NotClosed /\ Sockets /\ \A q \in Readers : Leaves(q)
    BY DEF Inv, States
  <1>0. free \in Seq(Contexts) /\ available \in Seq(Contexts)
    BY DEF Inv, Control, Queues
  <1>1. UNCHANGED <<assigned, apc, actx, sock, rpc, index, conf>>
    BY DEF ShutdownContexts, ShutdownAvailable, DestroyFree, DestroyAvailable, readerVars
  <1>2. \/ /\ free' = <<>> /\ lost' = lost \cup Elements(free) /\ UNCHANGED available
           /\ queues' = queues \ {"free"}
        \/ /\ available' = <<>> /\ lost' = lost \cup Elements(available) /\ UNCHANGED free
           /\ "available" \notin queues'
    BY <1>0, Ranges DEF ShutdownContexts, ShutdownAvailable, DestroyFree, DestroyAvailable
  <1>3. /\ Partition' /\ Elements(available') \subseteq Elements(available)
        /\ Work' = Work /\ Read' = Read
    BY <1>1, <1>2, DestroyMove
  <1>4. NotClosed' /\ Sockets'
    BY <1>i, <1>1, <1>2, <1>3 DEF NotClosed, Sockets
  <1>5. ASSUME NEW q \in Readers
        PROVE  Leaves(q)'
    BY <1>i, <1>1, LeavesSame
  <1> QED
    BY <1>3, <1>4, <1>5 DEF States

(* The queues are destroyed in this order, and a read thread that has left *)
(* does nothing any more.                                                  *)
LEMMA HomesStep ==
    ASSUME Inv, [Next]_vars
    PROVE  Homes'
  <1>h. Homes /\ Control
    BY DEF Inv
  <1>t. rpc \in [Readers -> ReaderPoints] /\ waiting \subseteq {r \in Readers : rpc[r] = "asleep"}
    BY DEF Inv, Control, Threads
  <1>1. ASSUME UNCHANGED <<queues, mpc>>, "free" \in queues => lost' = lost,
               mpc = "joined" => \A r \in Readers : rpc[r] = "exited" => rpc'[r] = "exited"
        PROVE  Homes'
    BY <1>1, <1>h DEF Homes
  <1>2. ASSUME NEW r \in Readers, CleanupContext(r)
        PROVE  Homes'
    <2>1. UNCHANGED <<queues, mpc, rpc>> /\ ("free" \in queues => lost' = lost)
      BY <1>2 DEF CleanupContext, PushFree, mainVars
    <2> QED
      BY <1>1, <2>1
  <1>3. ASSUME NEW r \in Readers, ReaderWait(r) \/ ReaderBusy(r) \/ ReaderRelock(r) \/ EventFlag(r)
                 \/ ReaderWokenByShutdown(r) \/ ReaderNoLoad(r) \/ CleanupKeep(r) \/ CleanupDone(r)
                 \/ PollEvents(r) \/ PollTimeout(r) \/ EventNone(r) \/ EventAcceptFails(r) \/ EventInput(r)
                 \/ EventsDone(r) \/ ReaderWakeup(r)
        PROVE  Homes'
    <2>1. UNCHANGED <<queues, mpc, lost>>
      BY <1>3 DEF ReaderWait, ReaderBusy, ReaderRelock, EventFlag, ReaderWokenByShutdown,
        ReaderNoLoad, CleanupKeep, CleanupDone, PollEvents, PollTimeout, EventNone, EventAcceptFails,
        EventInput, EventsDone, ReaderWakeup, contextVars, mainVars
    <2>2. \A q \in Readers : rpc[q] = "exited" => rpc'[q] = "exited"
      BY <1>3, <1>t DEF ReaderWait, ReaderBusy, ReaderRelock, EventFlag, ReaderWokenByShutdown,
        ReaderNoLoad, CleanupKeep, CleanupDone, PollEvents, PollTimeout, EventNone, EventAcceptFails,
        EventInput, EventsDone, ReaderWakeup, Event, Goto, CleanupPoints
    <2> QED
      BY <1>1, <2>1, <2>2
  <1>4. ASSUME NEW r \in Readers, AcquireNothing(r) \/ AcquireQuiet(r) \/ AcquireHandshake(r)
                 \/ HandshakeMark(r) \/ EventHangup(r) \/ EventAccept(r) \/ ReaderExit(r)
        PROVE  Homes'
    <2>1. UNCHANGED <<queues, mpc, lost>>
      BY <1>4 DEF AcquireNothing, AcquireQuiet, AcquireHandshake, HandshakeMark, EventHangup, EventAccept,
        ReaderExit, contextVars, mainVars
    <2>2. \A q \in Readers : rpc[q] = "exited" => rpc'[q] = "exited"
      BY <1>4, <1>t DEF AcquireNothing, AcquireQuiet, AcquireHandshake, HandshakeMark, EventHangup,
        EventAccept, ReaderExit, CanAcquire, AfterAcquire, Event, Goto
    <2> QED
      BY <1>1, <2>1, <2>2
  <1>5. ASSUME NEW a \in Apps, App(a)
        PROVE  Homes'
    <2>1. UNCHANGED <<queues, mpc, rpc>>
      BY <1>5 DEF App, AppStep, AppCheck, OpenRefused, OpenBegin, OpenFail, OpenSucceed, ConnectBegin,
        ConnectFail, ConnectSucceed, AppFlag, readerVars, mainVars
    <2>2. lost' = lost \/ "free" \notin queues \/ "available" \notin queues
      BY <1>5 DEF App, AppStep, AppCheck, OpenRefused, OpenBegin, OpenFail, OpenSucceed, ConnectBegin,
        ConnectFail, ConnectSucceed, AppFlag, PushFree, AppendAvailable
    <2>3. "free" \in queues => "available" \in queues
      BY <1>h DEF Homes
    <2> QED
      BY <1>1, <2>1, <2>2, <2>3
  <1>6. ASSUME Close \/ UNCHANGED vars \/ \E c \in Contexts : PeerEvent(c, "input") \/ PeerEvent(c, "hangup")
        PROVE  Homes'
    <2>1. UNCHANGED <<queues, mpc, lost, rpc>>
      BY <1>6 DEF Close, CloseStore, CloseRead, PeerEvent, vars, contextVars, readerVars, mainVars
    <2> QED
      BY <1>1, <2>1
  <1>7. ASSUME \/ PopWithoutQueue \/ ShutdownContexts \/ ShutdownFlag \/ ShutdownBroadcast
               \/ ShutdownJoin \/ ShutdownAvailable
        PROVE  Homes'
    BY <1>7, <1>h DEF PopWithoutQueue, ShutdownContexts, ShutdownFlag, ShutdownBroadcast, ShutdownJoin,
      ShutdownAvailable, DestroyFree, DestroyAvailable, Homes, contextVars, readerVars
  <1> QED
    BY <1>2, <1>3, <1>4, <1>5, <1>6, <1>7 DEF Next, ReaderRun, ReaderLock

LEMMA InvStep ==
    ASSUME ~Exhaustion, Inv, [Next]_vars
    PROVE  Inv'
  <1>1. Control'
    BY ControlStep DEF Inv
  <1>2. Partition' /\ States'
    BY AppInv, ReaderInv, OtherInv, DestroyInv DEF Next
  <1>3. Homes'
    BY HomesStep
  <1> QED
    BY <1>1, <1>2, <1>3 DEF Inv

-----------------------------------------------------------------------------
(* The initial states.                                                     *)
LEMMA InitControl == Init => Control
  <1> SUFFICES ASSUME Init PROVE Control
    OBVIOUS
  <1>1. Configs
    BY ConfTypes DEF Init, ContextInit, Configs
  <1>2. Queues
    <2>1. 0 \in Contexts /\ MaxEvents \in Nat /\ MaxOps \in Nat /\ MaxCloses \in Nat /\ ContextCount \in Nat
      BY ContextAssumption, ReaderAssumption DEF Contexts
    <2>2. free \in Seq(Contexts)
      <3>1. \A i \in 1 .. ContextCount : i - 1 \in Contexts
        BY <2>1 DEF Contexts
      <3> QED
        BY <2>1, <3>1, SeqDef DEF Init, ContextInit
    <2>3. available \in Seq(Contexts)
      BY EmptySeq DEF Init, ContextInit
    <2> QED
      BY <2>1, <2>2, <2>3 DEF Init, ContextInit, Queues
  <1>3. Threads
    <2>1. assigned \in [Readers -> Seq(Contexts)] /\ \A r \in Readers : Last(r) = 0
      BY EmptySeq DEF Init, Last
    <2> QED
      BY <2>1, ReaderAssumption DEF Init, Threads, Point, ReaderPoints, CleanupPoints
  <1> QED
    BY <1>1, <1>2, <1>3 DEF Control

LEMMA InitInv == Init => Inv
  <1> SUFFICES ASSUME Init PROVE Inv
    OBVIOUS
  <1>1. ContextCount \in Nat /\ Len(free) = ContextCount /\ \A i \in 1 .. ContextCount : free[i] = i - 1
    BY ContextAssumption DEF Init, ContextInit
  <1>2. Distinct(free)
    BY <1>1 DEF Distinct
  <1>3. Contexts \subseteq Elements(free)
    <2>1. ASSUME NEW c \in Contexts
          PROVE  c + 1 \in 1 .. ContextCount /\ free[c + 1] = c
      BY <1>1 DEF Contexts
    <2> QED
      BY <1>1, <2>1 DEF Elements
  <1>4. Elements(<<>>) = {} /\ Distinct(<<>>)
    BY DEF Elements, Distinct
  <1>5. Elements(available) = {} /\ Distinct(available)
    BY <1>4 DEF Init, ContextInit
  <1>6. Read = {} /\ \A r \in Readers : Distinct(assigned[r]) /\ Mine(r) = {}
    BY <1>4 DEF Init, Read, Mine
  <1>7. Work = {} /\ \A a \in Apps : ~Works(a)
    BY DEF Init, ContextInit, Work, Works
  <1>8. Partition
    BY <1>2, <1>3, <1>5, <1>6, <1>7 DEF Init, ContextInit, Partition
  <1>9. States
    BY <1>5, <1>6, <1>7 DEF Init, ContextInit, States, NotClosed, Sockets, Leaves
  <1>10. Homes
    BY DEF Init, ContextInit, Homes
  <1> QED
    BY <1>8, <1>9, <1>10, InitControl DEF Inv

(* The types of the state, whether or not contexts run out.                *)
LEMMA ControlType == Control => TypeOK
  BY ReaderAssumption DEF Control, Configs, Queues, Threads, TypeOK

THEOREM ReadThreadsType == Spec => []TypeOK
  BY InitControl, ControlStep, ControlType, PTL DEF Spec

THEOREM ReadThreadsInv ==
    ASSUME ~Exhaustion
    PROVE  Spec => []Inv
  BY InitInv, InvStep, PTL DEF Spec

-----------------------------------------------------------------------------
(* How often a context is at each place.                                   *)
LEMMA Occurs ==
    ASSUME NEW q \in Seq(Contexts), Distinct(q), NEW c \in Contexts
    PROVE  Occurrences(q, c) = IF c \in Elements(q) THEN 1 ELSE 0
  <1> DEFINE S == {i \in 1 .. Len(q) : q[i] = c}
  <1>1. CASE c \in Elements(q)
    <2>1. PICK i \in 1 .. Len(q) : q[i] = c
      BY <1>1 DEF Elements
    <2>2. S = {i}
      BY <2>1 DEF Distinct
    <2>3. Cardinality(S) = 1
      BY <2>2, FS_Singleton
    <2> QED
      BY <1>1, <2>3 DEF Occurrences
  <1>2. CASE c \notin Elements(q)
    <2>1. S = {}
      BY <1>2 DEF Elements
    <2>2. Cardinality(S) = 0
      BY <2>1, FS_EmptySet
    <2> QED
      BY <1>2, <2>2 DEF Occurrences
  <1> QED
    BY <1>1, <1>2

LEMMA WorksOnce ==
    ASSUME Inv, NEW c \in Contexts
    PROVE  Cardinality(Working(c)) = IF c \in Work THEN 1 ELSE 0
  <1>0. Working(c) = {a \in Apps : Works(a) /\ actx[a] = c}
    BY DEF Working, Works
  <1>1. CASE c \in Work
    <2>1. PICK a \in Apps : Works(a) /\ actx[a] = c
      BY <1>1 DEF Work
    <2>2. Working(c) = {a}
      BY <1>0, <2>1 DEF Inv, Partition
    <2> QED
      BY <1>1, <2>2, FS_Singleton
  <1>2. CASE c \notin Work
    <2>1. Working(c) = {}
      BY <1>0, <1>2 DEF Work
    <2> QED
      BY <1>2, <2>1, FS_EmptySet
  <1> QED
    BY <1>1, <1>2

LEMMA ReadOnce ==
    ASSUME Inv, NEW c \in Contexts
    PROVE  Cardinality({p \in Readers \X (1 .. MaxAssigned) :
                          p[2] <= Last(p[1]) /\ assigned[p[1]][p[2]] = c})
             = IF c \in Read THEN 1 ELSE 0
  <1> DEFINE P == {p \in Readers \X (1 .. MaxAssigned) :
                     p[2] <= Last(p[1]) /\ assigned[p[1]][p[2]] = c}
  <1>0. ASSUME NEW r \in Readers
        PROVE  Last(r) \in 0 .. MaxAssigned /\ MaxAssigned \in Nat
    BY Lasts, ReaderAssumption DEF Inv, Control
  <1>m. ASSUME NEW p \in P
        PROVE  p[1] \in Readers /\ p[2] \in 1 .. Last(p[1]) /\ c \in Mine(p[1]) /\ p = <<p[1], p[2]>>
    <2>1. p[1] \in Readers /\ p[2] \in 1 .. MaxAssigned /\ p[2] <= Last(p[1]) /\ assigned[p[1]][p[2]] = c
          /\ p = <<p[1], p[2]>>
      OBVIOUS
    <2>2. p[2] \in 1 .. Last(p[1])
      BY <1>0, <2>1
    <2> QED
      BY <2>1, <2>2 DEF Mine, Elements, Last
  <1>1. CASE c \in Read
    <2>1. PICK r \in Readers : c \in Mine(r)
      BY <1>1 DEF Read
    <2>2. PICK i \in 1 .. Last(r) : assigned[r][i] = c
      BY <2>1 DEF Mine, Elements, Last
    <2>3. <<r, i>> \in P
      BY <1>0, <2>2
    <2>4. ASSUME NEW p \in P
          PROVE  p = <<r, i>>
      <3>1. p[1] = r
        BY <1>m, <2>1 DEF Inv, Partition
      <3>2. p[2] \in 1 .. Len(assigned[r]) /\ i \in 1 .. Len(assigned[r]) /\ assigned[r][p[2]] = assigned[r][i]
        BY <1>m, <2>2, <3>1 DEF Last
      <3>3. p[2] = i
        BY <3>2 DEF Inv, Partition, Distinct
      <3> QED
        BY <1>m, <3>1, <3>3
    <2>5. P = {<<r, i>>}
      BY <2>3, <2>4
    <2> QED
      BY <1>1, <2>5, FS_Singleton
  <1>2. CASE c \notin Read
    <2>1. P = {}
      BY <1>2, <1>m DEF Read
    <2> QED
      BY <1>2, <2>1, FS_EmptySet
  <1> QED
    BY <1>1, <1>2

LEMMA OwnedOnce == Inv => OneOwner
  <1> SUFFICES ASSUME Inv, NEW c \in Contexts
               PROVE  Owners(c) + (IF c \in lost THEN 1 ELSE 0) = 1
    BY ControlType DEF Inv, Homes, OneOwner
  <1>1. /\ free \in Seq(Contexts) /\ Distinct(free)
        /\ available \in Seq(Contexts) /\ Distinct(available)
    BY DEF Inv, Control, Queues, Partition
  <1>2. Occurrences(free, c) = IF c \in Elements(free) THEN 1 ELSE 0
    BY <1>1, Occurs
  <1>3. Occurrences(available, c) = IF c \in Elements(available) THEN 1 ELSE 0
    BY <1>1, Occurs
  <1>4. Owners(c) = Occurrences(free, c) + Occurrences(available, c)
                      + (IF c \in Work THEN 1 ELSE 0) + (IF c \in Read THEN 1 ELSE 0)
    BY WorksOnce, ReadOnce DEF Owners
  <1>5. /\ c \in Elements(free) \cup Elements(available) \cup Work \cup Read \cup lost
        /\ lost \cap (Elements(free) \cup Elements(available) \cup Work \cup Read) = {}
        /\ Elements(free) \cap (Elements(available) \cup Work \cup Read) = {}
        /\ Elements(available) \cap (Work \cup Read) = {} /\ Work \cap Read = {}
    BY DEF Inv, Partition
  <1> QED
    BY <1>2, <1>3, <1>4, <1>5

LEMMA ServedIs == Inv => Served = Elements(available) \cup Read
  <1> SUFFICES ASSUME Inv PROVE Served = Elements(available) \cup Read
    OBVIOUS
  <1>1. available \in Seq(Contexts) /\ Distinct(available)
    BY DEF Inv, Control, Queues, Partition
  <1>2. \A r \in Readers : assigned[r] \in Seq(Contexts) /\ Distinct(assigned[r])
    BY DEF Inv, Control, Threads, Partition
  <1>3. ASSUME NEW c \in Contexts
        PROVE  /\ Occurrences(available, c) > 0 <=> c \in Elements(available)
               /\ \A r \in Readers : Occurrences(assigned[r], c) > 0 <=> c \in Mine(r)
    BY <1>1, <1>2, Occurs DEF Mine
  <1> QED
    BY <1>3, Places DEF Served, Read

(* As long as a free context is left whenever one is taken, a context has  *)
(* exactly one owner: free, being set up, available, or with one read      *)
(* thread, for any number of threads and any calls of close_context, and   *)
(* none is lost before shutdown has destroyed the queue of free contexts.  *)
THEOREM ReadThreadsOneOwner ==
    ASSUME ~Exhaustion
    PROVE  Spec => []OneOwner
  BY ReadThreadsInv, OwnedOnce, PTL

(* The open sockets are those of the contexts that read threads have or    *)
(* will get, until the queue of available contexts is destroyed.           *)
THEOREM ReadThreadsSockets ==
    ASSUME ~Exhaustion
    PROVE  Spec => []SocketsServed
  <1>1. Inv => SocketsServed
    BY ServedIs DEF Inv, States, Sockets, SocketsServed
  <1> QED
    BY <1>1, ReadThreadsInv, PTL

(* Once the read threads are joined, a socket is open only if its context  *)
(* is still on the available queue, where no read thread took it from.     *)
THEOREM ReadThreadsExit ==
    ASSUME ~Exhaustion
    PROVE  Spec => []ExitClosesAll
  <1>1. ASSUME Inv, mpc = "joined", NEW c \in sock
        PROVE  Occurrences(available, c) = 1
    <2>1. available \in Seq(Contexts) /\ Distinct(available) /\ c \in Contexts
      BY <1>1 DEF Inv, Control, Queues, Partition
    <2>2. sock = Elements(available) \cup Read
      BY <1>1 DEF Inv, Homes, States, Sockets
    <2>3. ASSUME NEW r \in Readers
          PROVE  Mine(r) = {}
      BY <1>1 DEF Inv, Homes, States, Leaves, Mine, Elements
    <2>4. c \in Elements(available)
      BY <1>1, <2>2, <2>3 DEF Read
    <2> QED
      BY <2>1, <2>4, Occurs
  <1>2. Inv => ExitClosesAll
    BY <1>1 DEF ExitClosesAll
  <1> QED
    BY <1>2, ReadThreadsInv, PTL

=============================================================================
