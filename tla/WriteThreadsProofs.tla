------------------------- MODULE WriteThreadsProofs -------------------------
(***************************************************************************)
(* Proofs about WriteThreads for any number of write threads, senders and  *)
(* messages and any number of restarts.                                    *)
(***************************************************************************)
EXTENDS WriteThreads, SequenceTheorems, FiniteSetTheorems, TLAPS

(* outbound_lock is held by the thread that is awake, a message by the     *)
(* thread that is about to write it, joined threads have left, and a       *)
(* sender past its test has a message to send.                             *)
Threads ==
    /\ TypeOK
    /\ \A w \in Writers : holder = w <=> pc[w] \in {"awake", "acquire"}
    /\ \A w \in Writers : held[w] # NULL <=> pc[w] = "write"
    /\ mpc \in {"joined", "down"} => \A w \in Writers : pc[w] = "exited"
    /\ \A s \in Senders : spc[s] = "enqueue" => sent[s] < PerSender

Elements(q) == {q[i] : i \in 1 .. Len(q)}

Distinct(q) == \A i, j \in 1 .. Len(q) : q[i] = q[j] => i = j

(* The messages of each sender stand in the order of their numbers.        *)
Ordered(q) == \A i, j \in 1 .. Len(q) : i < j /\ q[i][1] = q[j][1] => q[i][2] < q[j][2]

Hands == {held[w] : w \in Writers} \ {NULL}

Gone == dropped \cup leaked

(* The five places have no message in common or twice, and together they   *)
(* have what was sent.                                                     *)
Places ==
    /\ Ordered(outbound) /\ Distinct(wire)
    /\ \A v, w \in Writers : held[v] = held[w] /\ held[v] # NULL => v = w
    /\ Elements(outbound) \cap (Hands \cup Elements(wire) \cup Gone) = {}
    /\ Hands \cap (Elements(wire) \cup Gone) = {}
    /\ Elements(wire) \cap Gone = {}
    /\ dropped \cap leaked = {}
    /\ \A s \in Senders, n \in 1 .. PerSender :
        n <= sent[s] <=> <<s, n>> \in Elements(outbound) \cup Hands \cup Elements(wire) \cup Gone

(* What is queued or in hand is of this session, and what is queued while  *)
(* the module is down came late; so what an initialisation forgets did.    *)
Sessions ==
    /\ \A m \in Elements(outbound) \cup Hands : session[m] = restarts
    /\ mpc = "down" => Elements(outbound) \subseteq late
    /\ leaked \subseteq late

(* TakenInOrder, in terms of what is on the queue.                         *)
LaterQueued ==
    \A s \in Senders, n \in 1 .. PerSender : \A k \in 1 .. n :
        <<s, k>> \in Elements(outbound) /\ n <= sent[s] => <<s, n>> \in Elements(outbound)

Inv == Threads /\ Places /\ LaterQueued /\ Sessions

-----------------------------------------------------------------------------
(* What is on a queue after connector_locked_enqueue and after a dequeue.  *)
LEMMA ElementsAppend ==
    ASSUME NEW S, NEW q \in Seq(S), NEW e \in S
    PROVE  /\ Append(q, e) \in Seq(S)
           /\ Elements(Append(q, e)) = Elements(q) \cup {e}
           /\ Distinct(q) /\ e \notin Elements(q) => Distinct(Append(q, e))
  BY AppendProperties, LenProperties DEF Elements, Distinct

LEMMA ElementsTail ==
    ASSUME NEW S, NEW q \in Seq(S), q # <<>>
    PROVE  /\ Head(q) \in S /\ Tail(q) \in Seq(S)
           /\ Elements(q) = Elements(Tail(q)) \cup {Head(q)}
           /\ Head(q) = q[1] /\ Len(Tail(q)) = Len(q) - 1
           /\ \A i \in 1 .. Len(q) - 1 : Tail(q)[i] = q[i + 1]
  <1>1. Len(q) \in Nat \ {0} /\ Len(Tail(q)) = Len(q) - 1 /\ Head(q) = q[1] /\ Head(q) \in S
        /\ Tail(q) \in Seq(S) /\ \A i \in 1 .. Len(q) - 1 : Tail(q)[i] = q[i + 1]
    BY EmptySeq, HeadTailProperties, LenProperties
  <1>2. ASSUME NEW i \in 1 .. Len(q)
        PROVE  q[i] \in Elements(Tail(q)) \cup {Head(q)}
    <2>1. CASE i = 1
      BY <2>1, <1>1
    <2>2. CASE i # 1
      <3>1. i - 1 \in 1 .. Len(Tail(q)) /\ Tail(q)[i - 1] = q[(i - 1) + 1]
        BY <2>2, <1>1
      <3> QED
        BY <3>1 DEF Elements
    <2> QED
      BY <2>1, <2>2
  <1>3. Elements(Tail(q)) \cup {Head(q)} \subseteq Elements(q)
    BY <1>1 DEF Elements
  <1> QED
    BY <1>1, <1>2, <1>3 DEF Elements

LEMMA ElementsEmpty == Elements(<<>>) = {} /\ Ordered(<<>>) /\ Distinct(<<>>)
  BY DEF Elements, Ordered, Distinct

-----------------------------------------------------------------------------
(* Types, the lock and the threads.                                        *)
LEMMA ThreadsStep == Threads /\ [Next]_vars => Threads'
  <1> SUFFICES ASSUME Threads, [Next]_vars PROVE Threads'
    OBVIOUS
  <1>a. NULL \notin Writers /\ NULL \notin Messages
    BY WriteAssumption DEF Messages
  <1> USE <1>a
  <1>1. ASSUME NEW w \in Writers, WriterLoop(w)
        PROVE  Threads'
    BY <1>1 DEF WriterLoop, Goto, Threads, TypeOK, WriterPoints, writerVars, senderVars,
      mainVars, history
  <1>2. ASSUME NEW w \in Writers, WriterWait(w)
        PROVE  Threads'
    BY <1>2 DEF WriterWait, Goto, Threads, TypeOK, WriterPoints, writerVars, senderVars,
      mainVars, history
  <1>3. ASSUME NEW w \in Writers, WriterWakeup(w)
        PROVE  Threads'
    BY <1>3 DEF WriterWakeup, Threads, TypeOK, WriterPoints, writerVars, senderVars, mainVars, history
  <1>4. ASSUME NEW w \in Writers, WriterRelock(w)
        PROVE  Threads'
    BY <1>4 DEF WriterRelock, Goto, Threads, TypeOK, WriterPoints, writerVars, senderVars,
      mainVars, history
  <1>5. ASSUME NEW w \in Writers, WriterAwake(w)
        PROVE  Threads'
    BY <1>5 DEF WriterAwake, Goto, Threads, TypeOK, WriterPoints, writerVars, senderVars,
      mainVars, history
  <1>6. ASSUME NEW w \in Writers, WriterAcquire(w)
        PROVE  Threads'
    BY <1>6, HeadTailProperties DEF WriterAcquire, Acquire, Goto, Threads, TypeOK,
      WriterPoints, writerVars, senderVars, mainVars, history
  <1>7. ASSUME NEW w \in Writers, WriterWaitAgain(w)
        PROVE  Threads'
    BY <1>7 DEF WriterWaitAgain, Goto, Threads, TypeOK, WriterPoints, writerVars, senderVars,
      mainVars, history
  <1>8. ASSUME NEW w \in Writers, WriterWrite(w)
        PROVE  Threads'
    BY <1>8, AppendProperties DEF WriterWrite, Goto, Threads, TypeOK, WriterPoints,
      writerVars, senderVars, mainVars, history
  <1>9. ASSUME NEW w \in Writers, WriterNext(w)
        PROVE  Threads'
    BY <1>9, HeadTailProperties DEF WriterNext, Acquire, Goto, Threads, TypeOK, WriterPoints,
      writerVars, senderVars, mainVars, history
  <1>10. ASSUME NEW w \in Writers, WriterDrained(w)
        PROVE  Threads'
    BY <1>10 DEF WriterDrained, Goto, Threads, TypeOK, WriterPoints, writerVars, senderVars,
      mainVars, history
  <1>11. ASSUME NEW s \in Senders, SendCheck(s)
        PROVE  Threads'
    BY <1>11 DEF SendCheck, Threads, TypeOK, WriterPoints, writerVars, senderVars, mainVars, history
  <1>12. ASSUME NEW s \in Senders, SendEnqueue(s)
        PROVE  Threads'
    BY <1>12, WriteAssumption, AppendProperties DEF SendEnqueue, Messages, Threads, TypeOK,
      WriterPoints, writerVars, senderVars, mainVars, history
  <1>13. ASSUME NEW s \in Senders, SendFlag(s)
        PROVE  Threads'
    BY <1>13 DEF SendFlag, Threads, TypeOK, WriterPoints, writerVars, senderVars, mainVars, history
  <1>14. ASSUME ShutdownFlag
        PROVE  Threads'
    BY <1>14 DEF ShutdownFlag, Threads, TypeOK, WriterPoints, writerVars, senderVars, mainVars, history
  <1>15. ASSUME ShutdownBroadcast
        PROVE  Threads'
    BY <1>15 DEF ShutdownBroadcast, Threads, TypeOK, WriterPoints, writerVars, senderVars,
      mainVars, history
  <1>16. ASSUME ShutdownJoin
        PROVE  Threads'
    BY <1>16 DEF ShutdownJoin, Threads, TypeOK, WriterPoints, writerVars, senderVars, mainVars, history
  <1>17. ASSUME ShutdownQueue
        PROVE  Threads'
    BY <1>17, EmptySeq, ElementOfSeq DEF ShutdownQueue, Threads, TypeOK, WriterPoints,
      writerVars, senderVars, mainVars, history
  <1>18. ASSUME Restart
        PROVE  Threads'
    <2>1. connected' \in BOOLEAN
      BY <1>18 DEF Restart
    <2>2. leaked' \subseteq Messages
      BY <1>18, ElementOfSeq DEF Restart, Threads, TypeOK
    <2>3. waiting = {} /\ holder = NULL /\ \A w \in Writers : held[w] = NULL
      BY <1>18 DEF Restart, Threads, TypeOK, WriterPoints
    <2> QED
      BY <1>18, <2>1, <2>2, <2>3, EmptySeq, WriteAssumption
      DEF Restart, Threads, TypeOK, WriterPoints, senderVars
  <1>19. ASSUME Disconnect
        PROVE  Threads'
    BY <1>19 DEF Disconnect, Threads, TypeOK, WriterPoints, writerVars, senderVars, mainVars, history
  <1>20. ASSUME UNCHANGED vars
        PROVE  Threads'
    BY <1>20 DEF vars, Threads, TypeOK, WriterPoints
  <1> QED
    BY <1>1, <1>2, <1>3, <1>4, <1>5, <1>6, <1>7, <1>8, <1>9, <1>10, <1>11, <1>12, <1>13,
       <1>14, <1>15, <1>16, <1>17, <1>18, <1>19, <1>20
      DEF Next, WriterRun, MainStep

-----------------------------------------------------------------------------
(* The first message of an ordered queue is the first of its sender.       *)
LEMMA OrderedTail ==
    ASSUME NEW q \in Seq(Messages), q # <<>>, Ordered(q)
    PROVE  /\ Ordered(Tail(q))
           /\ Head(q) \notin Elements(Tail(q))
           /\ \A m \in Elements(Tail(q)) : m[1] = Head(q)[1] => Head(q)[2] < m[2]
  <1>1. /\ Len(q) \in Nat /\ Head(q) = q[1] /\ Len(Tail(q)) = Len(q) - 1
        /\ \A i \in 1 .. Len(q) - 1 : Tail(q)[i] = q[i + 1]
    BY ElementsTail, LenProperties
  <1>2. ASSUME NEW m \in Elements(Tail(q)), m[1] = Head(q)[1]
        PROVE  Head(q)[2] < m[2]
    <2>1. PICK i \in 1 .. Len(q) - 1 : m = q[i + 1]
      BY <1>1 DEF Elements
    <2> QED
      BY <1>1, <1>2, <2>1 DEF Ordered
  <1>3. Head(q) \notin Elements(Tail(q))
    <2>1. Head(q)[2] \in Int
      BY ElementsTail DEF Messages
    <2> QED
      BY <1>2, <2>1
  <1>4. Ordered(Tail(q))
    BY <1>1 DEF Ordered
  <1> QED
    BY <1>2, <1>3, <1>4

LEMMA OrderedAppend ==
    ASSUME NEW q \in Seq(Messages), NEW e \in Messages, Ordered(q),
           \A m \in Elements(q) : m[1] = e[1] => m[2] < e[2]
    PROVE  Ordered(Append(q, e))
  BY AppendProperties, LenProperties DEF Ordered, Elements

(* A thread without a message takes the oldest one.                        *)
LEMMA AcquireStep ==
    ASSUME Inv, NEW w \in Writers, Acquire(w), held[w] = NULL,
           UNCHANGED <<wire, dropped, leaked, sent>>
    PROVE  Places' /\ LaterQueued'
  <1> DEFINE h == Head(outbound)
  <1>1. outbound \in Seq(Messages) /\ outbound # <<>> /\ outbound' = Tail(outbound)
    BY DEF Inv, Threads, TypeOK, Acquire
  <1>2. h \in Messages /\ h # NULL
    BY <1>1, ElementsTail, WriteAssumption DEF Messages
  <1>3. /\ Elements(outbound) = Elements(outbound') \cup {h}
        /\ Ordered(outbound') /\ h \notin Elements(outbound')
        /\ \A m \in Elements(outbound') : m[1] = h[1] => h[2] < m[2]
    BY <1>1, ElementsTail, OrderedTail DEF Inv, Places
  <1>4. held' = [held EXCEPT ![w] = h] /\ held \in [Writers -> Messages \cup {NULL}]
    BY DEF Acquire, Inv, Threads, TypeOK
  <1>5. Hands' = Hands \cup {h}
    BY <1>2, <1>4 DEF Hands
  <1>6. h \notin Hands
    BY <1>3 DEF Inv, Places, Gone
  <1>7. \A v, u \in Writers : held'[v] = held'[u] /\ held'[v] # NULL => v = u
    BY <1>4, <1>6 DEF Hands, Inv, Places
  <1>8. Places'
    BY <1>3, <1>5, <1>6, <1>7 DEF Inv, Places, Gone
  <1>9. ASSUME NEW s \in Senders, NEW n \in 1 .. PerSender, NEW k \in 1 .. n,
               <<s, k>> \in Elements(outbound'), n <= sent[s]
        PROVE  <<s, n>> \in Elements(outbound')
    <2>1. <<s, n>> \in Elements(outbound)
      BY <1>3, <1>9 DEF Inv, LaterQueued
    <2>2. <<s, n>> # h
      BY <1>3, <1>9
    <2> QED
      BY <1>3, <2>1, <2>2
  <1> QED
    BY <1>8, <1>9 DEF LaterQueued

(* The message in hand is written or freed.                                *)
LEMMA WriteStep ==
    ASSUME Inv, NEW w \in Writers, WriterWrite(w)
    PROVE  Places' /\ LaterQueued'
  <1> DEFINE m == held[w]
  <1>1. held \in [Writers -> Messages \cup {NULL}] /\ m \in Messages /\ m # NULL
        /\ wire \in Seq(Messages) /\ held' = [held EXCEPT ![w] = NULL]
        /\ outbound' = outbound /\ sent' = sent /\ leaked' = leaked
    BY DEF Inv, Threads, TypeOK, WriterWrite, Goto, senderVars, history
  <1>2. m \in Hands /\ Hands' = Hands \ {m}
    BY <1>1 DEF Inv, Places, Hands
  <1>3. \/ wire' = Append(wire, m) /\ dropped' = dropped
        \/ wire' = wire /\ dropped' = dropped \cup {m}
    BY DEF WriterWrite
  <1>4. Distinct(wire') /\ (Elements(wire') \cup Gone') = (Elements(wire) \cup Gone) \cup {m}
        /\ Elements(wire') \cap Gone' = {} /\ dropped' \cap leaked' = {}
    <2>1. CASE wire' = Append(wire, m) /\ dropped' = dropped
      <3>1. Elements(wire') = Elements(wire) \cup {m} /\ Distinct(wire')
        BY <1>1, <1>2, <2>1, ElementsAppend DEF Inv, Places
      <3> QED
        BY <1>1, <1>2, <2>1, <3>1 DEF Inv, Places, Gone
    <2>2. CASE wire' = wire /\ dropped' = dropped \cup {m}
      BY <1>1, <1>2, <2>2 DEF Inv, Places, Gone
    <2> QED
      BY <1>3, <2>1, <2>2
  <1>5. \A v, u \in Writers : held'[v] = held'[u] /\ held'[v] # NULL => v = u
    BY <1>1 DEF Inv, Places
  <1>6. Elements(outbound') = Elements(outbound) /\ Ordered(outbound')
    BY <1>1 DEF Inv, Places
  <1>7. Places'
    BY <1>1, <1>2, <1>4, <1>5, <1>6 DEF Inv, Places
  <1> QED
    BY <1>1, <1>6, <1>7 DEF Inv, LaterQueued

(* A sender puts its next message at the end of the queue.                 *)
LEMMA EnqueueStep ==
    ASSUME Inv, NEW s \in Senders, SendEnqueue(s)
    PROVE  Places' /\ LaterQueued'
  <1> DEFINE e == <<s, sent[s] + 1>>
  <1>1. /\ outbound \in Seq(Messages) /\ outbound' = Append(outbound, e)
        /\ UNCHANGED <<held, wire, dropped, leaked>> /\ Gone' = Gone
        /\ sent \in [Senders -> 0 .. PerSender] /\ sent' = [sent EXCEPT ![s] = @ + 1]
        /\ sent[s] < PerSender
    BY DEF Inv, Threads, TypeOK, SendEnqueue, writerVars, Gone
  <1>2. e \in Messages
    BY <1>1, WriteAssumption DEF Messages
  <1>3. Elements(outbound') = Elements(outbound) \cup {e}
    <2> HIDE DEF e
    <2>1. Elements(Append(outbound, e)) = Elements(outbound) \cup {e}
      BY <1>1, <1>2, ElementsAppend
    <2> QED
      BY <1>1, <2>1
  <1>4. e \notin Elements(outbound) \cup Hands \cup Elements(wire) \cup Gone
    BY <1>1, <1>2 DEF Inv, Places, Messages
  <1>5. Ordered(outbound')
    <2>1. ASSUME NEW m \in Elements(outbound), m[1] = e[1]
          PROVE  m[2] < e[2]
      <3>1. m \in Messages
        BY <1>1, ElementOfSeq DEF Elements
      <3>2. PICK n \in 1 .. PerSender : m = <<s, n>>
        BY <2>1, <3>1 DEF Messages
      <3>3. n <= sent[s]
        BY <3>2 DEF Inv, Places
      <3> QED
        BY <1>1, <3>2, <3>3
    <2> QED
      BY <1>1, <1>2, <2>1, OrderedAppend DEF Inv, Places
  <1>6. Hands' = Hands
    BY <1>1 DEF Hands
  <1>7. ASSUME NEW r \in Senders, NEW n \in 1 .. PerSender
        PROVE  n <= sent'[r] <=> n <= sent[r] \/ <<r, n>> = e
    BY <1>1, WriteAssumption
  <1>8. Places'
    <2>1. ASSUME NEW r \in Senders, NEW n \in 1 .. PerSender
          PROVE  n <= sent'[r] <=>
                   <<r, n>> \in (Elements(outbound) \cup {e}) \cup Hands \cup Elements(wire) \cup Gone
      <3>1. n <= sent[r] <=> <<r, n>> \in Elements(outbound) \cup Hands \cup Elements(wire) \cup Gone
        BY DEF Inv, Places
      <3> QED
        BY <1>7, <3>1
    <2>2. Elements(wire') = Elements(wire) /\ Distinct(wire')
      BY <1>1 DEF Inv, Places
    <2> HIDE DEF e
    <2> QED
      BY <1>1, <1>3, <1>4, <1>5, <1>6, <2>1, <2>2 DEF Inv, Places
  <1>9. ASSUME NEW r \in Senders, NEW n \in 1 .. PerSender, NEW k \in 1 .. n,
               <<r, k>> \in Elements(outbound'), n <= sent'[r]
        PROVE  <<r, n>> \in Elements(outbound')
    <2>1. CASE <<r, n>> = e
      BY <2>1, <1>3
    <2>2. CASE <<r, n>> # e
      <3>1. n <= sent[r]
        BY <1>7, <1>9, <2>2
      <3>2. <<r, k>> # e
        BY <1>1, <1>9, <3>1
      <3> QED
        BY <1>3, <1>9, <3>1, <3>2 DEF Inv, LaterQueued
    <2> QED
      BY <2>1, <2>2
  <1> QED
    BY <1>8, <1>9 DEF LaterQueued

(* Clearing the queue frees everything on it.                              *)
LEMMA ClearStep ==
    ASSUME Inv, outbound' = <<>>, UNCHANGED <<held, wire, sent>>,
           \/ dropped' = dropped \cup Elements(outbound) /\ leaked' = leaked
           \/ leaked' = leaked \cup Elements(outbound) /\ dropped' = dropped
    PROVE  Places' /\ LaterQueued'
  <1>1. Elements(outbound') = {} /\ Ordered(outbound') /\ Hands' = Hands
    BY ElementsEmpty DEF Hands
  <1>2. Gone' = Gone \cup Elements(outbound) /\ dropped' \cap leaked' = {}
    BY DEF Gone, Inv, Places
  <1> QED
    BY <1>1, <1>2 DEF Inv, Places, LaterQueued

(* No message outlives its session.                                        *)
LEMMA SessionsStep ==
    ASSUME Inv, [Next]_vars
    PROVE  Sessions'
  <1>t. /\ outbound \in Seq(Messages) /\ held \in [Writers -> Messages \cup {NULL}]
        /\ session \in [Messages -> 0 .. MaxRestarts] /\ NULL \notin Messages
    BY WriteAssumption DEF Inv, Threads, TypeOK, Messages
  <1>1. ASSUME NEW w \in Writers, WriterAcquire(w) \/ WriterNext(w)
        PROVE  Sessions'
    <2>1. outbound # <<>> /\ outbound' = Tail(outbound) /\ held' = [held EXCEPT ![w] = Head(outbound)]
          /\ UNCHANGED <<restarts, session, late, leaked, mpc>>
      BY <1>1 DEF WriterAcquire, WriterNext, Acquire, mainVars, history
    <2>2. Elements(outbound) = Elements(outbound') \cup {Head(outbound)}
      BY <1>t, <2>1, ElementsTail
    <2>3. Hands' \subseteq Hands \cup {Head(outbound)}
      BY <1>t, <2>1 DEF Hands
    <2> QED
      BY <2>1, <2>2, <2>3 DEF Inv, Sessions
  <1>2. ASSUME NEW w \in Writers, WriterWrite(w)
        PROVE  Sessions'
    <2>1. Hands' \subseteq Hands
      BY <1>2, <1>t DEF Hands, WriterWrite
    <2>2. UNCHANGED <<outbound, restarts, session, late, leaked, mpc>>
      BY <1>2 DEF WriterWrite, mainVars, history
    <2>3. Elements(outbound') = Elements(outbound)
      BY <2>2
    <2> QED
      BY <2>1, <2>2, <2>3 DEF Inv, Sessions
  <1>3. ASSUME NEW s \in Senders, SendEnqueue(s)
        PROVE  Sessions'
    <2>1. PICK e : e = <<s, sent[s] + 1>>
      OBVIOUS
    <2>2. e \in Messages
      BY <1>3, <2>1, WriteAssumption DEF Inv, Threads, TypeOK, Messages, SendEnqueue
    <2>3. /\ outbound' = Append(outbound, e) /\ session' = [session EXCEPT ![e] = restarts]
          /\ late' = IF mpc = "down" THEN late \cup {e} ELSE late
          /\ UNCHANGED <<restarts, leaked, mpc, held>>
      BY <1>3, <2>1 DEF SendEnqueue, mainVars, writerVars
    <2>4. Elements(outbound') = Elements(outbound) \cup {e}
      BY <1>t, <2>2, <2>3, ElementsAppend
    <2>5. Hands' = Hands /\ Hands \subseteq Messages /\ Elements(outbound) \subseteq Messages
      BY <1>t, <2>3, ElementOfSeq DEF Hands, Elements
    <2>6. ASSUME NEW m \in Elements(outbound') \cup Hands'
          PROVE  session'[m] = restarts'
      BY <1>t, <2>2, <2>3, <2>4, <2>5, <2>6 DEF Inv, Sessions
    <2> QED
      BY <2>3, <2>4, <2>6 DEF Inv, Sessions
  <1>4. ASSUME ShutdownQueue \/ Restart
        PROVE  Sessions'
    <2>1. Elements(outbound') = {}
      BY <1>4, ElementsEmpty DEF ShutdownQueue, Restart
    <2>2. Hands = {} /\ Hands' = {}
      BY <1>4 DEF ShutdownQueue, Restart, writerVars, Hands, Inv, Threads
    <2>3. leaked' \subseteq late'
      BY <1>4 DEF ShutdownQueue, Restart, history, Inv, Sessions, Elements
    <2> QED
      BY <2>1, <2>2, <2>3 DEF Sessions
  <1>5. ASSUME UNCHANGED <<outbound, held, restarts, leaked, late, session>>,
               mpc' = "down" => mpc = "down"
        PROVE  Sessions'
    <2>1. Elements(outbound') = Elements(outbound) /\ Hands' = Hands
      BY <1>5 DEF Hands
    <2> QED
      BY <1>5, <2>1 DEF Inv, Sessions
  <1>6. \/ UNCHANGED <<outbound, held, restarts, leaked, late, session>> /\ (mpc' = "down" => mpc = "down")
        \/ \E w \in Writers : WriterAcquire(w) \/ WriterNext(w) \/ WriterWrite(w)
        \/ \E s \in Senders : SendEnqueue(s)
        \/ ShutdownQueue \/ Restart
    BY DEF Next, WriterRun, MainStep, WriterLoop, WriterWait, WriterWakeup, WriterRelock,
      WriterAwake, WriterWaitAgain, WriterDrained, SendCheck, SendFlag, ShutdownFlag,
      ShutdownBroadcast, ShutdownJoin, Disconnect, vars, writerVars, senderVars, mainVars, history
  <1> QED
    BY <1>1, <1>2, <1>3, <1>4, <1>5, <1>6

LEMMA InvStep == Inv /\ [Next]_vars => Inv'
  <1> SUFFICES ASSUME Inv, [Next]_vars PROVE Places' /\ LaterQueued'
    BY ThreadsStep, SessionsStep DEF Inv
  <1>1. ASSUME NEW w \in Writers, WriterAcquire(w)
        PROVE  Places' /\ LaterQueued'
    BY <1>1, AcquireStep DEF WriterAcquire, Goto, Inv, Threads, senderVars, history
  <1>2. ASSUME NEW w \in Writers, WriterNext(w)
        PROVE  Places' /\ LaterQueued'
    BY <1>2, AcquireStep DEF WriterNext, Goto, Inv, Threads, senderVars, history
  <1>3. ASSUME NEW w \in Writers, WriterWrite(w)
        PROVE  Places' /\ LaterQueued'
    BY <1>3, WriteStep
  <1>4. ASSUME NEW s \in Senders, SendEnqueue(s)
        PROVE  Places' /\ LaterQueued'
    BY <1>4, EnqueueStep
  <1>5. ASSUME ShutdownQueue \/ Restart
        PROVE  Places' /\ LaterQueued'
    BY <1>5, ClearStep DEF ShutdownQueue, Restart, Elements, writerVars, senderVars, history
  <1>6. ASSUME UNCHANGED <<outbound, held, wire, dropped, leaked, sent>>
        PROVE  Places' /\ LaterQueued'
    BY <1>6 DEF Inv, Places, LaterQueued, Hands, Gone
  <1>7. \/ UNCHANGED <<outbound, held, wire, dropped, leaked, sent>>
        \/ \E w \in Writers : WriterAcquire(w) \/ WriterNext(w) \/ WriterWrite(w)
        \/ \E s \in Senders : SendEnqueue(s)
        \/ ShutdownQueue \/ Restart
    BY DEF Next, WriterRun, MainStep, WriterLoop, WriterWait, WriterWakeup, WriterRelock,
      WriterAwake, WriterWaitAgain, WriterDrained, SendCheck, SendFlag, ShutdownFlag,
      ShutdownBroadcast, ShutdownJoin, Disconnect, vars, writerVars, senderVars, mainVars, history
  <1> QED
    BY <1>1, <1>2, <1>3, <1>4, <1>5, <1>6, <1>7

-----------------------------------------------------------------------------
(* The invariant holds in every reachable state.                           *)
THEOREM WriteThreadsInv == Spec => []Inv
  <1>1. Init => Inv
    <2> SUFFICES ASSUME Init PROVE Inv
      OBVIOUS
    <2>1. Threads
      BY WriteAssumption, EmptySeq DEF Init, Threads, TypeOK, WriterPoints
    <2>2. Elements(outbound) = {} /\ Elements(wire) = {} /\ Ordered(outbound) /\ Distinct(wire)
      BY ElementsEmpty DEF Init
    <2>3. Hands = {}
      BY DEF Init, Hands
    <2> QED
      BY <2>1, <2>2, <2>3 DEF Init, Inv, Places, LaterQueued, Sessions, Gone
  <1> QED
    BY <1>1, InvStep, PTL DEF Spec

\* No message outlives the session in which it was enqueued
\* (external_api.c:143-155, locked_queue.c:22-23).
THEOREM WriteThreadsSession == Spec => []SessionKept
  <1>1. ASSUME Inv PROVE SessionKept
    <2>1. ASSUME NEW m \in Messages, Positions(outbound, m) # {} \/ \E w \in Writers : held[w] = m
          PROVE  m \in Elements(outbound) \cup Hands
      BY <2>1, WriteAssumption DEF Positions, Elements, Hands, Messages
    <2> QED
      BY <1>1, <2>1 DEF Inv, Sessions, SessionKept
  <1> QED
    BY <1>1, WriteThreadsInv, PTL

\* Messages leave the queue in the order their sender sent them.
THEOREM WriteThreadsOrder == Spec => []TakenInOrder
  <1>1. ASSUME Inv PROVE TakenInOrder
    <2>1. ASSUME NEW m
          PROVE  Positions(outbound, m) # {} <=> m \in Elements(outbound)
      BY DEF Positions, Elements
    <2> QED
      BY <1>1, <2>1 DEF Inv, LaterQueued, TakenInOrder
  <1> QED
    BY <1>1, WriteThreadsInv, PTL

(* The positions of a message in a queue without repetitions: one or none. *)
LEMMA PositionsCount ==
    ASSUME NEW q, Distinct(q), NEW m
    PROVE  Cardinality(Positions(q, m)) = IF m \in Elements(q) THEN 1 ELSE 0
  <1>1. CASE m \in Elements(q)
    <2>1. PICK i \in 1 .. Len(q) : q[i] = m
      BY <1>1 DEF Elements
    <2>2. Positions(q, m) = {i}
      BY <2>1 DEF Positions, Distinct
    <2> QED
      BY <1>1, <2>2, FS_Singleton
  <1>2. CASE m \notin Elements(q)
    <2>1. Positions(q, m) = {}
      BY <1>2 DEF Positions, Elements
    <2> QED
      BY <1>2, <2>1, FS_EmptySet
  <1> QED
    BY <1>1, <1>2

\* Every message sent is at exactly one place, over shutdown and restart, and
\* only messages of late senders are leaked (write_threads.c:61-103,
\* locked_queue.c:22-23).
THEOREM WriteThreadsOnePlace == Spec => []OnePlace
  <1>1. ASSUME Inv PROVE OnePlace
    <2> USE <1>1
    <2>1. outbound \in Seq(Messages) /\ wire \in Seq(Messages)
      BY DEF Inv, Threads, TypeOK
    <2>2. Distinct(outbound) /\ Distinct(wire)
      <3>1. \A i \in 1 .. Len(outbound) : outbound[i][2] \in Int
        BY <2>1, ElementOfSeq DEF Messages
      <3>2. Len(outbound) \in Nat
        BY <2>1, LenProperties
      <3> QED
        BY <3>1, <3>2 DEF Distinct, Ordered, Inv, Places
    <2>3. ASSUME NEW m, m # NULL
          PROVE  Cardinality({w \in Writers : held[w] = m}) = IF m \in Hands THEN 1 ELSE 0
      <3>1. CASE m \in Hands
        <4>1. PICK w \in Writers : held[w] = m
          BY <3>1 DEF Hands
        <4>2. {v \in Writers : held[v] = m} = {w}
          BY <2>3, <4>1 DEF Inv, Places
        <4> QED
          BY <3>1, <4>2, FS_Singleton
      <3>2. CASE m \notin Hands
        <4>1. {w \in Writers : held[w] = m} = {}
          BY <2>3, <3>2 DEF Hands
        <4> QED
          BY <3>2, <4>1, FS_EmptySet
      <3> QED
        BY <3>1, <3>2
    <2>4. ASSUME NEW s \in Senders, NEW n \in 1 .. PerSender
          PROVE  Cardinality(Positions(outbound, <<s, n>>))
                   + Cardinality({w \in Writers : held[w] = <<s, n>>})
                   + Cardinality(Positions(wire, <<s, n>>))
                   + (IF <<s, n>> \in dropped THEN 1 ELSE 0)
                   + (IF <<s, n>> \in leaked THEN 1 ELSE 0)
                 = (IF n <= sent[s] THEN 1 ELSE 0)
      <3> DEFINE m == <<s, n>>
      <3>1. m # NULL
        BY WriteAssumption
      <3>2. /\ Cardinality(Positions(outbound, m)) = (IF m \in Elements(outbound) THEN 1 ELSE 0)
            /\ Cardinality({w \in Writers : held[w] = m}) = (IF m \in Hands THEN 1 ELSE 0)
            /\ Cardinality(Positions(wire, m)) = (IF m \in Elements(wire) THEN 1 ELSE 0)
        BY <2>2, <2>3, <3>1, PositionsCount
      <3>3. n <= sent[s] <=> m \in Elements(outbound) \cup Hands \cup Elements(wire) \cup Gone
        BY DEF Inv, Places
      <3>4. (IF m \in Gone THEN 1 ELSE 0)
              = (IF m \in dropped THEN 1 ELSE 0) + (IF m \in leaked THEN 1 ELSE 0)
        BY DEF Gone, Inv, Places
      <3>5. Cardinality(Positions(outbound, m)) + Cardinality({w \in Writers : held[w] = m})
              + Cardinality(Positions(wire, m)) + (IF m \in Gone THEN 1 ELSE 0)
            = (IF n <= sent[s] THEN 1 ELSE 0)
        BY <3>2, <3>3 DEF Inv, Places
      <3> QED
        BY <3>2, <3>4, <3>5
    <2> QED
      BY <2>4 DEF OnePlace, Inv, Threads, Sessions
  <1> QED
    BY <1>1, WriteThreadsInv, PTL

=============================================================================
