--------------------------- MODULE DispatchProofs ---------------------------
(***************************************************************************)
(* Proofs about Dispatch for any number of dispatch threads, readers and   *)
(* messages and any number of restarts.                                    *)
(***************************************************************************)
EXTENDS Dispatch, SequenceTheorems, FiniteSetTheorems, TLAPS

(* The code is set while the threads are being joined.  A thread has a     *)
(* message from the time it takes it to the callback; only a thread that   *)
(* saw the code takes one back to the loop, to leave with it.              *)
Threads ==
    /\ TypeOK
    /\ code # 0 <=> mpc = "join"
    /\ mpc \in {"joined", "down"} => \A d \in Dispatchers : pc[d] = "exited"
    /\ \A d \in Dispatchers :
        /\ held[d] # NULL => pc[d] \in {"lock", "process", "call"} \/ (pc[d] = "loop" /\ code # 0)
        /\ pc[d] = "call" => held[d] # NULL

Elements(q) == {q[i] : i \in 1 .. Len(q)}

Distinct(q) == \A i, j \in 1 .. Len(q) : q[i] = q[j] => i = j

Hands == {held[d] : d \in Dispatchers} \ {NULL}

(* The four places have no message in common or twice, and together they   *)
(* have what was handed over.                                              *)
Places ==
    /\ Distinct(inbound) /\ Distinct(delivered)
    /\ \A c, d \in Dispatchers : held[c] = held[d] /\ held[c] # NULL => c = d
    /\ Elements(inbound) \cap (Hands \cup Elements(delivered) \cup dropped) = {}
    /\ Hands \cap (Elements(delivered) \cup dropped) = {}
    /\ Elements(delivered) \cap dropped = {}
    /\ \A r \in Readers, n \in 1 .. PerReader :
        n <= passed[r] <=> <<r, n>> \in Elements(inbound) \cup Hands \cup Elements(delivered) \cup dropped

Inv == Threads /\ Places

-----------------------------------------------------------------------------
(* What is on a queue after connector_locked_enqueue and after a dequeue.  *)
LEMMA QueueAppend ==
    ASSUME NEW S, NEW q \in Seq(S), NEW e \in S
    PROVE  /\ Elements(Append(q, e)) = Elements(q) \cup {e}
           /\ Distinct(q) /\ e \notin Elements(q) => Distinct(Append(q, e))
  BY AppendProperties, LenProperties DEF Elements, Distinct

LEMMA QueueTail ==
    ASSUME NEW S, NEW q \in Seq(S), q # <<>>, Distinct(q)
    PROVE  /\ Elements(Tail(q)) = Elements(q) \ {Head(q)} /\ Head(q) \in Elements(q)
           /\ Distinct(Tail(q))
  <1>1. Len(q) \in Nat \ {0} /\ Len(Tail(q)) = Len(q) - 1 /\ Head(q) = q[1]
        /\ \A i \in 1 .. Len(q) - 1 : Tail(q)[i] = q[i + 1]
    BY EmptySeq, HeadTailProperties, LenProperties
  <1>2. ASSUME NEW i \in 1 .. Len(q), q[i] # Head(q)
        PROVE  q[i] \in Elements(Tail(q))
    <2>1. i - 1 \in 1 .. Len(Tail(q)) /\ Tail(q)[i - 1] = q[(i - 1) + 1]
      BY <1>1, <1>2
    <2> QED
      BY <2>1 DEF Elements
  <1>3. ASSUME NEW i \in 1 .. Len(Tail(q))
        PROVE  Tail(q)[i] \in Elements(q) \ {Head(q)}
    <2>1. i + 1 \in 1 .. Len(q) /\ i + 1 # 1 /\ 1 \in 1 .. Len(q) /\ Tail(q)[i] = q[i + 1]
      BY <1>1
    <2> QED
      BY <1>1, <2>1 DEF Elements, Distinct
  <1>4. Distinct(Tail(q))
    BY <1>1 DEF Distinct
  <1>5. Head(q) \in Elements(q)
    BY <1>1 DEF Elements
  <1> QED
    BY <1>2, <1>3, <1>4, <1>5 DEF Elements

LEMMA QueueEmpty == Elements(<<>>) = {} /\ Distinct(<<>>)
  BY DEF Elements, Distinct

-----------------------------------------------------------------------------
(* Types, the shutdown code and the threads.                               *)
LEMMA ThreadsStep == Threads /\ [Next]_vars => Threads'
  <1> SUFFICES ASSUME Threads, [Next]_vars PROVE Threads'
    OBVIOUS
  <1>a. NULL \notin Dispatchers /\ NULL \notin Messages
    BY DispatchAssumption DEF Messages
  <1> USE <1>a
  <1>1. ASSUME NEW d \in Dispatchers, DispatchLoop(d)
        PROVE  Threads'
    BY <1>1 DEF DispatchLoop, Goto, Threads, TypeOK, DispatchPoints, readerVars, mainVars
  <1>2. ASSUME NEW d \in Dispatchers, DispatchExit(d)
        PROVE  Threads'
    BY <1>2 DEF DispatchExit, Goto, Exit, Threads, TypeOK, DispatchPoints, readerVars,
      mainVars
  <1>3. ASSUME NEW d \in Dispatchers, DispatchAcquire(d)
        PROVE  Threads'
    <2>1. pc[d] \in {"first", "again"} /\ pc' = [pc EXCEPT ![d] = "lock"]
      BY <1>3 DEF DispatchAcquire, Goto
    <2>2. inbound' \in Seq(Messages) /\ held' \in [Dispatchers -> Messages \cup {NULL}]
      BY <1>3, HeadTailProperties DEF DispatchAcquire, Acquire, Threads, TypeOK
    <2> QED
      BY <1>3, <2>1, <2>2
      DEF DispatchAcquire, Acquire, Threads, TypeOK, DispatchPoints, readerVars, mainVars
  <1>4. ASSUME NEW d \in Dispatchers, DispatchWait(d)
        PROVE  Threads'
    BY <1>4 DEF DispatchWait, Goto, Threads, TypeOK, DispatchPoints, readerVars, mainVars
  <1>5. ASSUME NEW d \in Dispatchers, DispatchGo(d)
        PROVE  Threads'
    BY <1>5 DEF DispatchGo, Goto, Threads, TypeOK, DispatchPoints, readerVars, mainVars
  <1>6. ASSUME NEW d \in Dispatchers, DispatchWoken(d)
        PROVE  Threads'
    BY <1>6 DEF DispatchWoken, Goto, Threads, TypeOK, DispatchPoints, readerVars, mainVars
  <1>7. ASSUME NEW d \in Dispatchers, DispatchProcess(d)
        PROVE  Threads'
    BY <1>7 DEF DispatchProcess, Goto, Threads, TypeOK, DispatchPoints, readerVars, mainVars
  <1>8. ASSUME NEW d \in Dispatchers, DispatchCall(d)
        PROVE  Threads'
    BY <1>8, AppendProperties DEF DispatchCall, Goto, Threads, TypeOK, DispatchPoints,
      readerVars, mainVars
  <1>9. ASSUME NEW d \in Dispatchers, DispatchNext(d)
        PROVE  Threads'
    BY <1>9, HeadTailProperties DEF DispatchNext, Goto, Acquire, Threads, TypeOK,
      DispatchPoints, readerVars, mainVars
  <1>10. ASSUME NEW d \in Dispatchers, DispatchWakeup(d)
        PROVE  Threads'
    BY <1>10 DEF DispatchWakeup, Threads, TypeOK, DispatchPoints, readerVars, mainVars
  <1>11. ASSUME NEW r \in Readers, ReaderEnqueue(r)
        PROVE  Threads'
    BY <1>11, DispatchAssumption, AppendProperties DEF ReaderEnqueue, Messages, Threads,
      TypeOK, DispatchPoints, readerVars, mainVars
  <1>12. ASSUME NEW r \in Readers, ReaderFlag(r)
        PROVE  Threads'
    BY <1>12 DEF ReaderFlag, Threads, TypeOK, DispatchPoints, readerVars, mainVars
  <1>13. ASSUME InitDone
        PROVE  Threads'
    BY <1>13 DEF InitDone, Threads, TypeOK, DispatchPoints, readerVars, mainVars
  <1>14. ASSUME Terminate
        PROVE  Threads'
    BY <1>14 DEF Terminate, Threads, TypeOK, DispatchPoints, readerVars, mainVars
  <1>15. ASSUME TerminateJoin
        PROVE  Threads'
    BY <1>15 DEF TerminateJoin, Threads, TypeOK, DispatchPoints, readerVars, mainVars
  <1>16. ASSUME ShutdownQueue
        PROVE  Threads'
    BY <1>16, EmptySeq, ElementOfSeq DEF ShutdownQueue, Threads, TypeOK, DispatchPoints,
      readerVars, mainVars
  <1>17. ASSUME Restart
        PROVE  Threads'
    <2>1. initialized' \in [Dispatchers -> BOOLEAN]
      BY <1>17 DEF Restart
    <2>2. waiting = {} /\ \A d \in Dispatchers : held[d] = NULL
      BY <1>17 DEF Restart, Threads, TypeOK, DispatchPoints
    <2> QED
      BY <1>17, <2>1, <2>2, DispatchAssumption DEF Restart, Threads, TypeOK, DispatchPoints, readerVars
  <1>18. ASSUME UNCHANGED vars
        PROVE  Threads'
    BY <1>18 DEF vars, Threads, TypeOK, DispatchPoints, readerVars, mainVars
  <1> QED
    BY <1>1, <1>2, <1>3, <1>4, <1>5, <1>6, <1>7, <1>8, <1>9, <1>10, <1>11, <1>12, <1>13,
       <1>14, <1>15, <1>16, <1>17, <1>18
      DEF Next, DispatchStep

-----------------------------------------------------------------------------
(* A thread without a message takes the oldest one, if there is one.       *)
LEMMA AcquireStep ==
    ASSUME Inv, NEW d \in Dispatchers, Acquire(d), held[d] = NULL,
           UNCHANGED <<delivered, dropped, passed>>
    PROVE  Places'
  <1>1. inbound \in Seq(Messages) /\ held \in [Dispatchers -> Messages \cup {NULL}]
    BY DEF Inv, Threads, TypeOK
  <1>2. CASE inbound = <<>>
    <2>1. inbound' = inbound /\ held' = held
      BY <1>1, <1>2 DEF Acquire
    <2> QED
      BY <2>1 DEF Inv, Places, Hands
  <1>3. CASE inbound # <<>>
    <2> DEFINE h == Head(inbound)
    <2>1. inbound' = Tail(inbound) /\ held' = [held EXCEPT ![d] = h]
      BY <1>3 DEF Acquire
    <2>2. h \in Messages /\ h # NULL
      BY <1>1, <1>3, HeadTailProperties, DispatchAssumption DEF Messages
    <2>3. Elements(inbound') = Elements(inbound) \ {h} /\ h \in Elements(inbound) /\ Distinct(inbound')
      BY <1>1, <1>3, <2>1, QueueTail DEF Inv, Places
    <2>4. Hands' = Hands \cup {h} /\ h \notin Hands
      BY <1>1, <2>1, <2>2, <2>3 DEF Hands, Inv, Places
    <2>5. \A b, c \in Dispatchers : held'[b] = held'[c] /\ held'[b] # NULL => b = c
      BY <1>1, <2>1, <2>4 DEF Hands, Inv, Places
    <2> QED
      BY <2>3, <2>4, <2>5 DEF Inv, Places
  <1> QED
    BY <1>2, <1>3

(* The message in hand is delivered, or freed by a thread that leaves.     *)
LEMMA ReleaseStep ==
    ASSUME Inv, NEW d \in Dispatchers, held' = [held EXCEPT ![d] = NULL],
           UNCHANGED <<inbound, passed>>,
           \/ held[d] # NULL /\ delivered' = Append(delivered, held[d]) /\ dropped' = dropped
           \/ delivered' = delivered /\ dropped' = dropped \cup ({held[d]} \ {NULL})
    PROVE  Places'
  <1> DEFINE m == {held[d]} \ {NULL}
  <1>1. held \in [Dispatchers -> Messages \cup {NULL}] /\ delivered \in Seq(Messages)
    BY DEF Inv, Threads, TypeOK
  <1>2. m \subseteq Hands /\ Hands' = Hands \ m
    BY <1>1 DEF Inv, Places, Hands
  <1>3. Distinct(delivered') /\ Elements(delivered') \cap dropped' = {}
        /\ Elements(delivered') \cup dropped' = Elements(delivered) \cup dropped \cup m
    <2>1. CASE held[d] # NULL /\ delivered' = Append(delivered, held[d]) /\ dropped' = dropped
      <3>1. held[d] \in Messages /\ held[d] \in Hands
        BY <1>1, <2>1 DEF Hands
      <3>2. Elements(delivered') = Elements(delivered) \cup {held[d]} /\ Distinct(delivered')
        BY <1>1, <2>1, <3>1, QueueAppend DEF Inv, Places
      <3> QED
        BY <2>1, <3>1, <3>2 DEF Inv, Places
    <2>2. CASE delivered' = delivered /\ dropped' = dropped \cup m
      BY <1>2, <2>2 DEF Inv, Places
    <2> QED
      BY <2>1, <2>2
  <1>4. \A b, c \in Dispatchers : held'[b] = held'[c] /\ held'[b] # NULL => b = c
    BY <1>1 DEF Inv, Places
  <1>5. Elements(inbound') = Elements(inbound) /\ Distinct(inbound')
    BY DEF Inv, Places
  <1> QED
    BY <1>2, <1>3, <1>4, <1>5 DEF Inv, Places

(* A reader puts its next message at the end of the queue.                 *)
LEMMA EnqueueStep ==
    ASSUME Inv, NEW r \in Readers, ReaderEnqueue(r)
    PROVE  Places'
  <1> DEFINE e == <<r, passed[r] + 1>>
  <1>1. /\ inbound \in Seq(Messages) /\ inbound' = Append(inbound, e)
        /\ UNCHANGED <<held, delivered, dropped>>
        /\ passed \in [Readers -> 0 .. PerReader] /\ passed' = [passed EXCEPT ![r] = @ + 1]
        /\ passed[r] < PerReader
    BY DEF Inv, Threads, TypeOK, ReaderEnqueue
  <1>2. e \in Messages
    BY <1>1, DispatchAssumption DEF Messages
  <1>3. e \notin Elements(inbound) \cup Hands \cup Elements(delivered) \cup dropped
    BY <1>1, <1>2 DEF Inv, Places, Messages
  <1>4. Elements(inbound') = Elements(inbound) \cup {e} /\ Distinct(inbound')
    <2> HIDE DEF e
    <2>1. Elements(Append(inbound, e)) = Elements(inbound) \cup {e} /\ Distinct(Append(inbound, e))
      BY <1>1, <1>2, <1>3, QueueAppend DEF Inv, Places
    <2> QED
      BY <1>1, <2>1
  <1>5. ASSUME NEW q \in Readers, NEW n \in 1 .. PerReader
        PROVE  n <= passed'[q] <=>
                 <<q, n>> \in (Elements(inbound) \cup {e}) \cup Hands \cup Elements(delivered) \cup dropped
    <2>1. n <= passed[q] <=> <<q, n>> \in Elements(inbound) \cup Hands \cup Elements(delivered) \cup dropped
      BY DEF Inv, Places
    <2>2. n <= passed'[q] <=> n <= passed[q] \/ <<q, n>> = e
      BY <1>1, DispatchAssumption
    <2> QED
      BY <2>1, <2>2
  <1>6. Hands' = Hands /\ Elements(delivered') = Elements(delivered) /\ Distinct(delivered')
    BY <1>1 DEF Hands, Inv, Places
  <1> HIDE DEF e
  <1> QED
    BY <1>1, <1>3, <1>4, <1>5, <1>6 DEF Inv, Places

LEMMA InvStep == Inv /\ [Next]_vars => Inv'
  <1> SUFFICES ASSUME Inv, [Next]_vars PROVE Places'
    BY ThreadsStep DEF Inv
  <1>1. ASSUME NEW d \in Dispatchers, DispatchAcquire(d) \/ DispatchNext(d)
        PROVE  Places'
    <2>1. Acquire(d) /\ held[d] = NULL /\ UNCHANGED <<delivered, dropped, passed>>
      BY <1>1 DEF DispatchAcquire, DispatchNext, Goto, Inv, Threads, readerVars
    <2> QED
      BY <2>1, AcquireStep
  <1>2. ASSUME NEW d \in Dispatchers, DispatchCall(d)
        PROVE  Places'
    BY <1>2, ReleaseStep DEF DispatchCall, Goto, Inv, Threads, readerVars
  <1>3. ASSUME NEW d \in Dispatchers, DispatchExit(d)
        PROVE  Places'
    BY <1>3, ReleaseStep DEF DispatchExit, Exit, readerVars
  <1>4. ASSUME NEW r \in Readers, ReaderEnqueue(r)
        PROVE  Places'
    BY <1>4, EnqueueStep
  <1>5. ASSUME ShutdownQueue
        PROVE  Places'
    <2>1. inbound' = <<>> /\ dropped' = dropped \cup Elements(inbound)
          /\ UNCHANGED <<held, delivered, passed>>
      BY <1>5 DEF ShutdownQueue, Elements, readerVars
    <2>2. Elements(inbound') = {} /\ Distinct(inbound') /\ Hands' = Hands
      BY <2>1, QueueEmpty DEF Hands
    <2> QED
      BY <2>1, <2>2 DEF Inv, Places
  <1>6. ASSUME UNCHANGED <<inbound, held, delivered, dropped, passed>>
        PROVE  Places'
    BY <1>6 DEF Inv, Places, Hands
  <1>7. \/ UNCHANGED <<inbound, held, delivered, dropped, passed>>
        \/ \E d \in Dispatchers :
            DispatchAcquire(d) \/ DispatchNext(d) \/ DispatchCall(d) \/ DispatchExit(d)
        \/ \E r \in Readers : ReaderEnqueue(r)
        \/ ShutdownQueue
    BY DEF Next, DispatchStep, DispatchLoop, DispatchWait, DispatchGo, DispatchWoken,
      DispatchProcess, DispatchWakeup, ReaderFlag, InitDone, Terminate, TerminateJoin, Restart,
      vars, readerVars, mainVars
  <1> QED
    BY <1>1, <1>2, <1>3, <1>4, <1>5, <1>6, <1>7

-----------------------------------------------------------------------------
(* The invariant holds in every reachable state.                           *)
THEOREM DispatchInv == Spec => []Inv
  <1>1. Init => Inv
    <2> SUFFICES ASSUME Init PROVE Inv
      OBVIOUS
    <2>1. Threads
      BY DispatchAssumption, EmptySeq DEF Init, Threads, TypeOK, DispatchPoints
    <2>2. Elements(inbound) = {} /\ Elements(delivered) = {} /\ Distinct(inbound) /\ Distinct(delivered)
      BY QueueEmpty DEF Init
    <2>3. Hands = {}
      BY DEF Init, Hands
    <2> QED
      BY <2>1, <2>2, <2>3 DEF Init, Inv, Places
  <1> QED
    BY <1>1, InvStep, PTL DEF Spec

\* Joined dispatch threads wait for nothing and have no message
\* (dispatch.c:285).
THEOREM DispatchQuiet == Spec => []QuietAfterJoin
  <1>1. Inv => QuietAfterJoin
    BY DEF Inv, Threads, TypeOK, QuietAfterJoin
  <1> QED
    BY <1>1, DispatchInv, PTL

(* The positions of a message in a queue without repetitions: one or none. *)
LEMMA PositionsCount ==
    ASSUME NEW q, Distinct(q), NEW m
    PROVE  Cardinality(Positions(q, m)) = IF m \in Elements(q) THEN 1 ELSE 0
  <1>1. CASE m \in Elements(q)
    <2>1. PICK i \in 1 .. Len(q) : q[i] = m
      BY <1>1 DEF Elements
    <2>2. Positions(q, m) = {i}
      BY <2>1 DEF Positions, Distinct
    <2> QED
      BY <1>1, <2>2, FS_Singleton
  <1>2. CASE m \notin Elements(q)
    <2>1. Positions(q, m) = {}
      BY <1>2 DEF Positions, Elements
    <2> QED
      BY <1>2, <2>1, FS_EmptySet
  <1> QED
    BY <1>1, <1>2

\* Every message handed over is at exactly one place: no callback runs twice
\* for it, and it is freed once (dispatch.c:93-169).
THEOREM DispatchOnePlace == Spec => []OnePlace
  <1>1. ASSUME Inv PROVE OnePlace
    <2> USE <1>1
    <2>1. ASSUME NEW m, m # NULL
          PROVE  Cardinality({d \in Dispatchers : held[d] = m}) = IF m \in Hands THEN 1 ELSE 0
      <3>1. CASE m \in Hands
        <4>1. PICK d \in Dispatchers : held[d] = m
          BY <3>1 DEF Hands
        <4>2. {c \in Dispatchers : held[c] = m} = {d}
          BY <2>1, <4>1 DEF Inv, Places
        <4> QED
          BY <3>1, <4>2, FS_Singleton
      <3>2. CASE m \notin Hands
        <4>1. {d \in Dispatchers : held[d] = m} = {}
          BY <2>1, <3>2 DEF Hands
        <4> QED
          BY <3>2, <4>1, FS_EmptySet
      <3> QED
        BY <3>1, <3>2
    <2>2. ASSUME NEW r \in Readers, NEW n \in 1 .. PerReader
          PROVE  Cardinality(Positions(inbound, <<r, n>>))
                   + Cardinality({d \in Dispatchers : held[d] = <<r, n>>})
                   + Cardinality(Positions(delivered, <<r, n>>))
                   + (IF <<r, n>> \in dropped THEN 1 ELSE 0)
                 = (IF n <= passed[r] THEN 1 ELSE 0)
      <3> DEFINE m == <<r, n>>
      <3>1. m # NULL
        BY DispatchAssumption
      <3>2. /\ Cardinality(Positions(inbound, m)) = (IF m \in Elements(inbound) THEN 1 ELSE 0)
            /\ Cardinality({d \in Dispatchers : held[d] = m}) = (IF m \in Hands THEN 1 ELSE 0)
            /\ Cardinality(Positions(delivered, m)) = (IF m \in Elements(delivered) THEN 1 ELSE 0)
        BY <2>1, <3>1, PositionsCount DEF Inv, Places
      <3>3. n <= passed[r] <=> m \in Elements(inbound) \cup Hands \cup Elements(delivered) \cup dropped
        BY DEF Inv, Places
      <3> QED
        BY <3>2, <3>3 DEF Inv, Places
    <2> QED
      BY <2>2 DEF OnePlace, Inv, Threads
  <1> QED
    BY <1>1, DispatchInv, PTL

=============================================================================
