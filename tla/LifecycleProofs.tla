-------------------------- MODULE LifecycleProofs ---------------------------
(***************************************************************************)
(* Proofs about Lifecycle for any set of callers: the module state machine *)
(* of external_api.c hands the module from one caller to the next.         *)
(***************************************************************************)
EXTENDS Lifecycle, TLAPS

(* The two orders, as functions.                                           *)
LEMMA Orders ==
    /\ Len(InitOrder) = 6 /\ Len(ShutdownOrder) = 6
    /\ InitOrder[1] = "directory" /\ InitOrder[2] = "context" /\ InitOrder[3] = "queues"
    /\ InitOrder[4] = "trampolines" /\ InitOrder[5] = "dispatch" /\ InitOrder[6] = "comm"
    /\ ShutdownOrder[1] = "context" /\ ShutdownOrder[2] = "comm"
    /\ ShutdownOrder[3] = "dispatch" /\ ShutdownOrder[4] = "queues"
    /\ ShutdownOrder[5] = "trampolines" /\ ShutdownOrder[6] = "directory"
  BY DEF InitOrder, ShutdownOrder

LEMMA OrderTypes ==
    ASSUME NEW n \in 1 .. 6
    PROVE  InitOrder[n] \in Subsystems /\ ShutdownOrder[n] \in Subsystems
  <1>1. n = 1 \/ n = 2 \/ n = 3 \/ n = 4 \/ n = 5 \/ n = 6
    OBVIOUS
  <1> QED
    BY <1>1, Orders DEF Subsystems

(* Nothing is handled before the first stage; a stage adds its subsystem.  *)
LEMMA HandledStep ==
    ASSUME NEW order
    PROVE  /\ Handled(order, 1) = {}
           /\ \A n \in 1 .. 6 : Handled(order, n + 1) = Handled(order, n) \cup {order[n]}
  <1>1. Handled(order, 1) = {}
    BY DEF Handled
  <1>2. ASSUME NEW n \in 1 .. 6
        PROVE  Handled(order, n + 1) = Handled(order, n) \cup {order[n]}
    <2>1. 1 .. (n + 1) - 1 = (1 .. n - 1) \cup {n}
      OBVIOUS
    <2> QED
      BY <2>1 DEF Handled
  <1> QED
    BY <1>1, <1>2

(* The subsystems handled before each stage, spelled out.                  *)
LEMMA HandledInit ==
    /\ Handled(InitOrder, 1) = {}
    /\ Handled(InitOrder, 2) = {"directory"}
    /\ Handled(InitOrder, 3) = {"directory", "context"}
    /\ Handled(InitOrder, 4) = {"directory", "context", "queues"}
    /\ Handled(InitOrder, 5) = {"directory", "context", "queues", "trampolines"}
    /\ Handled(InitOrder, 6) = {"directory", "context", "queues", "trampolines", "dispatch"}
    /\ Handled(InitOrder, 7) = Subsystems
  <1>1. Handled(InitOrder, 1) = {}
    BY HandledStep
  <1>s. \A n \in 1 .. 6 : Handled(InitOrder, n + 1) = Handled(InitOrder, n) \cup {InitOrder[n]}
    BY HandledStep
  <1>2. Handled(InitOrder, 1 + 1) = {"directory"}
    BY <1>1, <1>s, Orders
  <1>3. Handled(InitOrder, 2 + 1) = {"directory", "context"}
    BY <1>2, <1>s, Orders
  <1>4. Handled(InitOrder, 3 + 1) = {"directory", "context", "queues"}
    BY <1>3, <1>s, Orders
  <1>5. Handled(InitOrder, 4 + 1) = {"directory", "context", "queues", "trampolines"}
    BY <1>4, <1>s, Orders
  <1>6. Handled(InitOrder, 5 + 1) = {"directory", "context", "queues", "trampolines", "dispatch"}
    BY <1>5, <1>s, Orders
  <1>7. Handled(InitOrder, 6 + 1) = Subsystems
    BY <1>6, <1>s, Orders DEF Subsystems
  <1> QED
    BY <1>1, <1>2, <1>3, <1>4, <1>5, <1>6, <1>7

LEMMA HandledShutdown ==
    /\ Handled(ShutdownOrder, 1) = {}
    /\ Handled(ShutdownOrder, 2) = {"context"}
    /\ Handled(ShutdownOrder, 3) = {"context", "comm"}
    /\ Handled(ShutdownOrder, 4) = {"context", "comm", "dispatch"}
    /\ Handled(ShutdownOrder, 5) = {"context", "comm", "dispatch", "queues"}
    /\ Handled(ShutdownOrder, 6) = {"context", "comm", "dispatch", "queues", "trampolines"}
    /\ Handled(ShutdownOrder, 7) = Subsystems
  <1>1. Handled(ShutdownOrder, 1) = {}
    BY HandledStep
  <1>s. \A n \in 1 .. 6 :
          Handled(ShutdownOrder, n + 1) = Handled(ShutdownOrder, n) \cup {ShutdownOrder[n]}
    BY HandledStep
  <1>2. Handled(ShutdownOrder, 1 + 1) = {"context"}
    BY <1>1, <1>s, Orders
  <1>3. Handled(ShutdownOrder, 2 + 1) = {"context", "comm"}
    BY <1>2, <1>s, Orders
  <1>4. Handled(ShutdownOrder, 3 + 1) = {"context", "comm", "dispatch"}
    BY <1>3, <1>s, Orders
  <1>5. Handled(ShutdownOrder, 4 + 1) = {"context", "comm", "dispatch", "queues"}
    BY <1>4, <1>s, Orders
  <1>6. Handled(ShutdownOrder, 5 + 1) = {"context", "comm", "dispatch", "queues", "trampolines"}
    BY <1>5, <1>s, Orders
  <1>7. Handled(ShutdownOrder, 6 + 1) = Subsystems
    BY <1>6, <1>s, Orders DEF Subsystems
  <1> QED
    BY <1>1, <1>2, <1>3, <1>4, <1>5, <1>6, <1>7

(* ThreadsHaveQueues of a set of subsystems.                               *)
HaveQueues(S) ==
    /\ "dispatch" \in S => {"queues", "trampolines"} \subseteq S
    /\ "comm" \in S => {"queues", "trampolines", "dispatch"} \subseteq S

(* Both orders respect the threads' need of the queues at every stage.     *)
LEMMA OrdersRespectThreads ==
    ASSUME NEW n \in 1 .. 7
    PROVE  /\ HaveQueues(Handled(InitOrder, n))
           /\ HaveQueues(Subsystems \ Handled(ShutdownOrder, n))
  <1>1. n = 1 \/ n = 2 \/ n = 3 \/ n = 4 \/ n = 5 \/ n = 6 \/ n = 7
    OBVIOUS
  <1>2. HaveQueues(Handled(InitOrder, n))
    BY <1>1, HandledInit DEF HaveQueues, Subsystems
  <1>3. HaveQueues(Subsystems \ Handled(ShutdownOrder, n))
    BY <1>1, HandledShutdown DEF HaveQueues, Subsystems
  <1> QED
    BY <1>2, <1>3

-----------------------------------------------------------------------------
\* The state of external_api.c has the types TypeOK gives it: stages stay
\* within the two orders, the allocators are the system's or the caller's.
THEOREM LifecycleType == Spec => []TypeOK
  <1>1. Init => TypeOK
    <2> SUFFICES ASSUME Init PROVE TypeOK
      OBVIOUS
    <2>2. /\ state \in States /\ up \subseteq Subsystems
          /\ stage \in [Callers -> 1 .. 7]
          /\ allocate \in Allocators /\ deallocate \in Allocators
          /\ name \in Allocators \cup {"none"}
      BY DEF Init, States, Allocators
    <2> QED
      BY <2>2 DEF Init, TypeOK, InitPoints, ShutdownPoints, AllocatorPoints
  <1>2. TypeOK /\ [Next]_vars => TypeOK'
    <2> SUFFICES ASSUME TypeOK, [Next]_vars PROVE TypeOK'
      OBVIOUS
    <2> USE DEF TypeOK, States, Allocators, Goto, Exchange, Advance, memoryVars,
                InitPoints, ShutdownPoints, AllocatorPoints
    <2>1. CASE UNCHANGED vars
      BY <2>1 DEF vars
    <2>2. ASSUME NEW t \in Callers,
                 InitCall(t) \/ InitFinish(t) \/ InitError(t) \/ InitStageFails(t)
          PROVE  TypeOK'
      BY <2>2 DEF InitCall, InitFinish, InitError, InitStageFails
    <2>7. ASSUME NEW t \in Callers, InitName(t) PROVE TypeOK'
      <3>2. name' \in Allocators \cup {"none"} /\ UNCHANGED <<state, up, stage, allocate, deallocate>>
        BY <2>7 DEF InitName
      <3>3. pc' \in [Callers -> {"idle", "using"} \cup InitPoints \cup ShutdownPoints \cup AllocatorPoints]
        BY <2>7 DEF InitName
      <3> QED
        BY <3>2, <3>3
    <2>3. ASSUME NEW t \in Callers, InitStage(t) PROVE TypeOK'
      BY <2>3, Orders, OrderTypes DEF InitStage
    <2>4. ASSUME NEW t \in Callers, ShutdownStage(t) PROVE TypeOK'
      BY <2>4, Orders DEF ShutdownStage
    <2>5. ASSUME NEW t \in Callers,
                 ShutdownCall(t) \/ ClearAllocators(t) \/ ShutdownFinish(t)
          PROVE  TypeOK'
      BY <2>5 DEF ShutdownCall, ClearAllocators, ShutdownFinish
    <2>6. ASSUME NEW t \in Callers,
                 AllocatorsCall(t) \/ AllocatorsSet(t) \/ AllocatorsRestore(t)
                   \/ UseCall(t) \/ UseReturn(t)
          PROVE  TypeOK'
      BY <2>6 DEF AllocatorsCall, AllocatorsSet, AllocatorsRestore, UseCall, UseReturn
    <2> QED
      BY <2>1, <2>2, <2>3, <2>4, <2>5, <2>6, <2>7 DEF Next
  <1> QED
    BY <1>1, <1>2, PTL DEF Spec

(* The conjuncts of Handover.                                              *)
Parts ==
    /\ OneManager /\ ManagerState /\ ShutdownAlone /\ ManagerProgress
    /\ ShutdownOwned /\ StateTellsSubsystems /\ ThreadsHaveQueues

LEMMA HandoverStep ==
    ASSUME SerialShutdown, TypeOK, Parts, [Next]_vars
    PROVE  Parts'
  <1> USE DEF Parts, OneManager, ManagerState, ShutdownAlone, ShutdownOwned,
              ManagerProgress, StateTellsSubsystems, ThreadsHaveQueues, Managing, InitPoints,
              ShutdownPoints, AllocatorPoints, Goto, Exchange, TypeOK
  <1>1. CASE UNCHANGED vars
    BY <1>1 DEF vars
  <1>2. ASSUME NEW t \in Callers, InitCall(t) PROVE Parts'
    BY <1>2 DEF InitCall
  <1>3. ASSUME NEW t \in Callers, InitName(t) PROVE Parts'
    <2>1. /\ state' = state /\ up' = up /\ stage' = stage
          /\ pc[t] = "name"
          /\ pc' = [pc EXCEPT ![t] = "init"] \/ pc' = [pc EXCEPT ![t] = "failed"]
      BY <1>3 DEF InitName
    <2>2. stage[t] = 1 /\ up = {}
      BY <2>1
    <2>3. ManagerProgress'
      BY <2>1, <2>2, HandledInit
    <2> QED
      BY <2>1, <2>2, <2>3
  <1>5. ASSUME NEW t \in Callers, InitStageFails(t) PROVE Parts'
    BY <1>5 DEF InitStageFails
  <1>6. ASSUME NEW t \in Callers, InitFinish(t) PROVE Parts'
    BY <1>6, Orders, HandledInit DEF InitFinish
  <1>7. ASSUME NEW t \in Callers, InitError(t) PROVE Parts'
    BY <1>7 DEF InitError
  <1>8. ASSUME NEW t \in Callers, ShutdownCall(t) PROVE Parts'
    BY <1>8, Orders, HandledShutdown DEF ShutdownCall
  <1>10. ASSUME NEW t \in Callers, ClearAllocators(t) PROVE Parts'
    BY <1>10 DEF ClearAllocators
  <1>11. ASSUME NEW t \in Callers, ShutdownFinish(t) PROVE Parts'
    BY <1>11 DEF ShutdownFinish
  <1>12. ASSUME NEW t \in Callers,
                AllocatorsCall(t) \/ AllocatorsSet(t) \/ AllocatorsRestore(t)
         PROVE  Parts'
    BY <1>12 DEF AllocatorsCall, AllocatorsSet, AllocatorsRestore
  <1>13. ASSUME NEW t \in Callers, UseCall(t) \/ UseReturn(t) PROVE Parts'
    BY <1>13 DEF UseCall, UseReturn
  <1>4. ASSUME NEW t \in Callers, InitStage(t) PROVE Parts'
    <2>1. up' = Handled(InitOrder, stage'[t]) /\ stage'[t] = stage[t] + 1 /\ stage'[t] \in 1 .. 7
      BY <1>4, Orders, HandledStep DEF InitStage, Advance
    <2>2. ThreadsHaveQueues'
      BY <2>1, OrdersRespectThreads DEF HaveQueues
    <2> QED
      BY <1>4, <2>1, <2>2 DEF InitStage, Advance
  <1>9. ASSUME NEW t \in Callers, ShutdownStage(t) PROVE Parts'
    <2>1. /\ stage'[t] = stage[t] + 1 /\ stage'[t] \in 2 .. 7
          /\ up' = Subsystems \ Handled(ShutdownOrder, stage'[t])
      BY <1>9, Orders, HandledStep DEF ShutdownStage, Advance
    <2>2. ThreadsHaveQueues'
      BY <2>1, OrdersRespectThreads DEF HaveQueues
    <2>3. stage[t] = 6 => up' = {}
      BY <2>1, HandledShutdown
    <2> QED
      BY <1>9, <2>1, <2>2, <2>3, Orders DEF ShutdownStage, Advance
  <1> QED
    BY <1>1, <1>2, <1>3, <1>4, <1>5, <1>6, <1>7, <1>8, <1>9, <1>10, <1>11, <1>12, <1>13 DEF Next

LEMMA HandoverInit == Init => Parts
  BY HandledInit
     DEF Init, Parts, OneManager, ManagerState, ShutdownAlone, ManagerProgress, ShutdownOwned,
         StateTellsSubsystems, ThreadsHaveQueues, Managing, InitPoints, ShutdownPoints,
         AllocatorPoints

\* The exchanges of external_api.c hand the module over: whoever brings
\* subsystems up or down owns the state, and no subsystem is left half way.
THEOREM LifecycleHandover == Spec => []Handover
  <1>1. Init => Handover
    BY HandoverInit DEF Handover, Parts
  <1>2. TypeOK /\ Handover /\ [Next]_vars => Handover'
    BY HandoverStep DEF Handover, Parts
  <1> QED
    BY <1>1, <1>2, LifecycleType, PTL DEF Spec

\* Init, shutdown and set_allocators never run at the same time, whatever
\* the number of application threads, if shutdown calls do not overlap.
THEOREM LifecycleOneManager == Spec => [](SerialShutdown => OneManager)
  <1>1. Handover => (SerialShutdown => OneManager)
    BY DEF Handover
  <1> QED
    BY <1>1, LifecycleHandover, PTL

\* A caller that finds INIT_FINISHED finds every subsystem up, one that
\* finds SHUTDOWN finds all of them down, under the same condition.
THEOREM LifecycleSubsystems == Spec => [](SerialShutdown => StateTellsSubsystems)
  <1>1. Handover => (SerialShutdown => StateTellsSubsystems)
    BY DEF Handover
  <1> QED
    BY <1>1, LifecycleHandover, PTL

\* The threads never outlive the queues and trampolines they use, under the
\* same condition.
THEOREM LifecycleThreads == Spec => [](SerialShutdown => ThreadsHaveQueues)
  <1>1. Handover => (SerialShutdown => ThreadsHaveQueues)
    BY DEF Handover
  <1> QED
    BY <1>1, LifecycleHandover, PTL

-----------------------------------------------------------------------------
\* No step of any caller changes the allocators while a subsystem exists,
\* under the same condition.
THEOREM LifecycleStableAllocators == SerialShutdown /\ Spec => StableAllocators
  <1> SUFFICES ASSUME SerialShutdown PROVE Spec => StableAllocators
    OBVIOUS
  <1>1. ASSUME Handover, [Next]_vars
        PROVE  [up # {} => UNCHANGED <<allocate, deallocate>>]_vars
    <2> USE <1>1 DEF Handover, ManagerState, ManagerProgress, StateTellsSubsystems, Goto
    <2>1. CASE UNCHANGED vars
      BY <2>1
    <2>2. ASSUME NEW t \in Callers, ClearAllocators(t) PROVE up = {}
      BY <2>2 DEF ClearAllocators
    <2>3. ASSUME NEW t \in Callers, AllocatorsSet(t) PROVE up = {}
      BY <2>3 DEF AllocatorsSet, AllocatorPoints
    <2>4. ASSUME NEW t \in Callers,
                 \/ InitCall(t) \/ InitName(t) \/ InitStage(t) \/ InitStageFails(t)
                 \/ InitFinish(t) \/ InitError(t) \/ ShutdownCall(t) \/ ShutdownStage(t)
                 \/ ShutdownFinish(t) \/ AllocatorsCall(t) \/ AllocatorsRestore(t)
                 \/ UseCall(t) \/ UseReturn(t)
          PROVE  UNCHANGED <<allocate, deallocate>>
      BY <2>4 DEF InitCall, InitName, InitStage, InitStageFails, InitFinish, InitError,
                  ShutdownCall, ShutdownStage, ShutdownFinish, AllocatorsCall,
                  AllocatorsRestore, UseCall, UseReturn, memoryVars
    <2> QED
      BY <2>1, <2>2, <2>3, <2>4 DEF Next
  <1> QED
    BY <1>1, LifecycleHandover, PTL DEF Spec, StableAllocators

\* No step of any caller changes the state, the subsystems, the allocators or
\* the name after an init has failed, under the same condition.
THEOREM LifecycleFinal == SerialShutdown /\ Spec => FailureIsFinal
  <1> SUFFICES ASSUME SerialShutdown PROVE Spec => FailureIsFinal
    OBVIOUS
  <1>1. ASSUME Handover, [Next]_vars
        PROVE  [state = "INTERNAL_ERROR" => UNCHANGED <<state, up, memoryVars>>]_vars
    <2> USE <1>1 DEF Handover, ManagerState, InitPoints, AllocatorPoints, Goto
    <2> SUFFICES ASSUME state = "INTERNAL_ERROR", ~UNCHANGED vars PROVE UNCHANGED <<state, up, memoryVars>>
      OBVIOUS
    <2>1. ASSUME NEW t \in Callers,
                 \/ InitCall(t) \/ InitName(t) \/ InitStage(t) \/ InitStageFails(t)
                 \/ InitFinish(t) \/ InitError(t) \/ ShutdownStage(t) \/ ClearAllocators(t)
                 \/ AllocatorsCall(t) \/ AllocatorsSet(t) \/ AllocatorsRestore(t) \/ UseCall(t)
          PROVE  FALSE
      BY <2>1 DEF InitCall, InitName, InitStage, InitStageFails, InitFinish, InitError,
                  ShutdownStage, ClearAllocators, AllocatorsCall, AllocatorsSet,
                  AllocatorsRestore, UseCall
    <2>2. ASSUME NEW t \in Callers, ShutdownCall(t) \/ ShutdownFinish(t) \/ UseReturn(t)
          PROVE  UNCHANGED <<state, up, memoryVars>>
      BY <2>2 DEF ShutdownCall, ShutdownFinish, UseReturn, Exchange
    <2> QED
      BY <2>1, <2>2 DEF Next
  <1> QED
    BY <1>1, LifecycleHandover, PTL DEF Spec, FailureIsFinal

(* SessionName, and what an init that has set the name knows.              *)
NameOwned ==
    /\ allocate = deallocate
    /\ SessionName
    /\ \A t \in Callers : pc[t] = "init" => name = allocate

\* In every session the application name belongs to the installed allocator,
\* under the same condition.
THEOREM LifecycleSessionName == Spec => [](SerialShutdown => SessionName)
  <1>1. Init => NameOwned
    BY DEF Init, NameOwned, SessionName
  <1>2. ASSUME SerialShutdown, TypeOK, Handover, NameOwned, [Next]_vars PROVE NameOwned'
    <2> USE <1>2 DEF NameOwned, SessionName, Goto, Exchange, memoryVars, TypeOK
    <2>0. OneManager /\ ManagerState
      BY DEF Handover
    <2>1. CASE UNCHANGED vars
      BY <2>1 DEF vars
    <2>2. ASSUME NEW t \in Callers, InitCall(t) \/ InitStage(t) \/ InitStageFails(t) PROVE NameOwned'
      BY <2>2 DEF InitCall, InitStage, InitStageFails
    <2>3. ASSUME NEW t \in Callers, InitName(t) PROVE NameOwned'
      BY <2>0, <2>3 DEF InitName, OneManager, ManagerState, Managing, InitPoints
    <2>4. ASSUME NEW t \in Callers, InitFinish(t) \/ InitError(t) PROVE NameOwned'
      BY <2>4 DEF InitFinish, InitError
    <2>5. ASSUME NEW t \in Callers, ShutdownCall(t) \/ ShutdownStage(t) \/ ShutdownFinish(t)
          PROVE  NameOwned'
      BY <2>5 DEF ShutdownCall, ShutdownStage, ShutdownFinish
    <2>6. ASSUME NEW t \in Callers, ClearAllocators(t) \/ AllocatorsSet(t) PROVE NameOwned'
      BY <2>0, <2>6 DEF ClearAllocators, AllocatorsSet, OneManager, ManagerState, Managing,
                        InitPoints, AllocatorPoints
    <2>7. ASSUME NEW t \in Callers,
                 AllocatorsCall(t) \/ AllocatorsRestore(t) \/ UseCall(t) \/ UseReturn(t)
          PROVE  NameOwned'
      BY <2>7 DEF AllocatorsCall, AllocatorsRestore, UseCall, UseReturn
    <2> QED
      BY <2>1, <2>2, <2>3, <2>4, <2>5, <2>6, <2>7 DEF Next
  <1>3. NameOwned => SessionName
    BY DEF NameOwned
  <1>4. TypeOK /\ Handover /\ (SerialShutdown => NameOwned) /\ [Next]_vars
          => (SerialShutdown => NameOwned)'
    BY <1>2
  <1> QED
    BY <1>1, <1>3, <1>4, LifecycleType, LifecycleHandover, PTL DEF Spec
=============================================================================
