----------------------------- MODULE Lifecycle ------------------------------
(***************************************************************************)
(* src/core/src/external_api.c: the module state machine.  init, shutdown  *)
(* and set_allocators take the module state with an atomic exchange, then  *)
(* bring the subsystems up or down one by one; the other calls look at the *)
(* state once and go on.  Also the allocators (memory.c), the application  *)
(* name (configuration.c) that outlives a shutdown, and the state of the   *)
(* message queues (message_queue.c), which has an exchange of its own.     *)
(***************************************************************************)
EXTENDS Integers, Sequences, FiniteSets

CONSTANTS
    Callers,         \* application threads
    SerialShutdown   \* TRUE: the application makes one shutdown call at a time

ASSUME SerialAssumption == SerialShutdown \in BOOLEAN

VARIABLES
    state,       \* connector_module_state.state
    up,          \* the subsystems that are initialised
    pc,          \* where each caller is
    stage,       \* stage[t]: the subsystem t handles next
    allocate,    \* connector_memory_allocate
    deallocate,  \* connector_memory_free
    name         \* the allocator application_name came from, "none" if NULL

vars == <<state, up, pc, stage, allocate, deallocate, name>>
memoryVars == <<allocate, deallocate, name>>

Subsystems == {"directory", "context", "queues", "trampolines", "dispatch", "comm"}
Allocators == {"system", "custom"}

InitOrder == <<"directory", "context", "queues", "trampolines", "dispatch", "comm">>

ShutdownOrder_QueuesFirst ==
    <<"context", "queues", "comm", "dispatch", "trampolines", "directory">>
ShutdownOrder_NoTrampolines ==
    <<"context", "comm", "dispatch", "queues", "directory", "directory">>

ShutdownOrder == <<"context", "comm", "dispatch", "queues", "trampolines", "directory">>

Init ==
    /\ state = "SHUTDOWN"
    /\ up = {}
    /\ pc = [t \in Callers |-> "idle"]
    /\ stage = [t \in Callers |-> 1]
    /\ allocate = "system"
    /\ deallocate = "system"
    /\ name = "none"

(* CONNECTOR_ATOMIC_COMPARE_EXCHANGE on the state, and a jump of t.        *)
Exchange(old, new) == state' = IF state = old THEN new ELSE state

Goto(t, from, to) ==
    /\ pc[t] = from
    /\ pc' = [pc EXCEPT ![t] = to]

Advance(t) == stage' = [stage EXCEPT ![t] = @ + 1]

-----------------------------------------------------------------------------
(* substance_connector_init *)

InitCall_DuringAllocators(t) ==
    /\ state \in {"SHUTDOWN", "ALLOCATOR_STARTED"}
    /\ state' = "INIT_STARTED"
    /\ Goto(t, "idle", "name")
    /\ UNCHANGED <<up, stage, memoryVars>>

InitCall(t) ==
    /\ state = "SHUTDOWN"
    /\ Exchange("SHUTDOWN", "INIT_STARTED")
    /\ Goto(t, "idle", "name")
    /\ UNCHANGED <<up, stage, memoryVars>>

InitName_Keep(t) ==
    /\ \/ Goto(t, "name", "init") /\ name' = IF name = "none" THEN allocate ELSE name
       \/ Goto(t, "name", "failed") /\ name' = "none"
    /\ UNCHANGED <<state, up, stage, allocate, deallocate>>

(* connector_set_application_name frees the previous name and copies the   *)
(* new one, which fails without memory or for a NULL name.                 *)
InitName(t) ==
    /\ \/ Goto(t, "name", "init") /\ name' = allocate
       \/ Goto(t, "name", "failed") /\ name' = "none"
    /\ UNCHANGED <<state, up, stage, allocate, deallocate>>

(* One subsystem comes up.  The message queues refuse to be initialised    *)
(* twice; the others do not look.                                          *)
InitStage(t) ==
    LET s == InitOrder[stage[t]] IN
    /\ stage[t] <= Len(InitOrder)
    /\ s = "queues" => s \notin up
    /\ pc[t] = "init"
    /\ up' = up \cup {s}
    /\ Advance(t)
    /\ UNCHANGED <<state, pc, memoryVars>>

(* Its initialisation fails; what is up already stays up.                  *)
InitStageFails(t) ==
    LET s == InitOrder[stage[t]] IN
    /\ stage[t] <= Len(InitOrder)
    /\ s \in {"directory", "context"} \/ (s = "queues" /\ s \in up)
    /\ Goto(t, "init", "failed")
    /\ UNCHANGED <<state, up, stage, memoryVars>>

InitFinish(t) ==
    /\ stage[t] > Len(InitOrder)
    /\ Goto(t, "init", "idle")
    /\ Exchange("INIT_STARTED", "INIT_FINISHED")
    /\ stage' = [stage EXCEPT ![t] = 1]
    /\ UNCHANGED <<up, memoryVars>>

InitError(t) ==
    /\ Goto(t, "failed", "idle")
    /\ Exchange("INIT_STARTED", "INTERNAL_ERROR")
    /\ stage' = [stage EXCEPT ![t] = 1]
    /\ UNCHANGED <<up, memoryVars>>

-----------------------------------------------------------------------------
(* substance_connector_shutdown *)

ShutdownPoints == {"shutdown", "clear", "finish"}

(* A call that does not find INIT_FINISHED skips to the last exchange.     *)
ShutdownCall(t) ==
    /\ SerialShutdown => \A u \in Callers : pc[u] \notin ShutdownPoints
    /\ Exchange("INIT_FINISHED", "SHUTDOWN_STARTED")
    /\ Goto(t, "idle", IF state = "INIT_FINISHED" THEN "shutdown" ELSE "finish")
    /\ UNCHANGED <<up, stage, memoryVars>>

ShutdownStage(t) ==
    /\ pc[t] = "shutdown"
    /\ stage[t] <= Len(ShutdownOrder)
    /\ up' = up \ {ShutdownOrder[stage[t]]}
    /\ Advance(t)
    /\ pc' = [pc EXCEPT ![t] = IF stage[t] = Len(ShutdownOrder) THEN "clear" ELSE @]
    /\ UNCHANGED <<state, memoryVars>>

(* connector_clear_allocators *)
ClearAllocators(t) ==
    /\ Goto(t, "clear", "finish")
    /\ allocate' = "system"
    /\ deallocate' = "system"
    /\ UNCHANGED <<state, up, stage, name>>

(* The last exchange is made by every call, also one that did nothing.     *)
ShutdownFinish(t) ==
    /\ Goto(t, "finish", "idle")
    /\ Exchange("SHUTDOWN_STARTED", "SHUTDOWN")
    /\ stage' = [stage EXCEPT ![t] = 1]
    /\ UNCHANGED <<up, memoryVars>>

-----------------------------------------------------------------------------
(* substance_connector_set_allocators *)

AllocatorsCall_Anytime(t) ==
    /\ Exchange("SHUTDOWN", "ALLOCATOR_STARTED")
    /\ Goto(t, "idle", "allocators")
    /\ UNCHANGED <<up, stage, memoryVars>>

AllocatorsCall(t) ==
    /\ state = "SHUTDOWN"
    /\ Exchange("SHUTDOWN", "ALLOCATOR_STARTED")
    /\ Goto(t, "idle", "allocators")
    /\ UNCHANGED <<up, stage, memoryVars>>

(* Both are given and set, or nothing is set.                              *)
AllocatorsSet(t) ==
    /\ Goto(t, "allocators", "restore")
    /\ \/ allocate' = "custom" /\ deallocate' = "custom"
       \/ UNCHANGED <<allocate, deallocate>>
    /\ UNCHANGED <<state, up, stage, name>>

AllocatorsRestore(t) ==
    /\ Goto(t, "restore", "idle")
    /\ Exchange("ALLOCATOR_STARTED", "SHUTDOWN")
    /\ UNCHANGED <<up, stage, memoryVars>>

-----------------------------------------------------------------------------
(* write_message, add/remove_trampoline, open, connect and broadcast: the  *)
(* state is read once, then the call does its work.                        *)
UseCall(t) ==
    /\ state = "INIT_FINISHED"
    /\ Goto(t, "idle", "using")
    /\ UNCHANGED <<state, up, stage, memoryVars>>

UseReturn(t) ==
    /\ Goto(t, "using", "idle")
    /\ UNCHANGED <<state, up, stage, memoryVars>>

Next ==
    \E t \in Callers :
        \/ InitCall(t) \/ InitName(t) \/ InitStage(t) \/ InitStageFails(t)
        \/ InitFinish(t) \/ InitError(t)
        \/ ShutdownCall(t) \/ ShutdownStage(t) \/ ClearAllocators(t) \/ ShutdownFinish(t)
        \/ AllocatorsCall(t) \/ AllocatorsSet(t) \/ AllocatorsRestore(t)
        \/ UseCall(t) \/ UseReturn(t)

Spec == Init /\ [][Next]_vars

-----------------------------------------------------------------------------
(* Properties *)

States == {"SHUTDOWN", "INIT_STARTED", "INIT_FINISHED", "SHUTDOWN_STARTED",
           "ALLOCATOR_STARTED", "INTERNAL_ERROR"}
InitPoints == {"name", "init", "failed"}
AllocatorPoints == {"allocators", "restore"}

\* Types of the state.
TypeOK ==
    /\ state \in States
    /\ up \subseteq Subsystems
    /\ pc \in [Callers -> {"idle", "using"} \cup InitPoints \cup ShutdownPoints \cup AllocatorPoints]
    /\ stage \in [Callers -> 1 .. 7]
    /\ allocate \in Allocators /\ deallocate \in Allocators
    /\ name \in Allocators \cup {"none"}

(* Callers that bring subsystems up or down or change the allocators.      *)
Managing(t) == pc[t] \in InitPoints \cup {"shutdown", "clear"} \cup AllocatorPoints

\* The exchanges on the module state keep init, shutdown and set_allocators
\* apart: no two callers are inside them at a time (external_api.c:61, :131
\* and :196), as long as the application does not call shutdown twice at
\* once.
OneManager == \A t, u \in Callers : Managing(t) /\ Managing(u) => t = u

\* Between calls the state tells which subsystems exist: all of them after
\* init, none after shutdown (external_api.c:98-103, :181).
StateTellsSubsystems ==
    /\ state = "INIT_FINISHED" => up = Subsystems
    /\ state \in {"SHUTDOWN", "ALLOCATOR_STARTED"} => up = {}

\* While the dispatch, read or write threads run, the message queues and the
\* trampolines they use exist (the orders of external_api.c:70-96 and
\* :137-172).
ThreadsHaveQueues ==
    /\ "dispatch" \in up => {"queues", "trampolines"} \subseteq up
    /\ "comm" \in up => {"queues", "trampolines", "dispatch"} \subseteq up

\* uint_queue.h:39-40: the queue "should be called after any join calls on
\* threads that may have been using it": the free contexts exist as long as
\* the read threads, which return contexts to them, do.
ContextsOutliveThreads ==
    state \in {"INIT_FINISHED", "SHUTDOWN_STARTED"} /\ "comm" \in up => "context" \in up

\* memory.h:44: the deallocator is "set to match the memory allocator
\* function", and while the module is initialised the application name was
\* allocated by the allocator that is installed: a name never outlives a
\* change of the allocators within a session (configuration.c:68).
SessionName == state = "INIT_FINISHED" => name = allocate /\ allocate = deallocate

\* The allocators are exchanged only while no subsystem exists, so that no
\* block of a subsystem is freed by another allocator's deallocator
\* (external_api.c:174, :196-213).
StableAllocators == [][up # {} => UNCHANGED <<allocate, deallocate>>]_vars

\* An init that failed is final (external_api.c:111-119): whatever calls were
\* under way or come later, the subsystems it brought up stay as they are,
\* with the allocators and the name they were made with, and no init or
\* shutdown gets through any more.
FailureIsFinal == [][state = "INTERNAL_ERROR" => UNCHANGED <<state, up, memoryVars>>]_vars

-----------------------------------------------------------------------------
(* What the state says of the caller that manages, and how far it is.      *)

Handled(order, n) == {order[i] : i \in 1 .. n - 1}

ManagerState ==
    \A t \in Callers :
        /\ pc[t] \in InitPoints => state = "INIT_STARTED"
        /\ pc[t] \in {"shutdown", "clear"} => state = "SHUTDOWN_STARTED"
        /\ pc[t] \in AllocatorPoints => state = "ALLOCATOR_STARTED"
        /\ pc[t] \in {"idle", "using", "name"} \cup AllocatorPoints => stage[t] = 1

(* A call that lost the first exchange is alone in shutdown.               *)
ShutdownAlone ==
    SerialShutdown =>
        \A t, u \in Callers : pc[t] \in ShutdownPoints /\ pc[u] \in ShutdownPoints => t = u

ManagerProgress ==
    \A t \in Callers :
        /\ pc[t] = "name" => up = {}
        /\ pc[t] \in {"init", "failed"} => up = Handled(InitOrder, stage[t])
        /\ pc[t] = "shutdown" => /\ up = Subsystems \ Handled(ShutdownOrder, stage[t])
                                 /\ stage[t] <= Len(ShutdownOrder)
        /\ pc[t] = "clear" => up = {}

(* SHUTDOWN_STARTED is left by the caller that entered it.                 *)
ShutdownOwned ==
    state = "SHUTDOWN_STARTED" /\ up # {} => \E t \in Callers : pc[t] = "shutdown"

\* The inductive invariant of the proofs: with it the exchanges at external_api.c:64, :131,
\* :181 and :199 hand the module from one caller to the next.
Handover ==
    SerialShutdown =>
        /\ OneManager /\ ManagerState /\ ShutdownAlone /\ ManagerProgress
        /\ ShutdownOwned /\ StateTellsSubsystems /\ ThreadsHaveQueues
=============================================================================
