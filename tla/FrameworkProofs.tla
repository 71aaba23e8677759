-------------------------- MODULE FrameworkProofs ---------------------------
(***************************************************************************)
(* Proofs about Framework for any applications, threads and number of      *)
(* sessions.  startupState belongs to one thread at a time: what a call of *)
(* registerApplication, init or shutdown has done so far is read off where *)
(* its thread is, and between calls off startupState itself.               *)
(* At the end the mesh exchange of the features, Schemas: what is written  *)
(* is read again, for any assets, fields and parcels.                      *)
(***************************************************************************)
EXTENDS Framework, Schemas, TLAPS

Points == {"idle", "add", "added", "init", "preInit", "core", "started", "postInit",
           "preShutdown", "postShutdown", "clear"}

(* The state a thread has stored in startupState on its way.               *)
Stored(p) ==
    CASE p \in {"add", "added"} -> "adding"
      [] p \in {"preInit", "core", "started", "postInit"} -> "initStarted"
      [] p \in {"preShutdown", "postShutdown"} -> "shutdownStarted"
      [] OTHER -> "none"

Manages(t) == Stored(pc[t]) # "none"

TypeOK ==
    /\ startupState \in {"shutdown", "adding", "initStarted", "initialized", "shutdownStarted"}
    /\ applications \subseteq Apps
    /\ callbackMap \in [Kinds -> Apps \cup {NULL}]
    /\ mCallbacks \subseteq Apps
    /\ instance \in [Kinds -> Apps \cup {NULL}]
    /\ core \in {"down", "up"}
    /\ pc \in [Callers -> Points]
    /\ arg \in [Callers -> Apps \cup {NULL}]
    /\ \A t \in Callers : pc[t] \in {"add", "added"} => arg[t] \in Apps
    /\ todo \in [Callers -> SUBSET Apps]
    /\ dpc \in [Dispatchers -> {"idle", "copy", "announce", "call", "emit"}]
    /\ DOMAIN dkind = Dispatchers
    /\ overlapped \in BOOLEAN /\ early \in BOOLEAN

(* The state is that of the one thread that manages the framework.         *)
OneManager ==
    /\ \A t \in Callers : Manages(t) => startupState = Stored(pc[t])
    /\ \A t, u \in Callers : Manages(t) /\ Manages(u) => t = u

(* The core runs from the middle of an init to the middle of a shutdown,   *)
(* and dispatch threads are busy only then.                                *)
CoreRuns ==
    /\ core = "up" <=>
        \/ startupState = "initialized"
        \/ \E t \in Callers : pc[t] \in {"started", "postInit", "preShutdown"}
    /\ \A d \in Dispatchers : dpc[d] # "idle" => core = "up"

(* A shutdown that still clears has the state to itself: the next call to  *)
(* change it would overlap.                                                *)
ClearAlone ==
    overlapped \/ \A t \in Callers : pc[t] = "clear" => startupState = "shutdown"

Unbound == mCallbacks = {} /\ \A k \in Kinds : callbackMap[k] = NULL

(* Each bound kind is bound to one of the applications, of that kind.      *)
BoundAmong(apps) ==
    \A k \in Kinds : callbackMap[k] # NULL => callbackMap[k] \in apps /\ KindOf[callbackMap[k]] = k

BoundAll ==
    /\ mCallbacks = applications
    /\ BoundAmong(applications)
    /\ \A a \in applications : callbackMap[KindOf[a]] # NULL

(* What is bound at each stage; a shutdown has yet to unbind todo.         *)
Stages ==
    /\ startupState \in {"shutdown", "adding"} => Unbound
    /\ startupState = "initialized" => BoundAll
    /\ \A t \in Callers :
        /\ pc[t] \in {"preInit", "postShutdown"} => Unbound
        /\ pc[t] \in {"core", "started", "postInit"} => BoundAll
        /\ pc[t] = "preShutdown" =>
            mCallbacks = todo[t] /\ todo[t] \subseteq applications /\ BoundAmong(todo[t])

(* The objects the framework knows or is about to know exist unless the    *)
(* program destroyed one, and a busy dispatch thread handles the kind of   *)
(* one of them.                                                            *)
KnownAlive ==
    /\ \A a \in applications : Alive(a)
    /\ \A t \in Callers : pc[t] \in {"add", "added"} => Alive(arg[t])

DispatchKnown ==
    \A d \in Dispatchers : dpc[d] # "idle" =>
        dkind[d] \in Kinds /\ \E a \in applications : KindOf[a] = dkind[d]

Control == TypeOK /\ OneManager /\ CoreRuns /\ ClearAlone

Inv ==
    /\ Control
    /\ early \/ KnownAlive
    /\ overlapped \/ (Stages /\ DispatchKnown)
    /\ featureLevel = applications
    /\ AnnouncesAll

-----------------------------------------------------------------------------
(* Where each point stands in the calls.                                   *)
LEMMA StoredIs ==
    /\ \A p \in {"idle", "init", "clear"} : Stored(p) = "none"
    /\ \A p \in {"add", "added"} : Stored(p) = "adding"
    /\ \A p \in {"preInit", "core", "started", "postInit"} : Stored(p) = "initStarted"
    /\ \A p \in {"preShutdown", "postShutdown"} : Stored(p) = "shutdownStarted"
  BY DEF Stored

(* An exchange of startupState overlaps with every shutdown that clears.   *)
LEMMA Overlaps ==
    ASSUME NEW from, NEW to, Exchange(from, to)
    PROVE  /\ startupState = from /\ startupState' = to
           /\ overlapped' \in BOOLEAN
           /\ overlapped => overlapped'
           /\ ~overlapped' => \A t \in Callers : pc[t] # "clear"
  BY Zenon DEF Exchange

(* Every step keeps startupState with the thread that manages, and the     *)
(* core and its dispatch threads within the session.                       *)
LEMMA ControlStep == Control /\ [Next]_vars => Control'
  <1> SUFFICES ASSUME Control, [Next]_vars PROVE Control'
    OBVIOUS
  <1> USE FrameworkAssumption, StoredIs
  <1>1. ASSUME NEW t \in Callers, NEW a \in Apps, Initialize(t, a)
        PROVE  Control'
    BY <1>1 DEF Initialize, Control, TypeOK, OneManager, CoreRuns, ClearAlone, Manages, Points,
      programVars, frameworkVars, coreVars, dispatchVars, qtVars
  <1>2. ASSUME NEW t \in Callers, NEW a \in Apps, Destroy(t, a)
        PROVE  Control'
    BY <1>2 DEF Destroy, Control, TypeOK, OneManager, CoreRuns, ClearAlone, Manages, Points,
      programVars, frameworkVars, coreVars, dispatchVars, qtVars
  <1>3. ASSUME NEW t \in Callers, NEW a \in Apps, RegisterBegin(t, a)
        PROVE  Control'
    BY <1>3, Overlaps DEF RegisterBegin, Control, TypeOK, OneManager, CoreRuns, ClearAlone,
      Manages, Points, programVars, frameworkVars, coreVars, dispatchVars, qtVars, Goto
  <1>4. ASSUME NEW t \in Callers, RegisterAdd(t)
        PROVE  Control'
    BY <1>4 DEF RegisterAdd, Control, TypeOK, OneManager, CoreRuns, ClearAlone, Manages,
      Points, programVars, frameworkVars, coreVars, dispatchVars, qtVars, Goto
  <1>5. ASSUME NEW t \in Callers, RegisterEnd(t)
        PROVE  Control'
    BY <1>5 DEF RegisterEnd, Control, TypeOK, OneManager, CoreRuns, ClearAlone, Manages,
      Points, programVars, frameworkVars, coreVars, dispatchVars, qtVars, Goto
  <1>6. ASSUME NEW t \in Callers, InitCall(t)
        PROVE  Control'
    BY <1>6 DEF InitCall, Control, TypeOK, OneManager, CoreRuns, ClearAlone, Manages, Points,
      programVars, frameworkVars, coreVars, dispatchVars, qtVars, Goto
  <1>7. ASSUME NEW t \in Callers, InitBegin(t)
        PROVE  Control'
    BY <1>7, Overlaps DEF InitBegin, Control, TypeOK, OneManager, CoreRuns, ClearAlone,
      Manages, Points, programVars, frameworkVars, coreVars, dispatchVars, qtVars, Goto
  <1>8. ASSUME NEW t \in Callers, InitRefused(t)
        PROVE  Control'
    BY <1>8 DEF InitRefused, Control, TypeOK, OneManager, CoreRuns, ClearAlone, Manages,
      Points, programVars, frameworkVars, coreVars, dispatchVars, qtVars, Goto
  <1>9. ASSUME NEW t \in Callers, PreInit(t)
        PROVE  Control'
    BY <1>9 DEF PreInit, Control, TypeOK, OneManager, CoreRuns, ClearAlone, Manages, Points,
      programVars, frameworkVars, coreVars, dispatchVars, qtVars, Goto
  <1>10. ASSUME NEW t \in Callers, InitCore(t)
        PROVE  Control'
    BY <1>10 DEF InitCore, Control, TypeOK, OneManager, CoreRuns, ClearAlone, Manages, Points,
      programVars, frameworkVars, coreVars, dispatchVars, qtVars, Goto
  <1>11. ASSUME NEW t \in Callers, InitCoreFails(t)
        PROVE  Control'
    BY <1>11 DEF InitCoreFails, Control, TypeOK, OneManager, CoreRuns, ClearAlone, Manages,
      Points, programVars, frameworkVars, coreVars, dispatchVars, qtVars, Goto
  <1>12. ASSUME NEW t \in Callers, InitTrampoline(t)
        PROVE  Control'
    BY <1>12 DEF InitTrampoline, Control, TypeOK, OneManager, CoreRuns, ClearAlone, Manages,
      Points, programVars, frameworkVars, coreVars, dispatchVars, qtVars, Goto
  <1>13. ASSUME NEW t \in Callers, InitEnd(t)
        PROVE  Control'
    BY <1>13 DEF InitEnd, Control, TypeOK, OneManager, CoreRuns, ClearAlone, Manages, Points,
      programVars, frameworkVars, coreVars, dispatchVars, qtVars, Goto
  <1>14. ASSUME NEW t \in Callers, Connect(t)
        PROVE  Control'
    BY <1>14 DEF Connect, Control, TypeOK, OneManager, CoreRuns, ClearAlone, Manages, Points,
      programVars, frameworkVars, coreVars, dispatchVars, qtVars
  <1>15. ASSUME NEW t \in Callers, ShutdownBegin(t)
        PROVE  Control'
    BY <1>15, Overlaps DEF ShutdownBegin, Control, TypeOK, OneManager, CoreRuns, ClearAlone,
      Manages, Points, programVars, frameworkVars, coreVars, dispatchVars, qtVars, Goto
  <1>16. ASSUME NEW t \in Callers, PreShutdown(t)
        PROVE  Control'
    BY <1>16 DEF PreShutdown, unbindCallback, Control, TypeOK, OneManager, CoreRuns, ClearAlone, Manages,
      Points, programVars, frameworkVars, coreVars, dispatchVars, qtVars
  <1>17. ASSUME NEW t \in Callers, ShutdownCore(t)
        PROVE  Control'
    BY <1>17 DEF ShutdownCore, Control, TypeOK, OneManager, CoreRuns, ClearAlone, Manages,
      Points, programVars, frameworkVars, coreVars, dispatchVars, qtVars, Goto, CoreStops
  <1>18. ASSUME NEW t \in Callers, ShutdownCoreFails(t)
        PROVE  Control'
    BY <1>18 DEF ShutdownCoreFails, Control, TypeOK, OneManager, CoreRuns, ClearAlone, Manages,
      Points, programVars, frameworkVars, coreVars, dispatchVars, qtVars, Goto, CoreStops
  <1>19. ASSUME NEW t \in Callers, ShutdownStore(t)
        PROVE  Control'
    BY <1>19 DEF ShutdownStore, Control, TypeOK, OneManager, CoreRuns, ClearAlone, Manages,
      Points, programVars, frameworkVars, coreVars, dispatchVars, qtVars, Goto
  <1>20. ASSUME NEW t \in Callers, ShutdownClear(t)
        PROVE  Control'
    BY <1>20 DEF ShutdownClear, Control, TypeOK, OneManager, CoreRuns, ClearAlone, Manages,
      Points, programVars, frameworkVars, coreVars, dispatchVars, qtVars, Goto
  <1>21. ASSUME NEW d \in Dispatchers, NEW k \in Kinds, DispatchFind(d, k)
        PROVE  Control'
    BY <1>21 DEF DispatchFind, Control, TypeOK, OneManager, CoreRuns, ClearAlone, Manages,
      Points, programVars, frameworkVars, coreVars, dispatchVars, qtVars, DispatchGoto
  <1>22. ASSUME NEW d \in Dispatchers, DispatchCopy(d)
        PROVE  Control'
    BY <1>22 DEF DispatchCopy, Control, TypeOK, OneManager, CoreRuns, ClearAlone, Manages,
      Points, programVars, frameworkVars, coreVars, dispatchVars, qtVars, DispatchGoto
  <1>23. ASSUME NEW d \in Dispatchers, DispatchLost(d)
        PROVE  Control'
    BY <1>23 DEF DispatchLost, Control, TypeOK, OneManager, CoreRuns, ClearAlone, Manages,
      Points, programVars, frameworkVars, coreVars, dispatchVars, qtVars, DispatchGoto
  <1>24. ASSUME NEW d \in Dispatchers, DispatchAnnounce(d)
        PROVE  Control'
    BY <1>24 DEF DispatchAnnounce, Control, TypeOK, OneManager, CoreRuns, ClearAlone, Manages,
      Points, programVars, frameworkVars, coreVars, dispatchVars, qtVars, DispatchGoto
  <1>25. ASSUME NEW d \in Dispatchers, DispatchCall(d)
        PROVE  Control'
    BY <1>25 DEF DispatchCall, Control, TypeOK, OneManager, CoreRuns, ClearAlone, Manages,
      Points, programVars, frameworkVars, coreVars, dispatchVars, qtVars, DispatchGoto
  <1>26. ASSUME NEW d \in Dispatchers, DispatchNone(d)
        PROVE  Control'
    BY <1>26 DEF DispatchNone, Control, TypeOK, OneManager, CoreRuns, ClearAlone, Manages,
      Points, programVars, frameworkVars, coreVars, dispatchVars, qtVars, DispatchGoto
  <1>27. ASSUME NEW d \in Dispatchers, DispatchEmit(d)
        PROVE  Control'
    BY <1>27 DEF DispatchEmit, Control, TypeOK, OneManager, CoreRuns, ClearAlone, Manages,
      Points, programVars, frameworkVars, coreVars, dispatchVars, qtVars, DispatchGoto
  <1>28. ASSUME UNCHANGED vars
        PROVE  Control'
    BY <1>28 DEF vars, Control, TypeOK, OneManager, CoreRuns, ClearAlone, Manages, Points,
      programVars, frameworkVars, coreVars, dispatchVars, qtVars
  <1> QED
    BY <1>1, <1>2, <1>3, <1>4, <1>5, <1>6, <1>7, <1>8, <1>9, <1>10, <1>11, <1>12, <1>13, <1>14,
       <1>15, <1>16, <1>17, <1>18, <1>19, <1>20, <1>21, <1>22, <1>23, <1>24, <1>25, <1>26,
       <1>27, <1>28
      DEF Next

(* The callbacks, the objects and the announced features follow.           *)
LEMMA SessionStep == Inv /\ [Next]_vars => Inv'
  <1> SUFFICES ASSUME Inv, [Next]_vars PROVE Inv'
    OBVIOUS
  <1>c. Control /\ Control'
    BY ControlStep DEF Inv
  <1> USE FrameworkAssumption, StoredIs, <1>c
  <1>1. ASSUME NEW t \in Callers, NEW a \in Apps, Initialize(t, a)
        PROVE  Inv'
    BY <1>1 DEF Initialize, Inv, Control, TypeOK, OneManager, CoreRuns, ClearAlone, Manages,
      KnownAlive, Alive, Stages, DispatchKnown, Unbound, BoundAll, BoundAmong, AnnouncesAll,
      programVars, frameworkVars, coreVars, dispatchVars, qtVars
  <1>2. ASSUME NEW t \in Callers, NEW a \in Apps, Destroy(t, a)
        PROVE  Inv'
    <2> USE DEF Destroy, programVars, frameworkVars, coreVars, dispatchVars
    <2>1. (overlapped \/ (Stages /\ DispatchKnown))' /\ (featureLevel = applications /\ AnnouncesAll)'
      BY <1>2 DEF Inv, Stages, DispatchKnown, Unbound, BoundAll, BoundAmong, AnnouncesAll
    <2>2. ASSUME ~early' PROVE KnownAlive'
      <3>1. ~early /\ a \notin applications /\ ~Registering(a)
        BY Zenon, <1>2, <2>2
      <3>2. KnownAlive
        BY <3>1 DEF Inv
      <3> QED
        BY <1>2, <3>1, <3>2 DEF Control, TypeOK, KnownAlive, Alive, Registering
    <2> QED
      BY <2>1, <2>2 DEF Inv
  <1>3. ASSUME NEW t \in Callers, NEW a \in Apps, RegisterBegin(t, a)
        PROVE  Inv'
    BY <1>3, Overlaps DEF RegisterBegin, Inv, Control, TypeOK, OneManager, CoreRuns,
      ClearAlone, Manages, KnownAlive, Alive, Stages, DispatchKnown, Unbound, BoundAll,
      BoundAmong, AnnouncesAll, programVars, frameworkVars, coreVars, dispatchVars, qtVars, Goto
  <1>4. ASSUME NEW t \in Callers, RegisterAdd(t)
        PROVE  Inv'
    BY <1>4 DEF RegisterAdd, Inv, Control, TypeOK, OneManager, CoreRuns, ClearAlone, Manages,
      KnownAlive, Alive, Stages, DispatchKnown, Unbound, BoundAll, BoundAmong, AnnouncesAll,
      programVars, frameworkVars, coreVars, dispatchVars, qtVars, Goto
  <1>5. ASSUME NEW t \in Callers, RegisterEnd(t)
        PROVE  Inv'
    BY <1>5 DEF RegisterEnd, Inv, Control, TypeOK, OneManager, CoreRuns, ClearAlone, Manages,
      KnownAlive, Alive, Stages, DispatchKnown, Unbound, BoundAll, BoundAmong, AnnouncesAll,
      programVars, frameworkVars, coreVars, dispatchVars, qtVars, Goto
  <1>6. ASSUME NEW t \in Callers, InitCall(t)
        PROVE  Inv'
    BY <1>6 DEF InitCall, Inv, Control, TypeOK, OneManager, CoreRuns, ClearAlone, Manages,
      KnownAlive, Alive, Stages, DispatchKnown, Unbound, BoundAll, BoundAmong, AnnouncesAll,
      programVars, frameworkVars, coreVars, dispatchVars, qtVars, Goto
  <1>7. ASSUME NEW t \in Callers, InitBegin(t)
        PROVE  Inv'
    BY <1>7, Overlaps DEF InitBegin, Inv, Control, TypeOK, OneManager, CoreRuns, ClearAlone,
      Manages, KnownAlive, Alive, Stages, DispatchKnown, Unbound, BoundAll, BoundAmong,
      AnnouncesAll, programVars, frameworkVars, coreVars, dispatchVars, qtVars, Goto
  <1>8. ASSUME NEW t \in Callers, InitRefused(t)
        PROVE  Inv'
    BY <1>8 DEF InitRefused, Inv, Control, TypeOK, OneManager, CoreRuns, ClearAlone, Manages,
      KnownAlive, Alive, Stages, DispatchKnown, Unbound, BoundAll, BoundAmong, AnnouncesAll,
      programVars, frameworkVars, coreVars, dispatchVars, qtVars, Goto
  <1>9. ASSUME NEW t \in Callers, PreInit(t)
        PROVE  Inv'
    BY <1>9 DEF PreInit, Inv, Control, TypeOK, OneManager, CoreRuns, ClearAlone, Manages,
      KnownAlive, Alive, Stages, DispatchKnown, Unbound, BoundAll, BoundAmong, AnnouncesAll,
      programVars, frameworkVars, coreVars, dispatchVars, qtVars, Goto, Bound
  <1>10. ASSUME NEW t \in Callers, InitCore(t)
        PROVE  Inv'
    BY <1>10 DEF InitCore, Inv, Control, TypeOK, OneManager, CoreRuns, ClearAlone, Manages,
      KnownAlive, Alive, Stages, DispatchKnown, Unbound, BoundAll, BoundAmong, AnnouncesAll,
      programVars, frameworkVars, coreVars, dispatchVars, qtVars, Goto
  <1>11. ASSUME NEW t \in Callers, InitCoreFails(t)
        PROVE  Inv'
    BY <1>11 DEF InitCoreFails, Inv, Control, TypeOK, OneManager, CoreRuns, ClearAlone,
      Manages, KnownAlive, Alive, Stages, DispatchKnown, Unbound, BoundAll, BoundAmong,
      AnnouncesAll, programVars, frameworkVars, coreVars, dispatchVars, qtVars, Goto
  <1>12. ASSUME NEW t \in Callers, InitTrampoline(t)
        PROVE  Inv'
    BY <1>12 DEF InitTrampoline, Inv, Control, TypeOK, OneManager, CoreRuns, ClearAlone,
      Manages, KnownAlive, Alive, Stages, DispatchKnown, Unbound, BoundAll, BoundAmong,
      AnnouncesAll, programVars, frameworkVars, coreVars, dispatchVars, qtVars, Goto
  <1>13. ASSUME NEW t \in Callers, InitEnd(t)
        PROVE  Inv'
    BY <1>13 DEF InitEnd, Inv, Control, TypeOK, OneManager, CoreRuns, ClearAlone, Manages,
      KnownAlive, Alive, Stages, DispatchKnown, Unbound, BoundAll, BoundAmong, AnnouncesAll,
      programVars, frameworkVars, coreVars, dispatchVars, qtVars, Goto
  <1>14. ASSUME NEW t \in Callers, Connect(t)
        PROVE  Inv'
    BY <1>14 DEF Connect, Inv, Control, TypeOK, OneManager, CoreRuns, ClearAlone, Manages,
      KnownAlive, Alive, Stages, DispatchKnown, Unbound, BoundAll, BoundAmong, AnnouncesAll,
      programVars, frameworkVars, coreVars, dispatchVars, qtVars
  <1>15. ASSUME NEW t \in Callers, ShutdownBegin(t)
        PROVE  Inv'
    BY <1>15, Overlaps DEF ShutdownBegin, Inv, Control, TypeOK, OneManager, CoreRuns,
      ClearAlone, Manages, KnownAlive, Alive, Stages, DispatchKnown, Unbound, BoundAll,
      BoundAmong, AnnouncesAll, programVars, frameworkVars, coreVars, dispatchVars, qtVars, Goto
  <1>16. ASSUME NEW t \in Callers, PreShutdown(t)
        PROVE  Inv'
    BY <1>16 DEF PreShutdown, unbindCallback, Inv, Control, TypeOK, OneManager, CoreRuns, ClearAlone, Manages,
      KnownAlive, Alive, Stages, DispatchKnown, Unbound, BoundAll, BoundAmong, AnnouncesAll,
      programVars, frameworkVars, coreVars, dispatchVars, qtVars
  <1>17. ASSUME NEW t \in Callers, ShutdownCore(t)
        PROVE  Inv'
    BY <1>17 DEF ShutdownCore, Inv, Control, TypeOK, OneManager, CoreRuns, ClearAlone, Manages,
      KnownAlive, Alive, Stages, DispatchKnown, Unbound, BoundAll, BoundAmong, AnnouncesAll,
      programVars, frameworkVars, coreVars, dispatchVars, qtVars, Goto, CoreStops
  <1>18. ASSUME NEW t \in Callers, ShutdownCoreFails(t)
        PROVE  Inv'
    BY <1>18 DEF ShutdownCoreFails, Inv, Control, TypeOK, OneManager, CoreRuns, ClearAlone,
      Manages, KnownAlive, Alive, Stages, DispatchKnown, Unbound, BoundAll, BoundAmong,
      AnnouncesAll, programVars, frameworkVars, coreVars, dispatchVars, qtVars, Goto, CoreStops
  <1>19. ASSUME NEW t \in Callers, ShutdownStore(t)
        PROVE  Inv'
    BY <1>19 DEF ShutdownStore, Inv, Control, TypeOK, OneManager, CoreRuns, ClearAlone,
      Manages, KnownAlive, Alive, Stages, DispatchKnown, Unbound, BoundAll, BoundAmong,
      AnnouncesAll, programVars, frameworkVars, coreVars, dispatchVars, qtVars, Goto
  <1>20. ASSUME NEW t \in Callers, ShutdownClear(t)
        PROVE  Inv'
    BY <1>20 DEF ShutdownClear, Inv, Control, TypeOK, OneManager, CoreRuns, ClearAlone,
      Manages, KnownAlive, Alive, Stages, DispatchKnown, Unbound, BoundAll, BoundAmong,
      AnnouncesAll, programVars, frameworkVars, coreVars, dispatchVars, qtVars, Goto
  <1>21. ASSUME NEW d \in Dispatchers, NEW k \in Kinds, DispatchFind(d, k)
        PROVE  Inv'
    BY <1>21 DEF DispatchFind, Inv, Control, TypeOK, OneManager, CoreRuns, ClearAlone, Manages,
      KnownAlive, Alive, Stages, DispatchKnown, Unbound, BoundAll, BoundAmong, AnnouncesAll,
      programVars, frameworkVars, coreVars, dispatchVars, qtVars, DispatchGoto
  <1>22. ASSUME NEW d \in Dispatchers, DispatchCopy(d)
        PROVE  Inv'
    BY <1>22 DEF DispatchCopy, Inv, Control, TypeOK, OneManager, CoreRuns, ClearAlone, Manages,
      KnownAlive, Alive, Stages, DispatchKnown, Unbound, BoundAll, BoundAmong, AnnouncesAll,
      programVars, frameworkVars, coreVars, dispatchVars, qtVars, DispatchGoto
  <1>23. ASSUME NEW d \in Dispatchers, DispatchLost(d)
        PROVE  Inv'
    BY <1>23 DEF DispatchLost, Inv, Control, TypeOK, OneManager, CoreRuns, ClearAlone, Manages,
      KnownAlive, Alive, Stages, DispatchKnown, Unbound, BoundAll, BoundAmong, AnnouncesAll,
      programVars, frameworkVars, coreVars, dispatchVars, qtVars, DispatchGoto
  <1>24. ASSUME NEW d \in Dispatchers, DispatchAnnounce(d)
        PROVE  Inv'
    BY <1>24 DEF DispatchAnnounce, Inv, Control, TypeOK, OneManager, CoreRuns, ClearAlone,
      Manages, KnownAlive, Alive, Stages, DispatchKnown, Unbound, BoundAll, BoundAmong,
      AnnouncesAll, programVars, frameworkVars, coreVars, dispatchVars, qtVars, getConnectionContext,
      DispatchGoto
  <1>25. ASSUME NEW d \in Dispatchers, DispatchCall(d)
        PROVE  Inv'
    BY <1>25 DEF DispatchCall, Inv, Control, TypeOK, OneManager, CoreRuns, ClearAlone, Manages,
      KnownAlive, Alive, Stages, DispatchKnown, Unbound, BoundAll, BoundAmong, AnnouncesAll,
      programVars, frameworkVars, coreVars, dispatchVars, qtVars, DispatchGoto
  <1>26. ASSUME NEW d \in Dispatchers, DispatchNone(d)
        PROVE  Inv'
    BY <1>26 DEF DispatchNone, Inv, Control, TypeOK, OneManager, CoreRuns, ClearAlone, Manages,
      KnownAlive, Alive, Stages, DispatchKnown, Unbound, BoundAll, BoundAmong, AnnouncesAll,
      programVars, frameworkVars, coreVars, dispatchVars, qtVars, DispatchGoto
  <1>27. ASSUME NEW d \in Dispatchers, DispatchEmit(d)
        PROVE  Inv'
    BY <1>27 DEF DispatchEmit, Inv, Control, TypeOK, OneManager, CoreRuns, ClearAlone, Manages,
      KnownAlive, Alive, Stages, DispatchKnown, Unbound, BoundAll, BoundAmong, AnnouncesAll,
      programVars, frameworkVars, coreVars, dispatchVars, qtVars, DispatchGoto
  <1>28. ASSUME UNCHANGED vars
        PROVE  Inv'
    BY <1>28 DEF vars, Inv, Control, TypeOK, OneManager, CoreRuns, ClearAlone, Manages,
      KnownAlive, Alive, Stages, DispatchKnown, Unbound, BoundAll, BoundAmong, AnnouncesAll,
      programVars, frameworkVars, coreVars, dispatchVars, qtVars
  <1> QED
    BY <1>1, <1>2, <1>3, <1>4, <1>5, <1>6, <1>7, <1>8, <1>9, <1>10, <1>11, <1>12, <1>13, <1>14,
       <1>15, <1>16, <1>17, <1>18, <1>19, <1>20, <1>21, <1>22, <1>23, <1>24, <1>25, <1>26,
       <1>27, <1>28
      DEF Next

-----------------------------------------------------------------------------
(* The invariant holds in every reachable state.                           *)
THEOREM FrameworkInv == Spec => []Inv
  <1>1. Init => Inv
    BY FrameworkAssumption, StoredIs
    DEF Init, Inv, Control, TypeOK, OneManager, CoreRuns, ClearAlone, Manages, Points,
      KnownAlive, Stages, DispatchKnown, Unbound, AnnouncesAll
  <1> QED
    BY <1>1, SessionStep, PTL DEF Spec

\* The instance a Qt callback found is still there when it emits its signal,
\* however the threads of the program interleave, if applications outlive the
\* framework's use of them (module-qt/src/system.cpp).
THEOREM FrameworkEmits == Spec => []EmitHasInstance
  <1>1. Inv => EmitHasInstance
    BY FrameworkAssumption
    DEF Inv, Control, TypeOK, KnownAlive, DispatchKnown, Alive, EmitHasInstance, InstanceFound
  <1> QED
    BY <1>1, FrameworkInv, PTL

\* While the framework is initialised exactly the kinds of its applications
\* are bound, each to one of them (callbacks.cpp).
THEOREM FrameworkCallbacks == Spec => []SessionCallbacks
  <1>1. Inv => SessionCallbacks
    BY FrameworkAssumption
    DEF Inv, Control, TypeOK, Stages, BoundAll, BoundAmong, SessionCallbacks
  <1> QED
    BY <1>1, FrameworkInv, PTL

\* The features written to a peer are those of the applications of the
\* session (core.cpp).
THEOREM FrameworkAnnounces == Spec => []AnnouncesAll
  <1>1. Inv => AnnouncesAll
    BY DEF Inv
  <1> QED
    BY <1>1, FrameworkInv, PTL

\* No step changes the applications or their features while the core runs:
\* dispatch threads may read them without a lock (core.cpp).
THEOREM FrameworkStable == Spec => FeaturesStable
  <1> DEFINE Stable == core = "up" \/ core' = "up" =>
                         (overlapped \/ UNCHANGED <<applications, featureLevel>>)
  <1>1. ASSUME Inv, Inv', [Next]_vars
        PROVE  [Stable]_vars
    <2> USE <1>1, StoredIs
    <2>1. ASSUME NEW t \in Callers, RegisterAdd(t)
          PROVE  Stable
      BY <2>1 DEF RegisterAdd, Goto, Inv, Control, TypeOK, OneManager, CoreRuns, Manages, coreVars
    <2>2. ASSUME NEW t \in Callers, ShutdownClear(t)
          PROVE  Stable
      BY <2>2
      DEF ShutdownClear, Goto, Inv, Control, TypeOK, OneManager, CoreRuns, ClearAlone, Manages, coreVars
    <2>3. Next /\ ~(\E t \in Callers : RegisterAdd(t) \/ ShutdownClear(t))
            => UNCHANGED <<applications, featureLevel>>
      BY DEF Next, Initialize, Destroy, RegisterBegin, RegisterEnd, InitCall, InitBegin,
        InitRefused, PreInit, InitCore, InitCoreFails, InitTrampoline, InitEnd, Connect,
        ShutdownBegin, PreShutdown, ShutdownCore, ShutdownCoreFails, ShutdownStore,
        DispatchFind, DispatchCopy, DispatchLost, DispatchAnnounce, DispatchCall,
        DispatchNone, DispatchEmit, frameworkVars
    <2> QED
      BY <2>1, <2>2, <2>3
  <1>2. Inv /\ Inv' /\ [Next]_vars => [Stable]_vars
    BY <1>1
  <1> QED
    BY <1>2, FrameworkInv, PTL DEF Spec, FeaturesStable

-----------------------------------------------------------------------------
(* The mesh exchange: Schemas.  What is on the wire says of which asset it *)
(* is, from the request to the configuration, whoever answered; of a C++   *)
(* importer's answer it is all that the importer filled in.                *)

Asked == stage = "requested" => asset \in Assets /\ wire = RequestSerialize(asset)

(* A document that names asset a; a Python importer adds an identifier of  *)
(* null where there is none.                                               *)
About(a, doc, importer) ==
    /\ "assetName" \in DOMAIN doc /\ doc["assetName"] = a.assetName
    /\ IF a.assetUuid # NONE
       THEN "assetUuid" \in DOMAIN doc /\ doc["assetUuid"] = a.assetUuid
       ELSE "assetUuid" \notin DOMAIN doc \/ (importer = "python" /\ doc["assetUuid"] = JNULL)

Answered ==
    stage \in {"replied", "configured", "thrown", "undefined"} =>
        /\ asset \in Assets /\ About(asset, wire, peer)
        /\ peer = "cpp" => /\ wire = Serialize(reply)
                           /\ \E wanted \in FieldSets, last \in BOOLEAN : reply = Filled(asset, wanted, last)

Sent ==
    /\ sending \in Parcels \cup {NoParcel}
    /\ stage = "loading" => wire = SendToSerialize(sending)

ExchangeInv == Asked /\ Answered /\ Sent /\ RightAsset /\ Understood

LEMMA FieldNames ==
    /\ Enums = {"colorFormat", "colorEncoding", "axisConvention", "unit", "topology"}
    /\ "assetName" \in Fields /\ "assetName" \notin Enums /\ "assetName" \notin Bools
    /\ "assetUuid" \in Fields /\ "assetUuid" \notin Enums /\ "assetUuid" \notin Bools
    /\ \A f \in Fields : f \in Enums \/ f \in Bools \/ f \in {"supportedFormats", "assetName", "assetUuid"}
    BY DEF Enums, Names, Fields, Options, Bools

\* No two names of an enumeration are equal, so the first and the last are
\* found again by getKeyFromValue.
LEMMA NamesDistinct ==
    ASSUME NEW f \in Enums
    PROVE  /\ Len(Names[f]) \in Nat /\ Len(Names[f]) >= 1 /\ DOMAIN Names[f] = 1 .. Len(Names[f])
           /\ \A i, j \in DOMAIN Names[f] : Names[f][i] = Names[f][j] => i = j
<1>1. CASE f = "colorFormat"
    BY <1>1 DEF Names
<1>2. CASE f = "colorEncoding"
    BY <1>2 DEF Names
<1>3. CASE f = "axisConvention"
    BY <1>3 DEF Names
<1>4. CASE f = "unit"
  <2> DEFINE s == <<"Millimeters", "Centimeters", "Meters", "Kilometers", "Inches", "Feet", "Yards", "Miles">>
  <2>1. Names[f] = s
    BY <1>4 DEF Names
  <2>2. Len(s) = 8 /\ DOMAIN s = 1 .. 8
    OBVIOUS
  <2>3. \A i, j \in 1 .. 8 : s[i] = s[j] => i = j
    OBVIOUS
  <2> QED BY <2>1, <2>2, <2>3
<1>5. CASE f = "topology"
    BY <1>5 DEF Names
<1> QED BY <1>1, <1>2, <1>3, <1>4, <1>5, FieldNames

LEMMA KeyFound ==
    ASSUME NEW f \in Enums, NEW i \in DOMAIN Names[f]
    PROVE  getKeyFromValue(f, Names[f][i]) = i
<1>1. \A j \in DOMAIN Names[f] : Names[f][j] = Names[f][i] => j = i
    BY NamesDistinct
<1> QED BY <1>1 DEF getKeyFromValue

LEMMA AssetType ==
    ASSUME NEW a \in Assets
    PROVE  /\ a = [assetName |-> a.assetName, assetUuid |-> a.assetUuid]
           /\ a.assetName # NONE /\ a.assetName # JNULL /\ a.assetUuid # JNULL
    BY SchemasAssumption

\* A request names its asset, and a C++ importer reads it.
LEMMA RequestAbout ==
    ASSUME NEW a \in Assets
    PROVE  /\ About(a, RequestSerialize(a), "cpp")
           /\ RequestDeserialize(NoAsset, RequestSerialize(a)) = a
<1> DEFINE doc == RequestSerialize(a)
<1>1. /\ DOMAIN doc = {"assetName"} \cup {g \in {"assetUuid"} : a[g] # NONE}
      /\ \A f \in DOMAIN doc : doc[f] = a[f]
    BY DEF RequestSerialize
<1> HIDE DEF doc
<1>2. About(a, doc, "cpp")
    BY <1>1 DEF About
<1>3. RequestDeserialize(NoAsset, doc) = [assetName |-> a.assetName, assetUuid |-> a.assetUuid]
    BY <1>2, AssetType DEF RequestDeserialize, About, AsString, NoAsset
<1> QED BY <1>2, <1>3, AssetType DEF doc

\* The answer of a C++ importer.
LEMMA AnswerCpp ==
    ASSUME NEW a \in Assets, NEW wanted \in FieldSets, NEW last \in BOOLEAN
    PROVE  About(a, Serialize(Filled(a, wanted, last)), "cpp")
<1> DEFINE o == Filled(a, wanted, last)
<1>1. o.assetName = a.assetName /\ o.assetUuid = a.assetUuid
    BY FieldNames DEF Filled
<1> HIDE DEF o
<1>2. /\ "assetName" \in Written(o)
      /\ "assetUuid" \in Written(o) <=> a.assetUuid # NONE
    BY <1>1, FieldNames, AssetType DEF Written
<1>3. \A f \in Written(o) : f \in {"assetName", "assetUuid"} => Serialize(o)[f] = o[f]
    BY FieldNames DEF Serialize
<1>4. DOMAIN Serialize(o) = Written(o)
    BY DEF Serialize
<1> QED BY <1>1, <1>2, <1>3, <1>4 DEF About, o

\* __init__ of the Python importer reaches the fields of the asset before
\* anything that may fail, and reads None where there is no identifier.
LEMMA PyAbout ==
    ASSUME NEW json
    PROVE  /\ "assetName" \in DOMAIN PyInit(json)
           /\ "assetUuid" \in DOMAIN PyInit(json)
           /\ "assetName" \in DOMAIN json => PyInit(json)["assetName"] = json["assetName"]
           /\ PyInit(json)["assetUuid"] = IF "assetUuid" \in DOMAIN json THEN json["assetUuid"] ELSE JNULL
<1> DEFINE reached == {i \in DOMAIN PyOrder : \A j \in 1 .. i : ~PyFails(PyOrder[j], json)}
           attrs == {PyOrder[i] : i \in reached}
           D == {g \in attrs : g = "supportedFormats" => g \in DOMAIN json}
<1>1. 1 \in DOMAIN PyOrder /\ 2 \in DOMAIN PyOrder /\ PyOrder[1] = "assetName" /\ PyOrder[2] = "assetUuid"
    BY DEF PyOrder
<1>2. ~PyFails("assetName", json) /\ ~PyFails("assetUuid", json)
    BY FieldNames DEF PyFails
<1>3. 1 \in reached /\ 2 \in reached
  <2>1. \A j \in 1 .. 1 : j = 1
    OBVIOUS
  <2>2. \A j \in 1 .. 2 : j = 1 \/ j = 2
    OBVIOUS
  <2> QED BY <1>1, <1>2, <2>1, <2>2
<1>4. "assetName" \in D /\ "assetUuid" \in D
    BY <1>1, <1>3
<1>5. PyInit(json) = [f \in D |-> IF f \in DOMAIN json THEN json[f] ELSE JNULL]
    BY DEF PyInit
<1> HIDE DEF D
<1> QED BY <1>4, <1>5

LEMMA AnswerPython ==
    ASSUME NEW a \in Assets, NEW wanted
    PROVE  About(a, PyReply(PyInit(RequestSerialize(a)), wanted), "python")
<1> DEFINE req == PyInit(RequestSerialize(a))
           json == [f \in DOMAIN req \cup wanted |->
                        IF f \in DOMAIN req THEN req[f]
                        ELSE IF f \in Enums THEN PyNames[f][1]
                        ELSE IF f = "supportedFormats" THEN <<"fbx">> ELSE TRUE]
<1>1. /\ "assetName" \in DOMAIN req /\ "assetUuid" \in DOMAIN req /\ req["assetName"] = a.assetName
      /\ req["assetUuid"] = IF a.assetUuid # NONE THEN a.assetUuid ELSE JNULL
    BY RequestAbout, PyAbout DEF About
<1> HIDE DEF req
<1>2. /\ "assetName" \in DOMAIN json /\ "assetUuid" \in DOMAIN json
      /\ json["assetName"] = req["assetName"] /\ json["assetUuid"] = req["assetUuid"]
    BY <1>1
<1>3. PyReply(req, wanted) = PyInit(json)
    BY DEF PyReply
<1> HIDE DEF json
<1>4. /\ "assetName" \in DOMAIN PyInit(json) /\ "assetUuid" \in DOMAIN PyInit(json)
      /\ PyInit(json)["assetName"] = json["assetName"] /\ PyInit(json)["assetUuid"] = json["assetUuid"]
    BY <1>2, PyAbout
<1> QED BY <1>1, <1>2, <1>3, <1>4 DEF About, req

\* What the exporter reads of the asset, into whatever object.
LEMMA ReadAsset ==
    ASSUME NEW a \in Assets, NEW doc, NEW importer, About(a, doc, importer), NEW o
    PROVE  /\ Deserialize(o, doc).assetName = a.assetName
           /\ \/ Deserialize(o, doc).assetUuid = a.assetUuid
              \/ a.assetUuid = NONE /\ importer = "python"
              \/ a.assetUuid = NONE /\ Deserialize(o, doc).assetUuid = o["assetUuid"]
<1>1. /\ Deserialize(o, doc).assetName = DeserializeField(o, "assetName", doc)
      /\ Deserialize(o, doc).assetUuid = DeserializeField(o, "assetUuid", doc)
    BY FieldNames DEF Deserialize
<1>2. DeserializeField(o, "assetName", doc) = a.assetName
    BY FieldNames, AssetType DEF DeserializeField, About, AsString
<1>3. \/ DeserializeField(o, "assetUuid", doc) = a.assetUuid
      \/ a.assetUuid = NONE /\ importer = "python"
      \/ a.assetUuid = NONE /\ DeserializeField(o, "assetUuid", doc) = o["assetUuid"]
    BY FieldNames, AssetType DEF DeserializeField, About, AsString
<1> QED BY <1>1, <1>2, <1>3

\* A new object gets, field by field, what a C++ importer filled in.
LEMMA ReadFilled ==
    ASSUME NEW a \in Assets, NEW wanted \in FieldSets, NEW last \in BOOLEAN,
           NEW f \in Fields, f # "supportedFormats", ~Throws(Serialize(Filled(a, wanted, last)))
    PROVE  Deserialize(Empty, Serialize(Filled(a, wanted, last)))[f] = Filled(a, wanted, last)[f]
<1> DEFINE o == Filled(a, wanted, last)
           doc == Serialize(o)
<1>1. o[f] = IF f \in {"assetName", "assetUuid"} THEN a[f]
             ELSE IF f \notin wanted THEN NONE
             ELSE IF f \in Enums THEN (IF last THEN Len(Names[f]) ELSE 1)
             ELSE last
    BY DEF Filled
<1>2. /\ DOMAIN doc = Written(o)
      /\ \A g \in Written(o) : g # "supportedFormats" => doc[g] = IF g \in Enums THEN Names[g][o[g]] ELSE o[g]
    BY DEF Serialize
<1>3. Empty[f] = IF f = "assetName" THEN "" ELSE NONE
    BY DEF Empty
<1>4. f \in Written(o) <=> o[f] # NONE
    BY DEF Written
<1>5. Deserialize(Empty, doc)[f] = DeserializeField(Empty, f, doc)
    BY DEF Deserialize
<1> HIDE DEF o, doc
<1>6. CASE f \in {"assetName", "assetUuid"}
  <2>1. f \notin Enums /\ f \notin Bools /\ o[f] = a[f] /\ a[f] # JNULL
    BY <1>1, <1>6, FieldNames, AssetType
  <2>2. f = "assetName" => o[f] # NONE
    BY <1>1, <1>6, AssetType
  <2>3. ASSUME o[f] # NONE PROVE DeserializeField(Empty, f, doc) = o[f]
    BY <1>2, <1>4, <2>1, <2>3 DEF DeserializeField, AsString
  <2>4. ASSUME o[f] = NONE PROVE DeserializeField(Empty, f, doc) = o[f]
    BY <1>2, <1>3, <1>4, <2>2, <2>4 DEF DeserializeField
  <2> QED BY <1>5, <2>3, <2>4 DEF doc, o
<1>7. CASE f \notin {"assetName", "assetUuid"} /\ f \notin wanted
    BY <1>1, <1>2, <1>3, <1>4, <1>5, <1>7 DEF DeserializeField, doc, o
<1>8. CASE f \in Enums /\ f \in wanted
  <2>1. f \notin {"assetName", "assetUuid"} /\ o[f] \in DOMAIN Names[f] /\ o[f] \in Nat
    BY <1>1, <1>8, FieldNames, NamesDistinct
  <2>2. o[f] # NONE
    BY <2>1, SchemasAssumption
  <2>3. doc[f] = Names[f][o[f]] /\ f \in DOMAIN doc
    BY <1>2, <1>4, <1>8, <2>2
  <2>4. DeserializeField(Empty, f, doc) = getKeyFromValue(f, Names[f][o[f]])
    BY <1>8, <2>3 DEF DeserializeField
  <2>5. getKeyFromValue(f, Names[f][o[f]]) = o[f]
    BY <1>8, <2>1, KeyFound
  <2> QED BY <1>5, <2>4, <2>5 DEF doc, o
<1>9. CASE f \in Bools /\ f \in wanted
  <2>1. f \notin Enums /\ f \notin {"assetName", "assetUuid"}
    BY <1>9 DEF Bools, Enums, Names
  <2>2. o[f] = last /\ last # NONE /\ last # JNULL
    BY <1>1, <1>9, <2>1, SchemasAssumption
  <2>3. doc[f] = last /\ f \in DOMAIN doc
    BY <1>2, <1>4, <2>1, <2>2
  <2>4. DeserializeField(Empty, f, doc) = (doc[f] # JNULL /\ doc[f])
    BY <1>9, <2>1, <2>3 DEF DeserializeField
  <2>5. (doc[f] # JNULL /\ doc[f]) = last
    BY <2>2, <2>3
  <2> QED BY <1>5, <2>2, <2>4, <2>5 DEF doc, o
<1> QED BY <1>6, <1>7, <1>8, <1>9, FieldNames

\* Formats are not written, or the reader throws on them.
LEMMA ReadNoFormats ==
    ASSUME NEW a, NEW wanted, NEW last, ~Throws(Serialize(Filled(a, wanted, last)))
    PROVE  /\ Filled(a, wanted, last)["supportedFormats"] \in {NONE, <<>>}
           /\ Deserialize(Empty, Serialize(Filled(a, wanted, last)))["supportedFormats"] = NONE
<1> DEFINE o == Filled(a, wanted, last)
           doc == Serialize(o)
<1>1. "supportedFormats" \in Fields
    BY DEF Fields, Options
<1>2. "supportedFormats" \notin DOMAIN doc /\ DOMAIN doc = Written(o)
    BY DEF Throws, Serialize
<1>3. o["supportedFormats"] \in {NONE, <<>>}
    BY <1>1, <1>2 DEF Written
<1>4. Empty["supportedFormats"] = NONE
    BY <1>1 DEF Empty
<1> HIDE DEF o, doc
<1>5. Deserialize(Empty, doc)["supportedFormats"] = DeserializeField(Empty, "supportedFormats", doc)
    BY <1>1, <1>2 DEF Deserialize, Throws
<1>6. DeserializeField(Empty, "supportedFormats", doc) = NONE
    BY <1>2, <1>4 DEF DeserializeField
<1> QED BY <1>3, <1>5, <1>6 DEF o, doc

LEMMA ParcelType ==
    ASSUME NEW p \in Parcels \cup {NoParcel}
    PROVE  /\ SendToSerialize(p) = p /\ SendToDeserialize(p) = p
           /\ "assetName" \notin DOMAIN p
<1>1. p = [path |-> p.path, name |-> p.name, uuid |-> p.uuid, type |-> p.type,
           take_file_ownership |-> p.take_file_ownership]
    BY SchemasAssumption DEF NoParcel
<1>2. /\ DOMAIN p = {"path", "name", "uuid", "type", "take_file_ownership"}
      /\ p = [k \in DOMAIN p |-> p[k]]
    BY <1>1
<1>3. SendToSerialize(p) = p
    BY <1>2 DEF SendToSerialize
<1>4. DOMAIN NoParcel = DOMAIN p
    BY <1>2 DEF NoParcel
<1>5. SendToDeserialize(p) = p
    BY <1>2, <1>4 DEF SendToDeserialize
<1> QED BY <1>2, <1>3, <1>5

\* The exporter reads an answer, into a new object or one used before.
LEMMA ReceiveInv ==
    ASSUME ExchangeInv, NEW o, Receive(o), used' \in BOOLEAN, used' \/ o = Empty
    PROVE  ExchangeInv'
<1> USE DEF Receive, Advance
<1>1. /\ asset \in Assets /\ About(asset, wire, peer) /\ stage = "replied"
      /\ stage' \in {"configured", "thrown"} /\ (stage' = "configured" => ~Throws(wire))
      /\ peer = "cpp" => /\ wire = Serialize(reply)
                         /\ \E wanted \in FieldSets, last \in BOOLEAN : reply = Filled(asset, wanted, last)
    BY DEF ExchangeInv, Answered
<1>2. Asked' /\ Sent'
    BY <1>1 DEF ExchangeInv, Asked, Sent
<1>3. Answered'
    BY <1>1 DEF Answered
<1>4. PICK a \in Assets : a = asset
    BY <1>1
<1>5. RightAsset'
  <2>1. PICK d, i : d = wire /\ i = peer
    OBVIOUS
  <2>2. /\ Deserialize(o, d).assetName = a.assetName
        /\ \/ Deserialize(o, d).assetUuid = a.assetUuid
           \/ a.assetUuid = NONE /\ i = "python"
           \/ a.assetUuid = NONE /\ Deserialize(o, d).assetUuid = o["assetUuid"]
    BY <1>1, <1>4, <2>1, ReadAsset
  <2>3. o = Empty => o["assetUuid"] = NONE
    BY FieldNames DEF Empty
  <2>4. config' = Deserialize(o, d) /\ asset' = a /\ peer' = i
    BY <1>4, <2>1
  <2> QED BY <2>2, <2>3, <2>4 DEF RightAsset
<1>6. ASSUME stage' = "configured", peer' = "cpp", ~used'
      PROVE  /\ \A f \in Fields \ {"supportedFormats"} : config'[f] = reply'[f]
             /\ reply'["supportedFormats"] \in {NONE, <<>>} /\ config'["supportedFormats"] = NONE
  <2>1. PICK wanted \in FieldSets, last \in BOOLEAN : reply = Filled(a, wanted, last)
    BY <1>1, <1>4, <1>6
  <2>2. config' = Deserialize(Empty, Serialize(Filled(a, wanted, last))) /\ reply' = Filled(a, wanted, last)
    BY <1>1, <1>6, <2>1
  <2>3. ~Throws(Serialize(Filled(a, wanted, last)))
    BY <1>1, <1>6, <2>1
  <2>4. \A f \in Fields \ {"supportedFormats"} : config'[f] = reply'[f]
    BY <2>2, <2>3, ReadFilled
  <2>5. reply'["supportedFormats"] \in {NONE, <<>>} /\ config'["supportedFormats"] = NONE
    BY <2>2, <2>3, ReadNoFormats
  <2> QED BY <2>4, <2>5
<1>7. Understood'
    BY <1>1, <1>6 DEF Understood
<1> QED BY <1>2, <1>3, <1>5, <1>7 DEF ExchangeInv

LEMMA ExchangeStep == ExchangeInv /\ [ExchangeNext]_exchangeVars => ExchangeInv'
<1> SUFFICES ASSUME ExchangeInv, [ExchangeNext]_exchangeVars PROVE ExchangeInv'
    OBVIOUS
<1>1. ASSUME NEW a \in Assets, NEW importer \in Importers, SendRequest(a, importer)
      PROVE  ExchangeInv'
    BY <1>1 DEF SendRequest, Advance, ExchangeInv, Asked, Answered, Sent, RightAsset, Understood
<1>2. ASSUME NEW wanted \in FieldSets, NEW last \in BOOLEAN, ReplyCpp(wanted, last)
      PROVE  ExchangeInv'
  <2> USE DEF ReplyCpp, Advance
  <2>1. PICK a \in Assets : a = asset
    BY <1>2 DEF ExchangeInv, Asked
  <2>2. request' = a
    BY <1>2, <2>1, RequestAbout DEF ExchangeInv, Asked
  <2>3. reply' = Filled(a, wanted, last) /\ wire' = Serialize(Filled(a, wanted, last)) /\ asset' = a
    BY <1>2, <2>1, <2>2
  <2>4. About(a, Serialize(Filled(a, wanted, last)), "cpp")
    BY AnswerCpp
  <2>5. Answered'
    BY <1>2, <2>3, <2>4 DEF Answered
  <2> QED BY <1>2, <2>5 DEF ExchangeInv, Asked, Sent, RightAsset, Understood
<1>3. ASSUME NEW wanted \in FieldSets, ReplyPython(wanted)
      PROVE  ExchangeInv'
  <2> USE DEF ReplyPython, Advance
  <2>1. PICK a \in Assets : a = asset
    BY <1>3 DEF ExchangeInv, Asked
  <2>2. wire' = PyReply(PyInit(RequestSerialize(a)), wanted) /\ asset' = a /\ peer' = "python"
    BY <1>3, <2>1 DEF ExchangeInv, Asked
  <2>3. About(a, PyReply(PyInit(RequestSerialize(a)), wanted), "python")
    BY AnswerPython
  <2>4. Answered'
    BY <2>2, <2>3 DEF Answered
  <2> QED BY <1>3, <2>4 DEF ExchangeInv, Asked, Sent, RightAsset, Understood
<1>4. CASE ReceiveNew
  <2>1. PICK o : o = Empty
    OBVIOUS
  <2> QED BY <1>4, <2>1, ReceiveInv DEF ReceiveNew
<1>5. CASE ReceiveAgain
  <2>1. PICK o : o = config
    OBVIOUS
  <2>2. Receive(o)
    BY <1>5, <2>1 DEF ReceiveAgain, Receive
  <2> QED BY <1>5, <2>2, ReceiveInv DEF ReceiveAgain
<1>6. CASE ReceiveUndefined
    BY <1>6 DEF ReceiveUndefined, Advance, ExchangeInv, Asked, Answered, Sent, RightAsset, Understood
<1>7. CASE ReceiveNoJson \/ GiveUp
  <2>1. /\ stage \in {"replied", "thrown", "undefined"} /\ stage' = "ready"
        /\ UNCHANGED <<asset, peer, wire, request, reply, config, parcel, sending, used, rounds>>
    BY <1>7 DEF ReceiveNoJson, GiveUp, Advance
  <2>2. "assetName" \in DOMAIN wire /\ sending \in Parcels \cup {NoParcel}
    BY <2>1 DEF ExchangeInv, Answered, About, Sent
  <2>3. wire # sending
    BY <2>2, ParcelType
  <2> QED BY <2>1, <2>3 DEF ExchangeInv, Asked, Answered, Sent, RightAsset, Understood
<1>8. ASSUME NEW p \in Parcels, SendLoad(p) PROVE ExchangeInv'
    BY <1>8 DEF SendLoad, Advance, ExchangeInv, Asked, Answered, Sent, RightAsset, Understood
<1>9. CASE ReceiveLoad
  <2>1. PICK p \in Parcels \cup {NoParcel} : p = sending
    BY DEF ExchangeInv, Sent
  <2>2. wire = p /\ parcel' = SendToDeserialize(p)
    BY <1>9, <2>1, ParcelType DEF ReceiveLoad, Advance, ExchangeInv, Sent
  <2>3. parcel' = sending'
    BY <1>9, <2>1, <2>2, ParcelType DEF ReceiveLoad
  <2> QED BY <1>9, <2>3 DEF ReceiveLoad, Advance, ExchangeInv, Asked, Answered, Sent, RightAsset, Understood
<1>10. CASE UNCHANGED exchangeVars
    BY <1>10 DEF exchangeVars, ExchangeInv, Asked, Answered, Sent, RightAsset, Understood
<1>11. CASE ReceiveLoadPython
    BY <1>11 DEF ReceiveLoadPython, Advance, ExchangeInv, Asked, Answered, Sent, RightAsset, Understood
<1> QED BY <1>1, <1>2, <1>3, <1>4, <1>5, <1>6, <1>7, <1>8, <1>9, <1>10, <1>11 DEF ExchangeNext

\* What is on the wire says of which asset it is, and a C++ importer's answer
\* is all that the importer filled in (sendmeshschema.cpp, meshimport.py).
THEOREM ExchangeKept == ExchangeSpec => []ExchangeInv
<1>1. ExchangeInit => ExchangeInv
    BY DEF ExchangeInit, ExchangeInv, Asked, Answered, Sent, RightAsset, Understood
<1> QED BY <1>1, ExchangeStep, PTL DEF ExchangeSpec

\* An answer is about the asset that was asked for, for any assets, fields
\* and importers (send_mesh_config_request_schema, mesh_export_schema,
\* MeshImportMessageSchema).
THEOREM ExchangeRightAsset == ExchangeSpec => []RightAsset
<1>1. ExchangeInv => RightAsset
    BY DEF ExchangeInv
<1> QED BY <1>1, ExchangeKept, PTL

\* A C++ program reads every field but supportedFormats of what another C++
\* program filled in, and its parcels, for any choice of fields and any parcels
\* (mesh_export_schema, send_to_schema).
THEOREM ExchangeUnderstood == ExchangeSpec => []Understood
<1>1. ExchangeInv => Understood
    BY DEF ExchangeInv
<1> QED BY <1>1, ExchangeKept, PTL

=============================================================================
