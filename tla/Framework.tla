------------------------------ MODULE Framework ------------------------------
(***************************************************************************)
(* The C++ framework (module-cpp: core.cpp, application.cpp, system.cpp,   *)
(* details/callbacks.cpp, features) and the Qt objects above it            *)
(* (module-qt).  Application objects are registered, then init binds their *)
(* callbacks, starts the core and adds a trampoline; dispatch threads of   *)
(* the core look callbacks up by message type and call them; shutdown      *)
(* undoes it all and forgets the applications.  startupState is the only   *)
(* thing the calls synchronise on, and dispatch threads do not look at it. *)
(*                                                                         *)
(* The message types of a class of applications are one kind: they are     *)
(* bound and unbound together, and "system" stands for the established     *)
(* message of System.  An application object of a Qt kind exists while its *)
(* wrapper is the instance of the kind; objects of other kinds belong to   *)
(* the program and are always there.  The core is up or down here          *)
(* (Lifecycle has the inside), its library is linked, and what peers send  *)
(* is any kind of message.                                                 *)
(***************************************************************************)
EXTENDS Naturals, FiniteSets

CONSTANTS
    Apps,         \* application objects
    KindOf,       \* KindOf[a]: the class of the application
    QtKinds,      \* kinds whose objects are made by Qt wrappers
    Callers,      \* threads of the program
    Dispatchers,  \* dispatch threads of the core
    MaxInits,     \* bound of the model: calls of init
    NULL

Kinds == {KindOf[a] : a \in Apps}

ASSUME FrameworkAssumption ==
    /\ KindOf \in [Apps -> Kinds]
    /\ QtKinds \subseteq Kinds
    /\ MaxInits \in Nat
    /\ NULL \notin Apps

VARIABLES
    startupState,
    applications,
    featureLevel,   \* applications whose feature ids are in the vector
    connectionId,   \* name to announce: the number of an init call, 0 if none
    callbackMap,    \* callbackMap[k]: whose callbacks are bound, or NULL
    mCallbacks,     \* applications whose mCallbacks is not empty
    instance,       \* instance[k]: the Qt object that exists, or NULL
    core,           \* "down" or "up"
    coreName,       \* the name the core was initialised with
    trampoline,     \* whether connector_cpp_trampoline is in the core's list
    connected,      \* whether there is a connection to receive from
    pc,             \* pc[t]: where a thread of the program is
    arg,            \* arg[t]: application to register, or name to use
    todo,           \* todo[t]: applications preShutdown has not reached
    dpc, dkind,     \* where a dispatch thread is, and the kind it handles
    sent,           \* history: connection contexts written
    inits,          \* history: calls of init
    overlapped,     \* history: a call began while a shutdown still cleared
    early           \* history: an application was destroyed that the framework had

programVars == <<pc, arg, todo, inits, overlapped>>
frameworkVars == <<startupState, applications, featureLevel, connectionId, callbackMap, mCallbacks>>
coreVars == <<core, coreName, trampoline, connected>>
dispatchVars == <<dpc, dkind, sent>>
qtVars == <<instance, early>>
vars == <<programVars, frameworkVars, coreVars, dispatchVars, qtVars>>

Init ==
    /\ startupState = "shutdown"
    /\ applications = {} /\ featureLevel = {} /\ connectionId = 0
    /\ callbackMap = [k \in Kinds |-> NULL] /\ mCallbacks = {}
    /\ instance = [k \in Kinds |-> NULL]
    /\ core = "down" /\ coreName = 0 /\ trampoline = FALSE /\ connected = FALSE
    /\ pc = [t \in Callers |-> "idle"] /\ arg = [t \in Callers |-> NULL]
    /\ todo = [t \in Callers |-> {}]
    /\ dpc = [d \in Dispatchers |-> "idle"] /\ dkind = [d \in Dispatchers |-> NULL]
    /\ sent = {} /\ inits = 0 /\ overlapped = FALSE /\ early = FALSE

Goto(t, from, to) == pc[t] = from /\ pc' = [pc EXCEPT ![t] = to]

(* compare_exchange_strong of startupState.                                *)
Exchange(from, to) ==
    /\ startupState = from
    /\ startupState' = to
    /\ overlapped' = (overlapped \/ \E t \in Callers : pc[t] = "clear")

Alive(a) == KindOf[a] \in QtKinds => instance[KindOf[a]] = a

Registering(a) == \E t \in Callers : pc[t] \in {"add", "added"} /\ arg[t] = a

-----------------------------------------------------------------------------
(* Qt objects                                                              *)

(* initialize: only the first object of a kind gets an application.        *)
Initialize(t, a) ==
    /\ pc[t] = "idle"
    /\ KindOf[a] \in QtKinds /\ instance[KindOf[a]] = NULL
    /\ instance' = [instance EXCEPT ![KindOf[a]] = a]
    /\ UNCHANGED <<early, programVars, frameworkVars, coreVars, dispatchVars>>

(* shutdown of an object, which destroys its application.  Nothing tests   *)
(* whether the framework still has the bare pointer; the memory of a       *)
(* destroyed application is taken to hold what it held.                    *)
Destroy(t, a) ==
    /\ pc[t] = "idle"
    /\ instance[KindOf[a]] = a
    /\ instance' = [instance EXCEPT ![KindOf[a]] = NULL]
    /\ early' = (early \/ a \in applications \/ Registering(a))
    /\ UNCHANGED <<programVars, frameworkVars, coreVars, dispatchVars>>

-----------------------------------------------------------------------------
(* registerApplication                                                     *)

RegisterBegin_Initialized(t, a) ==
    /\ Goto(t, "idle", "add")
    /\ Alive(a)
    /\ \E state \in {"shutdown", "initialized"} : Exchange(state, "adding")
    /\ arg' = [arg EXCEPT ![t] = a]
    /\ UNCHANGED <<todo, inits, applications, featureLevel, connectionId, callbackMap, mCallbacks,
                   coreVars, dispatchVars, qtVars>>

RegisterBegin(t, a) ==
    /\ Goto(t, "idle", "add")
    /\ Alive(a)
    /\ Exchange("shutdown", "adding")
    /\ arg' = [arg EXCEPT ![t] = a]
    /\ UNCHANGED <<todo, inits, applications, featureLevel, connectionId, callbackMap, mCallbacks,
                   coreVars, dispatchVars, qtVars>>

(* An application that is there already is neither inserted nor announced  *)
(* again.                                                                  *)
RegisterAdd(t) ==
    /\ Goto(t, "add", "added")
    /\ applications' = applications \cup {arg[t]}
    /\ featureLevel' = IF arg[t] \in applications THEN featureLevel ELSE featureLevel \cup {arg[t]}
    /\ UNCHANGED <<arg, todo, inits, overlapped, startupState, connectionId, callbackMap, mCallbacks,
                   coreVars, dispatchVars, qtVars>>

RegisterEnd(t) ==
    /\ Goto(t, "added", "idle")
    /\ startupState' = "shutdown"
    /\ arg' = [arg EXCEPT ![t] = NULL]
    /\ UNCHANGED <<todo, inits, overlapped, applications, featureLevel, connectionId, callbackMap,
                   mCallbacks, coreVars, dispatchVars, qtVars>>

-----------------------------------------------------------------------------
(* init                                                                    *)

(* The name is stored before anything is tested.                           *)
InitCall(t) ==
    /\ Goto(t, "idle", "init")
    /\ inits < MaxInits
    /\ inits' = inits + 1
    /\ connectionId' = inits + 1
    /\ UNCHANGED <<arg, todo, overlapped, startupState, applications, featureLevel, callbackMap,
                   mCallbacks, coreVars, dispatchVars, qtVars>>

InitBegin(t) ==
    /\ Goto(t, "init", "preInit")
    /\ Exchange("shutdown", "initStarted")
    /\ UNCHANGED <<arg, todo, inits, applications, featureLevel, connectionId, callbackMap, mCallbacks,
                   coreVars, dispatchVars, qtVars>>

InitRefused(t) ==
    /\ Goto(t, "init", "idle")
    /\ startupState # "shutdown"
    /\ UNCHANGED <<arg, todo, inits, overlapped, frameworkVars, coreVars, dispatchVars, qtVars>>

(* What bindCallback does for a set of applications, in the order of their *)
(* addresses: the first of a kind wins.                                    *)
Bound(apps, map) ==
    /\ \A k \in Kinds : map[k] # callbackMap[k] => callbackMap[k] = NULL /\ map[k] \in apps
    /\ \A a \in apps : map[KindOf[a]] # NULL
    /\ \A k \in Kinds : map[k] # NULL => KindOf[map[k]] = k

PreInit(t) ==
    /\ Goto(t, "preInit", "core")
    /\ mCallbacks' = mCallbacks \cup applications
    /\ callbackMap' \in {map \in [Kinds -> Apps \cup {NULL}] : Bound(applications, map)}
    /\ UNCHANGED <<arg, todo, inits, overlapped, startupState, applications, featureLevel, connectionId,
                   coreVars, dispatchVars, qtVars>>

InitCore(t) ==
    /\ Goto(t, "core", "started")
    /\ core = "down"
    /\ core' = "up"
    /\ coreName' = connectionId
    /\ UNCHANGED <<arg, todo, inits, overlapped, frameworkVars, trampoline, connected, dispatchVars,
                   qtVars>>

(* The core could not be initialised: startupState stays INIT_STARTED.     *)
InitCoreFails(t) ==
    /\ Goto(t, "core", "idle")
    /\ UNCHANGED <<arg, todo, inits, overlapped, frameworkVars, coreVars, dispatchVars, qtVars>>

InitTrampoline(t) ==
    /\ Goto(t, "started", "postInit")
    /\ trampoline' = TRUE
    /\ UNCHANGED <<arg, todo, inits, overlapped, frameworkVars, core, coreName, connected, dispatchVars,
                   qtVars>>

InitEnd(t) ==
    /\ Goto(t, "postInit", "idle")
    /\ startupState' = "initialized"
    /\ UNCHANGED <<arg, todo, inits, overlapped, applications, featureLevel, connectionId, callbackMap,
                   mCallbacks, coreVars, dispatchVars, qtVars>>

(* openTcpConnection, broadcastDefault and the others: calls of the core.  *)
Connect(t) ==
    /\ pc[t] = "idle"
    /\ core = "up" /\ ~connected
    /\ connected' = TRUE
    /\ UNCHANGED <<programVars, frameworkVars, core, coreName, trampoline, dispatchVars, qtVars>>

-----------------------------------------------------------------------------
(* shutdown                                                                *)

ShutdownBegin(t) ==
    /\ Goto(t, "idle", "preShutdown")
    /\ Exchange("initialized", "shutdownStarted")
    /\ todo' = [todo EXCEPT ![t] = applications]
    /\ UNCHANGED <<arg, inits, applications, featureLevel, connectionId, callbackMap, mCallbacks,
                   coreVars, dispatchVars, qtVars>>

PreShutdown_KeepBound(t) ==
    /\ pc[t] = "preShutdown"
    /\ \E a \in todo[t] :
        /\ todo' = [todo EXCEPT ![t] = @ \ {a}]
        /\ mCallbacks' = mCallbacks \ {a}
    /\ UNCHANGED <<pc, arg, inits, overlapped, startupState, applications, featureLevel, connectionId,
                   callbackMap, coreVars, dispatchVars, qtVars>>

unbindCallback(k) == [callbackMap EXCEPT ![k] = NULL]

(* unregisterCallbacks erases what mCallbacks names, whoever bound it,     *)
(* while dispatch threads read the map.                                    *)
PreShutdown(t) ==
    /\ pc[t] = "preShutdown"
    /\ \E a \in todo[t] :
        /\ todo' = [todo EXCEPT ![t] = @ \ {a}]
        /\ mCallbacks' = mCallbacks \ {a}
        /\ callbackMap' = IF a \in mCallbacks THEN unbindCallback(KindOf[a]) ELSE callbackMap
    /\ UNCHANGED <<pc, arg, inits, overlapped, startupState, applications, featureLevel, connectionId,
                   coreVars, dispatchVars, qtVars>>

ShutdownCore_NoJoin(t) ==
    /\ todo[t] = {}
    /\ Goto(t, "preShutdown", "postShutdown")
    /\ core' = "down" /\ trampoline' = FALSE /\ connected' = FALSE
    /\ UNCHANGED <<arg, todo, inits, overlapped, frameworkVars, coreName, dispatchVars, qtVars>>

(* The core joins its threads, whatever it answers.                        *)
CoreStops ==
    /\ \A d \in Dispatchers : dpc[d] = "idle"
    /\ core' = "down" /\ trampoline' = FALSE /\ connected' = FALSE

ShutdownCore(t) ==
    /\ todo[t] = {}
    /\ Goto(t, "preShutdown", "postShutdown")
    /\ CoreStops
    /\ UNCHANGED <<arg, todo, inits, overlapped, frameworkVars, coreName, dispatchVars, qtVars>>

(* startupState stays SHUTDOWN_STARTED.                                    *)
ShutdownCoreFails(t) ==
    /\ todo[t] = {}
    /\ Goto(t, "preShutdown", "idle")
    /\ CoreStops
    /\ UNCHANGED <<arg, todo, inits, overlapped, frameworkVars, coreName, dispatchVars, qtVars>>

ShutdownStore(t) ==
    /\ Goto(t, "postShutdown", "clear")
    /\ startupState' = "shutdown"
    /\ UNCHANGED <<arg, todo, inits, overlapped, applications, featureLevel, connectionId, callbackMap,
                   mCallbacks, coreVars, dispatchVars, qtVars>>

ShutdownClear_KeepFeatures(t) ==
    /\ Goto(t, "clear", "idle")
    /\ applications' = {}
    /\ UNCHANGED <<arg, todo, inits, overlapped, startupState, featureLevel, connectionId, callbackMap,
                   mCallbacks, coreVars, dispatchVars, qtVars>>

(* ... after the state was stored: others may have begun.                  *)
ShutdownClear(t) ==
    /\ Goto(t, "clear", "idle")
    /\ applications' = {} /\ featureLevel' = {}
    /\ UNCHANGED <<arg, todo, inits, overlapped, startupState, connectionId, callbackMap, mCallbacks,
                   coreVars, dispatchVars, qtVars>>

-----------------------------------------------------------------------------
(* connector_cpp_trampoline, on a dispatch thread                          *)

DispatchGoto(d, from, to) == dpc[d] = from /\ dpc' = [dpc EXCEPT ![d] = to]

(* findCallbacks returns a reference into the map ...                      *)
DispatchFind(d, k) ==
    /\ core = "up" /\ trampoline /\ connected
    /\ callbackMap[k] # NULL
    /\ DispatchGoto(d, "idle", "copy")
    /\ dkind' = [dkind EXCEPT ![d] = k]
    /\ UNCHANGED <<programVars, frameworkVars, coreVars, sent, qtVars>>

(* ... and the vector is copied.  If it was erased in between, the copy    *)
(* reads freed memory, which may still hold the callbacks.                 *)
DispatchCopy(d) ==
    /\ DispatchGoto(d, "copy", IF dkind[d] = "system" THEN "announce" ELSE "call")
    /\ UNCHANGED <<programVars, frameworkVars, coreVars, dkind, sent, qtVars>>

DispatchLost(d) ==
    /\ DispatchGoto(d, "copy", "idle")
    /\ callbackMap[dkind[d]] = NULL
    /\ dkind' = [dkind EXCEPT ![d] = NULL]
    /\ UNCHANGED <<programVars, frameworkVars, coreVars, sent, qtVars>>

(* System::connectionEstablished: write getConnectionContext to the peer.  *)
getConnectionContext ==
    [features |-> featureLevel, id |-> connectionId, of |-> applications, session |-> coreName]

DispatchAnnounce(d) ==
    /\ DispatchGoto(d, "announce", "call")
    /\ sent' = sent \cup {getConnectionContext}
    /\ UNCHANGED <<programVars, frameworkVars, coreVars, dkind, qtVars>>

(* The callback of a Qt object loads the instance once to look ...         *)
DispatchCall(d) ==
    /\ DispatchGoto(d, "call", "emit")
    /\ dkind[d] \in QtKinds => instance[dkind[d]] # NULL
    /\ UNCHANGED <<programVars, frameworkVars, coreVars, dkind, sent, qtVars>>

DispatchNone(d) ==
    /\ DispatchGoto(d, "call", "idle")
    /\ dkind[d] \in QtKinds /\ instance[dkind[d]] = NULL
    /\ dkind' = [dkind EXCEPT ![d] = NULL]
    /\ UNCHANGED <<programVars, frameworkVars, coreVars, sent, qtVars>>

(* ... and a second time to emit the signal; other callbacks just run.     *)
DispatchEmit(d) ==
    /\ DispatchGoto(d, "emit", "idle")
    /\ dkind' = [dkind EXCEPT ![d] = NULL]
    /\ UNCHANGED <<programVars, frameworkVars, coreVars, sent, qtVars>>

-----------------------------------------------------------------------------
Next ==
    \/ \E t \in Callers, a \in Apps : Initialize(t, a) \/ Destroy(t, a) \/ RegisterBegin(t, a)
    \/ \E t \in Callers :
        \/ RegisterAdd(t) \/ RegisterEnd(t)
        \/ InitCall(t) \/ InitBegin(t) \/ InitRefused(t) \/ PreInit(t) \/ InitCore(t)
        \/ InitCoreFails(t) \/ InitTrampoline(t) \/ InitEnd(t) \/ Connect(t)
        \/ ShutdownBegin(t) \/ PreShutdown(t) \/ ShutdownCore(t) \/ ShutdownCoreFails(t)
        \/ ShutdownStore(t) \/ ShutdownClear(t)
    \/ \E d \in Dispatchers, k \in Kinds : DispatchFind(d, k)
    \/ \E d \in Dispatchers :
        \/ DispatchCopy(d) \/ DispatchLost(d) \/ DispatchAnnounce(d)
        \/ DispatchCall(d) \/ DispatchNone(d) \/ DispatchEmit(d)

Spec == Init /\ [][Next]_vars

-----------------------------------------------------------------------------
(* Properties *)

InstanceFound ==
    \A d \in Dispatchers : dpc[d] = "emit" /\ dkind[d] \in QtKinds => instance[dkind[d]] # NULL

\* The instance a Qt callback found at its first load is there at the second
\* (module-qt/src/system.cpp:35-38), in a program whose applications are as
\* persistent as core.h:34 asks, that is, destroyed only once the framework
\* has forgotten them: shutdown forgets them after the core has joined its
\* threads.  Not if a call began while a shutdown still cleared.
EmitHasInstance == overlapped \/ early \/ InstanceFound

\* system.cpp:96: "Only clear the atomic pointer after the shutdown has been
\* completed": the same of a program that destroys its objects when it likes.
ClearedAfterShutdown == overlapped \/ InstanceFound

\* While the framework is initialised each kind with a registered application
\* is bound to one of them, and nothing of an earlier session is bound
\* (callbacks.cpp:32-58, application.cpp:27-53).
SessionCallbacks ==
    startupState = "initialized" /\ ~overlapped =>
        /\ {k \in Kinds : callbackMap[k] # NULL} = {KindOf[a] : a \in applications}
        /\ \A k \in Kinds : callbackMap[k] # NULL => callbackMap[k] \in applications
        /\ mCallbacks = applications

\* What a peer is told are the features of the applications of this session,
\* no more and no less (core.cpp:112-135 and :173-207).
AnnouncesAll == overlapped \/ \A m \in sent : m.features = m.of

\* Dispatch threads read applications and featureLevel without a lock: they
\* never change while the core runs (core.cpp:173-207).
FeaturesStable ==
    [][core = "up" \/ core' = "up" =>
         (overlapped \/ UNCHANGED <<applications, featureLevel>>)]_vars

\* core.h:95: getConnectionContext "Provides the connection context describing
\* this connection": the name in it is the one the core was initialised with.
NameOfSession == \A m \in sent : m.id = m.session

=============================================================================
