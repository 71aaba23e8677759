---------------------------- MODULE LockedQueue -----------------------------
(***************************************************************************)
(* src/core/src/details/locked_queue.c: the linked list behind the inbound *)
(* and outbound message queues, with the node handling message_queue.c     *)
(* adds (a node is allocated per enqueue, freed after dequeue or by the    *)
(* handler).  Enqueue and dequeue run wholly under queue->lock and are one *)
(* step each; clear frees one node per step and keeps the lock throughout. *)
(* Nothing tests whether the queue was cleared: a sender that was past the *)
(* test of the module state (external_api.c:231) enqueues on a cleared     *)
(* queue (:239), until the next initialisation forgets the list.           *)
(***************************************************************************)
EXTENDS Integers, Sequences

CONSTANTS
    Nodes,          \* the addresses connector_allocate hands out
    NULL,
    MaxClears       \* bound of the model: how often the queue is cleared

ASSUME NodeAssumption ==
    /\ NULL \notin Nodes
    /\ MaxClears \in Nat

VARIABLES
    front, end,     \* the list's ends
    next,           \* next[n]: the node's next pointer
    allocated,      \* nodes that are allocated now
    phase,          \* "ready", "clearing" (lock held by clear) or "cleared"
    fifo,           \* history: the nodes enqueued and not yet taken out
    badWrites,      \* history: nodes written to after they were freed
    late,           \* history: a node was enqueued on a cleared queue
    leaked,         \* history: nodes on the list when init forgot it
    clears

listVars == <<front, end, next, allocated, phase, fifo, badWrites, late, leaked, clears>>

(* connector_locked_queue_init *)
ListInit ==
    /\ front = NULL
    /\ end = NULL
    /\ next = [n \in Nodes |-> NULL]
    /\ allocated = {}
    /\ phase = "ready"
    /\ fifo = <<>>
    /\ badWrites = {}
    /\ late = FALSE
    /\ leaked = {}
    /\ clears = 0

(* queue->lock is free: clear holds it from its first step to its last.    *)
Unlocked == phase # "clearing"

Rest(q) == IF q = <<>> THEN q ELSE Tail(q)

Linked == {fifo[i] : i \in 1 .. Len(fifo)}

(* enqueue_message and connector_locked_enqueue.  The memory of the node   *)
(* may be the one end still points at: the last write then makes the node  *)
(* its own successor.                                                      *)
Enqueue(n) ==
    /\ Unlocked
    /\ n \in Nodes \ allocated
    /\ allocated' = allocated \cup {n}
    /\ end' = n
    /\ front' = IF front = NULL THEN n ELSE front
    /\ next' = IF end = NULL THEN [next EXCEPT ![n] = NULL]
                             ELSE [next EXCEPT ![n] = NULL, ![end] = n]
    /\ badWrites' = badWrites \cup ({end} \ (allocated \cup {NULL}))
    /\ late' = (late \/ phase = "cleared")
    /\ fifo' = Append(fifo, n)
    /\ UNCHANGED <<phase, leaked, clears>>

Dequeue_KeepEnd ==
    /\ Unlocked
    /\ front # NULL
    /\ front' = next[front]
    /\ allocated' = allocated \ {front}
    /\ fifo' = Rest(fifo)
    /\ UNCHANGED <<end, next, phase, badWrites, late, leaked, clears>>

(* connector_locked_dequeue and dequeue_message; on an empty list both     *)
(* leave everything as it is.                                              *)
Dequeue ==
    /\ Unlocked
    /\ front # NULL
    /\ front' = next[front]
    /\ end' = IF next[front] = NULL THEN NULL ELSE end
    /\ allocated' = allocated \ {front}
    /\ fifo' = Rest(fifo)
    /\ UNCHANGED <<next, phase, badWrites, late, leaked, clears>>

(* connector_locked_queue_clear: take the lock, hand every node to the     *)
(* handler (handle_message frees it), release the lock.                    *)
ClearBegin ==
    /\ phase = "ready"
    /\ clears < MaxClears
    /\ phase' = "clearing"
    /\ clears' = clears + 1
    /\ UNCHANGED <<front, end, next, allocated, fifo, badWrites, late, leaked>>

ClearNode ==
    /\ phase = "clearing"
    /\ front # NULL
    /\ front' = next[front]
    /\ allocated' = allocated \ {front}
    /\ fifo' = Rest(fifo)
    /\ UNCHANGED <<end, next, phase, badWrites, late, leaked, clears>>

ClearEnd ==
    /\ phase = "clearing"
    /\ front = NULL
    /\ phase' = "cleared"
    /\ UNCHANGED <<front, end, next, allocated, fifo, badWrites, late, leaked, clears>>

(* connector_locked_queue_init by the next initialisation: it sets the     *)
(* pointers to NULL and frees nothing.                                     *)
Reinit ==
    /\ phase = "cleared"
    /\ front' = NULL
    /\ end' = NULL
    /\ phase' = "ready"
    /\ fifo' = <<>>
    /\ leaked' = leaked \cup Linked
    /\ UNCHANGED <<next, allocated, badWrites, late, clears>>

ListNext ==
    \/ \E n \in Nodes : Enqueue(n)
    \/ Dequeue
    \/ ClearBegin \/ ClearNode \/ ClearEnd
    \/ Reinit

ListSpec == ListInit /\ [][ListNext]_listVars

-----------------------------------------------------------------------------
(* Properties *)

\* Pointers are nodes or NULL.
ListTypeOK ==
    /\ front \in Nodes \cup {NULL}
    /\ end \in Nodes \cup {NULL}
    /\ next \in [Nodes -> Nodes \cup {NULL}]
    /\ allocated \subseteq Nodes
    /\ phase \in {"ready", "clearing", "cleared"}
    /\ fifo \in Seq(Nodes)
    /\ badWrites \subseteq Nodes
    /\ late \in BOOLEAN
    /\ leaked \subseteq Nodes
    /\ clears \in 0 .. MaxClears

(* The list is what was enqueued and not taken out, in that order; every   *)
(* node on it is allocated, and no other node is except the leaked ones.   *)
ListInOrder ==
    /\ front = IF fifo = <<>> THEN NULL ELSE fifo[1]
    /\ \A i \in 1 .. Len(fifo) :
          /\ next[fifo[i]] = IF i = Len(fifo) THEN NULL ELSE fifo[i + 1]
          /\ \A j \in 1 .. Len(fifo) : fifo[i] = fifo[j] => i = j
    /\ fifo # <<>> => end = fifo[Len(fifo)]
    /\ fifo = <<>> /\ phase = "ready" => end = NULL
    /\ allocated = Linked \cup leaked
    /\ Linked \cap leaked = {}

\* The list holds exactly the nodes enqueued and not taken out, in the order
\* in which they were enqueued and no node twice, until an enqueue follows an
\* end pointer to a freed node (locked_queue.c:64-74).  That, and the leak of a
\* node, need a sender that is late, that is, one whose enqueue comes after the
\* clear of a shutdown: clear leaves end at a freed node (locked_queue.c:45-51)
\* and init forgets the list without freeing it (:22-23), but dequeue resets
\* end with the last node (:89-92).
ListIsFifo ==
    /\ ListTypeOK
    /\ badWrites # {} \/ leaked # {} => late
    /\ badWrites = {} => ListInOrder

\* No node is written to after it was freed.  It does not hold: a late sender
\* writes through the end pointer of a cleared list (locked_queue.c:71-74).
NoWriteToFreed == badWrites = {}
=============================================================================
