----------------------------- MODULE UintQueue ------------------------------
(***************************************************************************)
(* src/core/src/details/uint_queue.c: the lock-free fixed-size queue of    *)
(* unsigned integers behind the free contexts (context_queue.c) and the    *)
(* contexts waiting for a read thread (available_queue.c).                 *)
(*                                                                         *)
(* Every shared access of push and pop is a step of its own, so that the   *)
(* threads interleave between reading an index, reading the other index,   *)
(* the compare-and-exchange, the store into the array and the commit.      *)
(* Locals that are dead are reset.  The plain accesses are taken to be     *)
(* sequentially consistent, like the __ATOMIC_SEQ_CST exchanges.           *)
(***************************************************************************)
EXTENDS Integers, Sequences

CONSTANTS
    Threads,    \* the threads that push and pop
    Values,     \* the elements, 0 among them (the array starts zeroed)
    Requested,  \* the size connector_uint_queue_create is called with
    Wrap,       \* the number of values of an index: 2^32 in the code
    MaxPush     \* bound of the model: no push starts after that many claims

ASSUME QueueAssumption ==
    /\ Values \subseteq Nat
    /\ 0 \in Values
    /\ Requested \in Nat \ {0}
    /\ Wrap \in Nat \ {0}
    /\ MaxPush \in Nat

VARIABLES
    write_index,  \* next slot to claim
    read_index,   \* next slot to pop
    max_index,    \* slots below it are committed
    array,        \* the slots
    pc,           \* pc[t]: where thread t is
    ticket,       \* ticket[t]: t's local write_index (push) or read_index (pop)
    elem,         \* elem[t]: push's argument or pop's local data
    result,       \* result[t]: return code and *retval of t's last call
    claims        \* number of slots claimed so far (for the bound MaxPush)

vars == <<write_index, read_index, max_index, array, pc, ticket, elem, result, claims>>
indices == <<write_index, read_index, max_index, claims>>

-----------------------------------------------------------------------------
(* connector_uint_queue_create rounds the array up to an even length, at   *)
(* least one more than requested: one slot always stays empty.             *)
Size == Requested + 1 + (IF Requested % 2 = 0 THEN 1 ELSE 0)

(* convert_to_index *)
Slot(position) == position % Size

(* write_index + 1 and read_index + 1 on uint32_t *)
Inc(index) == (index + 1) % Wrap

NoResult == [code |-> "none", val |-> 0]

Init ==
    /\ write_index = 0
    /\ read_index = 0
    /\ max_index = 0
    /\ array = [i \in 0 .. Size - 1 |-> 0]
    /\ pc = [t \in Threads |-> "idle"]
    /\ ticket = [t \in Threads |-> 0]
    /\ elem = [t \in Threads |-> 0]
    /\ result = [t \in Threads |-> NoResult]
    /\ claims = 0

Goto(t, from, to) ==
    /\ pc[t] = from
    /\ pc' = [pc EXCEPT ![t] = to]

Return(t, from, code, val) ==
    /\ Goto(t, from, "idle")
    /\ ticket' = [ticket EXCEPT ![t] = 0]
    /\ elem' = [elem EXCEPT ![t] = 0]
    /\ result' = [result EXCEPT ![t] = [code |-> code, val |-> val]]

-----------------------------------------------------------------------------
(* connector_uint_queue_push *)

PushCall(t, v) ==
    /\ claims < MaxPush
    /\ Goto(t, "idle", "push_load")
    /\ elem' = [elem EXCEPT ![t] = v]
    /\ result' = [result EXCEPT ![t] = NoResult]
    /\ UNCHANGED <<indices, array, ticket>>

PushLoad(t) ==
    /\ Goto(t, "push_load", "push_check")
    /\ ticket' = [ticket EXCEPT ![t] = write_index]
    /\ UNCHANGED <<indices, array, elem, result>>

IsFull_NoModulo(w, r) == Inc(w) = r
IsFull_Early(w, r) == Slot(w + 2) = Slot(r)

(* The slot after the next one to write is the next one to read.           *)
IsFull(w, r) == Slot(Inc(w)) = Slot(r)

PushRoom(t) ==
    /\ ~IsFull(ticket[t], read_index)
    /\ Goto(t, "push_check", "push_claim")
    /\ UNCHANGED <<indices, array, ticket, elem, result>>

PushFull(t) ==
    /\ IsFull(ticket[t], read_index)
    /\ Return(t, "push_check", "error", 0)
    /\ UNCHANGED <<indices, array>>

PushClaim(t) ==
    /\ write_index = ticket[t]
    /\ Goto(t, "push_claim", "push_store")
    /\ write_index' = Inc(write_index)
    /\ claims' = claims + 1
    /\ UNCHANGED <<read_index, max_index, array, ticket, elem, result>>

PushRetry(t) ==
    /\ write_index # ticket[t]
    /\ Goto(t, "push_claim", "push_load")
    /\ ticket' = [ticket EXCEPT ![t] = 0]
    /\ UNCHANGED <<indices, array, elem, result>>

PushStore(t) ==
    /\ Goto(t, "push_store", "push_commit")
    /\ array' = [array EXCEPT ![Slot(ticket[t])] = elem[t]]
    /\ UNCHANGED <<indices, ticket, elem, result>>

PushCommit_Jump(t) ==
    /\ max_index = ticket[t]
    /\ max_index' = write_index
    /\ Return(t, "push_commit", "success", 0)
    /\ UNCHANGED <<write_index, read_index, array, claims>>

(* The spinning exchange on max_index succeeds once every smaller ticket   *)
(* has been committed.                                                     *)
PushCommit(t) ==
    /\ max_index = ticket[t]
    /\ max_index' = Inc(ticket[t])
    /\ Return(t, "push_commit", "success", 0)
    /\ UNCHANGED <<write_index, read_index, array, claims>>

-----------------------------------------------------------------------------
(* connector_uint_queue_pop *)

PopCall(t) ==
    /\ Goto(t, "idle", "pop_load")
    /\ result' = [result EXCEPT ![t] = NoResult]
    /\ UNCHANGED <<indices, array, ticket, elem>>

PopLoad(t) ==
    /\ Goto(t, "pop_load", "pop_check")
    /\ ticket' = [ticket EXCEPT ![t] = read_index]
    /\ UNCHANGED <<indices, array, elem, result>>

(* Nothing is committed at the next slot to read.                          *)
IsEmpty(r, m) == Slot(r) = Slot(m)

PopReady_Uncommitted(t) ==
    /\ ~IsEmpty(ticket[t], write_index)
    /\ Goto(t, "pop_check", "pop_read")
    /\ UNCHANGED <<indices, array, ticket, elem, result>>

PopReady(t) ==
    /\ ~IsEmpty(ticket[t], max_index)
    /\ Goto(t, "pop_check", "pop_read")
    /\ UNCHANGED <<indices, array, ticket, elem, result>>

PopEmpty(t) ==
    /\ IsEmpty(ticket[t], max_index)
    /\ Return(t, "pop_check", "error", 0)
    /\ UNCHANGED <<indices, array>>

PopRead(t) ==
    /\ Goto(t, "pop_read", "pop_claim")
    /\ elem' = [elem EXCEPT ![t] = array[Slot(ticket[t])]]
    /\ UNCHANGED <<indices, array, ticket, result>>

PopClaim(t) ==
    /\ read_index = ticket[t]
    /\ read_index' = Inc(read_index)
    /\ Return(t, "pop_claim", "success", elem[t])
    /\ UNCHANGED <<write_index, max_index, array, claims>>

PopRetry(t) ==
    /\ read_index # ticket[t]
    /\ Goto(t, "pop_claim", "pop_load")
    /\ ticket' = [ticket EXCEPT ![t] = 0]
    /\ elem' = [elem EXCEPT ![t] = 0]
    /\ UNCHANGED <<indices, array, result>>

-----------------------------------------------------------------------------
PushStep(t) ==
    \/ PushLoad(t) \/ PushRoom(t) \/ PushFull(t) \/ PushClaim(t)
    \/ PushRetry(t) \/ PushStore(t) \/ PushCommit(t)

PopStep(t) ==
    \/ PopLoad(t) \/ PopReady(t) \/ PopEmpty(t) \/ PopRead(t)
    \/ PopClaim(t) \/ PopRetry(t)

Next ==
    \E t \in Threads :
        \/ \E v \in Values : PushCall(t, v)
        \/ PopCall(t)
        \/ PushStep(t)
        \/ PopStep(t)

Spec == Init /\ [][Next]_vars

-----------------------------------------------------------------------------
(* Properties *)

PushPoints == {"push_load", "push_check", "push_claim", "push_store", "push_commit"}
PopPoints == {"pop_load", "pop_check", "pop_read", "pop_claim"}
Codes == {"none", "success", "error"}

\* The indices are uint32_t values, the locals and slots hold elements.
TypeOK ==
    /\ {write_index, read_index, max_index} \subseteq 0 .. Wrap - 1
    /\ array \in [0 .. Size - 1 -> Values]
    /\ pc \in [Threads -> {"idle"} \cup PushPoints \cup PopPoints]
    /\ ticket \in [Threads -> 0 .. Wrap - 1]
    /\ elem \in [Threads -> Values]
    /\ result \in [Threads -> [code : Codes, val : Values]]
    /\ claims \in Nat

\* Threads that own a slot they claimed and have not committed.
Holds(t) == pc[t] \in {"push_store", "push_commit"}

\* A slot is never written by two pushes at a time, and a push never writes
\* a slot whose committed element has not been popped yet (the store of
\* uint_queue.c:61 is unsynchronised and relies on the full test alone).
NoOverwrite ==
    \A t \in Threads : Holds(t) =>
        /\ \A i \in read_index .. max_index - 1 : Slot(i) # Slot(ticket[t])
        /\ \A u \in Threads \ {t} : Holds(u) => Slot(ticket[u]) # Slot(ticket[t])

\* Elements in the queue, claimed ones whose store is not committed included.
Occupancy == write_index - read_index

\* The error answers of push and pop are right unless the index they started
\* from is stale: full means every slot but one is taken, empty means that
\* nothing is committed (uint_queue.c:50 and :96).
ErrorsAreFullEmptyOrStale ==
    [][\A t \in Threads :
        /\ PushFull(t) => ticket[t] # write_index \/ Occupancy = Size - 1
        /\ PopEmpty(t) => ticket[t] # read_index \/ read_index = max_index]_vars

\* uint_queue.h: "The queue is guaranteed to hold at least size elements".
\* A push is refused only while that many are in the queue.
HoldsRequested ==
    [][\A t \in Threads : PushFull(t) => (write_index - read_index) % Wrap >= Requested]_vars

-----------------------------------------------------------------------------
(* The inductive invariant behind NoOverwrite and FifoSpec.  It holds as   *)
(* long as the indices have not wrapped around.                            *)

NotWrapped == claims < Wrap - 1

IndexOrder ==
    /\ write_index = claims
    /\ read_index <= max_index
    /\ max_index <= write_index
    /\ write_index - read_index <= Size - 1

(* Uncommitted tickets are distinct and lie between the two indices.       *)
HolderTickets ==
    \A t \in Threads : Holds(t) =>
        /\ max_index <= ticket[t]
        /\ ticket[t] < write_index
        /\ \A u \in Threads \ {t} : Holds(u) => ticket[u] # ticket[t]

(* Every claimed and uncommitted ticket has a thread that will commit it.  *)
TicketsHeld ==
    \A i \in max_index .. write_index - 1 : \E t \in Threads : Holds(t) /\ ticket[t] = i

(* What a push knows of the index it read, before its exchange.            *)
PushTickets ==
    \A t \in Threads :
        /\ pc[t] \in {"push_check", "push_claim"} => ticket[t] <= write_index
        /\ pc[t] = "push_claim" /\ ticket[t] = write_index =>
               write_index - read_index <= Size - 2

(* What a pop knows of the index and the element it read, before its       *)
(* exchange.                                                               *)
PopTickets ==
    \A t \in Threads :
        /\ pc[t] \in {"pop_check", "pop_read", "pop_claim"} => ticket[t] <= read_index
        /\ pc[t] \in {"pop_read", "pop_claim"} /\ ticket[t] = read_index =>
               read_index < max_index
        /\ pc[t] = "pop_claim" /\ ticket[t] = read_index =>
               elem[t] = array[Slot(ticket[t])]

\* A successful exchange on write_index or read_index (uint_queue.c:55, :106)
\* proves that the locals read before it are still right: the claimed slot
\* is free, the popped element is the oldest committed one.
Tickets ==
    NotWrapped => IndexOrder /\ HolderTickets /\ TicketsHeld /\ PushTickets /\ PopTickets

\* A push that spins on max_index (uint_queue.c:64) never waits in vain:
\* while some slot is claimed and uncommitted, the thread whose ticket comes
\* next exists and can commit it.
SpinHasOwner ==
    NotWrapped => \A t \in Threads : Holds(t) =>
                    \E u \in Threads : Holds(u) /\ ticket[u] = max_index

-----------------------------------------------------------------------------
(* The committed elements, oldest first.                                   *)
Committed == [i \in 1 .. max_index - read_index |-> array[Slot(read_index + i - 1)]]

Kind(t) ==
    CASE pc[t] \in PushPoints -> "push"
      [] pc[t] \in PopPoints -> "pop"
      [] OTHER -> "idle"

F == INSTANCE Fifo WITH
        Capacity <- Size - 1,
        fifo <- Committed,
        op <- [t \in Threads |-> Kind(t)],
        arg <- [t \in Threads |-> IF pc[t] \in PushPoints THEN elem[t] ELSE 0],
        answer <- result

\* push and pop implement the bounded queue of Fifo: a push takes effect when
\* it advances max_index, a pop when it advances read_index, in that order
\* of elements and with nothing lost, duplicated or invented.
FifoSpec == F!Spec
=============================================================================
